----------------------------- MODULE MCHostServe -----------------------------
(***************************************************************************)
(* HostServe on two small instances, one of which a behaviour picks at its *)
(* start: "long" is one utterance of three slices, whose order and whose   *)
(* refusal by number matter; "short" is two utterances of one slice each,  *)
(* whose audio must not be told for one another's.  In both the queue is   *)
(* smaller than the engine's ring, windows are of one tick, and every long *)
(* wait may expire.  The bounds the config gives hold for both.            *)
(***************************************************************************)
EXTENDS HostServe

VARIABLE part

Long  == INSTANCE HostServe WITH MaxReq <- 1
Short == INSTANCE HostServe WITH MaxSlice <- 1, SpinLimit <- 2

MCInit == Init /\ part \in {"long", "short"}

MCNext == /\ \/ part = "long" /\ Long!Next
             \/ part = "short" /\ Short!Next
          /\ UNCHANGED part

\* The serve thread's steps and the pacer's are the same in both.
MCSpec == /\ MCInit /\ [][MCNext]_<<vars, part>>
          /\ WF_vars(Serve)
          /\ WF_vars(Pacer)
=============================================================================
