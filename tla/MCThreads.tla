------------------------------ MODULE MCThreads ------------------------------
(***************************************************************************)
(* What threads of the host do to each other outside the serve loop: the   *)
(* POSIX handles, the synchronisation shims of the engine, the dispatch    *)
(* sources, and the sessions of the library.  A behaviour is one of them,  *)
(* on a small instance, and the sources are two: "sources" that share one   *)
(* free slot of the table and may do anything, and two sources side by side *)
(* ("wide") that are set once.  The properties of the sources are their     *)
(* module's own.                                                           *)
(***************************************************************************)
EXTENDS DispatchSources

CONSTANTS Waiters, Handles, MaxCalls,                           \* PlatPosix
          EngineThreads, Addresses, Places, MaxShimCalls, MaxNative,    \* GuestSync
          MaxSession                                            \* DllSession

ASSUME ThreadsAssumption ==
  /\ "none" \notin Waiters \cup Handles
  /\ IsFiniteSet(EngineThreads) /\ "nobody" \notin EngineThreads
  /\ Places \in Nat \ {0} /\ {MaxShimCalls, MaxNative, MaxSession} \subseteq Nat

VARIABLES part,
  kind, level, refs, freed, mtx, at, tramp, owner, answer, calls,
  table, natives, own, shim, ring, head, tail, count, cs, sem, sent, got, lost, task, asked,
  serving, wedged, ready, openErr, engineUp, chan, streams, closing, host, opened, client,
  returned, hungUp

posixVars == << kind, level, refs, freed, mtx, at, tramp, owner, answer, calls >>
guestVars == << table, natives, own, shim, ring, head, tail, count, cs, sem, sent, got, lost,
                task, asked >>
dllVars   == << serving, wedged, ready, openErr, engineUp, chan, streams, closing, host,
                opened, client, returned, hungUp >>
allVars   == << part, posixVars, guestVars, dllVars, vars >>

PP == INSTANCE PlatPosix WITH Callers <- Waiters
GS == INSTANCE GuestSync WITH Threads <- EngineThreads, Cap <- Places,
                              MaxCalls <- MaxShimCalls, at <- shim, calls <- asked
LW == INSTANCE DispatchSources WITH MaxArm <- 1, Targets <- {"serial"}, Repeats <- {FALSE}
DS == INSTANCE DllSession WITH thread <- serving, made <- opened, answer <- returned

ThreadsInit ==
  /\ part \in {"posix", "guest", "dll", "sources", "wide"}
  /\ used = IF part = "sources" THEN 1 ELSE 0
  /\ PP!Init /\ GS!Init /\ DS!Init /\ Init
  /\ part # "posix" => \A h \in Handles : kind[h] = "auto" /\ level[h] = 0

\* A step of one part leaves the others where they started.
Posix(A) == part = "posix" /\ A /\ UNCHANGED << part, guestVars, dllVars, vars >>
Guest(A) == part = "guest" /\ A /\ UNCHANGED << part, posixVars, dllVars, vars >>
Dll(A)   == part = "dll" /\ A /\ UNCHANGED << part, posixVars, guestVars, vars >>
Source(p, A) == part = p /\ A /\ UNCHANGED << part, posixVars, guestVars, dllVars >>

ThreadsNext == \/ Posix(PP!Next) \/ Guest(GS!Next) \/ Dll(DS!Next)
               \/ Source("sources", Next) \/ Source("wide", LW!Next)

(* A thread that can go on does, a timed wait runs out, and a mutex that   *)
(* is let go of again and again is got in the end.  A call of the engine   *)
(* that waits for others waits for them.  The engine itself owes nothing.   *)
Sourced == part \in {"sources", "wide"}
Fairness ==
  /\ \A c \in Waiters :
       /\ WF_posixVars(part = "posix" /\ PP!Step(c))
       /\ WF_posixVars(part = "posix" /\ PP!Clock(c))
       /\ SF_posixVars(part = "posix" /\ (PP!Enter(c) \/ PP!Awaken(c)))
  /\ \A h \in Handles : WF_posixVars(part = "posix" /\ PP!Tramp(h))
  /\ \A t \in EngineThreads : WF_guestVars(part = "guest" /\ GS!Steps(t))
  /\ WF_dllVars(part = "dll" /\ DS!Opened) /\ WF_dllVars(part = "dll" /\ DS!Closed)
  /\ \A s \in 1 .. MaxSession : WF_dllVars(part = "dll" /\ DS!Host(s))
  /\ \A c \in Callers : WF_vars(Sourced /\ Finish(c))
  /\ \A g \in Sources : WF_vars(Sourced /\ Thread(g))
ThreadsSpec == ThreadsInit /\ [][ThreadsNext]_allVars /\ Fairness

-----------------------------------------------------------------------------
\* No thread touches a POSIX handle that was freed, whichever of its owner and
\* its wrapper lets go of it first (CloseHandle, thread_trampoline).
HandleAlive == PP!HandleAlive

\* The handles built of a mutex and a condition implement the handles the host
\* was written for: a wait takes a signal in one instant or times out, and one
\* that is signalled or has a timeout ends (tiger_plat_posix.c).
WaitsAreWindows == PP!W!Spec

\* Threads that lock one guest address are in one native mutex, and each message
\* of the queue is delivered once, in order, to whoever took its unit
\* (mtx_native, sh_mp_notify_queue, sh_mp_wait_on_queue).
EngineInStep == GS!GuestExclusion /\ GS!MessagesInOrder

\* A thread that serves has the channel and the streams to itself, also after a
\* pt_close that gave up on the one before (pt_open, pt_close, host_thread).
SessionOwned == DS!SessionOwned

\* pt_close returns whatever the engine does, pt_open once the engine is up, and
\* the end of a task is told to its queue unless that is full (mp_thunk).
CallsReturn == DS!CallsReturn /\ GS!TaskEndTold
=============================================================================
