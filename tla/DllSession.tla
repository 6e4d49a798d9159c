----------------------------- MODULE DllSession -----------------------------
(***************************************************************************)
(* Sessions of the host as a library (src/src/tiger_host_api.c): pt_open   *)
(* starts the one host thread and waits for it to be ready, pt_close waits *)
(* a bounded time for it to end.  One client calls; a session is known by  *)
(* its number, and so is the channel it opened.                            *)
(***************************************************************************)
EXTENDS Integers

CONSTANTS MaxSession             \* the times the client opens

VARIABLES thread,                \* g_thread, 0 for NULL
          wedged,                \* g_wedged
          ready, openErr,        \* g_ready's state, g_open_err
          engineUp,              \* g_engine_up
          chan,                  \* g_chan
          streams,               \* the session g_in and g_out belong to
          closing,               \* a cancel was signalled to the session
          host,                  \* session |-> where its host thread is
          made,                  \* sessions whose thread was made
          client,                \* what the client is doing
          answer,                \* what its last call returned
          hungUp                 \* it has closed its end of the requests
dllVars == << thread, wedged, ready, openErr, engineUp, chan, streams, closing,
              host, made, client, answer, hungUp >>

Sessions == 1 .. MaxSession

Init ==
  /\ thread = 0 /\ wedged = FALSE /\ ready = FALSE /\ openErr = -1 /\ engineUp = FALSE
  /\ chan = 0 /\ streams = 0 /\ closing = FALSE
  /\ host = [ s \in Sessions |-> "none" ]
  /\ made = 0 /\ client = "idle" /\ answer = 0 /\ hungUp = FALSE

hostVars   == << engineUp, chan, host >>
Returns(n) == client' = "idle" /\ answer' = n

(* ------------------------------- pt_open ------------------------------- *)

OpenRefused ==
  /\ client = "idle"
  /\ wedged \/ thread # 0
  /\ Returns(IF wedged THEN -8 ELSE -2)
  /\ UNCHANGED << thread, wedged, ready, openErr, closing, streams, made, hungUp, hostVars >>

(* No pipes, no descriptors for them, or no thread: each failure keeps     *)
(* what was made before it.                                                *)
OpenFails ==
  /\ client = "idle" /\ ~wedged /\ thread = 0
  /\ \/ \E n \in {-3, -4} : Returns(n) /\ UNCHANGED << ready, streams >>
     \/ Returns(-5) /\ streams' \in {streams, 0} /\ UNCHANGED ready
     \/ Returns(-6) /\ streams' = 0 /\ ready' = FALSE
  /\ UNCHANGED << thread, wedged, openErr, closing, made, hungUp, hostVars >>

Open ==
  /\ client = "idle" /\ ~wedged /\ thread = 0 /\ made < MaxSession
  /\ made' = made + 1
  /\ thread' = made + 1 /\ streams' = made + 1
  /\ host' = [host EXCEPT ![made + 1] = "open"]
  /\ ready' = FALSE /\ closing' = FALSE /\ hungUp' = FALSE
  /\ client' = "opening"
  /\ UNCHANGED << wedged, openErr, engineUp, chan, answer >>

Opened ==
  /\ client = "opening" /\ ready
  /\ Returns(openErr)
  /\ UNCHANGED << thread, wedged, ready, openErr, closing, streams, made, hungUp, hostVars >>

(* ---------------------------- The host thread -------------------------- *)

(* The first session loads the engine; a later one closes the channel it   *)
(* finds and opens another, on the same engine.                            *)
HostOpen(s) ==
  /\ host[s] = "open"
  /\ host' = [host EXCEPT ![s] = "opened"]
  /\ \/ openErr' = 0 /\ chan' = s /\ engineUp' = TRUE
     \/ openErr' = 1 /\ chan' = 0 /\ UNCHANGED engineUp
     \/ engineUp /\ openErr' = -1 /\ UNCHANGED << chan, engineUp >>
  /\ UNCHANGED << thread, wedged, ready, closing, streams, made, client, answer, hungUp >>
HostReady(s) ==
  /\ host[s] = "opened"
  /\ ready' = TRUE
  /\ host' = [host EXCEPT ![s] = IF openErr = 0 THEN "serving" ELSE "over"]
  /\ UNCHANGED << thread, wedged, openErr, engineUp, chan, closing, streams, made, client,
                  answer, hungUp >>

(* A request is read, one that is cancelled ends unless the engine hangs,  *)
(* and the end of the requests ends the thread.                            *)
Request(s) ==
  /\ host[s] = "serving" /\ client = "idle" /\ thread = s /\ ~hungUp
  /\ host' = [host EXCEPT ![s] = "rendering"]
  /\ UNCHANGED << thread, wedged, ready, openErr, engineUp, chan, closing, streams, made,
                  client, answer, hungUp >>
Rendered(s) ==
  /\ host[s] = "rendering"
  /\ host' = [host EXCEPT ![s] = "serving"]
  /\ UNCHANGED << thread, wedged, ready, openErr, engineUp, chan, closing, streams, made,
                  client, answer, hungUp >>
ServeEnds(s) ==
  /\ host[s] = "serving" /\ hungUp
  /\ host' = [host EXCEPT ![s] = "over"]
  /\ UNCHANGED << thread, wedged, ready, openErr, engineUp, chan, closing, streams, made,
                  client, answer, hungUp >>

(* ------------------------------- pt_close ------------------------------ *)

HangUp ==
  /\ client = "idle" /\ thread # 0 /\ ~hungUp
  /\ hungUp' = TRUE
  /\ UNCHANGED << thread, wedged, ready, openErr, closing, streams, made, client, answer,
                  hostVars >>
Close ==
  /\ client = "idle" /\ thread # 0
  /\ client' = "closing" /\ closing' = TRUE
  /\ UNCHANGED << thread, wedged, ready, openErr, streams, made, answer, hungUp, hostVars >>

(* A host thread given up on, and another allowed beside it. *)
Forgotten == host[thread] # "over" /\ UNCHANGED << wedged, streams >>
(* A wait for the thread without its second. *)
NeverGivesUp == FALSE
(* The wait for the thread ends with it, or after its second.              *)
Joined == host[thread] = "over" /\ streams' = 0 /\ UNCHANGED wedged
GaveUp == host[thread] # "over" /\ wedged' = TRUE /\ UNCHANGED streams
Closed ==
  /\ client = "closing"
  /\ Joined \/ GaveUp
  /\ thread' = 0
  /\ Returns(0)
  /\ UNCHANGED << ready, openErr, closing, made, hungUp, hostVars >>

(* pt_alive: a session that is open and whose thread has not ended.        *)
Alive ==
  /\ client = "idle"
  /\ Returns(IF thread # 0 /\ host[thread] # "over" THEN 1 ELSE 0)
  /\ UNCHANGED << thread, wedged, ready, openErr, closing, streams, made, hungUp, hostVars >>

(* What the host thread does by itself.  Bringing the engine up and         *)
(* rendering are the engine's, which may never come back from them.        *)
Host(s) == HostReady(s) \/ ServeEnds(s)
Next == \/ OpenRefused \/ OpenFails \/ Open \/ Opened \/ HangUp \/ Close \/ Closed \/ Alive
        \/ \E s \in Sessions : HostOpen(s) \/ Host(s) \/ Request(s) \/ Rendered(s)

(* ----------------------------- Correctness ----------------------------- *)

(* A thread that serves has the streams and the channel to itself, even    *)
(* after a pt_close that gave up on it; and pt_open says 0 only when the   *)
(* thread it started is serving.                                           *)
SessionOwned ==
  /\ \A s \in Sessions : host[s] \in {"serving", "rendering"} => streams = s /\ chan = s
  /\ client = "opening" /\ ready =>
       host[thread] = (IF openErr = 0 THEN "serving" ELSE "over")

(* pt_close returns whatever the engine does, also one that never ends a   *)
(* render.  pt_open waits for the bring-up without a limit, and returns    *)
(* once that has.                                                          *)
CallsReturn ==
  /\ []<>(client # "closing")
  /\ []<>(client = "opening" => host[thread] = "open")
=============================================================================
