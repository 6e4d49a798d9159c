------------------------------ MODULE MCPools ------------------------------
(***************************************************************************)
(* The two pools of processes that speak: the hosts of the add-on and the  *)
(* workers of the Android service.  A behaviour is one of them, on a small *)
(* instance.                                                               *)
(***************************************************************************)
EXTENDS HostPool

CONSTANTS MaxRequest, MaxStop, MaxWorker                        \* AndroidRequest

ASSUME ServiceAssumption == {MaxRequest, MaxStop, MaxWorker} \subseteq Nat

VARIABLES part,
  stopRequested, request, cancelled, completed, resource, started, stage, next, spoken,
  stopper, stops, job, connection, retired, made, up, playing, pt_stop

serviceVars == << stopRequested, request, cancelled, completed, resource, started, stage,
  next, spoken, stopper, stops, job, connection, retired, made, up, playing, pt_stop >>
allVars == << part, vars, serviceVars >>

AR == INSTANCE AndroidRequest

PoolsInit == part \in {"hosts", "workers"} /\ Init /\ AR!Init

\* A step of one pool leaves the other where it started.
Hosted(A) == part = "hosts" /\ A /\ UNCHANGED << part, serviceVars >>
Worked(A) == part = "workers" /\ A /\ UNCHANGED << part, vars >>

PoolsNext == Hosted(Next) \/ Worked(AR!Next)

(* The fairness of HostPool, and of the two threads of a request.          *)
PoolsSpec ==
  /\ PoolsInit /\ [][PoolsNext]_allVars
  /\ WF_allVars(Hosted(Worker)) /\ \A t \in Timers : WF_allVars(Hosted(Timer(t)))
  /\ WF_allVars(Hosted(Abandon \/ Spawn \/ RestartHost \/ Ending))
  /\ WF_allVars(Worked(AR!Synthesis)) /\ WF_allVars(Worked(AR!Cancellation))

-----------------------------------------------------------------------------
\* A request is served by a process that is fit for it: one started with the
\* settings it was promised (host.py), and one that nobody kills for the request
\* before it, nor leaves at work on that if it was cancelled (PantheraRequest.kt).
RequestServed == SettingsReachRender /\ AR!RequestOwnsWorker

\* What is told to stop stops: the add-on at shutdown, with every thread and
\* process of its own, and an Android request (terminate, onStop).
StopsAreHeeded == ShutdownCompletes /\ AR!StopEndsRequest
============================================================================
