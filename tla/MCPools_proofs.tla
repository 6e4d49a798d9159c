---------------------------- MODULE MCPools_proofs ----------------------------
(***************************************************************************)
(* What the two pools of processes guarantee for every number of requests,  *)
(* stops, cancels, changes of a setting, workers and hosts: first the hosts *)
(* of the add-on, then the workers of the Android service.                  *)
(***************************************************************************)
EXTENDS MCPools, TLAPS

-----------------------------------------------------------------------------
(* The invariant of HostPool, part by part.                                *)

Labels == {"run", "abandon", "spawn", "flag", "swap", "stop", "gone",
           "take", "host", "discard", "choose", "begin", "write", "read", "fail",
           "over", "end", "off", "watch", "prepare", "recheck", "kill", "killAll",
           "refill", "done", "clear"}

TypeInv ==
  /\ TypeOK
  /\ pc \in [Threads -> Labels]
  /\ hand \in [Threads -> Procs \cup {None}] /\ spare \in [Threads -> Procs \cup {None}]

\* An utterance is rendered twice at most, so the renders begun and those the
\* worker may still begin are within twice the utterances taken or drained.
Trying == pc["worker"] \in {"host", "discard", "choose", "begin", "write"}
StillToBegin ==
  IF Trying THEN 3 - tries
  ELSE IF pc["worker"] \in {"read", "fail", "over"} /\ tries = 1 THEN 1 ELSE 0

Counting ==
  /\ queued <= items /\ (Trying => tries \in 1 .. 2)
  /\ renderSeq + StillToBegin <= 2 * (items - queued)

\* _procLock is held across two steps only inside _host().
Locking == \A t \in Threads : pc[t] \in {"discard", "choose"} <=> lock = t

\* The threads that take processes away, and what they took.
Takers   == Timers \cup {"main"}
Stopping == {"kill", "killAll", "stop"}
\* What a thread took is nobody else's, and it holds it only to stop it; no
\* process a thread can name is still to be started.
HeldToStop == \A t \in Takers : pc[t] \notin Stopping => hand[t] = None /\ spare[t] = None
Born(p)    == p # None => status[p] # "unborn"
TakenApart ==
  \A t \in Takers :
    /\ hand[t]  # None => hand[t]  # proc /\ hand[t]  # standby
    /\ spare[t] # None => spare[t] # proc /\ spare[t] # standby
NamedBorn ==
  /\ Born(proc) /\ Born(standby)
  /\ \A t \in Threads : Born(hand[t]) /\ Born(spare[t])
Taking == HeldToStop /\ TakenApart /\ NamedBorn

\* terminate() leaves nothing behind it to promote or to start.
Closing ==
  /\ stopped <=> pc["main"] \in {"swap", "stop", "gone"}
  /\ pc["main"] \in {"stop", "gone"} => proc = None /\ standby = None

\* The current process dies only by itself, and a render fails only with the
\* process it was given, or because it was given none.
Failing ==
  /\ proc # None /\ status[proc] = "dead" => faulted
  /\ pc["worker"] \in {"begin", "write", "read"} => hand["worker"] # None
  /\ pc["worker"] = "fail" =>
       IF hand["worker"] = None THEN faulted \/ stopped
       ELSE status[hand["worker"]] = "dead"

\* Until a restart is wanted again, both processes have the settings that were
\* asked for, and the one the worker is about to be given has those it was
\* promised.
Obeying ==
  /\ due <= settings
  /\ \A p \in Procs \cap {proc, standby} :
       /\ ~restartWanted => version[p] >= due
       /\ pc["worker"] = "choose" => version[p] >= promised

IInv == /\ TypeInv /\ Counting /\ Locking /\ Taking /\ Closing /\ NoOrphan
        /\ Failing /\ RetirementKeepsStreaming /\ Obeying /\ SettingsReachRender
-----------------------------------------------------------------------------
(* What a step may touch.                                                  *)

\* A thread moves nobody but itself; Spawn is the one exception.
LEMMA Apart ==
  /\ "worker" # "main" /\ "worker" \in Threads /\ "main" \in Threads
  /\ \A t \in Timers : t \in Threads /\ t # "worker" /\ t # "main" /\ t # None
  /\ None \notin Threads /\ None \notin Procs
BY BoundsAssumption DEF Threads, Procs

LEMMA TimerMoves ==
  ASSUME TypeInv, NEW t \in Timers, Timer(t)
  PROVE  /\ \A u \in Threads \ {t} : pc'[u] = pc[u] /\ hand'[u] = hand[u] /\ spare'[u] = spare[u]
         /\ UNCHANGED <<settings, stopped, due, inputVars, renderVars, asked, cutOff>>
         /\ pc' \in [Threads -> Labels]
<1> USE Apart DEF TypeInv, Goto, Labels, flagVars, inputVars, renderVars, procVars, threadVars, histVars
<1>1. CASE TimerWatch(t)   BY <1>1 DEF TimerWatch
<1>2. CASE TimerPrepare(t) BY <1>2 DEF TimerPrepare
<1>3. CASE TimerRecheck(t) BY <1>3 DEF TimerRecheck
<1>4. CASE TimerSwap(t)    BY <1>4 DEF TimerSwap
<1>5. CASE TimerKill(t)    BY <1>5 DEF TimerKill
<1>6. CASE TimerRefill(t)  BY <1>6 DEF TimerRefill
<1>7. CASE HostEnter(t)    BY <1>7 DEF HostEnter
<1>8. CASE HostDiscard(t)  BY <1>8 DEF HostDiscard
<1>9. CASE HostChoose(t)   BY <1>9 DEF HostChoose, Given
<1>10. CASE TimerDone(t)   BY <1>10 DEF TimerDone
<1>11. CASE TimerClear(t)  BY <1>11 DEF TimerClear
<1> QED BY <1>1, <1>2, <1>3, <1>4, <1>5, <1>6, <1>7, <1>8, <1>9, <1>10, <1>11 DEF Timer, Host
LEMMA WorkerMoves ==
  ASSUME TypeInv, Worker
  PROVE  /\ \A u \in Threads \ {"worker"} :
              pc'[u] = pc[u] /\ hand'[u] = hand[u] /\ spare'[u] = spare[u]
         /\ pc' \in [Threads -> Labels]
<1> USE Apart DEF TypeInv, Goto, Labels, threadVars
<1>1. CASE HostEnter("worker")   BY <1>1 DEF HostEnter
<1>2. CASE HostDiscard("worker") BY <1>2 DEF HostDiscard
<1>3. CASE HostChoose("worker")  BY <1>3 DEF HostChoose, Given
<1>4. CASE WorkerTake   BY <1>4 DEF WorkerTake
<1>5. CASE WorkerBegin  BY <1>5 DEF WorkerBegin
<1>6. CASE WorkerWrite  BY <1>6 DEF WorkerWrite
<1>7. CASE WorkerBroken BY <1>7 DEF WorkerBroken
<1>8. CASE WorkerFail   BY <1>8 DEF WorkerFail
<1>9. CASE WorkerOver   BY <1>9 DEF WorkerOver
<1> QED BY <1>1, <1>2, <1>3, <1>4, <1>5, <1>6, <1>7, <1>8, <1>9 DEF Worker, Host

LEMMA MainMoves ==
  ASSUME TypeInv, Main
  PROVE  /\ \A u \in Threads \ {"main"} :
              /\ hand'[u] = hand[u] /\ spare'[u] = spare[u]
              /\ pc'[u] = pc[u] \/ (Spawn /\ u \in Timers /\ pc[u] = "off" /\ pc'[u] = "watch")
         /\ pc' \in [Threads -> Labels]
<1> USE Apart DEF TypeInv, Goto, Labels, threadVars
<1>1. CASE Speak         BY <1>1 DEF Speak
<1>2. CASE Cancel        BY <1>2 DEF Cancel
<1>3. CASE Abandon       BY <1>3 DEF Abandon
<1>4. CASE Spawn         BY <1>4 DEF Spawn
<1>5. CASE ChangeSetting BY <1>5 DEF ChangeSetting
<1>6. CASE RestartHost   BY <1>6 DEF RestartHost
<1>7. CASE Terminate     BY <1>7 DEF Terminate
<1>8. CASE TerminateSwap BY <1>8 DEF TerminateSwap
<1>9. CASE TerminateStop BY <1>9 DEF TerminateStop
<1> QED BY <1>1, <1>2, <1>3, <1>4, <1>5, <1>6, <1>7, <1>8, <1>9 DEF Main, Ending

LEMMA ProcessMoves ==
  ASSUME TypeInv, Process
  PROVE  /\ UNCHANGED <<proc, standby, lock, version, flagVars, inputVars, threadVars,
                        rendering, renderSeq, streaming, wanted, promised, retiring>>
         /\ UNCHANGED <<pc, tries>> \/ ResponseEnds
         /\ \A u \in Threads \ {"worker"} : pc'[u] = pc[u]
         /\ pc' \in [Threads -> Labels]
BY Apart DEF Process, Answer, Chunk, ResponseEnds, Refuse, Ready, Crash, TypeInv, Goto,
   Labels, procVars, renderVars

-----------------------------------------------------------------------------
(* Counting.                                                               *)

LEMMA CountingStep ==
  ASSUME TypeInv, Counting, [Next]_vars
  PROVE  Counting'
<1> USE Apart, BoundsAssumption
    DEF Counting, StillToBegin, Trying, Goto, Labels, TypeInv, TypeOK,
        procVars, flagVars, renderVars, inputVars, threadVars, histVars
<1>1. ASSUME NEW t \in Timers, Timer(t) PROVE Counting'
  BY <1>1, TimerMoves
<1>2. CASE Process /\ ~ResponseEnds
  BY <1>2, ProcessMoves
<1>3. CASE ResponseEnds BY <1>3 DEF ResponseEnds, Reading
<1>4. CASE Main
  <2>1. CASE Speak     BY <1>4, <2>1, MainMoves DEF Speak
  <2>2. CASE Cancel    BY <1>4, <2>2, MainMoves DEF Cancel
  <2>3. CASE Abandon   BY <1>4, <2>3, MainMoves DEF Abandon
  <2>4. CASE Spawn     BY <1>4, <2>4, MainMoves DEF Spawn
  <2>5. CASE Terminate BY <1>4, <2>5, MainMoves DEF Terminate
  <2>6. CASE ChangeSetting \/ RestartHost \/ Ending
    BY <1>4, <2>6, MainMoves DEF ChangeSetting, RestartHost, Ending, TerminateSwap, TerminateStop
  <2> QED BY <1>4, <2>1, <2>2, <2>3, <2>4, <2>5, <2>6 DEF Main
<1>5. CASE Worker
  <2>1. CASE HostEnter("worker")   BY <2>1 DEF HostEnter
  <2>2. CASE HostDiscard("worker") BY <2>2 DEF HostDiscard
  <2>3. CASE HostChoose("worker")  BY <2>3 DEF HostChoose, Given
  <2>4. CASE WorkerTake   BY <2>4 DEF WorkerTake
  <2>5. CASE WorkerBegin  BY <2>5 DEF WorkerBegin
  <2>6. CASE WorkerWrite  BY <2>6 DEF WorkerWrite
  <2>7. CASE WorkerBroken BY <2>7 DEF WorkerBroken
  <2>8. CASE WorkerFail   BY <2>8 DEF WorkerFail
  <2>9. CASE WorkerOver   BY <2>9 DEF WorkerOver, MayRetry
  <2> QED BY <1>5, <2>1, <2>2, <2>3, <2>4, <2>5, <2>6, <2>7, <2>8, <2>9 DEF Worker, Host
<1>6. CASE UNCHANGED vars BY <1>6 DEF vars
<1> QED BY <1>1, <1>2, <1>3, <1>4, <1>5, <1>6 DEF Next, Gone

-----------------------------------------------------------------------------
(* Who holds _procLock, and what the threads have taken.                   *)

\* The steps of a retirement that touch the processes.
Swaps(t) == TimerSwap(t) \/ TimerKill(t) \/ TimerPrepare(t) \/ TimerRefill(t)

LEMMA LockingStep ==
  ASSUME TypeInv, Locking, [Next]_vars
  PROVE  Locking'
<1> USE Apart DEF Locking, Goto, procVars, TypeInv, TypeOK, Labels
<1>1. ASSUME NEW t \in Timers, Timer(t) PROVE Locking'
  <2>1. CASE HostEnter(t)   BY <1>1, <2>1, TimerMoves DEF HostEnter
  <2>2. CASE HostDiscard(t) BY <1>1, <2>2, TimerMoves DEF HostDiscard
  <2>3. CASE HostChoose(t)  BY <1>1, <2>3, TimerMoves DEF HostChoose, Given
  <2>4. CASE Swaps(t)
    BY <1>1, <2>4, TimerMoves DEF Swaps, TimerSwap, TimerKill, TimerPrepare, TimerRefill
  <2>5. CASE TimerWatch(t) \/ TimerRecheck(t) \/ TimerDone(t) \/ TimerClear(t)
    BY <1>1, <2>5, TimerMoves DEF TimerWatch, TimerRecheck, TimerDone, TimerClear
  <2> QED BY <1>1, <2>1, <2>2, <2>3, <2>4, <2>5 DEF Timer, Host, Swaps
<1>2. CASE Process BY <1>2, ProcessMoves DEF ResponseEnds, Reading
<1>3. CASE Main
  <2>1. UNCHANGED lock
    BY <1>3 DEF Main, Ending, Speak, Cancel, Abandon, Spawn, ChangeSetting, RestartHost,
       Terminate, TerminateSwap, TerminateStop
  <2>2. pc'["main"] \notin {"discard", "choose"}
    BY <1>3 DEF Main, Ending, Speak, Cancel, Abandon, Spawn, ChangeSetting, RestartHost,
       Terminate, TerminateSwap, TerminateStop
  <2> QED BY <1>3, <2>1, <2>2, MainMoves
<1>4. CASE Worker
  <2>1. CASE HostEnter("worker")   BY <1>4, <2>1, WorkerMoves DEF HostEnter
  <2>2. CASE HostDiscard("worker") BY <1>4, <2>2, WorkerMoves DEF HostDiscard
  <2>3. CASE HostChoose("worker")  BY <1>4, <2>3, WorkerMoves DEF HostChoose, Given
  <2>4. CASE WorkerTake \/ WorkerBegin \/ WorkerWrite \/ WorkerBroken \/ WorkerFail \/ WorkerOver
    BY <1>4, <2>4, WorkerMoves DEF WorkerTake, WorkerBegin, WorkerWrite, WorkerBroken,
       WorkerFail, WorkerOver
  <2> QED BY <1>4, <2>1, <2>2, <2>3, <2>4 DEF Worker, Host
<1>5. CASE UNCHANGED vars BY <1>5 DEF vars
<1> QED BY <1>1, <1>2, <1>3, <1>4, <1>5 DEF Next, Gone

LEMMA ClosingStep ==
  ASSUME TypeInv, Closing, [Next]_vars
  PROVE  Closing'
<1> USE Apart DEF Closing, Goto, procVars, flagVars, TypeInv, TypeOK, Labels
<1>1. ASSUME NEW t \in Timers, Timer(t) PROVE Closing'
  <2>1. CASE HostEnter(t)   BY <1>1, <2>1, TimerMoves DEF HostEnter
  <2>2. CASE HostDiscard(t) BY <1>1, <2>2, TimerMoves DEF HostDiscard, Outdated
  <2>3. CASE HostChoose(t)
    BY <1>1, <2>3, TimerMoves DEF HostChoose, Given, alive, MayStart
  <2>4. CASE Swaps(t)
    BY <1>1, <2>4, TimerMoves
    DEF Swaps, TimerSwap, TimerKill, TimerPrepare, TimerRefill, EnsureStandby, alive
  <2>5. CASE TimerWatch(t) \/ TimerRecheck(t) \/ TimerDone(t) \/ TimerClear(t)
    BY <1>1, <2>5, TimerMoves DEF TimerWatch, TimerRecheck, TimerDone, TimerClear
  <2> QED BY <1>1, <2>1, <2>2, <2>3, <2>4, <2>5 DEF Timer, Host, Swaps
<1>2. CASE Process BY <1>2, ProcessMoves
<1>3. CASE Main
  BY <1>3 DEF Main, Ending, Speak, Cancel, Abandon, Spawn, ChangeSetting, RestartHost,
     Terminate, TerminateSwap, TerminateStop
<1>4. CASE Worker
  <2>1. CASE HostEnter("worker")   BY <1>4, <2>1, WorkerMoves DEF HostEnter
  <2>2. CASE HostDiscard("worker") BY <1>4, <2>2, WorkerMoves DEF HostDiscard, Outdated
  <2>3. CASE HostChoose("worker")
    BY <1>4, <2>3, WorkerMoves DEF HostChoose, Given, alive, MayStart
  <2>4. CASE WorkerTake \/ WorkerBegin \/ WorkerWrite \/ WorkerBroken \/ WorkerFail \/ WorkerOver
    BY <1>4, <2>4, WorkerMoves DEF WorkerTake, WorkerBegin, WorkerWrite, WorkerBroken,
       WorkerFail, WorkerOver
  <2> QED BY <1>4, <2>1, <2>2, <2>3, <2>4 DEF Worker, Host
<1>5. CASE UNCHANGED vars BY <1>5 DEF vars
<1> QED BY <1>1, <1>2, <1>3, <1>4, <1>5 DEF Next, Gone

\* A process that was started is never unborn again, and one that becomes the
\* current one or the standby was one of the two or has just been started.
LEMMA ProcessesComeAndGo ==
  ASSUME TypeInv, NoOrphan, [Next]_vars
  PROVE  /\ \A p \in Procs : status[p] # "unborn" => status'[p] # "unborn"
         /\ \A p \in Procs : p \in {proc', standby'} =>
              \/ p \in {proc, standby} /\ status'[p] = status[p]
              \/ p \in {proc, standby} /\ (Process \/ (\E t \in Timers : TimerKill(t)) \/ TerminateStop)
              \/ status[p] = "unborn" /\ status'[p] = "starting"
<1> USE Apart DEF TypeInv, TypeOK, MaybeProc, procVars, Killed, Start, Fresh, Outdated
<1>1. ASSUME NEW t \in Threads, HostDiscard(t) PROVE
        /\ \A p \in Procs : status[p] # "unborn" => status'[p] # "unborn"
        /\ proc' = None /\ standby' = None
  BY <1>1 DEF HostDiscard
<1>2. ASSUME NEW t \in Threads, HostChoose(t) PROVE
        /\ \A p \in Procs : status[p] # "unborn" => status'[p] # "unborn"
        /\ \A p \in Procs : p \in {proc', standby'} =>
             \/ p \in {proc, standby} /\ status'[p] = status[p]
             \/ status[p] = "unborn" /\ status'[p] = "starting"
  BY <1>2 DEF HostChoose
<1>3. ASSUME EnsureStandby, proc' = proc PROVE
        /\ \A p \in Procs : status[p] # "unborn" => status'[p] # "unborn"
        /\ \A p \in Procs : p \in {proc', standby'} =>
             \/ p \in {proc, standby} /\ status'[p] = status[p]
             \/ status[p] = "unborn" /\ status'[p] = "starting"
  BY <1>3 DEF EnsureStandby
<1>4. ASSUME NEW t \in Timers, Timer(t) PROVE
        /\ \A p \in Procs : status[p] # "unborn" => status'[p] # "unborn"
        /\ \A p \in Procs : p \in {proc', standby'} =>
             \/ p \in {proc, standby} /\ status'[p] = status[p]
             \/ p \in {proc, standby} /\ TimerKill(t)
             \/ status[p] = "unborn" /\ status'[p] = "starting"
  <2>1. CASE HostEnter(t)    BY <2>1 DEF HostEnter
  <2>2. CASE HostDiscard(t)  BY <1>1, <2>2
  <2>3. CASE HostChoose(t)   BY <1>2, <2>3
  <2>4. CASE TimerSwap(t)    BY <2>4 DEF TimerSwap
  <2>5. CASE TimerKill(t)    BY <2>5 DEF TimerKill
  <2>6. CASE TimerPrepare(t) BY <1>3, <2>6 DEF TimerPrepare
  <2>7. CASE TimerRefill(t)  BY <1>3, <2>7 DEF TimerRefill
  <2>8. CASE TimerWatch(t) \/ TimerRecheck(t) \/ TimerDone(t) \/ TimerClear(t)
    BY <2>8 DEF TimerWatch, TimerRecheck, TimerDone, TimerClear
  <2> QED BY <1>4, <2>1, <2>2, <2>3, <2>4, <2>5, <2>6, <2>7, <2>8 DEF Timer, Host
<1>5. CASE Process
  <2>1. \A p \in Procs : status[p] # "unborn" => status'[p] # "unborn"
    BY <1>5 DEF Process, Answer, Chunk, ResponseEnds, Refuse, Ready, Crash
  <2> QED BY <1>5, <2>1, ProcessMoves
<1>6. CASE Main
  BY <1>6 DEF Main, Ending, Speak, Cancel, Abandon, Spawn, ChangeSetting, RestartHost,
     Terminate, TerminateSwap, TerminateStop
<1>7. CASE Worker
  <2>1. CASE HostEnter("worker")   BY <2>1 DEF HostEnter
  <2>2. CASE HostDiscard("worker") BY <1>1, <2>2
  <2>3. CASE HostChoose("worker")  BY <1>2, <2>3
  <2>4. CASE WorkerFail            BY <2>4 DEF WorkerFail, DropsOwn, NoOrphan
  <2>5. CASE WorkerTake \/ WorkerBegin \/ WorkerWrite \/ WorkerBroken \/ WorkerOver
    BY <2>5 DEF WorkerTake, WorkerBegin, WorkerWrite, WorkerBroken, WorkerOver
  <2> QED BY <1>7, <2>1, <2>2, <2>3, <2>4, <2>5 DEF Worker, Host
<1>8. CASE UNCHANGED vars BY <1>8 DEF vars
<1> QED BY <1>4, <1>5, <1>6, <1>7, <1>8 DEF Next, Gone

LEMMA HeldToStopStep ==
  ASSUME TypeInv, HeldToStop, [Next]_vars
  PROVE  HeldToStop'
<1> USE Apart DEF HeldToStop, Takers, Stopping, Goto, TypeInv, Labels, threadVars
<1>1. ASSUME NEW t \in Timers, Timer(t) PROVE HeldToStop'
  <2>1. pc'[t] \notin Stopping => hand'[t] = None /\ spare'[t] = None
    <3>1. CASE HostEnter(t)   BY <3>1 DEF HostEnter
    <3>2. CASE HostDiscard(t) BY <3>2 DEF HostDiscard
    <3>3. CASE HostChoose(t)  BY <3>3 DEF HostChoose, Given
    <3>4. CASE TimerSwap(t)   BY <3>4 DEF TimerSwap
    <3>5. CASE TimerKill(t)   BY <3>5 DEF TimerKill
    <3>6. CASE TimerPrepare(t) \/ TimerRefill(t) \/ TimerWatch(t) \/ TimerRecheck(t)
               \/ TimerDone(t) \/ TimerClear(t)
      BY <3>6 DEF TimerPrepare, TimerRefill, TimerWatch, TimerRecheck, TimerDone, TimerClear
    <3> QED BY <1>1, <3>1, <3>2, <3>3, <3>4, <3>5, <3>6 DEF Timer, Host
  <2> QED BY <1>1, <2>1, TimerMoves
<1>2. CASE Process BY <1>2, ProcessMoves
<1>3. CASE Main
  <2>1. pc'["main"] \notin Stopping => hand'["main"] = None /\ spare'["main"] = None
    BY <1>3 DEF Main, Ending, Speak, Cancel, Abandon, Spawn, ChangeSetting, RestartHost,
       Terminate, TerminateSwap, TerminateStop
  <2> QED BY <1>3, <2>1, MainMoves
<1>4. CASE Worker BY <1>4, WorkerMoves
<1>5. CASE UNCHANGED vars BY <1>5 DEF vars
<1> QED BY <1>1, <1>2, <1>3, <1>4, <1>5 DEF Next, Gone

LEMMA CurrentTypes ==
  ASSUME TypeInv, [Next]_vars
  PROVE  proc' \in Procs \cup {None} /\ standby' \in Procs \cup {None}
<1> USE Apart DEF TypeInv, TypeOK, MaybeProc, procVars
<1>1. ASSUME NEW t \in Threads, Host(t)
      PROVE  proc' \in Procs \cup {None} /\ standby' \in Procs \cup {None}
  BY <1>1 DEF Host, HostEnter, HostDiscard, HostChoose
<1>2. ASSUME NEW t \in Timers, Timer(t)
      PROVE  proc' \in Procs \cup {None} /\ standby' \in Procs \cup {None}
  BY <1>1, <1>2 DEF Timer, TimerSwap, TimerKill, TimerPrepare, TimerRefill, TimerWatch, TimerRecheck,
     TimerDone, TimerClear, EnsureStandby
<1>3. CASE Process BY <1>3, ProcessMoves
<1>4. CASE Main
  BY <1>4 DEF Main, Ending, Speak, Cancel, Abandon, Spawn, ChangeSetting, RestartHost,
     Terminate, TerminateSwap, TerminateStop
<1>5. CASE Worker
  BY <1>1, <1>5 DEF Worker, WorkerTake, WorkerBegin, WorkerWrite, WorkerBroken, WorkerFail, WorkerOver
<1>6. CASE UNCHANGED vars BY <1>6 DEF vars
<1> QED BY <1>2, <1>3, <1>4, <1>5, <1>6 DEF Next, Gone

\* Nobody takes a process in hand but from _proc and _standby.
LEMMA NamedBornStep ==
  ASSUME TypeInv, NoOrphan, NamedBorn, [Next]_vars
  PROVE  NamedBorn'
<1> USE Apart DEF NamedBorn, Born, Goto, TypeInv, threadVars
<1>0. /\ \A p \in Procs : status[p] # "unborn" => status'[p] # "unborn"
      /\ \A p \in Procs : p \in {proc', standby'} =>
           p \in {proc, standby} \/ status'[p] = "starting"
  BY ProcessesComeAndGo
<1>1. proc' \in Procs \cup {None} /\ standby' \in Procs \cup {None} BY CurrentTypes
<1>2. Born(proc)' /\ Born(standby)' BY <1>0, <1>1
<1>3. \A u \in Threads :
        /\ hand'[u]  \in {None, hand[u], proc, proc'}
        /\ spare'[u] \in {None, spare[u], standby}
  <2> USE DEF Takers, procVars
  <2>1. ASSUME NEW t \in Timers, Timer(t)
        PROVE  /\ hand'[t]  \in {None, hand[t], proc, proc'}
               /\ spare'[t] \in {None, spare[t], standby}
    BY <2>1 DEF Timer, Host, HostEnter, HostDiscard, HostChoose, Given, TimerSwap, TimerKill,
       TimerPrepare, TimerRefill, TimerWatch, TimerRecheck, TimerDone, TimerClear
  <2>2. CASE Process BY <2>2, ProcessMoves
  <2>3. CASE Main
    <3>1. /\ hand'["main"]  \in {None, hand["main"], proc}
          /\ spare'["main"] \in {None, spare["main"], standby}
      BY <2>3 DEF Main, Ending, Speak, Cancel, Abandon, Spawn, ChangeSetting, RestartHost,
         Terminate, TerminateSwap, TerminateStop
    <3> QED BY <2>3, <3>1, MainMoves
  <2>4. CASE Worker
    <3>1. hand'["worker"] \in {None, hand["worker"], proc, proc'} /\ spare'["worker"] = spare["worker"]
      BY <2>4 DEF Worker, Host, HostEnter, HostDiscard, HostChoose, Given, WorkerTake,
         WorkerBegin, WorkerWrite, WorkerBroken, WorkerFail, WorkerOver
    <3> QED BY <2>4, <3>1, WorkerMoves
  <2>5. CASE UNCHANGED vars BY <2>5 DEF vars
  <2> QED BY <2>1, <2>2, <2>3, <2>4, <2>5, TimerMoves DEF Next, Gone
<1>4. ASSUME NEW u \in Threads PROVE Born(hand[u])' /\ Born(spare[u])'
  BY <1>0, <1>1, <1>2, <1>3 DEF TypeOK, MaybeProc
<1> QED BY <1>2, <1>4

LEMMA TakenApartStep ==
  ASSUME TypeInv, HeldToStop, NamedBorn, TakenApart, NoOrphan, [Next]_vars
  PROVE  TakenApart'
<1> USE Apart DEF NamedBorn, Born, TakenApart, Takers, Goto, TypeInv, threadVars
<1>1. \A p \in Procs : status[p] # "unborn" /\ p \notin {proc, standby} => p \notin {proc', standby'}
  BY ProcessesComeAndGo
<1>2. ASSUME NEW u \in Takers, hand'[u] = hand[u] \/ hand'[u] = None,
             spare'[u] = spare[u] \/ spare'[u] = None
      PROVE  /\ hand'[u]  # None => hand'[u]  # proc' /\ hand'[u]  # standby'
             /\ spare'[u] # None => spare'[u] # proc' /\ spare'[u] # standby'
  BY <1>1, <1>2
<1>3. ASSUME NEW t \in Timers, Timer(t) PROVE TakenApart'
  <2>1. CASE TimerSwap(t)
    <3>1. /\ hand'[t]  # None => hand'[t]  # proc' /\ hand'[t]  # standby'
          /\ spare'[t] # None => spare'[t] # proc' /\ spare'[t] # standby'
      BY <2>1 DEF TimerSwap, NoOrphan
    <3> QED BY <1>2, <1>3, <3>1, TimerMoves
  <2>2. CASE ~TimerSwap(t)
    <3>1. /\ hand'[t] = hand[t] \/ hand'[t] = None
          /\ spare'[t] = spare[t] \/ spare'[t] = None
      BY <1>3, <2>2 DEF Timer, Host, HostEnter, HostDiscard, HostChoose, Given, TimerKill,
         TimerPrepare, TimerRefill, TimerWatch, TimerRecheck, TimerDone, TimerClear
    <3> QED BY <1>2, <1>3, <3>1, TimerMoves
  <2> QED BY <2>1, <2>2
<1>4. CASE Process BY <1>2, <1>4, ProcessMoves
<1>5. CASE Main
  <2>1. CASE TerminateSwap
    <3>1. proc' = None /\ standby' = None BY <2>1 DEF TerminateSwap
    <3> QED BY <3>1
  <2>2. CASE ~TerminateSwap
    <3>1. /\ hand'["main"] = hand["main"] \/ hand'["main"] = None
          /\ spare'["main"] = spare["main"] \/ spare'["main"] = None
      BY <1>5, <2>2 DEF Main, Ending, Speak, Cancel, Abandon, Spawn, ChangeSetting, RestartHost,
         Terminate, TerminateStop
    <3> QED BY <1>2, <1>5, <3>1, MainMoves
  <2> QED BY <2>1, <2>2
<1>6. CASE Worker BY <1>2, <1>6, WorkerMoves
<1>7. CASE UNCHANGED vars BY <1>2, <1>7 DEF vars
<1> QED BY <1>3, <1>4, <1>5, <1>6, <1>7 DEF Next, Gone

\* What a process outlives: it is killed only in the hands of a thread that has
\* taken it, by the render that used it, by a restart, or by itself.
LEMMA NoOrphanStep ==
  ASSUME TypeInv, Locking, Taking, Closing, NoOrphan, Closing', [Next]_vars
  PROVE  NoOrphan'
<1> USE Apart DEF Taking, Takers, Goto, TypeInv, threadVars
<1> DEFINE Held(p) == \/ p = proc \/ p = standby
                      \/ \E t \in Takers : p = hand[t] \/ p = spare[t]
<1>1. NoOrphan <=> /\ \A p \in Procs : alive(p) => Held(p)
                   /\ proc # None => proc # standby
                   /\ pc["main"] = "gone" => proc = None /\ standby = None
  BY DEF NoOrphan
<1>2. NoOrphan' <=> /\ \A p \in Procs : alive(p)' => Held(p)'
                    /\ proc' # None => proc' # standby'
                    /\ pc'["main"] = "gone" => proc' = None /\ standby' = None
  BY DEF NoOrphan
<1>3. pc'["main"] = "gone" => proc' = None /\ standby' = None
  BY DEF Closing
<1> HIDE DEF Held
<1> USE DEF TypeOK, MaybeProc, procVars, alive, Killed
<1>4. ASSUME NEW t \in Threads, Host(t)
      PROVE  /\ proc' # None => proc' # standby'
             /\ \A p \in Procs : alive(p)' =>
                  \/ alive(p) /\ p \notin {proc, standby}
                  \/ p = proc' \/ p = standby'
  <2>1. CASE HostEnter(t)   BY <1>1, <2>1 DEF HostEnter
  <2>2. CASE HostDiscard(t) BY <2>2 DEF HostDiscard, Outdated
  <2>3. CASE HostChoose(t)  BY <1>1, <2>3 DEF HostChoose, Start
  <2> QED BY <1>4, <2>1, <2>2, <2>3 DEF Host
<1>5. ASSUME EnsureStandby, proc' = proc
      PROVE  /\ proc' # None => proc' # standby'
             /\ \A p \in Procs : alive(p)' =>
                  \/ alive(p) /\ p \notin {proc, standby}
                  \/ p = proc' \/ p = standby'
  BY <1>1, <1>5 DEF EnsureStandby, Start, Fresh, NamedBorn, Born
<1>6. ASSUME UNCHANGED <<hand, spare>> \/ (Worker /\ spare' = spare),
             /\ proc' # None => proc' # standby'
             /\ \A p \in Procs : alive(p)' =>
                  \/ alive(p) /\ p \notin {proc, standby}
                  \/ p = proc' \/ p = standby'
      PROVE  NoOrphan'
  BY <1>1, <1>2, <1>3, <1>6, WorkerMoves DEF Held
<1>7. ASSUME NEW t \in Timers, Timer(t) PROVE NoOrphan'
  <2>1. CASE Host(t) \/ TimerPrepare(t) \/ TimerRefill(t)
    <3>1. UNCHANGED <<hand, spare>>
      BY <2>1 DEF Host, HostEnter, HostDiscard, HostChoose, Given, TimerPrepare, TimerRefill
    <3> QED BY <1>4, <1>5, <1>6, <2>1, <3>1 DEF TimerPrepare, TimerRefill
  <2>2. CASE TimerSwap(t)
    <3>1. hand[t] = None /\ spare[t] = None
      BY <2>2 DEF TimerSwap, HeldToStop, Stopping
    <3>2. /\ UNCHANGED status /\ hand'[t] = proc
          /\ \/ proc' = standby
             \/ proc' = None /\ spare'[t] = standby
      BY <2>2 DEF TimerSwap
    <3>3. ASSUME NEW p \in Procs, alive(p)' PROVE Held(p)'
      <4>1. alive(p) BY <3>2, <3>3
      <4>2. CASE p \in {proc, standby} BY <3>2, <4>2 DEF Held
      <4>3. CASE p \notin {proc, standby}
        <5>1. PICK u \in Takers : p = hand[u] \/ p = spare[u] BY <1>1, <4>1, <4>3 DEF Held
        <5>2. u # t BY <3>1, <5>1
        <5> QED BY <1>7, <5>1, <5>2, TimerMoves DEF Held
      <4> QED BY <4>2, <4>3
    <3>4. standby' = None BY <2>2 DEF TimerSwap
    <3> QED BY <1>2, <1>3, <3>3, <3>4
  <2>3. CASE TimerKill(t)
    <3>1. UNCHANGED <<proc, standby>> /\ status' = Killed({hand[t], spare[t]})
      BY <2>3 DEF TimerKill
    <3>2. ASSUME NEW p \in Procs, alive(p)' PROVE Held(p)'
      <4>1. alive(p) /\ p # hand[t] /\ p # spare[t] BY <3>1, <3>2
      <4> QED BY <1>1, <1>7, <3>1, <4>1, TimerMoves DEF Held
    <3> QED BY <1>1, <1>2, <1>3, <3>1, <3>2
  <2>4. CASE TimerWatch(t) \/ TimerRecheck(t) \/ TimerDone(t) \/ TimerClear(t)
    <3>1. UNCHANGED <<proc, standby, status, hand, spare>>
      BY <2>4 DEF TimerWatch, TimerRecheck, TimerDone, TimerClear
    <3> QED BY <1>1, <1>2, <1>3, <3>1 DEF Held
  <2> QED BY <1>7, <2>1, <2>2, <2>3, <2>4 DEF Timer
<1>8. CASE Process
  <2>1. \A p \in Procs : alive(p)' => alive(p)
    BY <1>8 DEF Process, Answer, Chunk, ResponseEnds, Refuse, Ready, Crash
  <2> QED BY <1>1, <1>2, <1>3, <1>8, <2>1, ProcessMoves DEF Held
<1>9. CASE Main
  <2>1. CASE TerminateSwap
    <3>1. hand["main"] = None /\ spare["main"] = None
      BY <2>1 DEF TerminateSwap, HeldToStop, Stopping
    <3>2. /\ UNCHANGED status /\ hand'["main"] = proc /\ spare'["main"] = standby
          /\ proc' = None
      BY <2>1 DEF TerminateSwap
    <3>3. ASSUME NEW p \in Procs, alive(p)' PROVE Held(p)'
      <4>1. alive(p) BY <3>2, <3>3
      <4>2. CASE p \in {proc, standby} BY <3>2, <4>2 DEF Held
      <4>3. CASE p \notin {proc, standby}
        <5>1. PICK u \in Takers : p = hand[u] \/ p = spare[u] BY <1>1, <4>1, <4>3 DEF Held
        <5>2. u # "main" BY <3>1, <5>1
        <5> QED BY <1>9, <5>1, <5>2, MainMoves DEF Held
      <4> QED BY <4>2, <4>3
    <3> QED BY <1>2, <1>3, <3>2, <3>3
  <2>2. CASE TerminateStop
    <3>1. UNCHANGED <<proc, standby>> /\ status' = Killed({hand["main"], spare["main"]})
      BY <2>2 DEF TerminateStop
    <3>2. ASSUME NEW p \in Procs, alive(p)' PROVE Held(p)'
      <4>1. alive(p) /\ p # hand["main"] /\ p # spare["main"] BY <3>1, <3>2
      <4> QED BY <1>1, <1>9, <3>1, <4>1, MainMoves DEF Held
    <3> QED BY <1>1, <1>2, <1>3, <3>1, <3>2
  <2>3. CASE Speak \/ Cancel \/ Abandon \/ Spawn \/ ChangeSetting \/ RestartHost \/ Terminate
    <3>1. UNCHANGED <<proc, standby, status, hand, spare>>
      BY <2>3 DEF Speak, Cancel, Abandon, Spawn, ChangeSetting, RestartHost, Terminate
    <3> QED BY <1>1, <1>2, <1>3, <3>1 DEF Held
  <2> QED BY <1>9, <2>1, <2>2, <2>3 DEF Main, Ending
<1>10. CASE Worker
  <2>0. spare' = spare
    BY <1>10 DEF Worker, Host, HostEnter, HostDiscard, HostChoose, WorkerTake, WorkerBegin,
       WorkerWrite, WorkerBroken, WorkerFail, WorkerOver
  <2>1. CASE Host("worker") BY <1>4, <1>6, <1>10, <2>0, <2>1
  <2>2. CASE WorkerFail
    BY <1>1, <1>6, <1>10, <2>0, <2>2 DEF WorkerFail, DropsOwn
  <2>3. CASE WorkerTake \/ WorkerBegin \/ WorkerWrite \/ WorkerBroken \/ WorkerOver
    <3>1. UNCHANGED <<proc, standby, status>>
      BY <2>3 DEF WorkerTake, WorkerBegin, WorkerWrite, WorkerBroken, WorkerOver
    <3> QED BY <1>1, <1>6, <1>10, <2>0, <3>1
  <2> QED BY <1>10, <2>1, <2>2, <2>3 DEF Worker
<1>11. CASE UNCHANGED vars
  <2>1. UNCHANGED <<proc, standby, status, hand, spare>> BY <1>11 DEF vars
  <2> QED BY <1>1, <1>2, <1>3, <2>1 DEF Held
<1> QED BY <1>7, <1>8, <1>9, <1>10, <1>11 DEF Next, Gone

-----------------------------------------------------------------------------
(* Failures, and what they may cost.                                       *)

\* Nothing comes back: the dead, a fault, the end of the session.
LEMMA Irreversible ==
  ASSUME TypeInv, [Next]_vars
  PROVE  /\ \A p \in Procs : status[p] = "dead" => status'[p] = "dead"
         /\ faulted => faulted'
         /\ stopped => stopped'
<1> USE DEF TypeInv, TypeOK, MaybeProc, Killed, Start, Fresh, procVars, flagVars, histVars
<1>1. ASSUME NEW t \in Threads, Host(t)
      PROVE  /\ \A p \in Procs : status[p] = "dead" => status'[p] = "dead"
             /\ faulted => faulted'
             /\ stopped => stopped'
  BY <1>1 DEF Host, HostEnter, HostDiscard, HostChoose
<1>2. ASSUME NEW t \in Timers, Timer(t)
      PROVE  /\ \A p \in Procs : status[p] = "dead" => status'[p] = "dead"
             /\ faulted => faulted'
             /\ stopped => stopped'
  BY <1>1, <1>2, Apart DEF Timer, EnsureStandby, TimerSwap, TimerKill, TimerPrepare, TimerRefill,
     TimerWatch, TimerRecheck, TimerDone, TimerClear
<1>3. CASE Process
  BY <1>3 DEF Process, Answer, Chunk, ResponseEnds, Refuse, Ready, Crash
<1>4. CASE Main
  BY <1>4 DEF Main, Ending, Speak, Cancel, Abandon, Spawn, ChangeSetting, RestartHost,
     Terminate, TerminateSwap, TerminateStop
<1>5. CASE Worker
  BY <1>1, <1>5, Apart DEF Worker, WorkerTake, WorkerBegin, WorkerWrite, WorkerBroken,
     WorkerFail, WorkerOver
<1>6. CASE UNCHANGED vars BY <1>6 DEF vars
<1> QED BY <1>2, <1>3, <1>4, <1>5, <1>6 DEF Next, Gone

\* A retirement and a shutdown kill only what nobody else can name, so a process
\* in use falls to one of four steps.
LEMMA KilledApart ==
  ASSUME TypeInv, TakenApart, NoOrphan, [Next]_vars,
         NEW p \in Procs, alive(p), p \in {proc, standby}, status'[p] = "dead"
  PROVE  \/ WorkerFail /\ p = hand["worker"] /\ proc' = None
         \/ Crash(p)
         \/ Refuse /\ p = hand["worker"]
         \/ \E t \in Timers \cup {"worker"} : HostDiscard(t)
<1> USE Apart DEF TypeInv, TypeOK, MaybeProc, Killed, Start, Fresh, procVars, alive
<1>1. p = proc => p # standby BY DEF NoOrphan
<1>2. ASSUME NEW t \in Threads, HostEnter(t) \/ HostChoose(t) PROVE FALSE
  BY <1>2 DEF HostEnter, HostChoose
<1>3. ASSUME NEW t \in Timers, TimerKill(t) PROVE FALSE
  BY <1>3 DEF TimerKill, TakenApart, Takers
<1>4. ASSUME NEW t \in Timers, TimerPrepare(t) \/ TimerRefill(t) PROVE FALSE
  BY <1>4 DEF TimerPrepare, TimerRefill, EnsureStandby
<1>5. ASSUME NEW t \in Timers,
             TimerWatch(t) \/ TimerRecheck(t) \/ TimerSwap(t) \/ TimerDone(t) \/ TimerClear(t)
      PROVE  FALSE
  BY <1>5 DEF TimerWatch, TimerRecheck, TimerSwap, TimerDone, TimerClear
<1>6. CASE Process
  <2>1. CASE Refuse BY <2>1 DEF Refuse
  <2>2. ASSUME NEW q \in Procs, Crash(q) PROVE Crash(p)
    <3>1. status' = Killed({q}) BY <2>2 DEF Crash
    <3>2. q = p BY <3>1
    <3> QED BY <2>2, <3>2
  <2>3. ASSUME NEW q \in Procs, Ready(q) PROVE FALSE
    BY <2>3 DEF Ready
  <2>4. CASE Answer \/ Chunk \/ ResponseEnds
    BY <2>4 DEF Answer, Chunk, ResponseEnds
  <2> QED BY <1>6, <2>1, <2>2, <2>3, <2>4 DEF Process
<1>7. CASE Main
  <2>1. CASE TerminateStop BY <2>1 DEF TerminateStop, TakenApart, Takers
  <2>2. CASE ~TerminateStop
    BY <1>7, <2>2 DEF Main, Ending, Speak, Cancel, Abandon, Spawn, ChangeSetting, RestartHost,
       Terminate, TerminateSwap
  <2> QED BY <2>1, <2>2
<1>8. CASE Worker
  <2>1. CASE WorkerFail BY <2>1 DEF WorkerFail, DropsOwn
  <2>2. CASE WorkerTake \/ WorkerBegin \/ WorkerWrite \/ WorkerBroken \/ WorkerOver
    BY <2>2 DEF WorkerTake, WorkerBegin, WorkerWrite, WorkerBroken, WorkerOver
  <2> QED BY <1>2, <1>8, <2>1, <2>2 DEF Worker, Host
<1>9. CASE UNCHANGED vars BY <1>9 DEF vars
<1> QED BY <1>2, <1>3, <1>4, <1>5, <1>6, <1>7, <1>8, <1>9 DEF Next, Gone, Timer, Host

LEMMA FailingStep ==
  ASSUME TypeInv, TakenApart, NamedBorn, NoOrphan, Failing, [Next]_vars
  PROVE  Failing'
<1> USE Apart DEF TypeInv, Goto, procVars, threadVars
<1>1. proc' # None /\ status'[proc'] = "dead" => faulted'
  <2> SUFFICES ASSUME proc' # None, status'[proc'] = "dead" PROVE faulted'
    OBVIOUS
  <2> USE DEF TypeOK, MaybeProc, Start, alive, NamedBorn, Born
  <2>1. ASSUME proc' = proc, proc \in Procs PROVE faulted'
    <3>1. CASE status[proc] = "dead" BY <2>1, <3>1, Irreversible DEF Failing
    <3>2. CASE status[proc] # "dead"
      <4>1. alive(proc) BY <2>1, <3>2
      <4>2. ASSUME NEW t \in Threads, HostDiscard(t) PROVE FALSE
        BY <2>1, <4>2 DEF HostDiscard
      <4>3. \A q \in Procs : Crash(q) \/ Refuse => faulted' BY DEF Crash, Refuse
      <4> QED BY <2>1, <4>1, <4>2, <4>3, KilledApart
    <3> QED BY <3>1, <3>2
  <2>2. ASSUME NEW t \in Threads, Host(t) PROVE faulted'
    <3>1. CASE HostChoose(t)
      BY <2>1, <3>1 DEF HostChoose
    <3>2. CASE HostEnter(t) \/ HostDiscard(t)
      BY <2>1, <3>2 DEF HostEnter, HostDiscard
    <3> QED BY <2>2, <3>1, <3>2 DEF Host
  <2>3. ASSUME NEW t \in Timers, Timer(t) PROVE faulted'
    <3>1. CASE TimerSwap(t) BY <3>1 DEF TimerSwap
    <3>2. CASE Host(t) BY <2>2, <3>2
    <3>3. CASE ~TimerSwap(t) /\ ~Host(t)
      BY <2>1, <2>3, <3>3 DEF Timer, TimerKill, TimerPrepare, TimerRefill,
         TimerWatch, TimerRecheck, TimerDone, TimerClear
    <3> QED BY <3>1, <3>2, <3>3
  <2>4. CASE Process BY <2>1, <2>4, ProcessMoves
  <2>5. CASE Main
    BY <2>1, <2>5 DEF Main, Ending, Speak, Cancel, Abandon, Spawn, ChangeSetting, RestartHost,
       Terminate, TerminateSwap, TerminateStop
  <2>6. CASE Worker
    BY <2>1, <2>2, <2>6 DEF Worker, WorkerTake, WorkerBegin, WorkerWrite, WorkerBroken,
       WorkerFail, WorkerOver
  <2>7. CASE UNCHANGED vars BY <2>1, <2>7 DEF vars
  <2> QED BY <2>3, <2>4, <2>5, <2>6, <2>7 DEF Next, Gone
<1>2. pc'["worker"] \in {"begin", "write", "read"} => hand'["worker"] # None
  <2>1. ASSUME NEW t \in Timers, Timer(t) PROVE pc'["worker"] = pc["worker"] /\ hand'["worker"] = hand["worker"]
    BY <2>1, TimerMoves
  <2>2. CASE Process BY <2>2, ProcessMoves DEF ResponseEnds, Failing
  <2>3. CASE Main BY <2>3, MainMoves DEF Failing
  <2>4. CASE Worker
    BY <2>4 DEF Failing, Worker, Host, HostEnter, HostDiscard, HostChoose, Given, WorkerTake,
       WorkerBegin, WorkerWrite, WorkerBroken, WorkerFail, WorkerOver, TypeOK, MaybeProc, alive
  <2>5. CASE UNCHANGED vars BY <2>5 DEF vars, Failing
  <2> QED BY <2>1, <2>2, <2>3, <2>4, <2>5 DEF Next, Gone, Failing
<1>3. pc'["worker"] = "fail" =>
        IF hand'["worker"] = None THEN faulted' \/ stopped' ELSE status'[hand'["worker"]] = "dead"
  <2> SUFFICES ASSUME pc'["worker"] = "fail"
               PROVE  /\ hand'["worker"] = None => faulted' \/ stopped'
                      /\ hand'["worker"] # None => status'[hand'["worker"]] = "dead"
    OBVIOUS
  <2>1. ASSUME pc["worker"] = "fail", hand'["worker"] = hand["worker"]
        PROVE  /\ hand'["worker"] = None => faulted' \/ stopped'
               /\ hand'["worker"] # None => status'[hand'["worker"]] = "dead"
    BY <2>1, Irreversible DEF Failing
  <2>2. ASSUME NEW t \in Timers, Timer(t) PROVE pc'["worker"] = pc["worker"] /\ hand'["worker"] = hand["worker"]
    BY <2>2, TimerMoves
  <2>3. CASE Process
    <3>1. pc["worker"] = "fail" BY <2>3, ProcessMoves DEF ResponseEnds
    <3> QED BY <2>1, <2>3, <3>1, ProcessMoves
  <2>4. CASE Main BY <2>1, <2>4, MainMoves
  <2>5. CASE Worker
    <3>1. CASE Host("worker")
      <4>1. HostChoose("worker")
        BY <3>1 DEF Host, HostEnter, HostDiscard
      <4>2. hand'["worker"] = None
        BY <4>1 DEF HostChoose, Given, TypeOK, MaybeProc, alive
      <4>3. ~alive(proc) /\ ~alive(standby) /\ (CannotStart \/ Fresh = {})
            /\ faulted' = (faulted \/ ~stopped)
        BY <4>1, <4>2 DEF HostChoose, Given, TypeOK, MaybeProc, alive
      <4>4. stopped' = stopped BY <4>1 DEF HostChoose, flagVars
      <4> QED BY <4>2, <4>3, <4>4, Zenon
    <3>2. CASE WorkerWrite \/ WorkerBroken
      <4>1. pc["worker"] \in {"write", "read"} /\ ~alive(hand["worker"])
            /\ hand' = hand /\ status' = status
        BY <3>2 DEF WorkerWrite, WorkerBroken, Labels
      <4> QED BY <4>1 DEF Failing, alive, NamedBorn, Born, TypeOK
    <3>3. CASE WorkerTake \/ WorkerBegin \/ WorkerFail \/ WorkerOver
      BY <3>3 DEF WorkerTake, WorkerBegin, WorkerFail, WorkerOver
    <3> QED BY <2>5, <3>1, <3>2, <3>3 DEF Worker
  <2>6. CASE UNCHANGED vars BY <2>1, <2>6 DEF vars
  <2> QED BY <2>1, <2>2, <2>3, <2>4, <2>5, <2>6 DEF Next, Gone
<1> QED BY <1>1, <1>2, <1>3 DEF Failing

LEMMA KeepsStreamingStep ==
  ASSUME TypeInv, Failing, RetirementKeepsStreaming, [Next]_vars
  PROVE  RetirementKeepsStreaming'
<1> USE DEF RetirementKeepsStreaming, renderVars
<1>1. ASSUME streaming' = streaming PROVE RetirementKeepsStreaming'
  BY <1>1, Irreversible
<1>2. CASE WorkerFail
  <2>1. CASE hand["worker"] = None BY <2>1, <1>2, Irreversible DEF Failing, WorkerFail
  <2>2. CASE proc # None /\ proc = hand["worker"]
    <3>1. faulted BY <1>2, <2>2 DEF Failing, WorkerFail
    <3> QED BY <3>1, Irreversible
  <2>3. CASE hand["worker"] # None /\ proc # hand["worker"]
    BY <1>1, <1>2, <2>3 DEF WorkerFail, Retired, TypeInv, TypeOK
  <2> QED BY <2>1, <2>2, <2>3
<1>3. ASSUME NEW t \in Timers, Timer(t) PROVE streaming' = streaming BY <1>3, TimerMoves
<1>4. CASE Process BY <1>1, <1>4, ProcessMoves
<1>5. CASE Main
  BY <1>1, <1>5 DEF Main, Ending, Speak, Cancel, Abandon, Spawn, ChangeSetting, RestartHost,
     Terminate, TerminateSwap, TerminateStop
<1>6. CASE Worker /\ ~WorkerFail
  BY <1>1, <1>6 DEF Worker, Host, HostEnter, HostDiscard, HostChoose, WorkerTake, WorkerBegin,
     WorkerWrite, WorkerBroken, WorkerOver
<1>7. CASE UNCHANGED vars BY <1>1, <1>7 DEF vars
<1> QED BY <1>1, <1>2, <1>3, <1>4, <1>5, <1>6, <1>7 DEF Next, Gone

-----------------------------------------------------------------------------
(* Settings.                                                               *)

\* The settings a process was started with stay with it.
LEMMA VersionsStay ==
  ASSUME TypeInv, [Next]_vars
  PROVE  \A p \in Procs : status[p] # "unborn" => version'[p] = version[p]
<1> USE Apart DEF TypeInv, TypeOK, Start, Fresh, procVars
<1>1. ASSUME NEW t \in Threads, Host(t)
      PROVE  \A p \in Procs : status[p] # "unborn" => version'[p] = version[p]
  BY <1>1 DEF Host, HostEnter, HostDiscard, HostChoose
<1>2. ASSUME NEW t \in Timers, Timer(t)
      PROVE  \A p \in Procs : status[p] # "unborn" => version'[p] = version[p]
  BY <1>1, <1>2 DEF Timer, EnsureStandby, TimerSwap, TimerKill, TimerPrepare, TimerRefill,
     TimerWatch, TimerRecheck, TimerDone, TimerClear
<1>3. CASE Process BY <1>3, ProcessMoves
<1>4. CASE Main
  BY <1>4 DEF Main, Ending, Speak, Cancel, Abandon, Spawn, ChangeSetting, RestartHost,
     Terminate, TerminateSwap, TerminateStop
<1>5. CASE Worker
  BY <1>1, <1>5 DEF Worker, WorkerTake, WorkerBegin, WorkerWrite, WorkerBroken,
     WorkerFail, WorkerOver
<1>6. CASE UNCHANGED vars BY <1>6 DEF vars
<1> QED BY <1>2, <1>3, <1>4, <1>5, <1>6 DEF Next, Gone

\* A process that becomes the current one or the standby was one of the two, or
\* has the settings of this moment.
LEMMA CurrentSettings ==
  ASSUME TypeInv, NamedBorn, NoOrphan, [Next]_vars,
         NEW p \in Procs, p \in {proc', standby'}
  PROVE  \/ p \in {proc, standby} /\ version'[p] = version[p]
         \/ version'[p] = settings
<1> USE Apart DEF TypeInv, TypeOK, Start, Fresh, procVars
<1>1. CASE p \in {proc, standby} BY <1>1, VersionsStay DEF NamedBorn, Born
<1>2. CASE p \notin {proc, standby}
  <2>1. ASSUME NEW t \in Threads, Host(t) PROVE version'[p] = settings
    BY <1>2, <2>1 DEF Host, HostEnter, HostDiscard, HostChoose, MaybeProc
  <2>2. ASSUME NEW t \in Timers, Timer(t) PROVE version'[p] = settings
    BY <1>2, <2>1, <2>2 DEF Timer, EnsureStandby, TimerSwap, TimerKill, TimerPrepare, TimerRefill,
       TimerWatch, TimerRecheck, TimerDone, TimerClear
  <2>3. CASE Process BY <1>2, <2>3, ProcessMoves
  <2>4. CASE Main
    BY <1>2, <2>4 DEF Main, Ending, Speak, Cancel, Abandon, Spawn, ChangeSetting, RestartHost,
       Terminate, TerminateSwap, TerminateStop
  <2>5. CASE Worker
    BY <1>2, <2>1, <2>5 DEF Worker, WorkerTake, WorkerBegin, WorkerWrite, WorkerBroken,
       WorkerFail, WorkerOver
  <2>6. CASE UNCHANGED vars BY <1>2, <2>6 DEF vars
  <2> QED BY <2>2, <2>3, <2>4, <2>5, <2>6 DEF Next, Gone
<1> QED BY <1>1, <1>2

LEMMA ObeyingStep ==
  ASSUME TypeInv, NamedBorn, NoOrphan, Locking, Obeying, [Next]_vars
  PROVE  Obeying'
<1> USE Apart DEF TypeInv, TypeOK, MaybeProc
<1>1. due' <= settings'
  <2>1. ASSUME UNCHANGED <<due, settings>> PROVE due' <= settings'
    BY <2>1 DEF Obeying
  <2>2. CASE Main
    BY <2>2 DEF Obeying, Main, Ending, Speak, Cancel, Abandon, Spawn, ChangeSetting, RestartHost,
       Terminate, TerminateSwap, TerminateStop, flagVars
  <2>3. ASSUME NEW t \in Timers, Timer(t) PROVE UNCHANGED <<due, settings>>
    BY <2>3, TimerMoves
  <2>4. CASE Process BY <2>1, <2>4, ProcessMoves DEF flagVars
  <2>5. CASE Worker
    BY <2>1, <2>5 DEF Worker, Host, HostEnter, HostDiscard, HostChoose, WorkerTake, WorkerBegin,
       WorkerWrite, WorkerBroken, WorkerFail, WorkerOver, flagVars
  <2>6. CASE UNCHANGED vars BY <2>1, <2>6 DEF vars, flagVars
  <2> QED BY <2>1, <2>2, <2>3, <2>4, <2>5, <2>6 DEF Next, Gone
<1>2. ASSUME NEW p \in Procs, p \in {proc', standby'}, ~restartWanted' PROVE version'[p] >= due'
  <2>1. \/ p \in {proc, standby} /\ version'[p] = version[p]
        \/ version'[p] = settings
    BY <1>2, CurrentSettings
  <2>2. ASSUME due' = due, restartWanted' = restartWanted PROVE version'[p] >= due'
    BY <1>2, <2>1, <2>2 DEF Obeying
  <2>3. ASSUME NEW t \in Threads, Host(t) PROVE version'[p] >= due'
    <3>1. CASE HostDiscard(t) BY <1>2, <3>1 DEF HostDiscard, Outdated
    <3>2. CASE HostEnter(t) \/ HostChoose(t)
      BY <2>2, <3>2 DEF HostEnter, HostChoose, flagVars
    <3> QED BY <2>3, <3>1, <3>2 DEF Host
  <2>4. ASSUME NEW t \in Timers, Timer(t) PROVE version'[p] >= due'
    BY <2>2, <2>3, <2>4 DEF Timer, TimerSwap, TimerKill, TimerPrepare, TimerRefill,
       TimerWatch, TimerRecheck, TimerDone, TimerClear, flagVars
  <2>5. CASE Process BY <2>2, <2>5, ProcessMoves DEF flagVars
  <2>6. CASE Main
    BY <1>2, <2>2, <2>6 DEF Main, Ending, Speak, Cancel, Abandon, Spawn, ChangeSetting, RestartHost,
       Terminate, TerminateSwap, TerminateStop, flagVars
  <2>7. CASE Worker
    BY <2>2, <2>3, <2>7 DEF Worker, WorkerTake, WorkerBegin, WorkerWrite, WorkerBroken,
       WorkerFail, WorkerOver, flagVars
  <2>8. CASE UNCHANGED vars BY <2>2, <2>8 DEF vars, flagVars
  <2> QED BY <2>3, <2>4, <2>5, <2>6, <2>7, <2>8 DEF Next, Gone
<1>3. ASSUME NEW p \in Procs, p \in {proc', standby'}, pc'["worker"] = "choose"
      PROVE  version'[p] >= promised'
  <2>1. \/ p \in {proc, standby} /\ version'[p] = version[p]
        \/ version'[p] = settings
    BY <1>3, CurrentSettings
  <2>2. ASSUME pc["worker"] = "choose", promised' = promised PROVE version'[p] >= promised'
    BY <2>1, <2>2 DEF Obeying
  <2>3. ASSUME NEW t \in Timers, Timer(t) PROVE pc'["worker"] = pc["worker"] /\ promised' = promised
    BY <2>3, TimerMoves DEF renderVars
  <2>4. CASE Process
    <3>1. pc["worker"] = "choose" /\ promised' = promised
      BY <1>3, <2>4, ProcessMoves DEF ResponseEnds, Goto
    <3> QED BY <2>2, <3>1
  <2>5. CASE Main
    <3>1. promised' = promised
      BY <2>5 DEF Main, Ending, Speak, Cancel, Abandon, Spawn, ChangeSetting, RestartHost,
         Terminate, TerminateSwap, TerminateStop, renderVars
    <3> QED BY <1>3, <2>2, <2>5, <3>1, MainMoves
  <2>6. CASE Worker
    <3>1. CASE HostEnter("worker")
      <4>1. ~restartWanted BY <1>3, <3>1 DEF HostEnter, Goto
      <4> QED BY <2>1, <3>1, <4>1 DEF HostEnter, Obeying, renderVars
    <3>2. CASE HostDiscard("worker") BY <1>3, <3>2 DEF HostDiscard, Outdated
    <3>3. CASE HostChoose("worker") BY <1>3, <3>3 DEF HostChoose, Given, Goto
    <3>4. CASE WorkerTake \/ WorkerBegin \/ WorkerWrite \/ WorkerBroken \/ WorkerFail \/ WorkerOver
      BY <1>3, <3>4 DEF WorkerTake, WorkerBegin, WorkerWrite, WorkerBroken, WorkerFail, WorkerOver, Goto
    <3> QED BY <2>6, <3>1, <3>2, <3>3, <3>4 DEF Worker, Host
  <2>7. CASE UNCHANGED vars BY <1>3, <2>2, <2>7 DEF vars, renderVars
  <2> QED BY <1>3, <2>2, <2>3, <2>4, <2>5, <2>6, <2>7 DEF Next, Gone
<1> QED BY <1>1, <1>2, <1>3 DEF Obeying

LEMMA SettingsReachStep ==
  ASSUME TypeInv, NamedBorn, NoOrphan, Failing, Obeying, SettingsReachRender, [Next]_vars
  PROVE  SettingsReachRender'
<1> USE Apart DEF TypeInv, TypeOK, MaybeProc, Goto
<1> SUFFICES ASSUME pc'["worker"] \in {"begin", "write", "read"}
             PROVE  version'[hand'["worker"]] >= promised'
  BY DEF SettingsReachRender
<1>1. ASSUME pc["worker"] \in {"begin", "write", "read"}, hand'["worker"] = hand["worker"],
             promised' = promised
      PROVE  version'[hand'["worker"]] >= promised'
  <2>1. hand["worker"] \in Procs /\ status[hand["worker"]] # "unborn"
    BY <1>1 DEF Failing, NamedBorn, Born
  <2> QED BY <1>1, <2>1, VersionsStay DEF SettingsReachRender
<1>2. ASSUME NEW t \in Timers, Timer(t)
      PROVE  pc'["worker"] = pc["worker"] /\ hand'["worker"] = hand["worker"] /\ promised' = promised
  BY <1>2, TimerMoves DEF renderVars
<1>3. CASE Process
  <2>1. pc["worker"] = pc'["worker"] /\ promised' = promised /\ hand' = hand
    BY <1>3, ProcessMoves DEF ResponseEnds, threadVars
  <2> QED BY <1>1, <2>1
<1>4. CASE Main
  <2>1. promised' = promised
    BY <1>4 DEF Main, Ending, Speak, Cancel, Abandon, Spawn, ChangeSetting, RestartHost,
       Terminate, TerminateSwap, TerminateStop, renderVars
  <2> QED BY <1>1, <1>4, <2>1, MainMoves
<1>5. CASE Worker
  <2>1. CASE HostChoose("worker")
    <3>1. hand'["worker"] \in {proc', proc, standby} /\ hand'["worker"] # None
          /\ promised' = promised /\ pc["worker"] = "choose"
          /\ (hand'["worker"] = proc' \/ hand'["worker"] = standby')
      BY <2>1 DEF HostChoose, Given, renderVars, alive
    <3>2. hand'["worker"] \in Procs
      BY <2>1, <3>1 DEF HostChoose, Given, alive
    <3> QED BY <3>1, <3>2, CurrentSettings DEF Obeying
  <2>2. CASE WorkerBegin \/ WorkerWrite
    BY <1>1, <2>2 DEF WorkerBegin, WorkerWrite, threadVars
  <2>3. CASE HostEnter("worker") \/ HostDiscard("worker") \/ WorkerTake \/ WorkerBroken
             \/ WorkerFail \/ WorkerOver
    BY <2>3 DEF HostEnter, HostDiscard, WorkerTake, WorkerBroken, WorkerFail, WorkerOver
  <2> QED BY <1>5, <2>1, <2>2, <2>3 DEF Worker, Host
<1>6. CASE UNCHANGED vars
  BY <1>1, <1>6 DEF vars, renderVars, threadVars
<1> QED BY <1>1, <1>2, <1>3, <1>4, <1>5, <1>6 DEF Next, Gone

-----------------------------------------------------------------------------
(* Types.                                                                  *)

Flags == {restartWanted, stopped, rendering, retiring, streaming, wanted, fed,
          answered, asked, faulted, cutOff}

LEMMA FlagTypes ==
  ASSUME TypeInv, [Next]_vars
  PROVE  Flags' \subseteq BOOLEAN
<1>0. Flags \subseteq BOOLEAN BY DEF Flags, TypeInv, TypeOK
<1> USE <1>0 DEF Flags, flagVars, renderVars, histVars
<1>1. ASSUME NEW t \in Threads, Host(t) PROVE Flags' \subseteq BOOLEAN
  BY <1>1 DEF Host, HostEnter, HostDiscard, HostChoose
<1>2. ASSUME NEW t \in Timers, Timer(t) PROVE Flags' \subseteq BOOLEAN
  BY <1>1, <1>2, Apart DEF Timer, TimerSwap, TimerKill, TimerPrepare, TimerRefill, TimerWatch,
     TimerRecheck, TimerDone, TimerClear
<1>3. CASE Process BY <1>3 DEF Process, Answer, Chunk, ResponseEnds, Refuse, Ready, Crash
<1>4. CASE Main
  BY <1>4 DEF Main, Ending, Speak, Cancel, Abandon, Spawn, ChangeSetting, RestartHost,
     Terminate, TerminateSwap, TerminateStop
<1>5. CASE Worker
  BY <1>1, <1>5, Apart DEF Worker, WorkerTake, WorkerBegin, WorkerWrite, WorkerBroken,
     WorkerFail, WorkerOver
<1>6. CASE UNCHANGED vars BY <1>6 DEF vars
<1> QED BY <1>2, <1>3, <1>4, <1>5, <1>6 DEF Next, Gone

LEMMA ProcessTypes ==
  ASSUME TypeInv, [Next]_vars
  PROVE  /\ lock' \in Threads \cup {None}
         /\ status' \in [Procs -> {"unborn", "starting", "ready", "dead"}]
         /\ version' \in [Procs -> 0 .. MaxSetting]
<1> USE Apart DEF TypeInv, TypeOK, procVars, Killed, Start
<1> DEFINE Typed == /\ lock' \in Threads \cup {None}
                    /\ status' \in [Procs -> {"unborn", "starting", "ready", "dead"}]
                    /\ version' \in [Procs -> 0 .. MaxSetting]
<1>1. ASSUME NEW t \in Threads, Host(t) PROVE Typed
  BY <1>1 DEF Host, HostEnter, HostDiscard, HostChoose, Given
<1>2. ASSUME NEW t \in Timers, Timer(t) PROVE Typed
  BY <1>1, <1>2 DEF Timer, TimerSwap, TimerKill, TimerPrepare, TimerRefill, TimerWatch,
     TimerRecheck, TimerDone, TimerClear, EnsureStandby
<1>3. CASE Process BY <1>3 DEF Process, Answer, Chunk, ResponseEnds, Refuse, Ready, Crash
<1>4. CASE Main
  BY <1>4 DEF Main, Ending, Speak, Cancel, Abandon, Spawn, ChangeSetting, RestartHost,
     Terminate, TerminateSwap, TerminateStop
<1>5. CASE Worker
  BY <1>1, <1>5 DEF Worker, WorkerTake, WorkerBegin, WorkerWrite, WorkerBroken,
     WorkerFail, WorkerOver
<1>6. CASE UNCHANGED vars BY <1>6 DEF vars
<1> QED BY <1>2, <1>3, <1>4, <1>5, <1>6 DEF Next, Gone

LEMMA Bounded ==
  ASSUME NEW r \in Nat, NEW s \in Nat, NEW i \in Nat, NEW q \in Nat, NEW m \in Nat,
         r + s <= 2 * (i - q), i <= m
  PROVE  r <= 2 * m
OBVIOUS

LEMMA CountTypes ==
  ASSUME TypeInv, Counting, Counting', Obeying, [Next]_vars
  PROVE  /\ settings' \in 0 .. MaxSetting /\ items' \in 0 .. MaxItem
         /\ queued' \in 0 .. MaxItem /\ cancels' \in 0 .. MaxCancel
         /\ renderSeq' \in 0 .. 2 * MaxItem
         /\ tries' \in 0 .. 2 /\ due' \in 0 .. MaxSetting /\ promised' \in 0 .. due'
<1>0. /\ MaxItem \in Nat /\ MaxSetting \in Nat /\ MaxCancel \in Nat
      /\ settings \in 0 .. MaxSetting /\ items \in 0 .. MaxItem
      /\ queued \in Nat /\ cancels \in 0 .. MaxCancel /\ renderSeq \in Nat
      /\ tries \in 0 .. 2 /\ due \in 0 .. MaxSetting /\ promised \in 0 .. due
  BY BoundsAssumption DEF TypeInv, TypeOK
<1> DEFINE Typed == /\ settings' \in 0 .. MaxSetting /\ items' \in 0 .. MaxItem
                    /\ queued' \in Nat /\ cancels' \in 0 .. MaxCancel
                    /\ renderSeq' \in Nat
                    /\ tries' \in 0 .. 2 /\ due' \in 0 .. MaxSetting /\ promised' \in 0 .. due'
<1>7. ASSUME Typed PROVE queued' <= MaxItem /\ renderSeq' <= 2 * MaxItem
  <2>0. \A k \in 0 .. 2 : 3 - k \in Nat OBVIOUS
  <2>1. 3 - tries' \in Nat BY <1>7, <2>0, Zenon
  <2>2. StillToBegin' \in Nat BY <2>1 DEF StillToBegin
  <2>3. queued' <= items' /\ items' <= MaxItem /\ items' \in Nat /\ queued' \in Nat /\ renderSeq' \in Nat
    BY <1>0, <1>7 DEF Counting
  <2>4. renderSeq' + StillToBegin' <= 2 * (items' - queued') BY DEF Counting
  <2> HIDE DEF Typed
  <2>5. renderSeq' <= 2 * MaxItem BY <1>0, <2>2, <2>3, <2>4, Bounded
  <2> QED BY <1>0, <2>3, <2>5
<1> SUFFICES Typed BY <1>0, <1>7
<1> USE <1>0 DEF flagVars, inputVars, renderVars
<1>1. ASSUME NEW t \in Timers, Timer(t) PROVE Typed BY <1>1, TimerMoves
<1>2. ASSUME Host("worker") PROVE Typed
  BY <1>2 DEF Host, HostEnter, HostDiscard, HostChoose
<1>3. CASE Process
  <2>1. tries' \in 0 .. 2 BY <1>3, ProcessMoves DEF ResponseEnds
  <2> QED BY <1>3, <2>1, ProcessMoves
<1>4. CASE Main
  <2>1. CASE Speak         BY <2>1 DEF Speak
  <2>2. CASE Cancel        BY <2>2 DEF Cancel
  <2>3. CASE Abandon       BY <2>3 DEF Abandon
  <2>4. CASE Spawn         BY <2>4 DEF Spawn
  <2>5. CASE ChangeSetting BY <2>5 DEF ChangeSetting
  <2>6. CASE RestartHost   BY <2>6 DEF RestartHost, Obeying
  <2>7. CASE Terminate     BY <2>7 DEF Terminate
  <2>8. CASE Ending        BY <2>8 DEF Ending, TerminateSwap, TerminateStop
  <2> QED BY <1>4, <2>1, <2>2, <2>3, <2>4, <2>5, <2>6, <2>7, <2>8 DEF Main
<1>5. CASE Worker
  <2>1. CASE WorkerTake  BY <2>1 DEF WorkerTake
  <2>2. CASE WorkerWrite BY <2>2 DEF WorkerWrite
  <2>3. CASE WorkerOver  BY <2>3 DEF WorkerOver, MayRetry
  <2>4. CASE WorkerBegin \/ WorkerBroken \/ WorkerFail
    BY <2>4 DEF WorkerBegin, WorkerBroken, WorkerFail
  <2> QED BY <1>2, <1>5, <2>1, <2>2, <2>3, <2>4 DEF Worker
<1>6. CASE UNCHANGED vars BY <1>6 DEF vars
<1> QED BY <1>1, <1>2, <1>3, <1>4, <1>5, <1>6 DEF Next, Gone

LEMMA ThreadTypes ==
  ASSUME TypeInv, Locking, [Next]_vars
  PROVE  /\ pc' \in [Threads -> Labels]
         /\ pc'["main"] \in {"run", "abandon", "spawn", "flag", "swap", "stop", "gone"}
         /\ pc'["worker"] \in {"take", "host", "discard", "choose", "begin", "write",
                               "read", "fail", "over", "end"}
         /\ \A t \in Timers : pc'[t] \in {"off", "watch", "prepare", "recheck", "swap", "kill",
                "killAll", "refill", "host", "discard", "choose", "done", "clear"}
         /\ hand' \in [Threads -> Procs \cup {None}] /\ spare' \in [Threads -> Procs \cup {None}]
         /\ seq' \in [Timers -> 0 .. 2 * MaxItem] /\ polls' \in [Timers -> 0 .. Polls]
<1> USE Apart, BoundsAssumption DEF TypeInv, TypeOK, MaybeProc, Goto, threadVars, procVars, renderVars
<1> DEFINE MainAt == {"run", "abandon", "spawn", "flag", "swap", "stop", "gone"}
           WorkerAt == {"take", "host", "discard", "choose", "begin", "write",
                        "read", "fail", "over", "end"}
           TimerAt == {"off", "watch", "prepare", "recheck", "swap", "kill", "killAll",
                       "refill", "host", "discard", "choose", "done", "clear"}
           Typed == /\ pc' \in [Threads -> Labels]
                    /\ pc'["main"] \in MainAt /\ pc'["worker"] \in WorkerAt
                    /\ \A t \in Timers : pc'[t] \in TimerAt
                    /\ hand' \in [Threads -> Procs \cup {None}]
                    /\ spare' \in [Threads -> Procs \cup {None}]
                    /\ seq' \in [Timers -> 0 .. 2 * MaxItem] /\ polls' \in [Timers -> 0 .. Polls]
<1>1. ASSUME NEW t \in Threads, Host(t)
      PROVE  /\ t = "worker" => pc'[t] \in WorkerAt
             /\ t \in Timers => pc'[t] \in TimerAt
             /\ hand' \in [Threads -> Procs \cup {None}] /\ UNCHANGED <<spare, seq, polls>>
  BY <1>1, CurrentTypes DEF Host, HostEnter, HostDiscard, HostChoose, Given, alive
<1>2. ASSUME NEW t \in Timers, Timer(t) PROVE Typed
  <2>1. /\ pc'[t] \in TimerAt
        /\ hand' \in [Threads -> Procs \cup {None}]
        /\ spare' \in [Threads -> Procs \cup {None}]
        /\ seq' \in [Timers -> 0 .. 2 * MaxItem] /\ polls' \in [Timers -> 0 .. Polls]
    BY <1>1, <1>2 DEF Timer, TimerSwap, TimerKill, TimerPrepare, TimerRefill, TimerWatch,
       TimerRecheck, TimerDone, TimerClear
  <2> QED BY <1>2, <2>1, TimerMoves
<1>3. CASE Process
  <2>1. pc'["worker"] \in WorkerAt BY <1>3, ProcessMoves DEF ResponseEnds
  <2> QED BY <1>3, <2>1, ProcessMoves
<1>4. CASE Main
  <2>1. /\ pc'["main"] \in MainAt
        /\ hand' \in [Threads -> Procs \cup {None}]
        /\ spare' \in [Threads -> Procs \cup {None}]
        /\ seq' \in [Timers -> 0 .. 2 * MaxItem] /\ polls' = polls
    BY <1>4 DEF Main, Ending, Speak, Cancel, Abandon, Spawn, ChangeSetting, RestartHost,
       Terminate, TerminateSwap, TerminateStop
  <2> QED BY <1>4, <2>1, MainMoves
<1>5. CASE Worker
  <2>1. /\ pc'["worker"] \in WorkerAt
        /\ hand' \in [Threads -> Procs \cup {None}] /\ UNCHANGED <<spare, seq, polls>>
    BY <1>1, <1>5 DEF Worker, WorkerTake, WorkerBegin, WorkerWrite, WorkerBroken,
       WorkerFail, WorkerOver
  <2> QED BY <1>5, <2>1, WorkerMoves
<1>6. CASE UNCHANGED vars BY <1>6 DEF vars
<1> QED BY <1>2, <1>3, <1>4, <1>5, <1>6 DEF Next, Gone

LEMMA TypeStep ==
  ASSUME TypeInv, Counting, Counting', Locking, Obeying, [Next]_vars
  PROVE  TypeInv'
<1> USE Apart
<1>1. TypeOK' BY CurrentTypes, FlagTypes, ProcessTypes, CountTypes, ThreadTypes DEF TypeOK, Flags, MaybeProc
<1> QED BY <1>1, ThreadTypes DEF TypeInv

-----------------------------------------------------------------------------
(* The invariant, and the theorems.                                        *)

LEMMA InitInvariant ==
  ASSUME Init
  PROVE  IInv
<1> USE Apart, BoundsAssumption DEF Init
<1>1. /\ pc \in [Threads -> Labels] /\ pc["main"] = "run" /\ pc["worker"] = "take"
      /\ \A t \in Timers : pc[t] = "off"
      /\ \A t \in Threads : pc[t] \notin {"discard", "choose"}
  BY DEF Labels, Threads
<1>2. TypeInv
  <2>1. {MaxItem, MaxCancel, MaxSetting, Polls} \subseteq Nat OBVIOUS
  <2>2. /\ status \in [Procs -> {"unborn", "starting", "ready", "dead"}]
        /\ version \in [Procs -> 0 .. MaxSetting]
        /\ hand \in [Threads -> Procs \cup {None}] /\ spare \in [Threads -> Procs \cup {None}]
        /\ seq \in [Timers -> 0 .. 2 * MaxItem] /\ polls \in [Timers -> 0 .. Polls]
    BY <2>1
  <2>3. /\ settings \in 0 .. MaxSetting /\ renderSeq \in 0 .. 2 * MaxItem
        /\ items \in 0 .. MaxItem /\ queued \in 0 .. MaxItem /\ cancels \in 0 .. MaxCancel
        /\ tries \in 0 .. 2 /\ due \in 0 .. MaxSetting /\ promised \in 0 .. due
    BY <2>1
  <2>4. {restartWanted, stopped, rendering, retiring, streaming, wanted, fed, answered,
         asked, faulted, cutOff} \subseteq BOOLEAN
    OBVIOUS
  <2> HIDE DEF Init
  <2>5. proc = None /\ standby = None /\ lock = None BY DEF Init
  <2> QED BY <1>1, <2>2, <2>3, <2>4, <2>5 DEF TypeInv, TypeOK, MaybeProc
<1>3. Counting BY <1>1 DEF Counting, StillToBegin, Trying
<1>4. Locking BY <1>1 DEF Locking
<1>5. Taking BY DEF Taking, HeldToStop, TakenApart, NamedBorn, Born, Takers
<1>6. Closing BY <1>1 DEF Closing
<1>7. NoOrphan BY <1>1 DEF NoOrphan, alive
<1>8. Failing /\ RetirementKeepsStreaming /\ Obeying /\ SettingsReachRender
  BY <1>1 DEF Failing, RetirementKeepsStreaming, Obeying, SettingsReachRender
<1> QED BY <1>2, <1>3, <1>4, <1>5, <1>6, <1>7, <1>8 DEF IInv

LEMMA StepInvariant ==
  ASSUME IInv, [Next]_vars
  PROVE  IInv'
<1>1. Counting' BY CountingStep DEF IInv
<1>2. Locking' BY LockingStep DEF IInv
<1>3. Closing' BY ClosingStep DEF IInv
<1>4. Taking' BY HeldToStopStep, TakenApartStep, NamedBornStep DEF IInv, Taking
<1>5. NoOrphan' BY <1>3, NoOrphanStep DEF IInv
<1>6. Failing' BY FailingStep DEF IInv, Taking
<1>7. RetirementKeepsStreaming' BY KeepsStreamingStep DEF IInv
<1>8. Obeying' BY ObeyingStep DEF IInv, Taking
<1>9. SettingsReachRender' BY SettingsReachStep DEF IInv, Taking
<1>10. TypeInv' BY <1>1, TypeStep DEF IInv
<1> QED BY <1>1, <1>2, <1>3, <1>4, <1>5, <1>6, <1>7, <1>8, <1>9, <1>10 DEF IInv

\* Whatever the threads, the processes and the number of them do, the invariant
\* holds: it is inductive.
THEOREM Invariance == Spec => []IInv
<1>1. Init => IInv BY InitInvariant
<1>2. IInv /\ [Next]_vars => IInv' BY StepInvariant
<1> QED BY <1>1, <1>2, PTL DEF Spec

\* Every attribute, local and counter of the driver stays in its type; in
\* particular _renderSeq never passes two renders an utterance, the one retry
\* _flush() allows.
THEOREM PoolTypes == Spec => []TypeOK
<1>1. IInv => TypeOK BY DEF IInv, TypeInv
<1> QED BY <1>1, Invariance, PTL

\* No process outlives the driver: each live one is _proc, _standby or in the
\* hands of a thread that is about to stop it, with any number of retirements
\* in flight when terminate() is called.
THEOREM ShutdownLeavesNone == Spec => []NoOrphan
<1>1. IInv => NoOrphan BY DEF IInv
<1> QED BY <1>1, Invariance, PTL

\* Streaming is turned off only after a process failed by itself: no cancel,
\* retirement or restart is mistaken for an old executable by _request().
THEOREM StreamingSurvives == Spec => []RetirementKeepsStreaming
<1>1. IInv => RetirementKeepsStreaming BY DEF IInv
<1> QED BY <1>1, Invariance, PTL

\* A process _proc or _standby names dies by itself, or by the render it failed,
\* or by a restart: neither _retire() nor terminate() reaches one.  The restart
\* is the worker's own or RestartByRetirement, the one case in which a process
\* may be taken from under a render.
THEOREM InUseIsSafe == Spec => OnlyItsOwn
<1> DEFINE Kill(p) == \/ Crash(p)
                      \/ p = hand["worker"] /\ (Refuse \/ WorkerFail)
                      \/ HostDiscard("worker")
                      \/ RestartByRetirement
           Safe == \A p \in Procs : alive(p) /\ p \in {proc, standby} /\ status'[p] = "dead" => Kill(p)
<1>1. ASSUME IInv, [Next]_vars PROVE Safe
  <2> SUFFICES ASSUME NEW p \in Procs, alive(p), p \in {proc, standby}, status'[p] = "dead"
               PROVE  Kill(p)
    OBVIOUS
  <2>1. TypeInv /\ TakenApart /\ NoOrphan BY <1>1 DEF IInv, Taking
  <2>2. \/ WorkerFail /\ p = hand["worker"]
        \/ Crash(p)
        \/ Refuse /\ p = hand["worker"]
        \/ \E t \in Timers \cup {"worker"} : HostDiscard(t)
    BY <1>1, <2>1, KilledApart
  <2> QED BY <2>2, Zenon DEF RestartByRetirement
<1>2. IInv /\ [Next]_vars => [Safe]_vars BY <1>1
<1> HIDE DEF Safe
<1>3. Spec => [][Safe]_vars BY <1>2, Invariance, PTL DEF Spec
<1> QED BY <1>3 DEF Safe, OnlyItsOwn

\* An utterance is rendered by a process that was started with the settings NVDA
\* had asked for when its render began, whichever of the worker and a
\* retirement discards the old ones.
THEOREM SettingsObeyed == Spec => []SettingsReachRender
<1>1. IInv => SettingsReachRender BY DEF IInv
<1> QED BY <1>1, Invariance, PTL

-----------------------------------------------------------------------------
(* The invariant of AndroidRequest, part by part.                          *)

Active  == {"piece", "opening", "attach", "start", "started", "stop?", "loop", "pull",
            "ending", "finish", "complete", "await"}
Serving == {"start", "started", "stop?", "loop", "pull"}
Jobs    == [pc : {"reuse?", "stop", "finish", "retire"}, for : Nat, on : Nat,
            acknowledged : BOOLEAN]

\* There is one connection, and no worker is up that is not on it.
AndroidTypes ==
  /\ stage \in Active \cup {"idle", "entered"} /\ spoken \in Nat /\ request \in Nat
  /\ cancelled \in BOOLEAN /\ completed \in BOOLEAN /\ started \in BOOLEAN
  /\ retired \in BOOLEAN /\ stopRequested \in BOOLEAN
  /\ stopper \in [pc : {"idle", "flagged", "read"}, of : Nat]
  /\ made \in 0 .. MaxWorker /\ connection \in 0 .. made
  /\ up \subseteq AR!Workers \cap {connection}
  /\ next \in 0 .. made /\ resource \in 0 .. made
  /\ job = AR!NoJob \/ (job \in Jobs /\ job.on \in AR!Workers)
  /\ playing \in [AR!Workers -> Nat] /\ pt_stop \in [AR!Workers -> BOOLEAN]
  /\ stage \in Serving \cup {"attach", "finish"} => next # 0

\* Requests are numbered as they come, and a worker renders one of them.
Numbered ==
  /\ IF stage \in Active THEN request = spoken /\ spoken # 0 ELSE request = 0 /\ job = AR!NoJob
  /\ stage = "entered" => spoken # 0
  /\ \A w \in AR!Workers : /\ playing[w] <= spoken /\ (stage = "entered" => playing[w] < spoken)
                           /\ playing[w] # 0 => w \in up

\* A job is of the request in hand, which it has cancelled.
Answered ==
  /\ job # AR!NoJob => /\ cancelled /\ job.for = request
                       /\ job.pc \in {"stop", "finish"} => job.acknowledged
  /\ stage \in Active => (completed <=> stage = "await")

\* Until a request is cancelled the worker it holds is the only one to render it.
Plays(w) == w \in AR!Workers /\ playing[w] = request
Alone ==
  ~cancelled =>
    /\ stage \in {"piece", "opening", "attach", "start"} => \A w \in AR!Workers : ~Plays(w)
    /\ stage \in Active \ {"await"} => \A w \in AR!Workers : Plays(w) => w = resource /\ ~pt_stop[w]
    /\ stage \in Serving => resource = next
    /\ stage = "start" => ~started

\* What a cancelled request leaves at work has somebody to settle it, also the
\* worker that is started after the cancel has taken it away.
AtWork == connection \in up /\ playing[connection] = request /\ ~retired
Doomed ==
  cancelled =>
    /\ stage \in Active /\ AtWork => job # AR!NoJob /\ job.on = connection
    /\ stage = "start" /\ next \in up =>
         retired \/ (job # AR!NoJob /\ job.on = next /\ ~job.acknowledged)

AndroidInv == AndroidTypes /\ Numbered /\ Answered /\ Alone /\ Doomed

LEMMA AndroidSuffices ==
  ASSUME AndroidInv
  PROVE  AR!RequestOwnsWorker
<1> USE DEF AndroidInv, AndroidTypes, Numbered, Answered, Doomed, Active
<1>1. job # AR!NoJob => request = job.for OBVIOUS
<1>2. AR!LeftAtWork => AtWork BY DEF AR!LeftAtWork, AtWork
<1>3. stage = "await" /\ cancelled /\ AR!LeftAtWork => job # AR!NoJob
  BY <1>2
<1> QED BY <1>1, <1>3 DEF AR!RequestOwnsWorker

LEMMA AndroidInit == AR!Init => AndroidInv
<1> SUFFICES ASSUME AR!Init PROVE AndroidInv
  OBVIOUS
<1> USE DEF AR!Init
<1>1. AndroidTypes
  <2>1. MaxWorker \in Nat BY ServiceAssumption
  <2>2. stopper \in [pc : {"idle", "flagged", "read"}, of : Nat] BY DEF AR!Resting
  <2>3. /\ playing \in [AR!Workers -> Nat] /\ pt_stop \in [AR!Workers -> BOOLEAN]
    OBVIOUS
  <2>4. /\ stage = "idle" /\ spoken = 0 /\ request = 0 /\ job = AR!NoJob
        /\ made = 0 /\ connection = 0 /\ next = 0 /\ resource = 0 /\ up = {}
        /\ 0 \in 0 .. MaxWorker /\ 0 \in 0 .. 0
    BY <2>1
  <2>5. /\ cancelled \in BOOLEAN /\ completed \in BOOLEAN /\ started \in BOOLEAN
        /\ retired \in BOOLEAN /\ stopRequested \in BOOLEAN
    OBVIOUS
  <2> HIDE DEF AR!Init
  <2> QED BY <2>2, <2>3, <2>4, <2>5 DEF AndroidTypes, Active, Serving
<1>2. stage = "idle" /\ ~cancelled /\ job = AR!NoJob /\ request = 0 /\ spoken = 0
  OBVIOUS
<1>3. \A w \in AR!Workers : playing[w] = 0 OBVIOUS
<1> HIDE DEF AR!Init
<1>4. Numbered BY <1>2, <1>3 DEF Numbered, Active
<1>5. Answered /\ Alone /\ Doomed
  BY <1>2 DEF Answered, Alone, Doomed, Active, Serving
<1> QED BY <1>1, <1>4, <1>5 DEF AndroidInv

-----------------------------------------------------------------------------
(* Types.                                                                  *)

LEMMA CancelTyped ==
  ASSUME AndroidTypes, NEW r, AR!Cancel(r)
  PROVE  /\ cancelled' \in BOOLEAN /\ resource' \in 0 .. made
         /\ job' = AR!NoJob \/ (job' \in Jobs /\ job'.on \in AR!Workers)
<1> USE DEF AndroidTypes, AR!Cancel
<1>1. made \in Nat /\ MaxWorker \in Nat /\ made <= MaxWorker BY ServiceAssumption
<1>2. CASE r = 0 \/ r # request \/ cancelled \/ completed BY <1>2
<1>3. CASE ~(r = 0 \/ r # request \/ cancelled \/ completed) /\ resource = 0
  BY <1>1, <1>3
<1>4. CASE ~(r = 0 \/ r # request \/ cancelled \/ completed) /\ resource # 0
  <2> DEFINE j == [pc |-> "reuse?", for |-> r, on |-> resource, acknowledged |-> started]
  <2>1. cancelled' = TRUE /\ resource' = 0 /\ job' = j BY <1>4
  <2>2. resource \in Nat /\ resource \in AR!Workers BY <1>1, <1>4 DEF AR!Workers
  <2>3. r \in Nat BY <1>4
  <2>4. j \in Jobs /\ j.on = resource BY <2>2, <2>3 DEF Jobs
  <2> HIDE DEF j
  <2> QED BY <1>1, <2>1, <2>2, <2>4
<1> QED BY <1>2, <1>3, <1>4

LEMMA FinishTyped ==
  ASSUME AndroidTypes, NEW w, AR!NativeFinish(w)
  PROVE  playing' \in [AR!Workers -> Nat] /\ pt_stop' = pt_stop
BY DEF AndroidTypes, AR!NativeFinish

LEMMA AndroidTypesStep ==
  ASSUME AndroidTypes, Numbered, AR!Next
  PROVE  AndroidTypes'
<1> USE DEF AndroidTypes, Active, Serving, AR!Goes, AR!NoCancel, AR!Job, AR!requestVars,
            AR!stopVars, AR!workerVars, AR!nativeVars
<1>0. made \in Nat /\ MaxWorker \in Nat /\ made <= MaxWorker /\ AR!Workers = 1 .. MaxWorker
  BY ServiceAssumption DEF AR!Workers
<1>1. CASE AR!StopFlag BY <1>1 DEF AR!StopFlag
<1>2. CASE AR!StopRead BY <1>2 DEF AR!StopRead
<1>3. CASE AR!StopCancel
  <2>1. stopper' \in [pc : {"idle", "flagged", "read"}, of : Nat]
    BY <1>3 DEF AR!StopCancel, AR!Resting
  <2>2. /\ cancelled' \in BOOLEAN /\ resource' \in 0 .. made
        /\ job' = AR!NoJob \/ (job' \in Jobs /\ job'.on \in AR!Workers)
    BY <1>3, CancelTyped DEF AR!StopCancel
  <2> QED BY <1>3, <2>1, <2>2 DEF AR!StopCancel
<1>4. CASE AR!Enter
  <2>1. spoken' \in Nat /\ stage' = "entered" BY <1>4 DEF AR!Enter
  <2>2. /\ UNCHANGED << request, cancelled, completed, resource, started, stopper, job, next,
                        connection, retired, made, up, playing, pt_stop >>
        /\ stopRequested' \in BOOLEAN
    BY <1>4 DEF AR!Enter
  <2> QED BY <2>1, <2>2
<1>5. CASE AR!Own
  <2>1. request' \in Nat /\ stage' = "piece" /\ resource' = 0 /\ 0 \in 0 .. made
    BY <1>0, <1>5 DEF AR!Own
  <2>2. cancelled' \in BOOLEAN /\ completed' \in BOOLEAN /\ started' \in BOOLEAN
    BY <1>5 DEF AR!Own
  <2>3. UNCHANGED << stopRequested, stopper, spoken, job, next, connection, retired, made, up,
                     playing, pt_stop >>
    BY <1>5 DEF AR!Own
  <2> QED BY <2>1, <2>2, <2>3
<1>6. CASE AR!Piece BY <1>6 DEF AR!Piece
<1>7. CASE AR!Open
  <2>1. CASE AR!Usable /\ next' = connection /\ stage' = "attach" /\ UNCHANGED << connection, retired, made, up >>
    <3>1. connection # 0 BY <1>0, <2>1 DEF AR!Usable
    <3> QED BY <1>7, <2>1, <3>1 DEF AR!Open
  <2>2. CASE retired' = TRUE /\ stage' = "opening" /\ UNCHANGED << connection, made, up, next >>
    BY <1>7, <2>2 DEF AR!Open
  <2>3. CASE /\ connection \notin up /\ made < MaxWorker
             /\ made' = made + 1 /\ connection' = made + 1
             /\ up' = up \union {made + 1} /\ retired' = FALSE
             /\ next' = made + 1 /\ stage' = "attach"
    <3>1. /\ made + 1 \in 0 .. MaxWorker /\ made + 1 \in AR!Workers
          /\ 0 .. made \subseteq 0 .. made + 1 /\ made + 1 \in 0 .. made + 1 /\ made + 1 # 0
      BY <1>0, <2>3
    <3>2. up' = {made + 1} BY <2>3
    <3>3. /\ made' \in 0 .. MaxWorker /\ connection' \in 0 .. made' /\ next' \in 0 .. made'
          /\ next' # 0 /\ resource \in 0 .. made'
      BY <2>3, <3>1
    <3> QED BY <1>7, <2>3, <3>1, <3>2, <3>3 DEF AR!Open
  <2>4. CASE stage' = "ending" /\ UNCHANGED << connection, retired, made, up, next >>
    BY <1>7, <2>4 DEF AR!Open
  <2> QED BY <1>7, <2>1, <2>2, <2>3, <2>4 DEF AR!Open
<1>8. CASE AR!Attach BY <1>8 DEF AR!Attach
<1>9. CASE AR!Start
  <2>1. CASE next \in up /\ playing' = [playing EXCEPT ![next] = request]
             /\ pt_stop' = [pt_stop EXCEPT ![next] = FALSE] /\ AR!Goes("started")
    <3>1. playing' \in [AR!Workers -> Nat] BY <2>1
    <3>2. pt_stop' \in [AR!Workers -> BOOLEAN] BY <2>1
    <3> QED BY <1>9, <2>1, <3>1, <3>2 DEF AR!Start
  <2>2. CASE AR!Goes("ending") /\ UNCHANGED << playing, pt_stop >>
    BY <1>9, <2>2 DEF AR!Start
  <2> QED BY <1>9, <2>1, <2>2 DEF AR!Start
<1>10. CASE AR!Acknowledge BY <1>10 DEF AR!Acknowledge
<1>11. CASE AR!StopAfterStart
  <2>2. /\ cancelled' \in BOOLEAN /\ resource' \in 0 .. made
        /\ job' = AR!NoJob \/ (job' \in Jobs /\ job'.on \in AR!Workers)
    BY <1>11, CancelTyped DEF AR!StopAfterStart
  <2> QED BY <1>11, <2>2 DEF AR!StopAfterStart
<1>12. CASE AR!Loop BY <1>12 DEF AR!Loop
<1>13. CASE AR!Pull
  <2>2. /\ cancelled' \in BOOLEAN /\ resource' \in 0 .. made
        /\ job' = AR!NoJob \/ (job' \in Jobs /\ job'.on \in AR!Workers)
    BY <1>13, CancelTyped DEF AR!Pull
  <2> QED BY <1>13, <2>2 DEF AR!Pull
<1>14. CASE AR!Ending BY <1>14 DEF AR!Ending
<1>15. CASE AR!Finish
  <2>1. playing' \in [AR!Workers -> Nat] /\ pt_stop' = pt_stop
    BY <1>15, FinishTyped DEF AR!Finish
  <2> QED BY <1>15, <2>1 DEF AR!Finish
<1>16. CASE AR!Complete BY <1>0, <1>16 DEF AR!Complete
<1>17. CASE AR!Release BY <1>0, <1>17 DEF AR!Release
<1>18. CASE AR!Look
  <2>1. job # AR!NoJob /\ job \in Jobs BY <1>18 DEF AR!Look, AR!NoJob
  <2>2. \A to \in {"stop", "retire"} :
          [job EXCEPT !.pc = to] \in Jobs /\ [job EXCEPT !.pc = to].on = job.on
    BY <2>1 DEF Jobs
  <2>3. job' = AR!NoJob \/ (job' \in Jobs /\ job'.on \in AR!Workers)
    <3>1. job' = AR!NoJob \/ (\E to \in {"stop", "retire"} : job' = [job EXCEPT !.pc = to])
      BY <1>18 DEF AR!Look
    <3> QED BY <2>1, <2>2, <3>1
  <2>4. UNCHANGED << request, cancelled, completed, resource, started, stopRequested, stopper,
                     stage, next, spoken, connection, retired, made, up, playing, pt_stop >>
    BY <1>18 DEF AR!Look
  <2> QED BY <2>3, <2>4
<1>19. CASE AR!WorkerStop
  <2>1. job # AR!NoJob /\ job \in Jobs BY <1>19 DEF AR!WorkerStop, AR!NoJob
  <2>2. [job EXCEPT !.pc = "finish"] \in Jobs /\ [job EXCEPT !.pc = "finish"].on = job.on
    BY <2>1 DEF Jobs
  <2>3. pt_stop' \in [AR!Workers -> BOOLEAN] BY <1>19 DEF AR!WorkerStop
  <2> QED BY <1>19, <2>1, <2>2, <2>3 DEF AR!WorkerStop
<1>20. CASE AR!WorkerFinish
  <2>1. job # AR!NoJob /\ job \in Jobs BY <1>20 DEF AR!WorkerFinish, AR!NoJob
  <2>2. [job EXCEPT !.pc = "retire"] \in Jobs /\ [job EXCEPT !.pc = "retire"].on = job.on
    BY <2>1 DEF Jobs
  <2>3. playing' \in [AR!Workers -> Nat] /\ pt_stop' = pt_stop
    BY <1>20, FinishTyped DEF AR!WorkerFinish
  <2> QED BY <1>20, <2>1, <2>2, <2>3 DEF AR!WorkerFinish
<1>21. CASE AR!Retire BY <1>21 DEF AR!Retire
<1>22. CASE AR!RenderEnds
  <2>1. playing' \in [AR!Workers -> Nat] BY <1>22 DEF AR!RenderEnds
  <2> QED BY <1>22, <2>1 DEF AR!RenderEnds
<1>23. CASE AR!Die
  <2>1. playing' \in [AR!Workers -> Nat] BY <1>23 DEF AR!Die
  <2>2. up' \subseteq up /\ retired' \in BOOLEAN /\ connection' = connection BY <1>23 DEF AR!Die
  <2> QED BY <1>23, <2>1, <2>2 DEF AR!Die
<1>24. CASE AR!Rest BY <1>24 DEF AR!Rest, AR!androidVars
<1> QED BY <1>1, <1>2, <1>3, <1>4, <1>5, <1>6, <1>7, <1>8, <1>9, <1>10, <1>11, <1>12, <1>13,
           <1>14, <1>15, <1>16, <1>17, <1>18, <1>19, <1>20, <1>21, <1>22, <1>23, <1>24
    DEF AR!Next, AR!Synthesis, AR!Cancellation

-----------------------------------------------------------------------------
(* What the operators shared by the actions do to what the invariant reads. *)

\* A request is cancelled once, and a cancel starts the job of what it detached.
LEMMA CancelDoes ==
  ASSUME AndroidTypes, Answered, NEW r, AR!Cancel(r)
  PROVE  /\ r = 0 \/ r # request \/ cancelled \/ completed =>
              UNCHANGED << cancelled, resource, job >>
         /\ ~(r = 0 \/ r # request \/ cancelled \/ completed) =>
              /\ cancelled' /\ resource' = 0 /\ job = AR!NoJob
              /\ resource = 0 => job' = job
              /\ resource # 0 => /\ job' # AR!NoJob /\ job'.pc = "reuse?" /\ job'.for = request
                                 /\ job'.on = resource /\ job'.acknowledged = started
BY DEF AR!Cancel, AR!NoJob, Answered, AndroidTypes

\* Nobody but the start of a piece sets a worker to work.
Wanes == \A w \in AR!Workers : playing'[w] = playing[w] \/ playing'[w] = 0

LEMMA FinishWanes ==
  ASSUME AndroidTypes, NEW w, AR!NativeFinish(w)
  PROVE  Wanes
BY DEF AndroidTypes, AR!NativeFinish, Wanes

LEMMA OthersWane ==
  ASSUME AndroidTypes, AR!Next, ~AR!Start
  PROVE  Wanes
<1> USE DEF AR!Goes, AR!NoCancel, AR!Job, AR!requestVars, AR!stopVars, AR!workerVars,
            AR!nativeVars, AR!androidVars
<1>1. CASE UNCHANGED playing BY <1>1 DEF Wanes
<1>2. CASE AR!StopFlag \/ AR!StopRead \/ AR!StopCancel \/ AR!Enter \/ AR!Own \/ AR!Piece
           \/ AR!Open \/ AR!Attach
  BY <1>1, <1>2 DEF AR!StopFlag, AR!StopRead, AR!StopCancel, AR!Enter, AR!Own, AR!Piece,
                    AR!Open, AR!Attach
<1>3. CASE AR!Acknowledge \/ AR!StopAfterStart \/ AR!Loop \/ AR!Pull \/ AR!Ending
           \/ AR!Complete \/ AR!Release \/ AR!Look \/ AR!WorkerStop \/ AR!Retire \/ AR!Rest
  BY <1>1, <1>3 DEF AR!Acknowledge, AR!StopAfterStart, AR!Loop, AR!Pull, AR!Ending,
                    AR!Complete, AR!Release, AR!Look, AR!WorkerStop, AR!Retire, AR!Rest
<1>4. CASE AR!Finish
  BY <1>1, <1>4, FinishWanes DEF AR!Finish
<1>5. CASE AR!WorkerFinish
  BY <1>1, <1>5, FinishWanes DEF AR!WorkerFinish
<1>6. CASE AR!RenderEnds
  BY <1>6 DEF AR!RenderEnds, Wanes, AndroidTypes
<1>7. CASE AR!Die
  BY <1>7 DEF AR!Die, Wanes, AndroidTypes
<1> QED BY <1>2, <1>3, <1>4, <1>5, <1>6, <1>7 DEF AR!Next, AR!Synthesis, AR!Cancellation

-----------------------------------------------------------------------------
(* Numbers.                                                                *)

LEMMA NumberedStep ==
  ASSUME AndroidTypes, Numbered, Answered, AR!Next
  PROVE  Numbered'
<1> USE DEF AndroidTypes, Active, Serving, AR!Goes, AR!NoCancel, AR!Job, AR!requestVars,
            AR!stopVars, AR!workerVars, AR!nativeVars
<1> DEFINE Hold == IF stage \in Active THEN request = spoken /\ spoken # 0
                   ELSE request = 0 /\ job = AR!NoJob
           Fits(w) == /\ playing[w] <= spoken /\ (stage = "entered" => playing[w] < spoken)
                      /\ playing[w] # 0 => w \in up
<1>0. made \in Nat /\ MaxWorker \in Nat /\ made <= MaxWorker /\ AR!Workers = 1 .. MaxWorker
  BY ServiceAssumption DEF AR!Workers
<1>1. Hold /\ (stage = "entered" => spoken # 0) /\ (\A w \in AR!Workers : Fits(w))
  BY DEF Numbered
<1>2. SUFFICES Hold' /\ (stage' = "entered" => spoken' # 0) /\ (\A w \in AR!Workers : Fits(w)')
  BY DEF Numbered
<1>3. Hold' /\ (stage' = "entered" => spoken' # 0)
  <2>1. CASE AR!StopFlag BY <1>1, <2>1 DEF AR!StopFlag
  <2>2. CASE AR!StopRead BY <1>1, <2>2 DEF AR!StopRead
  <2>3. CASE AR!StopCancel BY <1>1, <2>3, CancelDoes DEF AR!StopCancel
  <2>4. CASE AR!Enter BY <1>1, <2>4 DEF AR!Enter
  <2>5. CASE AR!Own BY <1>1, <2>5 DEF AR!Own
  <2>6. CASE AR!Piece BY <1>1, <2>6 DEF AR!Piece
  <2>7. CASE AR!Open BY <1>1, <2>7 DEF AR!Open
  <2>8. CASE AR!Attach BY <1>1, <2>8 DEF AR!Attach
  <2>9. CASE AR!Start BY <1>1, <2>9 DEF AR!Start
  <2>10. CASE AR!Acknowledge BY <1>1, <2>10 DEF AR!Acknowledge
  <2>11. CASE AR!StopAfterStart BY <1>1, <2>11 DEF AR!StopAfterStart
  <2>12. CASE AR!Loop BY <1>1, <2>12 DEF AR!Loop
  <2>13. CASE AR!Pull BY <1>1, <2>13 DEF AR!Pull
  <2>14. CASE AR!Ending BY <1>1, <2>14 DEF AR!Ending
  <2>15. CASE AR!Finish BY <1>1, <2>15 DEF AR!Finish
  <2>16. CASE AR!Complete BY <1>1, <2>16 DEF AR!Complete
  <2>17. CASE AR!Release BY <1>1, <2>17 DEF AR!Release, AR!Settled
  <2>18. CASE AR!Look BY <1>1, <2>18 DEF AR!Look, AR!NoJob
  <2>19. CASE AR!WorkerStop BY <1>1, <2>19 DEF AR!WorkerStop, AR!NoJob
  <2>20. CASE AR!WorkerFinish BY <1>1, <2>20 DEF AR!WorkerFinish, AR!NoJob
  <2>21. CASE AR!Retire BY <1>1, <2>21 DEF AR!Retire, AR!NoJob
  <2>22. CASE AR!RenderEnds BY <1>1, <2>22 DEF AR!RenderEnds
  <2>23. CASE AR!Die BY <1>1, <2>23 DEF AR!Die
  <2>24. CASE AR!Rest BY <1>1, <2>24 DEF AR!Rest, AR!androidVars
  <2> QED BY <2>1, <2>2, <2>3, <2>4, <2>5, <2>6, <2>7, <2>8, <2>9, <2>10, <2>11, <2>12, <2>13,
             <2>14, <2>15, <2>16, <2>17, <2>18, <2>19, <2>20, <2>21, <2>22, <2>23, <2>24
      DEF AR!Next, AR!Synthesis, AR!Cancellation
<1>4. ASSUME NEW w \in AR!Workers PROVE Fits(w)'
  <2>0. Fits(w) /\ playing[w] \in Nat BY <1>1
  <2>1. CASE AR!Start
    <3>1. CASE next \in up /\ playing' = [playing EXCEPT ![next] = request]
      BY <1>1, <2>0, <2>1, <3>1 DEF AR!Start
    <3>2. CASE UNCHANGED playing BY <2>0, <2>1, <3>2 DEF AR!Start
    <3> QED BY <2>1, <3>1, <3>2 DEF AR!Start
  <2>2. CASE AR!Die
    <3>1. PICK v \in up : up' = up \ {v} /\ playing' = [playing EXCEPT ![v] = 0]
      BY <2>2 DEF AR!Die
    <3> QED BY <2>0, <2>2, <3>1 DEF AR!Die
  <2>3. CASE ~AR!Start /\ ~AR!Die
    <3>1. playing'[w] = playing[w] \/ playing'[w] = 0 BY <2>3, OthersWane DEF Wanes
    <3>2. w \in up => w \in up'
      BY <2>3 DEF AR!Next, AR!Synthesis, AR!Cancellation, AR!StopFlag, AR!StopRead,
        AR!StopCancel, AR!Enter, AR!Own, AR!Piece, AR!Open, AR!Attach, AR!Acknowledge,
        AR!StopAfterStart, AR!Loop, AR!Pull, AR!Ending, AR!Finish, AR!Complete, AR!Release,
        AR!Look, AR!WorkerStop, AR!WorkerFinish, AR!Retire, AR!RenderEnds, AR!Rest, AR!androidVars
    <3>3. \/ spoken' = spoken /\ (stage' = "entered" => stage = "entered")
          \/ spoken' = spoken + 1
      BY <2>3 DEF AR!Next, AR!Synthesis, AR!Cancellation, AR!StopFlag, AR!StopRead,
        AR!StopCancel, AR!Enter, AR!Own, AR!Piece, AR!Open, AR!Attach, AR!Acknowledge,
        AR!StopAfterStart, AR!Loop, AR!Pull, AR!Ending, AR!Finish, AR!Complete, AR!Release,
        AR!Look, AR!WorkerStop, AR!WorkerFinish, AR!Retire, AR!RenderEnds, AR!Rest, AR!androidVars
    <3>4. spoken \in Nat OBVIOUS
    <3>5. 0 < spoken' \/ (spoken' = spoken /\ ~(stage' = "entered"))
      BY <1>3, <1>1, <3>3, <3>4
    <3> QED BY <2>0, <3>1, <3>2, <3>3, <3>4, <3>5
  <2> QED BY <2>1, <2>2, <2>3
<1> QED BY <1>3, <1>4

-----------------------------------------------------------------------------
(* The job and the request.                                                *)

LEMMA AnsweredStep ==
  ASSUME AndroidTypes, Numbered, Answered, AR!Next
  PROVE  Answered'
<1> USE DEF AndroidTypes, Active, Serving, Answered, AR!Goes, AR!NoCancel, AR!Job, AR!NoJob,
            AR!requestVars, AR!stopVars, AR!workerVars, AR!nativeVars
<1>0. stage \in {"idle", "entered"} => job = AR!NoJob BY DEF Numbered
<1>a. job # AR!NoJob => job \in Jobs OBVIOUS
<1>1. CASE AR!StopFlag BY <1>0, <1>1 DEF AR!StopFlag
<1>2. CASE AR!StopRead BY <1>0, <1>2 DEF AR!StopRead
<1>3. CASE AR!StopCancel BY <1>0, <1>3, CancelDoes DEF AR!StopCancel
<1>4. CASE AR!Enter BY <1>0, <1>4 DEF AR!Enter
<1>5. CASE AR!Own BY <1>0, <1>5 DEF AR!Own
<1>6. CASE AR!Piece BY <1>0, <1>6 DEF AR!Piece
<1>7. CASE AR!Open BY <1>0, <1>7 DEF AR!Open
<1>8. CASE AR!Attach BY <1>0, <1>8 DEF AR!Attach
<1>9. CASE AR!Start BY <1>0, <1>9 DEF AR!Start
<1>10. CASE AR!Acknowledge BY <1>0, <1>10 DEF AR!Acknowledge
<1>11. CASE AR!StopAfterStart BY <1>0, <1>11, CancelDoes DEF AR!StopAfterStart
<1>12. CASE AR!Loop BY <1>0, <1>12 DEF AR!Loop
<1>13. CASE AR!Pull BY <1>0, <1>13, CancelDoes DEF AR!Pull
<1>14. CASE AR!Ending BY <1>0, <1>14 DEF AR!Ending
<1>15. CASE AR!Finish BY <1>0, <1>15 DEF AR!Finish
<1>16. CASE AR!Complete BY <1>0, <1>16 DEF AR!Complete
<1>17. CASE AR!Release BY <1>0, <1>17 DEF AR!Release, AR!Settled
<1>18. CASE AR!Look
  <2>1. job # AR!NoJob /\ job \in Jobs /\ job.for = request /\ cancelled
    BY <1>a, <1>18 DEF AR!Look
  <2>2. job' # AR!NoJob => /\ job'.for = job.for
                           /\ job'.pc \in {"stop", "finish"} => job'.acknowledged
    BY <1>a, <2>1, <1>18 DEF AR!Look, Jobs
  <2>3. UNCHANGED << cancelled, request, completed, stage >> BY <1>18 DEF AR!Look
  <2>4. job' # AR!NoJob => /\ cancelled' /\ job'.for = request'
                           /\ job'.pc \in {"stop", "finish"} => job'.acknowledged
    BY <2>1, <2>2, <2>3
  <2>5. stage' \in Active => (completed' <=> stage' = "await") BY <2>3
  <2> QED BY <2>4, <2>5
<1>19. CASE AR!WorkerStop
  <2>1. job # AR!NoJob /\ job \in Jobs /\ job.for = request /\ cancelled
    BY <1>a, <1>19 DEF AR!WorkerStop
  <2>2. job' # AR!NoJob => /\ job'.for = job.for
                           /\ job'.pc \in {"stop", "finish"} => job'.acknowledged
    BY <1>a, <2>1, <1>19 DEF AR!WorkerStop, Jobs
  <2> QED BY <2>1, <2>2, <1>19 DEF AR!WorkerStop
<1>20. CASE AR!WorkerFinish
  <2>1. job # AR!NoJob /\ job \in Jobs /\ job.for = request /\ cancelled
    BY <1>a, <1>20 DEF AR!WorkerFinish
  <2>2. job' # AR!NoJob => /\ job'.for = job.for
                           /\ job'.pc \in {"stop", "finish"} => job'.acknowledged
    BY <1>a, <2>1, <1>20 DEF AR!WorkerFinish, Jobs
  <2> QED BY <2>1, <2>2, <1>20 DEF AR!WorkerFinish
<1>21. CASE AR!Retire BY <1>0, <1>21 DEF AR!Retire
<1>22. CASE AR!RenderEnds BY <1>0, <1>22 DEF AR!RenderEnds
<1>23. CASE AR!Die BY <1>0, <1>23 DEF AR!Die
<1>24. CASE AR!Rest BY <1>0, <1>24 DEF AR!Rest, AR!androidVars
<1> QED BY <1>1, <1>2, <1>3, <1>4, <1>5, <1>6, <1>7, <1>8, <1>9, <1>10, <1>11, <1>12, <1>13, <1>14,
           <1>15, <1>16, <1>17, <1>18, <1>19, <1>20, <1>21, <1>22, <1>23, <1>24
    DEF AR!Next, AR!Synthesis, AR!Cancellation

-----------------------------------------------------------------------------
(* A request that is not cancelled has one worker, and no stop on it.      *)

LEMMA AloneStep ==
  ASSUME AndroidTypes, Numbered, Answered, Alone, AR!Next
  PROVE  Alone'
<1> USE DEF AndroidTypes, Active, Serving, AR!Goes, AR!NoCancel, AR!Job, AR!requestVars,
            AR!stopVars, AR!workerVars, AR!nativeVars, Plays
<1>0. made \in Nat /\ MaxWorker \in Nat /\ made <= MaxWorker /\ AR!Workers = 1 .. MaxWorker
  BY ServiceAssumption DEF AR!Workers
<1>a. /\ stage \in Active => request = spoken /\ spoken # 0
      /\ stage \notin Active => request = 0 /\ job = AR!NoJob
      /\ \A w \in AR!Workers : stage = "entered" => playing[w] # spoken
  BY DEF Numbered
<1>b. job # AR!NoJob => cancelled BY DEF Answered
<1>c. AR!Start \/ Wanes BY OthersWane
<1> SUFFICES ASSUME ~cancelled'
             PROVE  /\ stage' \in {"piece", "opening", "attach", "start"} =>
                         \A w \in AR!Workers : ~Plays(w)'
                    /\ stage' \in Active \ {"await"} =>
                         \A w \in AR!Workers : Plays(w)' => w = resource' /\ ~pt_stop'[w]
                    /\ stage' \in Serving => resource' = next'
                    /\ stage' = "start" => ~started'
  BY DEF Alone
<1>1. CASE AR!StopFlag BY <1>a, <1>c, <1>1, <1>0 DEF AR!StopFlag, Alone, Wanes
<1>2. CASE AR!StopRead BY <1>a, <1>c, <1>2, <1>0 DEF AR!StopRead, Alone, Wanes
<1>3. CASE AR!StopCancel BY <1>a, <1>c, <1>3, CancelDoes DEF AR!StopCancel, Alone, Wanes
<1>4. CASE AR!Enter BY <1>a, <1>c, <1>4, <1>0 DEF AR!Enter, Alone, Wanes
<1>5. CASE AR!Own BY <1>a, <1>c, <1>5, <1>0 DEF AR!Own, Alone, Wanes
<1>6. CASE AR!Piece BY <1>a, <1>c, <1>6, <1>0 DEF AR!Piece, Alone, Wanes
<1>7. CASE AR!Open BY <1>a, <1>c, <1>7, <1>0 DEF AR!Open, Alone, Wanes
<1>8. CASE AR!Attach BY <1>a, <1>c, <1>8, <1>0 DEF AR!Attach, Alone, Wanes
<1>9. CASE AR!Start BY <1>a, <1>c, <1>9, <1>0 DEF AR!Start, Alone, Wanes
<1>10. CASE AR!Acknowledge BY <1>a, <1>c, <1>10, <1>0 DEF AR!Acknowledge, Alone, Wanes
<1>11. CASE AR!StopAfterStart BY <1>a, <1>c, <1>11, CancelDoes DEF AR!StopAfterStart, Alone, Wanes
<1>12. CASE AR!Loop BY <1>a, <1>c, <1>12, <1>0 DEF AR!Loop, Alone, Wanes
<1>13. CASE AR!Pull BY <1>a, <1>c, <1>13, CancelDoes DEF AR!Pull, AR!Audible, Alone, Wanes
<1>14. CASE AR!Ending BY <1>a, <1>c, <1>14, <1>0 DEF AR!Ending, Alone, Wanes
<1>15. CASE AR!Finish BY <1>a, <1>c, <1>15, <1>0 DEF AR!Finish, AR!NativeFinish, Alone, Wanes
<1>16. CASE AR!Complete BY <1>a, <1>c, <1>16, <1>0 DEF AR!Complete, Alone, Wanes
<1>17. CASE AR!Release BY <1>a, <1>c, <1>17, <1>0 DEF AR!Release, AR!Settled
<1>18. CASE AR!Look BY <1>a, <1>c, <1>18, <1>b DEF AR!Look, AR!NoJob, Alone, Wanes
<1>19. CASE AR!WorkerStop BY <1>a, <1>c, <1>19, <1>b DEF AR!WorkerStop, AR!NoJob, Alone, Wanes
<1>20. CASE AR!WorkerFinish BY <1>a, <1>c, <1>20, <1>b DEF AR!WorkerFinish, AR!NoJob, Alone, Wanes
<1>21. CASE AR!Retire BY <1>a, <1>c, <1>21, <1>b DEF AR!Retire, AR!NoJob, Alone, Wanes
<1>22. CASE AR!RenderEnds BY <1>a, <1>c, <1>22, <1>0 DEF AR!RenderEnds, Alone, Wanes
<1>23. CASE AR!Die BY <1>a, <1>c, <1>23, <1>0 DEF AR!Die, Alone, Wanes
<1>24. CASE AR!Rest BY <1>a, <1>c, <1>24, <1>0 DEF AR!Rest, Alone, Wanes, AR!androidVars
<1> QED BY <1>1, <1>2, <1>3, <1>4, <1>5, <1>6, <1>7, <1>8, <1>9, <1>10, <1>11, <1>12, <1>13, <1>14,
           <1>15, <1>16, <1>17, <1>18, <1>19, <1>20, <1>21, <1>22, <1>23, <1>24
    DEF AR!Next, AR!Synthesis, AR!Cancellation

-----------------------------------------------------------------------------
(* What a cancel leaves behind.                                            *)

LEMMA DoomedStep ==
  ASSUME AndroidTypes, Numbered, Answered, Alone, Doomed, AR!Next
  PROVE  Doomed'
<1> USE DEF AndroidTypes, Active, Serving, AR!Goes, AR!NoCancel, AR!Job, AR!requestVars,
            AR!stopVars, AR!workerVars, AR!nativeVars, AtWork
<1>0. made \in Nat /\ MaxWorker \in Nat /\ made <= MaxWorker /\ AR!Workers = 1 .. MaxWorker
  BY ServiceAssumption DEF AR!Workers
<1>a. /\ stage \in Active => request = spoken /\ spoken # 0
      /\ stage \notin Active => request = 0 /\ job = AR!NoJob
      /\ \A w \in AR!Workers : playing[w] # 0 => w \in up
  BY DEF Numbered
<1>b. job # AR!NoJob => cancelled BY DEF Answered
<1>c. stage = "start" \/ Wanes BY OthersWane DEF AR!Start
<1>d. stage \in Active => (completed <=> stage = "await") BY DEF Answered
<1>e. connection \in up => connection \in AR!Workers OBVIOUS
<1>f. \A w \in AR!Workers : w \in up => w = connection OBVIOUS
<1>g. \A w \in AR!Workers : stage \in Active \ {"await"} /\ ~cancelled /\ playing[w] = request => w = resource
  BY DEF Alone, Plays
<1>h. ~cancelled /\ stage = "start" => resource = next /\ ~started
  BY DEF Alone
<1> SUFFICES ASSUME cancelled'
             PROVE  /\ stage' \in Active /\ AtWork' => job' # AR!NoJob /\ job'.on = connection'
                    /\ stage' = "start" /\ next' \in up' =>
                          \/ retired'
                          \/ job' # AR!NoJob /\ job'.on = next' /\ ~job'.acknowledged
  BY DEF Doomed
<1>i. ASSUME NEW r, AR!Cancel(r), stage' \in Active => stage \in Active,
             stage' = "start" => stage = "start",
             UNCHANGED << request, connection, retired, up, playing, next, started >>
      PROVE  /\ stage' \in Active /\ AtWork' => job' # AR!NoJob /\ job'.on = connection'
             /\ stage' = "start" /\ next' \in up' =>
                   \/ retired'
                   \/ job' # AR!NoJob /\ job'.on = next' /\ ~job'.acknowledged
  <2>1. CASE cancelled
    <3>1. UNCHANGED job BY <1>i, <2>1, CancelDoes
    <3> QED BY <1>i, <2>1, <3>1 DEF Doomed
  <2>2. CASE ~cancelled
    <3>1. stage \in Active => stage # "await"
      BY <1>d, <1>i, <2>2, CancelDoes
    <3>2. resource # 0 => job' # AR!NoJob /\ job'.on = resource /\ job'.acknowledged = started
      BY <1>i, <2>2, CancelDoes
    <3>3. stage \in Active /\ AtWork => resource = connection /\ resource # 0
      BY <1>0, <1>e, <1>g, <2>2, <3>1
    <3>4. stage = "start" => resource = next /\ resource # 0 /\ ~started
      BY <1>h, <2>2
    <3>5. AtWork' = AtWork BY <1>i
    <3> HIDE DEF AtWork
    <3> QED BY <1>i, <3>2, <3>3, <3>4, <3>5
  <2> QED BY <2>1, <2>2
<1>1. CASE AR!StopFlag BY <1>0, <1>a, <1>c, <1>e, <1>f, <1>1 DEF AR!StopFlag, Doomed, Alone, Wanes
<1>2. CASE AR!StopRead BY <1>0, <1>a, <1>c, <1>e, <1>f, <1>2 DEF AR!StopRead, Doomed, Alone, Wanes
<1>3. CASE AR!StopCancel BY <1>i, <1>3 DEF AR!StopCancel
<1>4. CASE AR!Enter BY <1>0, <1>a, <1>c, <1>e, <1>f, <1>4 DEF AR!Enter, Doomed, Alone, Wanes
<1>5. CASE AR!Own BY <1>0, <1>a, <1>c, <1>e, <1>f, <1>5 DEF AR!Own, Doomed, Alone, Wanes
<1>6. CASE AR!Piece BY <1>0, <1>a, <1>c, <1>e, <1>f, <1>6 DEF AR!Piece, Doomed, Alone, Wanes
<1>7. CASE AR!Open BY <1>0, <1>a, <1>c, <1>e, <1>f, <1>7 DEF AR!Open, Doomed, Alone, Wanes
<1>8. CASE AR!Attach BY <1>0, <1>a, <1>c, <1>e, <1>f, <1>8 DEF AR!Attach, Doomed, Alone, Wanes
<1>9. CASE AR!Start BY <1>0, <1>a, <1>c, <1>e, <1>f, <1>9 DEF AR!Start, Doomed, Alone, Wanes
<1>10. CASE AR!Acknowledge BY <1>0, <1>a, <1>c, <1>e, <1>f, <1>10 DEF AR!Acknowledge, Doomed, Alone, Wanes
<1>11. CASE AR!StopAfterStart
  <2>1. CASE AR!Cancel(request) BY <1>i, <1>11, <2>1 DEF AR!StopAfterStart
  <2>2. CASE AR!NoCancel BY <1>11, <2>2 DEF AR!StopAfterStart, Doomed
  <2> QED BY <1>11, <2>1, <2>2 DEF AR!StopAfterStart
<1>12. CASE AR!Loop BY <1>0, <1>a, <1>c, <1>e, <1>f, <1>12 DEF AR!Loop, Doomed, Alone, Wanes
<1>13. CASE AR!Pull
  <2>1. CASE AR!Cancel(request) BY <1>i, <1>13, <2>1 DEF AR!Pull
  <2>2. CASE AR!NoCancel BY <1>13, <2>2 DEF AR!Pull, Doomed
  <2> QED BY <1>13, <2>1, <2>2 DEF AR!Pull
<1>14. CASE AR!Ending BY <1>0, <1>a, <1>c, <1>e, <1>f, <1>14 DEF AR!Ending, Doomed, Alone, Wanes
<1>15. CASE AR!Finish BY <1>0, <1>a, <1>c, <1>e, <1>f, <1>15 DEF AR!Finish, Doomed, Alone, Wanes
<1>16. CASE AR!Complete BY <1>0, <1>a, <1>c, <1>e, <1>f, <1>16 DEF AR!Complete, Doomed, Alone, Wanes
<1>17. CASE AR!Release BY <1>0, <1>a, <1>c, <1>e, <1>f, <1>17 DEF AR!Release, AR!Settled
<1>18. CASE AR!Look
  <2>1. job # AR!NoJob /\ cancelled /\ stage \in Active /\ request # 0
    BY <1>a, <1>b, <1>18 DEF AR!Look, AR!NoJob
  <2>2. UNCHANGED << stage, request, cancelled, connection, retired, up, playing, next >>
    BY <1>18 DEF AR!Look
  <2>3. job \in Jobs BY <2>1
  <2>4. CASE job.acknowledged /\ job.on \in up /\ AR!Quiet(job.on) /\ job' = AR!NoJob
    BY <2>1, <2>2, <2>4 DEF AR!Quiet, Doomed
  <2>5. CASE job.acknowledged /\ job' = [job EXCEPT !.pc = "stop"]
    <3>1. job' # AR!NoJob /\ job'.on = job.on BY <2>3, <2>5 DEF Jobs, AR!NoJob
    <3> QED BY <2>1, <2>2, <2>5, <3>1 DEF Doomed
  <2>6. CASE job' = [job EXCEPT !.pc = "retire"]
    <3>1. /\ job' # AR!NoJob /\ job'.on = job.on
          /\ job'.acknowledged = job.acknowledged
      BY <2>3, <2>6 DEF Jobs, AR!NoJob
    <3> QED BY <2>1, <2>2, <3>1 DEF Doomed
  <2> QED BY <1>18, <2>4, <2>5, <2>6 DEF AR!Look
<1>19. CASE AR!WorkerStop BY <1>0, <1>a, <1>c, <1>e, <1>f, <1>19, <1>b DEF AR!WorkerStop, AR!NoJob, AR!Quiet, Doomed, Wanes
<1>20. CASE AR!WorkerFinish
  <2>1. job # AR!NoJob /\ cancelled /\ stage \in Active /\ request # 0
        /\ (job \in Jobs => job.acknowledged)
    BY <1>a, <1>b, <1>20 DEF AR!WorkerFinish, AR!NoJob, Answered
  <2>2. UNCHANGED << stage, request, cancelled, connection, retired, up, next >>
    BY <1>20 DEF AR!WorkerFinish
  <2>3. job \in Jobs BY <2>1
  <2>4. AtWork' => AtWork
    <3>1. Wanes BY <1>20, OthersWane DEF AR!WorkerFinish, AR!Start
    <3> QED BY <1>e, <2>1, <2>2, <3>1 DEF Wanes
  <2>5. CASE job.on \in up /\ playing'[job.on] = 0 /\ job' = AR!NoJob
    BY <2>1, <2>2, <2>3, <2>4, <2>5 DEF Doomed
  <2>6. CASE job' = [job EXCEPT !.pc = "retire"]
    <3>1. /\ job' # AR!NoJob /\ job'.on = job.on
          /\ job'.acknowledged = job.acknowledged
      BY <2>3, <2>6 DEF Jobs, AR!NoJob
    <3> QED BY <2>1, <2>2, <2>4, <3>1 DEF Doomed
  <2> QED BY <1>20, <2>5, <2>6 DEF AR!WorkerFinish
<1>21. CASE AR!Retire BY <1>0, <1>a, <1>c, <1>e, <1>f, <1>21, <1>b DEF AR!Retire, AR!NoJob, AR!Quiet, Doomed, Wanes
<1>22. CASE AR!RenderEnds BY <1>0, <1>a, <1>c, <1>e, <1>f, <1>22 DEF AR!RenderEnds, Doomed, Alone, Wanes
<1>23. CASE AR!Die BY <1>0, <1>a, <1>c, <1>e, <1>f, <1>23 DEF AR!Die, Doomed, Alone, Wanes
<1>24. CASE AR!Rest BY <1>0, <1>a, <1>c, <1>e, <1>f, <1>24 DEF AR!Rest, Doomed, Alone, Wanes, AR!androidVars
<1> QED BY <1>1, <1>2, <1>3, <1>4, <1>5, <1>6, <1>7, <1>8, <1>9, <1>10, <1>11, <1>12, <1>13, <1>14,
           <1>15, <1>16, <1>17, <1>18, <1>19, <1>20, <1>21, <1>22, <1>23, <1>24
    DEF AR!Next, AR!Synthesis, AR!Cancellation

LEMMA AndroidStep ==
  ASSUME AndroidInv, AR!Next
  PROVE  AndroidInv'
<1>1. AndroidTypes /\ Numbered /\ Answered /\ Alone /\ Doomed BY DEF AndroidInv
<1>2. AndroidTypes' BY <1>1, AndroidTypesStep
<1>3. Numbered' BY <1>1, NumberedStep
<1>4. Answered' BY <1>1, AnsweredStep
<1>5. Alone' BY <1>1, AloneStep
<1>6. Doomed' BY <1>1, DoomedStep
<1> QED BY <1>2, <1>3, <1>4, <1>5, <1>6 DEF AndroidInv

LEMMA AndroidRests ==
  ASSUME AndroidInv, UNCHANGED serviceVars
  PROVE  AndroidInv'
<1> USE DEF serviceVars
<1>1. AndroidTypes' BY DEF AndroidInv, AndroidTypes
<1>2. Numbered' BY DEF AndroidInv, Numbered
<1>3. Answered' BY DEF AndroidInv, Answered
<1>4. Alone' BY DEF AndroidInv, Alone, Plays
<1>5. Doomed' BY DEF AndroidInv, Doomed, AtWork
<1> QED BY <1>1, <1>2, <1>3, <1>4, <1>5 DEF AndroidInv

-----------------------------------------------------------------------------
(* Both pools.                                                             *)

LEMMA PoolsStep ==
  ASSUME IInv, AndroidInv, [PoolsNext]_allVars
  PROVE  IInv' /\ AndroidInv'
<1>1. CASE Hosted(Next)
  <2>1. [Next]_vars /\ UNCHANGED serviceVars BY <1>1 DEF Hosted
  <2> QED BY <2>1, StepInvariant, AndroidRests
<1>2. CASE Worked(AR!Next)
  <2>1. [Next]_vars /\ AR!Next BY <1>2 DEF Worked
  <2> QED BY <2>1, StepInvariant, AndroidStep
<1>3. CASE UNCHANGED allVars
  <2>1. [Next]_vars /\ UNCHANGED serviceVars BY <1>3 DEF allVars
  <2> QED BY <2>1, StepInvariant, AndroidRests
<1> QED BY <1>1, <1>2, <1>3 DEF PoolsNext

\* In host.py a render meets a host that was started with the settings promised
\* to it.  In PantheraRequest.kt the panthera-cancel thread decides about the
\* worker of the request in hand and of no other, and a request that was
\* cancelled leaves its worker quiet or doomed.  (One that a stop ends before it
\* cancels it may not: StartsOnQuiet is refuted.)
THEOREM RequestsServed == PoolsSpec => []RequestServed
<1>1. PoolsInit => IInv /\ AndroidInv BY InitInvariant, AndroidInit DEF PoolsInit
<1>2. IInv /\ AndroidInv /\ [PoolsNext]_allVars => IInv' /\ AndroidInv' BY PoolsStep
<1>3. IInv /\ AndroidInv => RequestServed BY AndroidSuffices DEF IInv, RequestServed
<1> QED BY <1>1, <1>2, <1>3, PTL DEF PoolsSpec
=============================================================================
