------------------------------- MODULE HostPool -------------------------------
(***************************************************************************)
(* The driver's host processes: the one in use, the standby, and the        *)
(* threads that start, promote and take them away.                          *)
(*                                                                         *)
(* NVDA's main thread speaks, cancels, changes settings and terminates the  *)
(* driver.  The worker renders one utterance at a time over the pipe of the *)
(* process _host() gives it.  A cancel that finds a render in flight starts *)
(* a retirement thread, which takes the process away if the response does   *)
(* not end.  _procLock guards _proc and _standby; _rendering, _renderSeq,   *)
(* _retiring, _restartWanted and _stopped are plain attributes any thread   *)
(* reads and writes between two steps of another.                           *)
(*                                                                         *)
(* What the process does inside is module HostServe.  Here it becomes       *)
(* ready, answers, ends its response, or does none of that.                 *)
(***************************************************************************)
EXTENDS Naturals, FiniteSets

CONSTANTS
  Handoff,      \* HANDOFF_GRACE is a number
  Faults,       \* what a process may do by itself: "crash", "refuse", "nostart"
  Timers,       \* retirement threads that may be alive at once
  MaxProc,      \* processes that may be started
  MaxItem,      \* utterances NVDA speaks
  MaxCancel,    \* cancels
  MaxSetting,   \* changes of an engine setting
  MaxAsked,     \* cancels and changes together
  Polls,        \* polls of a retirement thread within ABANDON_GRACE
  None          \* no process, no thread

ASSUME BoundsAssumption ==
  /\ {MaxProc, MaxItem, MaxCancel, MaxSetting, MaxAsked, Polls} \subseteq Nat
  /\ Handoff \in BOOLEAN /\ Faults \subseteq {"crash", "refuse", "nostart"}
  /\ IsFiniteSet(Timers) /\ Timers \cap {"worker", "main"} = {}
  /\ None \notin Timers \cup {"worker", "main"} /\ None \notin 1 .. MaxProc

VARIABLES
  proc, standby,      \* _proc, _standby
  lock,               \* the thread inside _procLock between two of its steps
  status, version,    \* of each process: its state, the settings it started with
  settings,           \* the engine settings, counted
  restartWanted, stopped,
  rendering, renderSeq, retiring, streaming,
  items, cancels,     \* utterances spoken, cancels made
  queued,             \* utterances waiting for the worker
  pc,                 \* where each thread is
  hand, spare,        \* the processes in each thread's locals
  seq, polls,         \* of a retirement thread: its render, its polls
  wanted, fed, tries, \* of the worker's utterance
  answered,           \* the response to its render has begun
  due, promised,      \* history: settings asked for, and when its render began
  asked,              \* history: the utterance was spoken after the last cancel
  faulted,            \* history: a process failed by itself
  cutOff              \* history: a wanted utterance ended unspoken

procVars   == <<proc, standby, lock, status, version>>
flagVars   == <<settings, restartWanted, stopped, due>>
renderVars == <<rendering, renderSeq, streaming, wanted, fed, tries, answered, promised>>
inputVars  == <<items, cancels, queued>>
threadVars == <<hand, spare, seq, polls>>
histVars   == <<asked, faulted, cutOff>>
vars == <<procVars, flagVars, renderVars, inputVars, threadVars, histVars,
          retiring, pc>>

Procs   == 1 .. MaxProc
Threads == Timers \cup {"worker", "main"}
MaybeProc(p) == p \in Procs \cup {None}
alive(p)  == p # None /\ status[p] \in {"starting", "ready"}

TypeOK ==
  /\ MaybeProc(proc) /\ MaybeProc(standby) /\ lock \in Threads \cup {None}
  /\ status \in [Procs -> {"unborn", "starting", "ready", "dead"}]
  /\ version \in [Procs -> 0 .. MaxSetting] /\ settings \in 0 .. MaxSetting
  /\ {restartWanted, stopped, rendering, retiring, streaming, wanted, fed,
      answered, asked, faulted, cutOff} \subseteq BOOLEAN
  /\ renderSeq \in 0 .. 2 * MaxItem
  /\ items \in 0 .. MaxItem /\ queued \in 0 .. MaxItem /\ cancels \in 0 .. MaxCancel
  /\ pc["main"] \in {"run", "abandon", "spawn", "flag", "swap", "stop", "gone"}
  /\ pc["worker"] \in {"take", "host", "discard", "choose", "begin", "write",
                       "read", "fail", "over", "end"}
  /\ \A t \in Timers : pc[t] \in {"off", "watch", "prepare", "recheck", "swap", "kill",
                           "killAll", "refill", "host", "discard", "choose", "done", "clear"}
  /\ \A t \in Threads : MaybeProc(hand[t]) /\ MaybeProc(spare[t])
  /\ seq \in [Timers -> 0 .. 2 * MaxItem] /\ polls \in [Timers -> 0 .. Polls]
  /\ tries \in 0 .. 2 /\ due \in 0 .. MaxSetting /\ promised \in 0 .. due

Init ==
  /\ proc = None /\ standby = None /\ lock = None
  /\ status = [p \in Procs |-> "unborn"] /\ version = [p \in Procs |-> 0]
  /\ settings = 0 /\ restartWanted = FALSE /\ stopped = FALSE
  /\ rendering = FALSE /\ renderSeq = 0 /\ retiring = FALSE /\ streaming = TRUE
  /\ items = 0 /\ cancels = 0 /\ queued = 0
  /\ pc = [t \in Threads |-> CASE t = "main" -> "run" [] t = "worker" -> "take"
                               [] OTHER -> "off"]
  /\ hand = [t \in Threads |-> None] /\ spare = [t \in Threads |-> None]
  /\ seq = [t \in Timers |-> 0] /\ polls = [t \in Timers |-> 0]
  /\ wanted = FALSE /\ fed = FALSE /\ tries = 0 /\ answered = FALSE
  /\ due = 0 /\ promised = 0
  /\ asked = FALSE /\ faulted = FALSE /\ cutOff = FALSE

Goto(t, label) == pc' = [pc EXCEPT ![t] = label]
Killed(S) == [p \in Procs |-> IF p \in S THEN "dead" ELSE status[p]]

\* _startHost: the settings are read as the process is made.
Fresh == {p \in Procs : status[p] = "unborn"}
Start(p) ==
  /\ p \in Fresh /\ \A q \in Fresh : p <= q
  /\ status' = [status EXCEPT ![p] = "starting"]
  /\ version' = [version EXCEPT ![p] = settings]
EvenIfStopped == TRUE
MayStart == ~stopped
CannotStart == ~MayStart \/ "nostart" \in Faults

-----------------------------------------------------------------------------
(* _host(), called by the worker for every render and by a retirement that  *)
(* had no standby to promote.                                              *)

HostEnter(t) ==
  /\ pc[t] = "host" /\ lock = None
  /\ lock' = t
  /\ Goto(t, IF restartWanted THEN "discard" ELSE "choose")
  /\ UNCHANGED <<proc, standby, status, version, flagVars, renderVars,
                 inputVars, threadVars, histVars, retiring>>

\* Both processes inherited the old environment.
Outdated == {proc, standby}

HostDiscard(t) ==
  /\ pc[t] = "discard"
  /\ restartWanted' = FALSE
  /\ status' = Killed(Outdated) /\ proc' = None
  /\ standby' = IF standby \in Outdated THEN None ELSE standby
  /\ Goto(t, "choose")
  /\ UNCHANGED <<lock, version, settings, stopped, due, renderVars, inputVars,
                 threadVars, histVars, retiring>>

\* What the call returns to; the lock is let go however it ends.
KeepsLockOnFailure(t, p) ==
  /\ lock' = IF p = None THEN t ELSE None
  /\ IF t = "worker" THEN hand' = [hand EXCEPT ![t] = p] ELSE UNCHANGED hand
  /\ Goto(t, IF t = "worker" THEN IF p = None THEN "fail" ELSE "begin" ELSE "done")
Given(t, p) ==
  /\ lock' = None
  /\ IF t = "worker" THEN hand' = [hand EXCEPT ![t] = p] ELSE UNCHANGED hand
  /\ Goto(t, IF t = "worker" THEN IF p = None THEN "fail" ELSE "begin" ELSE "done")

HostChoose(t) ==
  /\ pc[t] = "choose"
  /\ \/ /\ alive(proc) /\ Given(t, proc)
        /\ UNCHANGED <<proc, standby, status, version, faulted>>
     \/ /\ ~alive(proc) /\ alive(standby)
        /\ proc' = standby /\ standby' = None /\ Given(t, standby)
        /\ UNCHANGED <<status, version, faulted>>
     \/ /\ ~alive(proc) /\ ~alive(standby) /\ MayStart
        /\ \E p \in Procs : Start(p) /\ proc' = p /\ Given(t, p)
        /\ standby' = None /\ UNCHANGED faulted
     \* _startHost raises
     \/ /\ ~alive(proc) /\ ~alive(standby) /\ (CannotStart \/ Fresh = {})
        /\ proc' = None /\ standby' = None /\ Given(t, None)
        /\ faulted' = (faulted \/ ~stopped)
        /\ UNCHANGED <<status, version>>
  /\ UNCHANGED <<flagVars, renderVars, inputVars, spare, seq, polls, asked, cutOff, retiring>>

Host(t) == HostEnter(t) \/ HostDiscard(t) \/ HostChoose(t)

-----------------------------------------------------------------------------
(* The worker: one utterance, rendered at most twice.                      *)

WorkerTake ==
  /\ pc["worker"] = "take"
  /\ \/ /\ stopped /\ Goto("worker", "end")
        /\ UNCHANGED <<queued, wanted, fed, tries, promised, asked>>
     \/ /\ ~stopped /\ queued > 0 /\ queued' = queued - 1
        /\ wanted' = TRUE /\ fed' = FALSE /\ tries' = 1 /\ promised' = due
        /\ asked' = (pc["main"] \notin {"abandon", "spawn"})
        /\ Goto("worker", "host")
  /\ UNCHANGED <<procVars, flagVars, rendering, renderSeq, streaming, answered,
                 items, cancels, threadVars, faulted, cutOff,
                 retiring>>

WorkerBegin ==
  /\ pc["worker"] = "begin"
  /\ rendering' = TRUE /\ answered' = FALSE /\ Goto("worker", "write")
  /\ UNCHANGED <<procVars, flagVars, renderSeq, streaming, wanted, fed, tries,
                 promised, inputVars, threadVars, histVars, retiring>>

WorkerWrite ==
  /\ pc["worker"] = "write"
  /\ renderSeq' = renderSeq + 1
  /\ Goto("worker", IF alive(hand["worker"]) THEN "read" ELSE "fail")
  /\ UNCHANGED <<procVars, flagVars, rendering, streaming, wanted, fed, tries,
                 answered, promised, inputVars, threadVars, histVars, retiring>>

Reading == pc["worker"] = "read" /\ status[hand["worker"]] = "ready"

\* The response, as the process sends it: its header, its audio, its end.
Answer ==
  /\ Reading /\ ~answered
  /\ answered' = TRUE
  /\ UNCHANGED <<procVars, flagVars, rendering, renderSeq, streaming, wanted, fed,
                 tries, promised, inputVars, threadVars, histVars, retiring, pc>>

Chunk ==
  /\ Reading /\ answered /\ wanted /\ ~fed
  /\ fed' = TRUE
  /\ UNCHANGED <<procVars, flagVars, rendering, renderSeq, streaming, wanted, tries,
                 answered, promised, inputVars, threadVars, histVars, retiring, pc>>

ResponseEnds ==
  /\ Reading /\ answered
  /\ Goto("worker", "over") /\ tries' = 0
  /\ UNCHANGED <<procVars, flagVars, rendering, renderSeq, streaming, wanted, fed,
                 answered, promised, inputVars, threadVars, histVars, retiring>>

\* The pipe closed under the read.
WorkerBroken ==
  /\ pc["worker"] = "read" /\ ~alive(hand["worker"])
  /\ Goto("worker", "fail")
  /\ UNCHANGED <<procVars, flagVars, renderVars, inputVars, threadVars, histVars,
                 retiring>>

\* The failed exchange drops the process it used, and no other: a process that
\* is no longer the current one was taken away by somebody else.
NeverRetired(p) == FALSE
DropsAny(p) == proc # None
DropsOwn(p) == p # None /\ proc = p
Retired(p)  == p # None /\ proc # p

WorkerFail ==
  /\ pc["worker"] = "fail" /\ lock = None
  /\ LET used == hand["worker"] IN
     /\ IF DropsOwn(used)
        THEN status' = Killed({proc}) /\ proc' = None
        ELSE UNCHANGED <<status, proc>>
     /\ streaming' = (streaming /\ (answered \/ Retired(used)))
  /\ Goto("worker", "over")
  /\ UNCHANGED <<standby, lock, version, flagVars, rendering, renderSeq, wanted, fed,
                 tries, answered, promised, inputVars, threadVars, histVars, retiring>>

RetryUntilHeard == tries # 0 /\ ~fed /\ wanted /\ ~stopped
MayRetry == tries = 1 /\ ~fed /\ wanted /\ ~stopped

\* _render's finally, and _flush's one retry of what was not heard at all.
WorkerOver ==
  /\ pc["worker"] = "over"
  /\ rendering' = FALSE /\ hand' = [hand EXCEPT !["worker"] = None]
  /\ answered' = FALSE
  /\ \/ /\ MayRetry
        /\ tries' = tries + 1 /\ promised' = due /\ Goto("worker", "host")
        /\ UNCHANGED cutOff
     \/ /\ ~MayRetry
        /\ tries' = 0 /\ Goto("worker", "take")
        /\ cutOff' = (cutOff \/ (tries # 0 /\ asked /\ ~stopped))
        /\ UNCHANGED promised
  /\ UNCHANGED <<procVars, flagVars, renderSeq, streaming, wanted, fed, inputVars,
                 spare, seq, polls, asked, faulted, retiring>>

Worker == \/ Host("worker") \/ WorkerTake \/ WorkerBegin \/ WorkerWrite
          \/ WorkerBroken \/ WorkerFail \/ WorkerOver

-----------------------------------------------------------------------------
(* The processes.                                                          *)

\* "ready," on its stderr.
Ready(p) ==
  /\ status[p] = "starting" /\ status' = [status EXCEPT ![p] = "ready"]
  /\ UNCHANGED <<proc, standby, lock, version, flagVars, renderVars, inputVars,
                 threadVars, histVars, retiring, pc>>

Crash(p) ==
  /\ "crash" \in Faults /\ alive(p)
  /\ status' = Killed({p}) /\ faulted' = TRUE
  /\ UNCHANGED <<proc, standby, lock, version, flagVars, renderVars, inputVars,
                 threadVars, asked, cutOff, retiring, pc>>

\* An executable older than the driver exits rather than answer 'TGR4'.
Refuse ==
  /\ "refuse" \in Faults /\ Reading /\ ~answered /\ streaming
  /\ status' = Killed({hand["worker"]}) /\ faulted' = TRUE
  /\ UNCHANGED <<proc, standby, lock, version, flagVars, renderVars, inputVars,
                 threadVars, asked, cutOff, retiring, pc>>

Process == Answer \/ Chunk \/ ResponseEnds \/ Refuse \/ \E p \in Procs : Ready(p) \/ Crash(p)

-----------------------------------------------------------------------------
(* A retirement thread: _retireIfStuck and _retire.                        *)

Over(t) == stopped \/ renderSeq # seq[t] \/ ~rendering

\* ABANDON_GRACE has passed.
NeverExpired(t) == FALSE
Expired(t) == polls[t] = Polls

\* The head of the loop.  The last poll is the one past the deadline.
TimerWatch(t) ==
  /\ pc[t] = "watch"
  /\ polls' = [polls EXCEPT ![t] = IF @ < Polls THEN @ + 1 ELSE @]
  /\ Goto(t, IF Over(t) THEN "clear"
             ELSE IF Expired(t) THEN "swap"
             ELSE IF Handoff /\ queued > 0 THEN "prepare" ELSE "watch")
  /\ UNCHANGED <<procVars, flagVars, renderVars, inputVars, hand, spare, seq,
                 histVars, retiring>>

\* _ensureStandby.
EnsureStandby ==
  \/ /\ stopped \/ restartWanted \/ ~alive(proc) \/ alive(standby)
     /\ UNCHANGED <<standby, status, version>>
  \/ /\ ~stopped /\ ~restartWanted /\ alive(proc) /\ ~alive(standby)
     /\ \/ \E p \in Procs : Start(p) /\ standby' = p
        \/ /\ CannotStart \/ Fresh = {}
           /\ standby' = None /\ UNCHANGED <<status, version>>

TimerPrepare(t) ==
  /\ pc[t] = "prepare" /\ lock = None
  /\ EnsureStandby
  /\ Goto(t, "recheck")
  /\ UNCHANGED <<proc, lock, flagVars, renderVars, inputVars, threadVars, histVars,
                 retiring>>

StandbyIsReady == standby # None /\ status[standby] = "ready"

\* The checks again after the time Popen took, then the handoff if its grace
\* and the cooldown have passed, which is the clock's choice.
TimerRecheck(t) ==
  /\ pc[t] = "recheck"
  /\ \/ Over(t) /\ Goto(t, "clear")
     \/ ~Over(t) /\ Goto(t, "watch")
     \/ ~Over(t) /\ queued > 0 /\ StandbyIsReady /\ Goto(t, "swap")
  /\ UNCHANGED <<procVars, flagVars, renderVars, inputVars, threadVars, histVars,
                 retiring>>

\* _retire: the swap comes before the kill.
TimerSwap(t) ==
  /\ pc[t] = "swap" /\ lock = None
  /\ LET promote == ~stopped /\ ~restartWanted /\ alive(standby) IN
     /\ proc' = IF promote THEN standby ELSE None
     /\ spare' = [spare EXCEPT ![t] = IF promote THEN None ELSE standby]
  /\ hand' = [hand EXCEPT ![t] = proc] /\ standby' = None
  /\ Goto(t, IF proc' = None THEN "killAll" ELSE "kill")
  /\ UNCHANGED <<lock, status, version, flagVars, renderVars, inputVars, seq, polls,
                 histVars, retiring>>

\* A promoted standby is replaced; with none to promote a host is started.
TimerKill(t) ==
  /\ pc[t] \in {"kill", "killAll"}
  /\ status' = Killed({hand[t], spare[t]})
  /\ hand' = [hand EXCEPT ![t] = None] /\ spare' = [spare EXCEPT ![t] = None]
  /\ Goto(t, IF stopped THEN "done" ELSE IF pc[t] = "kill" THEN "refill" ELSE "host")
  /\ UNCHANGED <<proc, standby, lock, version, flagVars, renderVars, inputVars, seq,
                 polls, histVars, retiring>>

TimerRefill(t) ==
  /\ pc[t] = "refill" /\ lock = None
  /\ EnsureStandby
  /\ Goto(t, "done")
  /\ UNCHANGED <<proc, lock, flagVars, renderVars, inputVars, threadVars, histVars,
                 retiring>>

\* The two finally clauses: each lowers the flag.
TimerDone(t) ==
  /\ pc[t] = "done"
  /\ retiring' = FALSE /\ Goto(t, "clear")
  /\ UNCHANGED <<procVars, flagVars, renderVars, inputVars, threadVars, histVars>>

TimerClear(t) ==
  /\ pc[t] = "clear"
  /\ retiring' = FALSE /\ Goto(t, "off")
  /\ seq' = [seq EXCEPT ![t] = 0] /\ polls' = [polls EXCEPT ![t] = 0]
  /\ UNCHANGED <<procVars, flagVars, renderVars, inputVars, hand, spare, histVars>>

Timer(t) == \/ TimerWatch(t) \/ TimerPrepare(t) \/ TimerRecheck(t) \/ TimerSwap(t)
            \/ TimerKill(t) \/ TimerRefill(t) \/ Host(t) \/ TimerDone(t) \/ TimerClear(t)

-----------------------------------------------------------------------------
(* NVDA's main thread.                                                     *)

Speak ==
  /\ pc["main"] = "run" /\ items < MaxItem
  /\ items' = items + 1 /\ queued' = queued + 1
  /\ UNCHANGED <<procVars, flagVars, renderVars, cancels, threadVars, histVars,
                 retiring, pc>>

\* cancel(): the epoch first, then a look at the render, then the drain.
Cancel ==
  /\ pc["main"] = "run" /\ cancels < MaxCancel
  /\ cancels + settings < MaxAsked
  /\ cancels' = cancels + 1 /\ wanted' = FALSE /\ asked' = FALSE
  /\ Goto("main", "abandon")
  /\ UNCHANGED <<procVars, flagVars, rendering, renderSeq, streaming, fed, tries,
                 answered, promised, items, queued, threadVars, faulted,
                 cutOff, retiring>>

MayAbandon == ~stopped /\ ~retiring /\ rendering

Abandon ==
  /\ pc["main"] = "abandon"
  /\ IF MayAbandon THEN retiring' = TRUE /\ Goto("main", "spawn") /\ UNCHANGED queued
     ELSE queued' = 0 /\ Goto("main", "run") /\ UNCHANGED retiring
  /\ UNCHANGED <<procVars, flagVars, renderVars, items, cancels, threadVars, asked, faulted,
                 cutOff>>

Spawn ==
  /\ pc["main"] = "spawn"
  /\ \E t \in Timers :
       /\ pc[t] = "off" /\ pc' = [pc EXCEPT ![t] = "watch", !["main"] = "run"]
       /\ seq' = [seq EXCEPT ![t] = renderSeq]
  /\ queued' = 0
  /\ UNCHANGED <<procVars, flagVars, renderVars, items, cancels, hand, spare, polls,
                 histVars, retiring>>

\* A setting the engine reads from its environment: the value, then the flag.
ChangeSetting ==
  /\ pc["main"] = "run" /\ settings < MaxSetting
  /\ cancels + settings < MaxAsked
  /\ settings' = settings + 1 /\ Goto("main", "flag")
  /\ UNCHANGED <<procVars, restartWanted, stopped, due, renderVars, inputVars,
                 threadVars, histVars, retiring>>

RestartHost ==
  /\ pc["main"] = "flag"
  /\ restartWanted' = TRUE /\ due' = settings /\ Goto("main", "run")
  /\ UNCHANGED <<procVars, settings, stopped, renderVars, inputVars, threadVars,
                 histVars, retiring>>

\* terminate(): the flag, then its own cancel, which finds it raised.
Terminate ==
  /\ pc["main"] = "run"
  /\ stopped' = TRUE /\ wanted' = FALSE /\ queued' = 0 /\ Goto("main", "swap")
  /\ UNCHANGED <<procVars, settings, restartWanted, due, rendering, renderSeq,
                 streaming, fed, tries, answered, promised, items, cancels, threadVars,
                 histVars, retiring>>

TerminateSwap ==
  /\ pc["main"] = "swap" /\ lock = None
  /\ hand' = [hand EXCEPT !["main"] = proc] /\ spare' = [spare EXCEPT !["main"] = standby]
  /\ proc' = None /\ standby' = None /\ Goto("main", "stop")
  /\ UNCHANGED <<lock, status, version, flagVars, renderVars, inputVars, seq, polls,
                 histVars, retiring>>

TerminateStop ==
  /\ pc["main"] = "stop"
  /\ status' = Killed({hand["main"], spare["main"]})
  /\ hand' = [hand EXCEPT !["main"] = None] /\ spare' = [spare EXCEPT !["main"] = None]
  /\ Goto("main", "gone")
  /\ UNCHANGED <<proc, standby, lock, version, flagVars, renderVars, inputVars, seq,
                 polls, histVars, retiring>>

Ending == TerminateSwap \/ TerminateStop
Main == Speak \/ Cancel \/ Abandon \/ Spawn \/ ChangeSetting \/ RestartHost
        \/ Terminate \/ Ending

Gone == /\ pc["main"] = "gone" /\ pc["worker"] = "end"
        /\ \A t \in Timers : pc[t] = "off"
        /\ UNCHANGED vars

Next == Main \/ Worker \/ (\E t \in Timers : Timer(t)) \/ Process \/ Gone

\* The threads of the driver run; a process owes nothing, and NVDA need do
\* nothing but finish what it began.
Spec == /\ Init /\ [][Next]_vars
        /\ WF_vars(Worker) /\ \A t \in Timers : WF_vars(Timer(t))
        /\ WF_vars(Abandon \/ Spawn \/ RestartHost \/ Ending)

-----------------------------------------------------------------------------
(* What must hold.                                                         *)

\* Every live process is the current one, the standby, or in the hands of a
\* thread about to stop it, so a driver that has shut down leaves none behind,
\* whatever retirement was in flight when terminate() was called.
NoOrphan ==
  /\ \A p \in Procs : alive(p) =>
       p \in {proc, standby} \cup {hand[t] : t \in Timers \cup {"main"}}
                            \cup {spare[t] : t \in Timers \cup {"main"}}
  /\ proc # None => proc # standby
  /\ pc["main"] = "gone" => proc = None /\ standby = None

\* A cancel, a retirement or a restart never turns streaming off for the
\* session: only a process that failed by itself does, whatever the order in
\* which the pipe closes and the process is swapped.
RetirementKeepsStreaming == streaming \/ faulted \/ stopped

\* A retirement that found no standby calls _host() too, and a restart that is
\* wanted by then discards both processes under whatever the worker renders
\* (_restartHost's comment has it happen "on the worker thread, with nothing in
\* flight").
RestartByRetirement == \E t \in Timers : HostDiscard(t)

\* A process in use dies by itself, or it is dropped by the render it failed, or
\* by the worker when its next render is to have new settings: a late failure
\* never takes down the process the next utterance is about to use, and a
\* retirement or terminate() kills only what it has taken out of use.  The one
\* exception is RestartByRetirement.
OnlyItsOwn ==
  [][\A p \in Procs : alive(p) /\ p \in {proc, standby} /\ status'[p] = "dead" =>
       \/ Crash(p)
       \/ p = hand["worker"] /\ (Refuse \/ WorkerFail)
       \/ HostDiscard("worker")
       \/ RestartByRetirement]_vars

\* An utterance is rendered by a process started with the settings NVDA had
\* asked for when its render began.
SettingsReachRender ==
  pc["worker"] \in {"begin", "write", "read"} => version[hand["worker"]] >= promised

\* A render some retirement thread watches ends, even if the process never
\* says another word.
WatchedRenderEnds ==
  \A t \in Timers :
    (pc[t] = "watch" /\ rendering /\ renderSeq = seq[t])
      ~> (~rendering \/ renderSeq # seq[t])

\* terminate() never deadlocks on _procLock and every thread comes to its end.
ShutdownCompletes ==
  stopped ~> (pc["main"] = "gone" /\ pc["worker"] = "end" /\ \A t \in Timers : pc[t] = "off")

\* pantheradriver.py, of the render counter: "A counter cannot be missed. The
\* question is 'is the render I was started for still the one in flight', and
\* that is what this answers."
WantedSurvives == ~cutOff \/ faulted
===============================================================================
