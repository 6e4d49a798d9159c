---------------------------- MODULE DispatchSources ----------------------------
(***************************************************************************)
(* The dispatch timer sources the host gives the 10.6 and 10.7 engines, and *)
(* the serial queue their handlers run on.                                  *)
(*                                                                         *)
(* The engine makes a source for a unit of work, arms it, resumes it and    *)
(* cancels it again, often from the source's own handler.  A source is a    *)
(* slot of a fixed table.  Resuming it starts a thread that waits out the   *)
(* timer, delivers the event handler, and once the source is cancelled      *)
(* delivers its cancellation handler and leaves; only then may the slot be  *)
(* given to another source.  The pool lock guards the table; running, armed *)
(* and the delay are read and written outside it.                           *)
(*                                                                         *)
(* A source is numbered by its making, which the code does not know: it has *)
(* only the slot.  The engine is assumed to use a source only before it     *)
(* cancels it, to resume it once, and not to cancel it while another of its *)
(* threads is arming it.  Every source has an event and a cancellation      *)
(* handler.  dispatch_suspend is left out.                                  *)
(***************************************************************************)
EXTENDS Naturals, Sequences, FiniteSets

CONSTANTS
  Cap,       \* slots of the table (256)
  Occupied,  \* how many of them sources never cancelled may hold
  MaxMade,   \* sources the engine makes
  MaxArm,    \* timers it sets
  Spins,     \* rounds a creation waits for a slot that is winding down (50)
  Targets,   \* what sources target: the "serial" queue, a "global" one
  Repeats,   \* whether a timer may have a period
  None       \* no source, no thread

ASSUME BoundsAssumption ==
  /\ {Cap, MaxMade, MaxArm} \subseteq Nat /\ Spins \in Nat \ {0}
  /\ Occupied \subseteq 0 .. Cap
  /\ None \notin 1 .. MaxMade /\ None \notin {"engine", "handler"}
  /\ Targets \subseteq {"serial", "global"} /\ Repeats \subseteq BOOLEAN

VARIABLES
  used,                       \* g_nsources
  lock,                       \* who holds the pool lock between two steps
  running, armed, now, repeat, rearm,
                              \* of each slot: running, armed, delay_ms = 0,
                              \* period_ms # 0, the rearm event
  retired, retiredAt, retireSeq, starting, thread, delivered,
  made, slotOf, target,       \* sources made, and of each its slot and queue
  phase, cancelled,           \* of each source, to the engine
  pc, arg, tries,             \* of each caller: where it is, its source, its spins
  tpc, timed, cleanup,        \* of each source's thread: where it is, whether its
                              \* wait has an end, which handler it delivers
  queue, current,             \* the serial queue's jobs, and the one it runs
  refused,                    \* creations answered with a bare handle
  arms,                       \* timers set
  due, revoked, cleaned       \* history, of each source: what became of the last
                              \* timer the engine set, it was cancelled from the
                              \* serial queue, its cleanup ran

slotVars   == <<used, running, armed, now, repeat, rearm, retired, retiredAt,
                retireSeq, starting, thread, delivered>>
sourceVars == <<made, slotOf, target, phase, cancelled>>
callVars   == <<pc, arg, tries, arms>>
threadVars == <<tpc, timed, cleanup, queue, current>>
histVars   == <<refused, due, revoked, cleaned>>
vars == <<lock, slotVars, sourceVars, callVars, threadVars, histVars>>

Slots   == 1 .. Cap
Sources == 1 .. MaxMade
Callers == {"engine", "handler"}

SlotOK ==
  /\ used \in 0 .. Cap /\ lock \in Callers \cup {None}
  /\ running \in [Slots -> BOOLEAN] /\ armed \in [Slots -> BOOLEAN]
  /\ now \in [Slots -> BOOLEAN] /\ repeat \in [Slots -> BOOLEAN]
  /\ rearm \in [Slots -> BOOLEAN] /\ retired \in [Slots -> BOOLEAN]
  /\ starting \in [Slots -> BOOLEAN] /\ delivered \in [Slots -> BOOLEAN]
  /\ retireSeq \in Nat /\ retiredAt \in [Slots -> 0 .. retireSeq]
  /\ thread \in [Slots -> Sources \cup {None}]
SourceOK ==
  /\ made \in 0 .. MaxMade /\ slotOf \in [Sources -> Slots \cup {None}]
  /\ target \in [Sources -> Targets \cup {None}]
  /\ phase \in [Sources -> {"none", "made", "resuming", "resumed"}]
  /\ cancelled \in [Sources -> BOOLEAN]
CallOK ==
  /\ pc \in [Callers -> {"idle", "create", "spawn", "publish", "signal", "retire"}]
  /\ arg \in [Callers -> Sources \cup {None}]
  /\ tries \in [Callers -> 0 .. Spins] /\ arms \in 0 .. MaxArm
ThreadOK ==
  /\ tpc \in [Sources -> {"unborn", "top", "now", "wait", "timeout", "deliver", "queued",
                          "enter", "in", "after", "end", "dead"}]
  /\ timed \in [Sources -> BOOLEAN] /\ cleanup \in [Sources -> BOOLEAN]
  /\ queue \in Seq(Sources) /\ current \in Sources \cup {None}
HistOK ==
  /\ refused \in 0 .. MaxMade /\ due \in [Sources -> {"none", "set", "read", "wiped"}]
  /\ revoked \in [Sources -> BOOLEAN] /\ cleaned \in [Sources -> BOOLEAN]

TypeOK == SlotOK /\ SourceOK /\ CallOK /\ ThreadOK /\ HistOK

Init ==
  /\ used \in Occupied /\ lock = None
  /\ running = [s \in Slots |-> FALSE] /\ armed = [s \in Slots |-> FALSE]
  /\ now = [s \in Slots |-> TRUE] /\ repeat = [s \in Slots |-> FALSE]
  /\ rearm = [s \in Slots |-> FALSE] /\ retired = [s \in Slots |-> FALSE]
  /\ retiredAt = [s \in Slots |-> 0] /\ retireSeq = 0
  /\ starting = [s \in Slots |-> FALSE] /\ thread = [s \in Slots |-> None]
  /\ delivered = [s \in Slots |-> FALSE]
  /\ made = 0 /\ slotOf = [g \in Sources |-> None] /\ target = [g \in Sources |-> None]
  /\ phase = [g \in Sources |-> "none"] /\ cancelled = [g \in Sources |-> FALSE]
  /\ pc = [c \in Callers |-> "idle"] /\ arg = [c \in Callers |-> None]
  /\ tries = [c \in Callers |-> 0] /\ arms = 0
  /\ tpc = [g \in Sources |-> "unborn"] /\ timed = [g \in Sources |-> FALSE]
  /\ cleanup = [g \in Sources |-> FALSE] /\ queue = <<>> /\ current = None
  /\ refused = 0 /\ due = [g \in Sources |-> "none"]
  /\ revoked = [g \in Sources |-> FALSE] /\ cleaned = [g \in Sources |-> FALSE]

-----------------------------------------------------------------------------
(* The calls.  They come from a thread of the engine's own and from the     *)
(* handler the serial queue is running, which cannot return meanwhile.      *)

InHandler == current # None /\ tpc[current] = "in"
MayCall(c) == pc[c] = "idle" /\ (c = "handler" => InHandler)
Known(g) == phase[g] # "none" /\ ~cancelled[g]

Create(c) ==
  /\ MayCall(c)
  /\ made + refused + Cardinality({d \in Callers : pc[d] = "create"}) < MaxMade
  /\ pc' = [pc EXCEPT ![c] = "create"] /\ tries' = [tries EXCEPT ![c] = Spins]
  /\ UNCHANGED <<lock, slotVars, sourceVars, arg, arms, threadVars, histVars>>

\* A retired slot whose thread has really finished, the oldest first.
Gone(s) == thread[s] = None \/ tpc[thread[s]] = "dead"
ReusesOnRetire(s) == retired[s] /\ ~starting[s]
ReusesUnpublished(s) == retired[s] /\ Gone(s)
Reusable(s) == retired[s] /\ ~starting[s] /\ Gone(s)
Oldest == {s \in Slots : Reusable(s) /\
             \A t \in Slots : Reusable(t) => retiredAt[s] <= retiredAt[t]}
BeyondTheTable == IF Oldest # {} THEN Oldest ELSE {used + 1} \cap 1 .. Cap + 1
Choice == IF Oldest # {} THEN Oldest ELSE {used + 1} \cap Slots
Winding == \E s \in Slots : retired[s] /\ ~Reusable(s)

\* The slot is chosen and cleared before another creator scans the table.
Claim(c) ==
  /\ pc[c] = "create" /\ tries[c] > 0 /\ lock = None
  /\ \E s \in Choice, t \in Targets :
       /\ used' = IF s > used THEN s ELSE used
       /\ made' = made + 1
       /\ slotOf' = [slotOf EXCEPT ![made + 1] = s]
       /\ target' = [target EXCEPT ![made + 1] = t]
       /\ phase' = [phase EXCEPT ![made + 1] = "made"]
       /\ running' = [running EXCEPT ![s] = FALSE]
       /\ armed' = [armed EXCEPT ![s] = FALSE] /\ now' = [now EXCEPT ![s] = TRUE]
       /\ repeat' = [repeat EXCEPT ![s] = FALSE]
       /\ rearm' = [rearm EXCEPT ![s] = FALSE]
       /\ retired' = [retired EXCEPT ![s] = FALSE]
       /\ retiredAt' = [retiredAt EXCEPT ![s] = 0]
       /\ starting' = [starting EXCEPT ![s] = FALSE]
       /\ thread' = [thread EXCEPT ![s] = None]
       /\ delivered' = [delivered EXCEPT ![s] = FALSE]
  /\ pc' = [pc EXCEPT ![c] = "idle"] /\ tries' = [tries EXCEPT ![c] = 0]
  /\ UNCHANGED <<lock, retireSeq, cancelled, arg, arms, threadVars, histVars>>

\* Only for something that is coming, and not for ever.
AwaitSlot(c) ==
  /\ pc[c] = "create" /\ lock = None /\ Choice = {} /\ Winding /\ tries[c] > 0
  /\ tries' = [tries EXCEPT ![c] = @ - 1]
  /\ UNCHANGED <<lock, slotVars, sourceVars, pc, arg, arms, threadVars, histVars>>

\* A bare handle: no timer and no handler can attach to it.
Refuse(c) ==
  /\ pc[c] = "create"
  /\ tries[c] = 0 \/ (lock = None /\ Choice = {} /\ ~Winding)
  /\ refused' = refused + 1
  /\ pc' = [pc EXCEPT ![c] = "idle"] /\ tries' = [tries EXCEPT ![c] = 0]
  /\ UNCHANGED <<lock, slotVars, sourceVars, arg, arms, threadVars, due, revoked,
                 cleaned>>

\* A delay, or a deadline already past.  The event is signalled after.
SetTimer(c) ==
  /\ MayCall(c) /\ arms < MaxArm /\ arms' = arms + 1
  /\ \E g \in Sources, soon \in BOOLEAN, again \in Repeats :
       /\ Known(g)
       /\ now' = [now EXCEPT ![slotOf[g]] = soon]
       /\ repeat' = [repeat EXCEPT ![slotOf[g]] = again]
       /\ armed' = [armed EXCEPT ![slotOf[g]] = TRUE]
       /\ due' = [due EXCEPT ![g] = "set"]
       /\ arg' = [arg EXCEPT ![c] = g]
  /\ pc' = [pc EXCEPT ![c] = "signal"]
  /\ UNCHANGED <<lock, used, running, rearm, retired, retiredAt, retireSeq, starting,
                 thread, delivered, sourceVars, tries, threadVars, refused, revoked, cleaned>>

\* The event exists once the source has been resumed.
NoSignal(s) == FALSE
Signalled(s) == running[s]

Signal(c) ==
  /\ pc[c] = "signal"
  /\ LET s == slotOf[arg[c]] IN
     rearm' = [rearm EXCEPT ![s] = @ \/ Signalled(s)]
  /\ pc' = [pc EXCEPT ![c] = "idle"] /\ arg' = [arg EXCEPT ![c] = None]
  /\ UNCHANGED <<lock, used, running, armed, now, repeat, retired, retiredAt, retireSeq,
                 starting, thread, delivered, sourceVars, tries, arms, threadVars, histVars>>

\* DISPATCH_TIME_FOREVER.
Disarm(c) ==
  /\ MayCall(c)
  /\ \E g \in Sources :
       /\ Known(g)
       /\ \E again \in Repeats : repeat' = [repeat EXCEPT ![slotOf[g]] = again]
       /\ armed' = [armed EXCEPT ![slotOf[g]] = FALSE]
       /\ now' = [now EXCEPT ![slotOf[g]] = TRUE]
       /\ due' = [due EXCEPT ![g] = "none"]
  /\ UNCHANGED <<lock, used, running, rearm, retired, retiredAt, retireSeq, starting,
                 thread, delivered, sourceVars, callVars, threadVars, refused, revoked,
                 cleaned>>

Resume(c) ==
  /\ MayCall(c) /\ lock = None
  /\ \E g \in Sources :
       /\ Known(g) /\ phase[g] = "made"
       /\ phase' = [phase EXCEPT ![g] = "resuming"]
       /\ running' = [running EXCEPT ![slotOf[g]] = TRUE]
       /\ starting' = [starting EXCEPT ![slotOf[g]] = TRUE]
       /\ arg' = [arg EXCEPT ![c] = g]
  /\ pc' = [pc EXCEPT ![c] = "spawn"]
  /\ UNCHANGED <<lock, used, armed, now, repeat, rearm, retired, retiredAt, retireSeq, thread,
                 delivered, made, slotOf, target, cancelled, tries, arms, threadVars,
                 histVars>>

\* CreateThread: the thread runs before its handle is known.
Spawn(c) ==
  /\ pc[c] = "spawn"
  /\ tpc' = [tpc EXCEPT ![arg[c]] = "top"] /\ pc' = [pc EXCEPT ![c] = "publish"]
  /\ UNCHANGED <<lock, slotVars, sourceVars, arg, tries, arms, timed, cleanup, queue,
                 current, histVars>>

Publish(c) ==
  /\ pc[c] = "publish" /\ lock = None
  /\ LET g == arg[c] IN
     /\ thread' = [thread EXCEPT ![slotOf[g]] = g]
     /\ starting' = [starting EXCEPT ![slotOf[g]] = FALSE]
     /\ phase' = [phase EXCEPT ![g] = "resumed"]
  /\ pc' = [pc EXCEPT ![c] = "idle"] /\ arg' = [arg EXCEPT ![c] = None]
  /\ UNCHANGED <<lock, used, running, armed, now, repeat, rearm, retired, retiredAt,
                 retireSeq, delivered, made, slotOf, target, cancelled, tries, arms,
                 threadVars, histVars>>

\* Under the lock, but running is read without it: the thread may leave its
\* loop before the cancellation is published.
Cancel(c) ==
  /\ MayCall(c) /\ lock = None /\ lock' = c
  /\ \E g \in Sources :
       /\ Known(g) /\ \A d \in Callers : arg[d] = g => pc[d] \in {"spawn", "publish"}
       /\ cancelled' = [cancelled EXCEPT ![g] = TRUE]
       /\ LET s == slotOf[g] IN
          /\ rearm' = [rearm EXCEPT ![s] = @ \/ running[s]]
          /\ running' = [running EXCEPT ![s] = FALSE]
          /\ armed' = [armed EXCEPT ![s] = FALSE]
       /\ due' = [due EXCEPT ![g] = "none"]
       /\ revoked' = [revoked EXCEPT ![g] = c = "handler"]
       /\ arg' = [arg EXCEPT ![c] = g]
  /\ pc' = [pc EXCEPT ![c] = "retire"]
  /\ UNCHANGED <<used, now, repeat, retired, retiredAt, retireSeq, starting, thread,
                 delivered, made, slotOf, target, phase, tries, arms, threadVars, refused,
                 cleaned>>

Retire(c) ==
  /\ pc[c] = "retire" /\ lock' = None
  /\ retireSeq' = retireSeq + 1
  /\ retiredAt' = [retiredAt EXCEPT ![slotOf[arg[c]]] = retireSeq']
  /\ retired' = [retired EXCEPT ![slotOf[arg[c]]] = TRUE]
  /\ pc' = [pc EXCEPT ![c] = "idle"] /\ arg' = [arg EXCEPT ![c] = None]
  /\ UNCHANGED <<used, running, armed, now, repeat, rearm, starting, thread, delivered,
                 sourceVars, tries, arms, threadVars, histVars>>

\* What a caller finishes once it has begun.
Finish(c) == \/ Claim(c) \/ AwaitSlot(c) \/ Refuse(c) \/ Signal(c) \/ Spawn(c)
             \/ Publish(c) \/ Retire(c)
Caller(c) == \/ Create(c) \/ SetTimer(c) \/ Disarm(c) \/ Resume(c) \/ Cancel(c)
             \/ Finish(c)

-----------------------------------------------------------------------------
(* The thread of a source: source_thread and source_deliver.                *)

Step(g, label) == tpc' = [tpc EXCEPT ![g] = label]

\* The head of the loop.  A timer already due is delivered without a wait.
Top(g) ==
  /\ tpc[g] = "top"
  /\ LET s == slotOf[g] IN
     \/ /\ ~running[s] /\ Step(g, "end") /\ UNCHANGED <<timed, due>>
     \/ /\ running[s]
        /\ timed' = [timed EXCEPT ![g] = armed[s] /\ ~now[s]]
        /\ due' = [due EXCEPT ![g] = IF armed[s] /\ @ = "set" THEN "read" ELSE @]
        /\ Step(g, IF armed[s] /\ now[s] THEN "now" ELSE "wait")
  /\ UNCHANGED <<lock, slotVars, sourceVars, callVars, cleanup, queue, current, refused,
                 revoked, cleaned>>

Woken(g) ==
  /\ tpc[g] = "wait" /\ rearm[slotOf[g]]
  /\ rearm' = [rearm EXCEPT ![slotOf[g]] = FALSE] /\ Step(g, "top")
  /\ timed' = [timed EXCEPT ![g] = FALSE]
  /\ UNCHANGED <<lock, used, running, armed, now, repeat, retired, retiredAt, retireSeq,
                 starting, thread, delivered, sourceVars, callVars, cleanup, queue, current,
                 histVars>>

Timeout(g) ==
  /\ tpc[g] = "wait" /\ timed[g] /\ ~rearm[slotOf[g]]
  /\ Step(g, "timeout") /\ timed' = [timed EXCEPT ![g] = FALSE]
  /\ UNCHANGED <<lock, slotVars, sourceVars, callVars, cleanup, queue, current,
                 histVars>>

\* armed = 0 takes whatever is armed by now: also a timer that was set after
\* this one was read.
Expire(g) ==
  /\ tpc[g] \in {"now", "timeout"}
  /\ IF tpc[g] = "now" \/ running[slotOf[g]]
     THEN /\ armed' = [armed EXCEPT ![slotOf[g]] = FALSE] /\ Step(g, "deliver")
          /\ due' = [due EXCEPT ![g] = IF @ = "set" THEN "wiped" ELSE @]
     ELSE Step(g, "end") /\ UNCHANGED <<armed, due>>
  /\ UNCHANGED <<lock, used, running, now, repeat, rearm, retired, retiredAt, retireSeq,
                 starting, thread, delivered, sourceVars, callVars, timed, cleanup, queue,
                 current, refused, revoked, cleaned>>

\* A job for the serial queue, or run on this thread.
Deliver(g) ==
  /\ tpc[g] = "deliver" /\ Step(g, "queued")
  /\ queue' = IF target[g] = "serial" THEN Append(queue, g) ELSE queue
  /\ UNCHANGED <<lock, slotVars, sourceVars, callVars, timed, cleanup, current, histVars>>

RunsAnyway(g) == TRUE
Runs(g) == cleanup[g] \/ running[slotOf[g]]

\* source_job_run: a cancelled event waiting behind another does not run.
Take(g) ==
  /\ tpc[g] = "queued"
  /\ IF target[g] = "serial"
     THEN /\ current = None /\ queue # <<>> /\ Head(queue) = g
          /\ queue' = Tail(queue) /\ current' = g
     ELSE UNCHANGED <<queue, current>>
  /\ Step(g, "enter")
  /\ UNCHANGED <<lock, slotVars, sourceVars, callVars, timed, cleanup, histVars>>

Enter(g) ==
  /\ tpc[g] = "enter"
  /\ Step(g, IF Runs(g) THEN "in" ELSE "after")
  /\ due' = [due EXCEPT ![g] = IF @ = "read" /\ Runs(g) /\ ~cleanup[g] THEN "none" ELSE @]
  /\ cleaned' = [cleaned EXCEPT ![g] = @ \/ cleanup[g]]
  /\ current' = IF current = g /\ ~Runs(g) THEN None ELSE current
  /\ UNCHANGED <<lock, slotVars, sourceVars, callVars, timed, cleanup, queue, refused,
                 revoked>>

\* The handler returns when what it called has.
Return(g) ==
  /\ tpc[g] = "in" /\ (current = g => pc["handler"] = "idle")
  /\ Step(g, "after") /\ current' = IF current = g THEN None ELSE current
  /\ UNCHANGED <<lock, slotVars, sourceVars, callVars, timed, cleanup, queue, histVars>>

\* A repeating timer arms itself again; a delivered cleanup is the end.
After(g) ==
  /\ tpc[g] = "after"
  /\ LET s == slotOf[g] IN
     IF ~cleanup[g] /\ repeat[s]
     THEN now' = [now EXCEPT ![s] = FALSE] /\ armed' = [armed EXCEPT ![s] = TRUE]
     ELSE UNCHANGED <<now, armed>>
  /\ Step(g, IF cleanup[g] THEN "dead" ELSE "top")
  /\ UNCHANGED <<lock, used, running, repeat, rearm, retired, retiredAt, retireSeq,
                 starting, thread, delivered, sourceVars, callVars, timed, cleanup, queue,
                 current, histVars>>

LeavesUnlocked == TRUE
MayLeave == lock = None

\* Out of the loop: the lock waits for the cancellation to be published.
End(g) ==
  /\ tpc[g] = "end" /\ MayLeave
  /\ LET s == slotOf[g] IN
     IF retired[s] /\ ~delivered[s]
     THEN /\ delivered' = [delivered EXCEPT ![s] = TRUE]
          /\ cleanup' = [cleanup EXCEPT ![g] = TRUE] /\ Step(g, "deliver")
     ELSE Step(g, "dead") /\ UNCHANGED <<delivered, cleanup>>
  /\ UNCHANGED <<lock, used, running, armed, now, repeat, rearm, retired, retiredAt,
                 retireSeq, starting, thread, sourceVars, callVars, timed, queue, current,
                 histVars>>

Thread(g) == \/ Top(g) \/ Woken(g) \/ Timeout(g) \/ Expire(g) \/ Deliver(g) \/ Take(g)
             \/ Enter(g) \/ Return(g) \/ After(g) \/ End(g)

Next == (\E c \in Callers : Caller(c)) \/ (\E g \in Sources : Thread(g))

\* Threads run, handlers return, and a call once made comes to its end.  The
\* engine need make none.
Spec == /\ Init /\ [][Next]_vars
        /\ \A c \in Callers : WF_vars(Finish(c))
        /\ \A g \in Sources : WF_vars(Thread(g))

-----------------------------------------------------------------------------
(* What must hold.                                                         *)

Alive(g) == tpc[g] \notin {"unborn", "dead"} \/ phase[g] = "resuming"

\* A slot is one source's at a time: while the engine may still use a source
\* or its thread is still about, in its handler, its cleanup or not yet
\* published, no other source is made in its slot, whoever creates it and
\* whenever it was cancelled.
SlotIsItsOwn ==
  \A g, h \in 1 .. made :
    g # h /\ slotOf[g] = slotOf[h] => ~((Known(g) \/ Alive(g)) /\ (Known(h) \/ Alive(h)))

\* An event handler never starts once its source was cancelled from the queue
\* it is delivered on, though its timer had fired and its job was waiting.
CancelledEventNeverRuns ==
  [][\A g \in Sources : tpc[g] = "enter" /\ tpc'[g] = "in" /\ ~cleanup[g]
       /\ target[g] = "serial" => ~revoked[g]]_vars

\* Every timer the engine sets calls it back for itself, or is disarmed or
\* cancelled: it is not lost to a resume in progress, to the handler it is set
\* from, nor to a delivery under way.  The exception is "wiped": a timer set
\* between a wait's timeout, or the look at a timer due at once, and the
\* armed = 0 after it is taken with the older one and the engine is called back
\* only for that, before its time.
TimerFires ==
  \A g \in Sources : []<>(phase[g] = "resumed" => due[g] \in {"none", "wiped"})

\* A source that was resumed and cancelled has its cancellation handler called,
\* from wherever it was cancelled and whatever its thread was doing.
CleanupComes ==
  \A g \in Sources : []<>(cancelled[g] /\ phase[g] = "resumed" => cleaned[g])
===============================================================================
