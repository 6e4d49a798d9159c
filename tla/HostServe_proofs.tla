-------------------------- MODULE HostServe_proofs --------------------------
(***************************************************************************)
(* What the host's serve loop guarantees for every number of requests and  *)
(* slices and every size of queue and ring.                                *)
(***************************************************************************)
EXTENDS HostServe, SequenceTheorems, TLAPS

-----------------------------------------------------------------------------
(* The invariant the theorems rest on, part by part.                       *)

\* Requests are numbered as they are served.
Numbering ==
  /\ utt <= written
  /\ ready => pc \in {"recv", "exit"} /\ request = None /\ written < MaxReq
  /\ request # None => pc \in {"recv", "exit"} /\ utt < written
  /\ pc \in {"reset", "bump"} => utt < written
  /\ eng <= utt /\ engNext <= utt

\* The engine rests with empty hands, and what it holds is of its utterance.
EngineAtRest ==
  /\ eng = 0 => engPc = "run" /\ engNext = 0
  /\ hold # None => hold.own = eng

TypeInv == TypeOK /\ Numbering /\ EngineAtRest

\* No slice in the engine's hands, on the queue or with the pacer is one the
\* engine will make again, and those below it have been scheduled.
Spoken == IF pc = "speak" THEN utt - 1 ELSE utt

SliceOrder ==
  /\ eng <= Spoken /\ engNext <= Spoken /\ (engNext # 0 => eng < engNext)
  /\ \A s \in owed : s.own <= Spoken
  /\ eng # 0 => \A s \in owed : s.own < eng \/ (s.own = eng /\ s.n <= made)

\* What is queued or held will be completed, and nothing will be twice.
Delivery ==
  /\ lost \subseteq owed
  /\ \A i \in 1 .. Len(pend) : pend[i].slice \in owed \ lost
  /\ job # None => job.slice \in owed \ lost
  /\ hold # None => hold \in owed \ lost
  /\ \A i, j \in 1 .. Len(pend) : pend[i].slice = pend[j].slice => i = j
  /\ job # None => \A i \in 1 .. Len(pend) : pend[i].slice # job.slice
  /\ hold # None => \A i \in 1 .. Len(pend) : pend[i].slice # hold
  /\ job # None /\ hold # None => job.slice # hold

\* Until a wait is outlasted, everything in flight is of this utterance, and
\* the engine and the pacer are at rest from its answer until the next text.
OfThis == {j \in Jobs : j.slice.own = utt}
AtRest == eng = 0 /\ pend = <<>> /\ pacer = "idle"

Separation ==
  /\ eng \in {0, utt} /\ engNext = 0
  /\ pend \in Seq(OfThis) /\ (job # None => job.slice.own = utt)
  /\ pc \in {"reset", "bump", "speak"} => out = <<>>
  /\ pc \in {"bump", "speak"} => pcm = <<>> /\ ~stopped /\ ~deferArm
  /\ pcm \in Seq(OfThis) /\ out \in Seq(OfThis)
  /\ stopped \/ deferArm => eng = 0
  /\ pc \in {"recv", "reset", "bump", "speak", "tail"} => AtRest
  /\ pc = "drain" => eng = 0

BleedInv == ~outlasted => Separation

\* The event, from the moment the serve thread consumed what was left of it.
CancelInv ==
  /\ pc \in {"speak", "wait", "tick"} /\ cancelEv => asked
  /\ pc = "settle" => asked
  /\ pc \in {"reset", "bump", "speak", "wait", "tick", "settle"} => ~cancelled
  /\ cancelled /\ utt = written => asked

\* The audio accepted for this utterance: the buffer has its beginning, the
\* rest is on its way there, in the order of the slices' numbers.
Holding   == pacer \in {"held", "keep"}
OnQueue(s) == \E k \in 1 .. Len(pend) : pend[k].slice = s
OnItsWay(s) == (Holding /\ job.slice = s) \/ OnQueue(s) \/ (hold # None /\ hold = s)
Uncollected == Len(pcm) + 1 .. Len(handed)
Expected(s) == s.audio => \E i \in Uncollected : handed[i] = s

Current ==
  /\ job # None => job.utt = utt
  /\ \A k \in 1 .. Len(pend) : pend[k].utt = utt

Ordered ==
  /\ \A i, j \in 1 .. Len(handed) : i < j => handed[i].n < handed[j].n
  /\ \A k, l \in 1 .. Len(pend) : k < l => pend[k].slice.n < pend[l].slice.n
  /\ job # None => \A k \in 1 .. Len(pend) : job.slice.n < pend[k].slice.n
  /\ hold # None => /\ \A k \in 1 .. Len(pend) : pend[k].slice.n < hold.n
                    /\ job # None => job.slice.n < hold.n
  /\ eng # 0 => /\ \A i \in 1 .. Len(handed) : handed[i].n <= made
                /\ \A k \in 1 .. Len(pend) : pend[k].slice.n <= made
                /\ job # None => job.slice.n <= made
                /\ hold # None => hold.n <= made

Gathered ==
  /\ Len(pcm) <= Len(handed)
  /\ \A i \in 1 .. Len(pcm) : pcm[i].slice = handed[i]
  /\ \A i \in 1 .. Len(handed) : handed[i].audio
  /\ \A i \in Uncollected : OnItsWay(handed[i])
  /\ Holding => Expected(job.slice)
  /\ \A k \in 1 .. Len(pend) : Expected(pend[k].slice)
  /\ hold # None => Expected(hold)
  /\ pc = "speak" => handed = <<>>

Undisturbed == ~outlasted /\ ~dropped /\ ~auCancel /\ ~(pc \in {"reset", "bump", "exit"})
GatherInv == Undisturbed => Current /\ Ordered /\ Gathered

\* What was sent is a beginning of the buffer, and all of it once answered.
Begins ==
  /\ Len(out) <= Len(pcm)
  /\ \A i \in 1 .. Len(out) : out[i] = pcm[i]
  /\ pc = "recv" /\ ~cancelled => Len(out) = Len(pcm)

SentInv == ~outlasted => Begins

\* The pacer stops collecting only for an utterance that was cancelled.
StopInv == auCancel => cancelled \/ pc \in {"settle", "reset", "exit"}

\* resBusy is held for exactly the length of a request.
TimerInv == ~(pc \in {"recv", "exit"}) => resHeld /\ resBusy

-----------------------------------------------------------------------------
(* What a step may touch.  Each lemma names every action that changes one   *)
(* group of variables; the invariants are then proved against those alone.  *)

Scheduled == \E audio \in BOOLEAN : EngineSchedule(audio)

LEMMA ClientFrame ==
  [Next]_vars => \/ ClientClear \/ ClientWrite \/ ClientCancel \/ ServeReceive
                 \/ UNCHANGED clientVars
BY DEF vars, Next, Client, Serve, Pacer, Engine, ClientClose, ServeReset, ServeBump,
  ServeSpeak, ServeStopped, ServeGivesUp, ServeSleep, ServeArmed, ServeCancel,
  ServePoll, ServeSettleTick, ServeUnsettled, ServeDrained, ServeUndrained,
  ServeTail, PacerTake, PacerDecide, PacerCollect, PacerComplete, PacerRelease,
  EngineSchedule, EngineQueue, EngineDrop, EngineReset, EngineResetReturn,
  EngineResetDies, EngineEnterCall, EngineLeaveCall, EngineFinish, Gone

LEMMA ServeFrame ==
  [Next]_vars => \/ ServeReceive \/ ServeSpeak \/ ServeCancel \/ ServePoll
                 \/ ServeSettleTick \/ ServeTail \/ UNCHANGED serveVars
BY DEF vars, Next, Client, Serve, Pacer, Engine, ClientClear, ClientWrite,
  ClientCancel, ClientClose, ServeReset, ServeBump, ServeStopped, ServeGivesUp,
  ServeSleep, ServeArmed, ServeUnsettled, ServeDrained, ServeUndrained,
  PacerTake, PacerDecide, PacerCollect, PacerComplete, PacerRelease,
  EngineSchedule, EngineQueue, EngineDrop, EngineReset, EngineResetReturn,
  EngineResetDies, EngineEnterCall, EngineLeaveCall, EngineFinish, Gone

LEMMA UttFrame ==
  [Next]_vars => \/ ServeReset \/ ServeBump \/ ServeCancel \/ ServePoll
                 \/ ServeSettleTick \/ PacerCollect \/ Scheduled \/ EngineDrop
                 \/ EngineFinish \/ UNCHANGED uttVars
BY DEF vars, Next, Client, Serve, Pacer, Engine, Scheduled, ClientClear,
  ClientWrite, ClientCancel, ClientClose, ServeReceive, ServeSpeak, ServeStopped,
  ServeGivesUp, ServeSleep, ServeArmed, ServeUnsettled, ServeDrained,
  ServeUndrained, ServeTail, PacerTake, PacerDecide, PacerComplete, PacerRelease,
  EngineQueue, EngineReset, EngineResetReturn, EngineResetDies,
  EngineEnterCall, EngineLeaveCall, Gone

LEMMA PacerFrame ==
  [Next]_vars => \/ PacerTake \/ PacerDecide \/ PacerCollect \/ PacerComplete
                 \/ EngineQueue \/ UNCHANGED pacerVars
BY DEF vars, Next, Client, Serve, Pacer, Engine, ClientClear, ClientWrite,
  ClientCancel, ClientClose, ServeReceive, ServeReset, ServeBump, ServeSpeak,
  ServeStopped, ServeGivesUp, ServeSleep, ServeArmed, ServeCancel, ServePoll,
  ServeSettleTick, ServeUnsettled, ServeDrained, ServeUndrained, ServeTail,
  PacerRelease, EngineSchedule, EngineDrop, EngineReset, EngineResetReturn,
  EngineResetDies, EngineEnterCall, EngineLeaveCall, EngineFinish, Gone

LEMMA EngineFrame ==
  [Next]_vars => \/ ServeSpeak \/ PacerComplete \/ Scheduled \/ EngineQueue
                 \/ EngineDrop \/ EngineReset \/ EngineResetReturn
                 \/ EngineEnterCall \/ EngineLeaveCall \/ EngineFinish
                 \/ UNCHANGED engVars
BY DEF vars, Next, Client, Serve, Pacer, Engine, Scheduled, ClientClear,
  ClientWrite, ClientCancel, ClientClose, ServeReceive, ServeReset, ServeBump,
  ServeStopped, ServeGivesUp, ServeSleep, ServeArmed, ServeCancel, ServePoll,
  ServeSettleTick, ServeUnsettled, ServeDrained, ServeUndrained, ServeTail,
  PacerTake, PacerDecide, PacerCollect, PacerRelease, EngineResetDies, Gone

LEMMA RestFrame ==
  [Next]_vars =>
    /\ \/ ServeReceive \/ ServeTail \/ PacerRelease \/ UNCHANGED resVars
    /\ \/ ServeBump \/ ServeGivesUp \/ ServeSettleTick \/ ServeUndrained
       \/ Scheduled \/ UNCHANGED histVars
    /\ \/ ClientClear \/ ClientCancel \/ ServeBump \/ ServeCancel
       \/ UNCHANGED cancelEv
    /\ Serve \/ ClientClose \/ EngineResetDies \/ UNCHANGED pc
BY DEF vars, Next, Client, Serve, Pacer, Engine, Scheduled, ClientClear,
  ClientWrite, ClientCancel, ClientClose, ServeReceive, ServeReset, ServeBump,
  ServeSpeak, ServeStopped, ServeGivesUp, ServeSleep, ServeArmed, ServeCancel,
  ServePoll, ServeSettleTick, ServeUnsettled, ServeDrained, ServeUndrained,
  ServeTail, PacerTake, PacerDecide, PacerCollect, PacerComplete, PacerRelease,
  EngineSchedule, EngineQueue, EngineDrop, EngineReset, EngineResetReturn,
  EngineResetDies, EngineEnterCall, EngineLeaveCall, EngineFinish, Gone

-----------------------------------------------------------------------------
(* Type correctness.                                                       *)

\* A slice or a job is never the absence of one.
LEMMA NoneIsNothing == None \notin Kinds /\ None \notin Slices /\ None \notin Jobs
BY NoneAssumption

LEMMA Constants ==
  /\ MaxReq \in Nat /\ MaxSlice \in Nat /\ Cap \in Nat /\ Lookbehind \in Nat
  /\ SettleTicks \in Nat /\ SettleTicks > 0
BY BoundsAssumption

\* What stream_chunk leaves in the response is what was there and what is in
\* the buffer: no sample that was never collected.
LEMMA SentType ==
  ASSUME NEW S, out \in Seq(S), pcm \in Seq(S),
         NEW upto \in Nat, upto <= Len(pcm)
  PROVE  Sent(upto) \in Seq(S)
<1>1. CASE Len(out) < upto
  <2>1. SubSeq(pcm, Len(out) + 1, upto) \in Seq(S)
    <3>1. \A i \in Len(out) + 1 .. upto : pcm[i] \in S
      BY <1>1
    <3> QED
      BY <3>1, <1>1, SubSeqProperties, LenProperties
  <2> QED
    BY <2>1, <1>1, ConcatProperties DEF Sent
<1>2. CASE ~(Len(out) < upto)
  BY <1>2 DEF Sent
<1> QED
  BY <1>1, <1>2

\* The frontier of the streamed response never passes the buffer's end.
LEMMA SettledRange ==
  ASSUME TypeOK, NEW q PROVE SettledTo(q) \in Nat /\ SettledTo(q) <= Len(pcm)
BY Constants, LenProperties DEF TypeOK, UttOK, SettledTo

LEMMA ClientStep == TypeInv /\ [Next]_vars => ClientOK'
<1> SUFFICES ASSUME TypeInv, [Next]_vars PROVE ClientOK'
  OBVIOUS
<1> USE DEF TypeInv, TypeOK, ClientOK
<1>1. CASE ClientClear
  BY <1>1 DEF ClientClear
<1>2. CASE ClientWrite
  <2>1. written' \in 0 .. MaxReq
    BY <1>2, Constants DEF ClientWrite, Numbering
  <2>2. request' \in Kinds
    BY <1>2 DEF ClientWrite
  <2> QED
    BY <1>2, <2>1, <2>2 DEF ClientWrite
<1>3. CASE ClientCancel
  BY <1>3 DEF ClientCancel
<1>4. CASE ServeReceive
  BY <1>4 DEF ServeReceive
<1>5. CASE UNCHANGED clientVars
  BY <1>5 DEF clientVars
<1> QED
  BY <1>1, <1>2, <1>3, <1>4, <1>5, ClientFrame

LEMMA ServeVarsStep == TypeInv /\ [Next]_vars => ServeOK'
<1> SUFFICES ASSUME TypeInv, [Next]_vars PROVE ServeOK'
  OBVIOUS
<1>1. cancelEv' \in BOOLEAN
  BY RestFrame DEF TypeInv, TypeOK, ServeOK, ClientClear, ClientCancel, ServeBump,
    ServeCancel, Leftover
<1>2. pc' \in ServePcs
  BY RestFrame DEF TypeInv, TypeOK, ServeOK, ServePcs, Serve, ClientClose,
    EngineResetDies, ServeReceive, ServeReset, ServeBump, ServeSpeak,
    ServeStopped, ServeGivesUp, ServeSleep, ServeArmed, ServeCancel, ServePoll,
    ServeSettleTick, ServeUnsettled, ServeDrained, ServeUndrained, ServeTail
<1>3. /\ streaming' \in BOOLEAN /\ err' \in BOOLEAN /\ cancelled' \in BOOLEAN
      /\ quiet' \in Nat /\ out' \in Seq(Jobs)
  <2> USE DEF TypeInv, TypeOK, ServeOK
  <2>1. CASE ServeReceive
    <3>1. out' \in Seq(Jobs)
      BY <2>1, EmptySeq DEF ServeReceive
    <3> QED
      BY <3>1, <2>1 DEF ServeReceive
  <2>2. CASE ServeSpeak
    BY <2>2 DEF ServeSpeak
  <2>3. CASE ServeCancel
    BY <2>3 DEF ServeCancel
  <2>4. CASE ServePoll
    <3>1. out' \in Seq(Jobs)
      BY <2>4, SettledRange, SentType DEF ServePoll, UttOK
    <3> QED
      BY <3>1, <2>4 DEF ServePoll
  <2>5. CASE ServeSettleTick
    <3>1. quiet' \in Nat
      BY <2>5 DEF ServeSettleTick
    <3> QED
      BY <3>1, <2>5 DEF ServeSettleTick
  <2>6. CASE ServeTail
    <3>1. out' \in Seq(Jobs)
      BY <2>6, SentType, LenProperties DEF ServeTail, UttOK
    <3> QED
      BY <3>1, <2>6 DEF ServeTail
  <2>7. CASE UNCHANGED serveVars
    BY <2>7 DEF serveVars
  <2> QED
    BY <2>1, <2>2, <2>3, <2>4, <2>5, <2>6, <2>7, ServeFrame
<1> QED
  BY <1>1, <1>2, <1>3 DEF ServeOK

LEMMA UttStep == TypeInv /\ [Next]_vars => UttOK'
<1> SUFFICES ASSUME TypeInv, [Next]_vars PROVE UttOK'
  OBVIOUS
<1> USE DEF TypeInv, TypeOK, UttOK
<1>1. CASE ServeReset
  BY <1>1, EmptySeq DEF ServeReset
<1>2. CASE ServeBump
  BY <1>2, Constants DEF ServeBump, Numbering, ClientOK
<1>3. CASE ServeCancel
  BY <1>3 DEF ServeCancel
<1>4. CASE ServePoll
  BY <1>4 DEF ServePoll
<1>5. CASE ServeSettleTick
  BY <1>5 DEF ServeSettleTick
<1>6. CASE PacerCollect
  BY <1>6, AppendProperties DEF PacerCollect, PacerOK
<1>7. ASSUME NEW audio \in BOOLEAN, EngineSchedule(audio) PROVE UttOK'
  BY <1>7 DEF EngineSchedule
<1>8. CASE EngineDrop
  BY <1>8 DEF EngineDrop
<1>9. CASE EngineFinish
  BY <1>9 DEF EngineFinish
<1>10. CASE UNCHANGED uttVars
  BY <1>10 DEF uttVars
<1> QED
  BY <1>1, <1>2, <1>3, <1>4, <1>5, <1>6, <1>7, <1>8, <1>9, <1>10, UttFrame
  DEF Scheduled

LEMMA PacerStep == TypeInv /\ [Next]_vars => PacerOK'
<1> SUFFICES ASSUME TypeInv, [Next]_vars PROVE PacerOK'
  OBVIOUS
<1> USE DEF TypeInv, TypeOK, PacerOK
<1>1. CASE PacerTake
  <2>1. /\ Head(pend) \in Jobs /\ Tail(pend) \in Seq(Jobs)
        /\ Len(Tail(pend)) = Len(pend) - 1
    BY <1>1, HeadTailProperties DEF PacerTake
  <2> QED
    BY <1>1, <2>1, LenProperties, Constants DEF PacerTake
<1>2. CASE PacerDecide
  BY <1>2 DEF PacerDecide
<1>3. CASE PacerCollect
  BY <1>3 DEF PacerCollect
<1>4. CASE PacerComplete
  BY <1>4 DEF PacerComplete
<1>5. CASE EngineQueue
  <2>1. [slice |-> hold, utt |-> utt] \in Jobs
    BY <1>5 DEF EngineQueue, EngineOK, UttOK, Jobs
  <2> QED
    BY <2>1, <1>5, AppendProperties, LenProperties, Constants
    DEF EngineQueue, Room
<1>6. CASE UNCHANGED pacerVars
  BY <1>6 DEF pacerVars
<1> QED
  BY <1>1, <1>2, <1>3, <1>4, <1>5, <1>6, PacerFrame

LEMMA EngineStep == TypeInv /\ [Next]_vars => EngineOK'
<1> SUFFICES ASSUME TypeInv, [Next]_vars PROVE EngineOK'
  OBVIOUS
<1> USE DEF TypeInv, TypeOK, EngineOK
<1>1. CASE ServeSpeak
  BY <1>1, Constants DEF ServeSpeak, UttOK
<1>2. CASE PacerComplete
  BY <1>2 DEF PacerComplete
<1>3. ASSUME NEW audio \in BOOLEAN, EngineSchedule(audio) PROVE EngineOK'
  <2>1. made + 1 \in 1 .. MaxSlice /\ eng \in Utts
    BY <1>3, Constants DEF EngineSchedule, Utts
  <2>2. [own |-> eng, n |-> made + 1, audio |-> audio] \in Slices
    BY <2>1 DEF Slices
  <2> QED
    BY <1>3, <2>1, <2>2 DEF EngineSchedule
<1>4. CASE EngineQueue
  BY <1>4 DEF EngineQueue
<1>5. CASE EngineDrop
  BY <1>5 DEF EngineDrop
<1>6. CASE EngineReset
  BY <1>6 DEF EngineReset
<1>7. CASE EngineResetReturn
  BY <1>7 DEF EngineResetReturn
<1>8. CASE EngineEnterCall
  BY <1>8 DEF EngineEnterCall
<1>9. CASE EngineLeaveCall
  BY <1>9 DEF EngineLeaveCall
<1>10. CASE EngineFinish
  BY <1>10, Constants DEF EngineFinish
<1>11. CASE UNCHANGED engVars
  BY <1>11 DEF engVars
<1> QED
  BY <1>1, <1>2, <1>3, <1>4, <1>5, <1>6, <1>7, <1>8, <1>9, <1>10, <1>11,
    EngineFrame DEF Scheduled

LEMMA RestStep == TypeInv /\ [Next]_vars => ResOK' /\ HistOK'
<1> SUFFICES ASSUME TypeInv, [Next]_vars PROVE ResOK' /\ HistOK'
  OBVIOUS
<1> USE DEF TypeInv, TypeOK
<1>1. ResOK'
  BY RestFrame DEF ResOK, resVars, ServeReceive, ServeTail, PacerRelease
<1>2. HistOK'
  <2> USE DEF HistOK
  <2>1. CASE ServeBump
    <3>1. handed' \in Seq(Slices)
      BY <2>1, EmptySeq DEF ServeBump
    <3> QED
      BY <2>1, <3>1 DEF ServeBump
  <2>2. CASE ServeGivesUp
    BY <2>2 DEF ServeGivesUp
  <2>3. CASE ServeSettleTick
    BY <2>3 DEF ServeSettleTick
  <2>4. CASE ServeUndrained
    BY <2>4 DEF ServeUndrained
  <2>5. ASSUME NEW audio \in BOOLEAN, EngineSchedule(audio) PROVE HistOK'
    <3>1. [own |-> eng, n |-> made + 1, audio |-> audio] \in Slices
      BY <2>5, Constants DEF EngineSchedule, EngineOK, Slices, Utts
    <3> QED
      BY <2>5, <3>1, AppendProperties DEF EngineSchedule
  <2>6. CASE UNCHANGED histVars
    BY <2>6 DEF histVars
  <2> QED
    BY <2>1, <2>2, <2>3, <2>4, <2>5, <2>6, RestFrame DEF Scheduled
<1> QED
  BY <1>1, <1>2

\* Only these steps move a request along; the others leave the counters and the
\* phase of the serve thread as they are, or end it.
LEMMA CounterFrame ==
  [Next]_vars =>
    \/ ClientClear \/ ClientWrite \/ ServeReceive \/ ServeReset \/ ServeBump
    \/ ServeSpeak \/ EngineFinish
    \/ /\ UNCHANGED <<written, ready, request, utt, eng, engNext>>
       /\ pc \in {"recv", "exit"} => pc' \in {"recv", "exit"}
       /\ pc' \in {"reset", "bump"} => pc' = pc
BY DEF vars, Next, Client, Serve, Pacer, Engine, alive, clientVars, serveVars, uttVars,
  engVars, ClientCancel,
  ClientClose, ServeStopped, ServeGivesUp, ServeSleep, ServeArmed, ServeCancel,
  ServePoll, ServeSettleTick, ServeUnsettled, ServeDrained, ServeUndrained,
  ServeTail, PacerTake, PacerDecide, PacerCollect, PacerComplete, PacerRelease,
  EngineSchedule, EngineQueue, EngineDrop, EngineReset, EngineResetReturn,
  EngineResetDies, EngineEnterCall, EngineLeaveCall, Gone

LEMMA NumberingStep == TypeInv /\ [Next]_vars => Numbering'
<1> SUFFICES ASSUME TypeInv, [Next]_vars PROVE Numbering'
  OBVIOUS
<1> USE Constants
    DEF TypeInv, TypeOK, Numbering, ClientOK, UttOK, EngineOK, ServeOK
<1>1. CASE ClientClear
  BY <1>1 DEF ClientClear, uttVars, engVars
<1>2. CASE ClientWrite
  <2>1. written' = written + 1 /\ ~ready' /\ pc \in {"recv", "exit"}
        /\ UNCHANGED <<utt, eng, engNext, pc>>
    BY <1>2 DEF ClientWrite, uttVars, engVars
  <2> QED
    BY <2>1
<1>3. CASE ServeReceive
  <2>1. request # None /\ request' = None /\ pc' = "reset"
        /\ UNCHANGED <<utt, eng, engNext, written, ready>>
    BY <1>3 DEF ServeReceive, uttVars, engVars
  <2> QED
    BY <2>1
<1>4. CASE ServeReset
  BY <1>4 DEF ServeReset, clientVars, engVars
<1>5. CASE ServeBump
  BY <1>5 DEF ServeBump, clientVars, engVars
<1>6. CASE ServeSpeak
  <2>1. /\ ~ready /\ request = None /\ pc' \in {"wait", "tail"}
        /\ eng' \in {eng, utt} /\ engNext' \in {engNext, utt}
        /\ UNCHANGED <<utt, written, ready, request>>
    BY <1>6 DEF ServeSpeak, clientVars, uttVars
  <2> QED
    BY <2>1
<1>7. CASE EngineFinish
  BY <1>7 DEF EngineFinish, clientVars
<1>8. CASE /\ UNCHANGED <<written, ready, request, utt, eng, engNext>>
           /\ pc \in {"recv", "exit"} => pc' \in {"recv", "exit"}
           /\ pc' \in {"reset", "bump"} => pc' = pc
  BY <1>8
<1> QED
  BY <1>1, <1>2, <1>3, <1>4, <1>5, <1>6, <1>7, <1>8, CounterFrame

LEMMA EngineAtRestStep == TypeInv /\ [Next]_vars => EngineAtRest'
<1> SUFFICES ASSUME TypeInv, [Next]_vars PROVE EngineAtRest'
  OBVIOUS
<1> USE DEF TypeInv, TypeOK, EngineAtRest, EngineOK, UttOK
<1>1. CASE ServeSpeak
  <2>1. eng = 0 => hold = None
    BY NoneIsNothing
  <2> QED
    BY <1>1, <2>1 DEF ServeSpeak
<1>2. CASE PacerComplete
  BY <1>2 DEF PacerComplete
<1>3. ASSUME NEW audio \in BOOLEAN, EngineSchedule(audio) PROVE EngineAtRest'
  BY <1>3 DEF EngineSchedule
<1>4. CASE EngineQueue
  BY <1>4 DEF EngineQueue
<1>5. CASE EngineDrop
  BY <1>5 DEF EngineDrop
<1>6. CASE EngineReset
  BY <1>6 DEF EngineReset
<1>7. CASE EngineResetReturn
  BY <1>7 DEF EngineResetReturn
<1>8. CASE EngineEnterCall
  BY <1>8 DEF EngineEnterCall
<1>9. CASE EngineLeaveCall
  BY <1>9 DEF EngineLeaveCall
<1>10. CASE EngineFinish
  <2>1. hold = None
    BY <1>10 DEF EngineFinish
  <2> QED
    BY <1>10, <2>1 DEF EngineFinish
<1>11. CASE UNCHANGED engVars
  BY <1>11 DEF engVars
<1> QED
  BY <1>1, <1>2, <1>3, <1>4, <1>5, <1>6, <1>7, <1>8, <1>9, <1>10, <1>11,
    EngineFrame DEF Scheduled

LEMMA TypeInit == Init => TypeInv
<1> SUFFICES ASSUME Init PROVE TypeInv
  OBVIOUS
<1> USE DEF Init
<1>1. ClientOK /\ ServeOK
  <2>1. 0 \in 0 .. MaxReq /\ out \in Seq(Jobs)
    BY Constants, EmptySeq
  <2> QED
    BY <2>1 DEF ClientOK, ServeOK, ServePcs
<1>2. UttOK /\ ResOK /\ HistOK
  <2>1. 0 \in 0 .. MaxReq /\ pcm \in Seq(Jobs) /\ handed \in Seq(Slices)
    BY Constants, EmptySeq
  <2> QED
    BY <2>1 DEF UttOK, ResOK, HistOK
<1>3. PacerOK
  <2>1. pend \in Seq(Jobs) /\ Len(pend) <= Cap
    BY Constants, EmptySeq
  <2> QED
    BY <2>1 DEF PacerOK
<1>4. EngineOK
  <2>1. 0 \in 0 .. MaxReq /\ 0 \in 0 .. MaxSlice
    BY Constants
  <2> QED
    BY <2>1 DEF EngineOK
<1>5. Numbering /\ EngineAtRest
  BY DEF Numbering, EngineAtRest
<1> QED
  BY <1>1, <1>2, <1>3, <1>4, <1>5 DEF TypeInv, TypeOK

LEMMA TypeStep == TypeInv /\ [Next]_vars => TypeInv'
BY ClientStep, ServeVarsStep, UttStep, PacerStep, EngineStep, RestStep,
  NumberingStep, EngineAtRestStep DEF TypeInv, TypeOK

\* Every variable keeps its type in every reachable state: the queue never
\* passes its capacity, and the pacer and the engine's worker hold a slice
\* exactly when their state says so (tiger_host_audio.c, queue_completion).
THEOREM TypeCorrect == Spec => []TypeOK
<1>1. Init => TypeInv
  BY TypeInit
<1>2. TypeInv /\ [Next]_vars => TypeInv'
  BY TypeStep
<1>3. TypeInv => TypeOK
  BY DEF TypeInv
<1> QED
  BY <1>1, <1>2, <1>3, PTL DEF Spec

-----------------------------------------------------------------------------
(* The timer and the cancel event.                                         *)

\* What is not the client's or the serve thread's leaves both alone.
LEMMA ServeOnly ==
  [Next]_vars =>
    \/ ClientClear \/ ClientWrite \/ ClientCancel \/ Serve
    \/ /\ UNCHANGED <<cancelEv, asked, cancelled, utt, written, out, streaming>>
       /\ pc' \in {pc, "exit"}
BY DEF vars, Next, Client, Pacer, Engine, clientVars, serveVars, uttVars, ClientClose,
  PacerTake, PacerDecide, PacerCollect, PacerComplete, PacerRelease,
  EngineSchedule, EngineQueue, EngineDrop, EngineReset, EngineResetReturn,
  EngineResetDies, EngineEnterCall, EngineLeaveCall, EngineFinish, Gone

LEMMA TimerStep == TimerInv /\ [Next]_vars => TimerInv'
<1> SUFFICES ASSUME TimerInv, [Next]_vars PROVE TimerInv'
  OBVIOUS
<1> USE DEF TimerInv
<1>1. CASE ServeReceive
  BY <1>1 DEF ServeReceive
<1>2. CASE ServeTail
  BY <1>2 DEF ServeTail
<1>3. CASE PacerRelease
  BY <1>3 DEF PacerRelease, MayRelease
<1>4. CASE UNCHANGED resVars
  <2>1. ~(pc' \in {"recv", "exit"}) => ServeReceive \/ ~(pc \in {"recv", "exit"})
    BY RestFrame DEF Serve, ClientClose, EngineResetDies, ServeReset, ServeBump,
      ServeSpeak, ServeStopped, ServeGivesUp, ServeSleep, ServeArmed, ServeCancel,
      ServePoll, ServeSettleTick, ServeUnsettled, ServeDrained, ServeUndrained,
      ServeTail
  <2> QED
    BY <1>1, <1>4, <2>1 DEF resVars
<1> QED
  BY <1>1, <1>2, <1>3, <1>4, RestFrame

\* The 1 ms timer is held for the length of every request: the pacer's own
\* idle half second never takes it from an utterance (timer_res_busy,
\* timer_res_release_if_idle).
THEOREM TimerHeld == Spec => []RenderHoldsTimer
<1>1. Init => TimerInv
  BY DEF Init, TimerInv
<1>2. TimerInv /\ [Next]_vars => TimerInv'
  BY TimerStep
<1>3. TimerInv => RenderHoldsTimer
  BY DEF TimerInv, RenderHoldsTimer
<1> QED
  BY <1>1, <1>2, <1>3, PTL DEF Spec

LEMMA CancelStep == TypeInv /\ CancelInv /\ [Next]_vars => CancelInv'
<1> SUFFICES ASSUME TypeInv, CancelInv, [Next]_vars PROVE CancelInv'
  OBVIOUS
<1> USE DEF CancelInv, clientVars, serveVars, uttVars
<1>1. CASE ClientClear
  BY <1>1 DEF ClientClear
<1>2. CASE ClientWrite
  <2>1. pc \in {"recv", "exit"} /\ pc' = pc /\ utt' # written'
    BY <1>2 DEF ClientWrite, TypeInv, TypeOK, ClientOK, UttOK, Numbering
  <2> QED
    BY <1>2, <2>1
<1>3. CASE ClientCancel
  BY <1>3 DEF ClientCancel
<1>4. CASE Serve
  <2>1. CASE ServeReceive
    BY <2>1 DEF ServeReceive
  <2>2. CASE ServeReset
    BY <2>2 DEF ServeReset
  <2>3. CASE ServeBump
    BY <2>3 DEF ServeBump, Leftover
  <2>4. CASE ServeSpeak
    BY <2>4 DEF ServeSpeak
  <2>5. CASE ServeStopped
    BY <2>5 DEF ServeStopped
  <2>6. CASE ServeGivesUp
    BY <2>6 DEF ServeGivesUp
  <2>7. CASE ServeSleep
    BY <2>7 DEF ServeSleep
  <2>8. CASE ServeArmed
    BY <2>8 DEF ServeArmed
  <2>9. CASE ServeCancel
    BY <2>9 DEF ServeCancel
  <2>10. CASE ServePoll
    BY <2>10 DEF ServePoll
  <2>11. CASE ServeSettleTick
    BY <2>11 DEF ServeSettleTick
  <2>12. CASE ServeUnsettled
    BY <2>12 DEF ServeUnsettled
  <2>13. CASE ServeDrained
    BY <2>13 DEF ServeDrained
  <2>14. CASE ServeUndrained
    BY <2>14 DEF ServeUndrained
  <2>15. CASE ServeTail
    BY <2>15 DEF ServeTail
  <2> QED
    BY <1>4, <2>1, <2>2, <2>3, <2>4, <2>5, <2>6, <2>7, <2>8, <2>9, <2>10, <2>11,
      <2>12, <2>13, <2>14, <2>15 DEF Serve
<1>5. CASE /\ UNCHANGED <<cancelEv, asked, cancelled, utt, written, out, streaming>>
           /\ pc' \in {pc, "exit"}
  BY <1>5
<1> QED
  BY <1>1, <1>2, <1>3, <1>4, <1>5, ServeOnly

\* A cancel reaches the utterance it was meant for or none: consuming what is
\* left of the event at the bump, together with the client's clearing it before
\* it writes, keeps a late signal from cutting the next utterance off
\* (tiger_host_serve.c, cancel_requested and the reset of an utterance).
THEOREM CancelReachesItsOwn == Spec => []CancelIsForThis
<1>1. Init => CancelInv
  BY DEF Init, CancelInv
<1>2. TypeInv /\ CancelInv /\ [Next]_vars => CancelInv'
  BY CancelStep
<1>3. CancelInv => CancelIsForThis
  BY DEF CancelInv, CancelIsForThis
<1> QED
  BY <1>1, <1>2, <1>3, TypeInit, TypeStep, PTL DEF Spec

-----------------------------------------------------------------------------
(* Every completion comes once.                                            *)

LEMMA DeliveryFrame ==
  [Next]_vars =>
    \/ PacerTake \/ PacerComplete \/ Scheduled \/ EngineQueue \/ EngineDrop
    \/ EngineResetReturn \/ UNCHANGED <<pend, job, hold, owed, lost>>
BY DEF vars, Next, Client, Serve, Pacer, Engine, Scheduled, pacerVars, engVars,
  ClientClear, ClientWrite, ClientCancel, ClientClose, ServeReceive, ServeReset,
  ServeBump, ServeSpeak, ServeStopped, ServeGivesUp, ServeSleep, ServeArmed,
  ServeCancel, ServePoll, ServeSettleTick, ServeUnsettled, ServeDrained,
  ServeUndrained, ServeTail, PacerDecide, PacerCollect, PacerRelease,
  EngineReset, EngineResetDies, EngineEnterCall, EngineLeaveCall, EngineFinish, Gone

LEMMA OrderFrame ==
  [Next]_vars =>
    \/ ServeBump \/ ServeSpeak \/ PacerComplete \/ Scheduled \/ EngineResetReturn
    \/ EngineFinish
    \/ /\ UNCHANGED <<utt, eng, engNext, made, owed>>
       /\ pc' = "speak" => pc = "speak"
BY DEF vars, Next, Client, Serve, Pacer, Engine, Scheduled, uttVars, engVars,
  ClientClear, ClientWrite, ClientCancel, ClientClose, ServeReceive, ServeReset,
  ServeStopped, ServeGivesUp, ServeSleep, ServeArmed,
  ServeCancel, ServePoll, ServeSettleTick, ServeUnsettled, ServeDrained,
  ServeUndrained, ServeTail, PacerTake, PacerDecide, PacerCollect, PacerRelease,
  EngineQueue, EngineDrop,
  EngineReset, EngineResetDies, EngineEnterCall, EngineLeaveCall, Gone

\* A slice the engine is about to make is one it has never made.
LEMMA SliceOrderStep == TypeInv /\ SliceOrder /\ [Next]_vars => SliceOrder'
<1> SUFFICES ASSUME TypeInv, SliceOrder, [Next]_vars PROVE SliceOrder'
  OBVIOUS
<1>0. /\ eng \in Nat /\ engNext \in Nat /\ utt \in Nat /\ made \in Nat
      /\ \A s \in owed : s.own \in Nat /\ s.n \in Nat
  BY Constants DEF TypeInv, TypeOK, UttOK, EngineOK, Slices, Utts
<1> USE <1>0 DEF SliceOrder, Spoken
<1>1. CASE ServeBump
  BY <1>1 DEF ServeBump, engVars
<1>2. CASE ServeSpeak
  <2>1. eng = 0 => engNext = 0
    BY DEF TypeInv, EngineAtRest
  <2> QED
    BY <1>2, <2>1 DEF ServeSpeak, uttVars
<1>3. CASE PacerComplete
  BY <1>3 DEF PacerComplete, uttVars
<1>4. ASSUME NEW audio \in BOOLEAN, EngineSchedule(audio) PROVE SliceOrder'
  <2> DEFINE s == [own |-> eng, n |-> made + 1, audio |-> audio]
  <2>1. owed' = owed \cup {s} /\ made' = made + 1 /\ eng # 0
        /\ UNCHANGED <<eng, engNext, utt, pc>>
    BY <1>4 DEF EngineSchedule
  <2>2. s.own = eng /\ s.n = made + 1
    OBVIOUS
  <2> HIDE DEF s
  <2> QED
    BY <2>1, <2>2
<1>5. CASE EngineResetReturn
  BY <1>5 DEF EngineResetReturn, uttVars
<1>6. CASE EngineFinish
  BY <1>6 DEF EngineFinish
<1>7. CASE /\ UNCHANGED <<utt, eng, engNext, made, owed>>
           /\ pc' = "speak" => pc = "speak"
  BY <1>7
<1> QED
  BY <1>1, <1>2, <1>3, <1>4, <1>5, <1>6, <1>7, OrderFrame DEF Scheduled

LEMMA DeliveryStep == TypeInv /\ SliceOrder /\ Delivery /\ [Next]_vars => Delivery'
<1> SUFFICES ASSUME TypeInv, SliceOrder, Delivery, [Next]_vars PROVE Delivery'
  OBVIOUS
<1>0. /\ pend \in Seq(Jobs) /\ Len(pend) \in Nat
      /\ IF pacer = "idle" THEN job = None ELSE job \in Jobs
      /\ IF engPc = "queue" THEN hold \in Slices ELSE hold = None
  BY LenProperties DEF TypeInv, TypeOK, PacerOK, EngineOK
<1> USE <1>0, NoneIsNothing DEF Delivery
<1>1. CASE PacerTake
  <2>1. /\ job = None /\ job' \in Jobs /\ job' = pend[1]
        /\ Len(pend') = Len(pend) - 1
        /\ \A i \in 1 .. Len(pend') : i + 1 \in 1 .. Len(pend) /\ pend'[i] = pend[i + 1]
        /\ UNCHANGED <<hold, owed, lost>> /\ 1 \in 1 .. Len(pend)
    BY <1>1, HeadTailProperties, LenProperties, EmptySeq DEF PacerTake, engVars
  <2>2. job'.slice \in owed \ lost
    BY <2>1
  <2>3. \A i \in 1 .. Len(pend') : pend'[i].slice \in owed \ lost
    BY <2>1
  <2>4. \A i, j \in 1 .. Len(pend') : pend'[i].slice = pend'[j].slice => i = j
    BY <2>1
  <2>5. \A i \in 1 .. Len(pend') : pend'[i].slice # job'.slice
    BY <2>1
  <2>6. hold # None => /\ \A i \in 1 .. Len(pend') : pend'[i].slice # hold
                       /\ job'.slice # hold
    BY <2>1
  <2> QED
    BY <2>1, <2>2, <2>3, <2>4, <2>5, <2>6
<1>2. CASE PacerComplete
  BY <1>2 DEF PacerComplete
<1>3. ASSUME NEW audio \in BOOLEAN, EngineSchedule(audio) PROVE Delivery'
  <2> DEFINE s == [own |-> eng, n |-> made + 1, audio |-> audio]
  <2>1. s \notin owed
    BY <1>3, Constants DEF EngineSchedule, SliceOrder, TypeInv, TypeOK, EngineOK
  <2>2. /\ owed' = owed \cup {s} /\ hold = None /\ UNCHANGED <<pend, job>>
        /\ \/ lost' = lost \cup {s} /\ hold' = hold
           \/ lost' = lost /\ hold' = s
    BY <1>3 DEF EngineSchedule, pacerVars
  <2> HIDE DEF s
  <2> QED
    BY <2>1, <2>2
<1>4. CASE EngineQueue
  <2> DEFINE j == [slice |-> hold, utt |-> utt]
  <2>1. /\ hold \in Slices /\ hold # None /\ hold' = None
        /\ UNCHANGED <<job, owed, lost>>
        /\ Len(pend') = Len(pend) + 1
        /\ \A i \in 1 .. Len(pend) : pend'[i] = pend[i]
        /\ pend'[Len(pend) + 1].slice = hold
    <3>1. j \in Jobs
      BY <1>4 DEF EngineQueue, Jobs, TypeInv, TypeOK, UttOK
    <3> QED
      BY <1>4, <3>1, AppendProperties DEF EngineQueue
  <2>2. \A i \in 1 .. Len(pend') : i \in 1 .. Len(pend) \/ i = Len(pend) + 1
    BY <2>1
  <2> QED
    BY <2>1, <2>2
<1>5. CASE EngineDrop
  BY <1>5 DEF EngineDrop, pacerVars
<1>6. CASE EngineResetReturn
  BY <1>6, EmptySeq DEF EngineResetReturn, PacerIdle, pacerVars
<1>7. CASE UNCHANGED <<pend, job, hold, owed, lost>>
  BY <1>7
<1> QED
  BY <1>1, <1>2, <1>3, <1>4, <1>5, <1>6, <1>7, DeliveryFrame DEF Scheduled

\* No completion is ever delivered twice, nor one that AudioUnitReset has
\* retired: whatever the pacer or the queue holds, the engine still waits for
\* (tiger_host_audio.c, queue_completion, pacer_thread, reset_scheduled_audio).
THEOREM CompletionsComeOnce == Spec => []NoDoubleCompletion
<1>1. Init => SliceOrder /\ Delivery
  BY DEF Init, SliceOrder, Spoken, Delivery
<1>2. Delivery => NoDoubleCompletion
  BY DEF Delivery, NoDoubleCompletion
<1> QED
  BY <1>1, <1>2, TypeInit, TypeStep, SliceOrderStep, DeliveryStep, PTL DEF Spec

-----------------------------------------------------------------------------
(* No audio of one utterance in the response to another.                   *)

sepVars == <<eng, engNext, pend, pacer, job, out, pcm, stopped, deferArm, utt>>

\* The client, the idle pacer, and the engine's waits touch none of it.
LEMMA SeparationFrame ==
  [Next]_vars =>
    \/ Serve \/ Pacer \/ Scheduled \/ EngineQueue \/ EngineFinish
    \/ UNCHANGED sepVars /\ pc' \in {pc, "exit"}
BY DEF sepVars, vars, Next, Client, Engine, Scheduled, serveVars, uttVars,
  pacerVars, engVars, ClientClear, ClientWrite, ClientCancel, ClientClose,
  PacerRelease, EngineDrop, EngineReset, EngineResetReturn,
  EngineResetDies, EngineEnterCall, EngineLeaveCall, Gone

LEMMA OutlastedStays == TypeInv /\ [Next]_vars /\ ~outlasted' => ~outlasted
BY RestFrame DEF TypeInv, TypeOK, HistOK, Scheduled, histVars, ServeBump, ServeGivesUp,
  ServeSettleTick, ServeUndrained, EngineSchedule

LEMMA SeparationServe ==
  TypeInv /\ Separation /\ Serve /\ ~outlasted' => Separation'
<1> SUFFICES ASSUME TypeInv, Separation, Serve, ~outlasted' PROVE Separation'
  OBVIOUS
<1>0. utt \in Nat /\ \A S : <<>> \in Seq(S)
  BY EmptySeq DEF TypeInv, TypeOK, UttOK
<1>1. UNCHANGED utt => OfThis' = OfThis
  BY DEF OfThis
<1> USE <1>0, <1>1 DEF Separation, AtRest
<1>2. CASE ServeReceive
  BY <1>2 DEF ServeReceive, uttVars, pacerVars, engVars
<1>3. CASE ServeReset
  BY <1>3 DEF ServeReset, serveVars, pacerVars, engVars
<1>4. CASE ServeBump
  <2>1. pend' = <<>> /\ pcm' = <<>> /\ out' = <<>>
    BY <1>4 DEF ServeBump, serveVars, pacerVars
  <2>2. job' = None
    BY <1>4 DEF ServeBump, pacerVars, TypeInv, TypeOK, PacerOK
  <2> QED
    BY <1>4, <2>1, <2>2 DEF ServeBump, pacerVars, engVars
<1>5. CASE ServeSpeak
  BY <1>5 DEF ServeSpeak, uttVars, pacerVars
<1>6. CASE ServeStopped
  BY <1>6 DEF ServeStopped, serveVars, uttVars, pacerVars, engVars
<1>7. CASE ServeGivesUp
  <2>1. eng = 0
    BY <1>7 DEF ServeGivesUp
  <2> QED
    BY <1>7, <2>1 DEF ServeGivesUp, serveVars, uttVars, pacerVars, engVars
<1>8. CASE ServeSleep
  BY <1>8 DEF ServeSleep, serveVars, uttVars, pacerVars, engVars
<1>9. CASE ServeArmed
  BY <1>9 DEF ServeArmed, Armed, serveVars, uttVars, pacerVars, engVars
<1>10. CASE ServeCancel
  BY <1>10 DEF ServeCancel, pacerVars, engVars
<1>11. CASE ServePoll
  <2>1. out' \in Seq(OfThis)
    BY <1>11, SentType, SettledRange DEF ServePoll, TypeInv
  <2> QED
    BY <1>11, <2>1 DEF ServePoll, pacerVars, engVars
<1>12. CASE ServeSettleTick
  <2>1. pc' = "drain" => eng = 0
    <3>1. pc' = "drain" => quiet' >= SettleTicks /\ ~(eng # 0 /\ ~inCall)
      BY <1>12 DEF ServeSettleTick
    <3>2. inCall => quiet' = 0
      BY <1>12 DEF ServeSettleTick, Unsettled
    <3>3. ~(0 >= SettleTicks)
      BY Constants
    <3> QED
      BY <3>1, <3>2, <3>3, Zenon
  <2> QED
    BY <1>12, <2>1 DEF ServeSettleTick, pacerVars, engVars
<1>13. CASE ServeUnsettled
  BY <1>13 DEF ServeUnsettled, serveVars, uttVars, pacerVars, engVars
<1>14. CASE ServeDrained
  BY <1>14 DEF ServeDrained, PacerIdle, serveVars, uttVars, pacerVars, engVars
<1>15. CASE ServeUndrained
  BY <1>15 DEF ServeUndrained
<1>16. CASE ServeTail
  <2>1. out' \in Seq(OfThis)
    BY <1>16, SentType, LenProperties DEF ServeTail
  <2> QED
    BY <1>16, <2>1 DEF ServeTail, uttVars, pacerVars, engVars
<1> QED
  BY <1>2, <1>3, <1>4, <1>5, <1>6, <1>7, <1>8, <1>9, <1>10, <1>11, <1>12, <1>13,
    <1>14, <1>15, <1>16 DEF Serve

LEMMA SeparationStep == TypeInv /\ BleedInv /\ [Next]_vars => BleedInv'
<1> SUFFICES ASSUME TypeInv, Separation, [Next]_vars, ~outlasted' PROVE Separation'
  BY OutlastedStays DEF BleedInv
<1>0. UNCHANGED utt => OfThis' = OfThis
  BY DEF OfThis
<1>1. CASE Serve
  BY <1>1, SeparationServe
<1> USE <1>0 DEF Separation, AtRest
<1>2. CASE PacerTake
  <2>1. pend \in Seq(OfThis) /\ pend # <<>>
    BY <1>2 DEF PacerTake
  <2>2. Tail(pend) \in Seq(OfThis) /\ Head(pend) \in OfThis
    BY <2>1, HeadTailProperties
  <2>3. Head(pend).slice.own = utt
    BY <2>2 DEF OfThis
  <2> QED
    BY <1>2, <2>2, <2>3 DEF PacerTake, serveVars, uttVars, engVars
<1>3. CASE PacerDecide
  BY <1>3 DEF PacerDecide, serveVars, uttVars, engVars
<1>4. CASE PacerCollect
  <2>1. job \in OfThis /\ pcm \in Seq(OfThis)
    BY <1>4, NoneIsNothing DEF PacerCollect, OfThis, TypeInv, TypeOK, PacerOK
  <2>2. pcm' \in Seq(OfThis)
    BY <1>4, <2>1, AppendProperties DEF PacerCollect
  <2> QED
    BY <1>4, <2>2 DEF PacerCollect, serveVars, engVars
<1>5. CASE PacerComplete
  BY <1>5 DEF PacerComplete, serveVars, uttVars
<1>6. ASSUME NEW audio \in BOOLEAN, EngineSchedule(audio) PROVE Separation'
  BY <1>6 DEF EngineSchedule, serveVars, pacerVars
<1>7. CASE EngineQueue
  <2> DEFINE j == [slice |-> hold, utt |-> utt]
  <2>1. hold \in Slices /\ hold # None /\ eng # 0
    BY <1>7, NoneIsNothing DEF EngineQueue, TypeInv, TypeOK, EngineOK, EngineAtRest
  <2>2. hold.own = utt
    BY <2>1 DEF TypeInv, EngineAtRest
  <2>3. j \in OfThis
    BY <2>1, <2>2 DEF OfThis, Jobs, TypeInv, TypeOK, UttOK
  <2>4. pend' \in Seq(OfThis)
    BY <1>7, <2>3, AppendProperties DEF EngineQueue
  <2> QED
    BY <1>7, <2>1, <2>4 DEF EngineQueue, serveVars, uttVars
<1>8. CASE EngineFinish
  BY <1>8 DEF EngineFinish, serveVars, pacerVars
<1>9. CASE UNCHANGED sepVars /\ pc' \in {pc, "exit"}
  BY <1>9 DEF sepVars
<1> QED
  BY <1>1, <1>2, <1>3, <1>4, <1>5, <1>6, <1>7, <1>8, <1>9, SeparationFrame
  DEF Pacer, Scheduled

LEMMA OwnOfThis == ASSUME NEW q \in Seq(OfThis) PROVE Own(q)
<1>1. \A i \in 1 .. Len(q) : q[i] \in OfThis
  BY LenProperties
<1> QED
  BY <1>1 DEF Own, OfThis

LEMMA BleedInit == Init => BleedInv
<1>1. Init => <<>> \in Seq(OfThis)
  BY EmptySeq
<1> QED
  BY <1>1 DEF Init, BleedInv, Separation, AtRest

\* No response carries audio the engine made of another utterance, as long as
\* nothing outlasted the waits the host gives it (tiger_host_audio.c, the tag
\* on a slice; tiger_host_serve.c, the settle and the drain before an answer).
THEOREM UtterancesDoNotBleed == Spec => []NoBleed
<1>1. Init => BleedInv
  BY BleedInit
<1>2. BleedInv => NoBleed
  BY OwnOfThis DEF BleedInv, Separation, NoBleed
<1> QED
  BY <1>1, <1>2, TypeInit, TypeStep, SeparationStep, PTL DEF Spec

-----------------------------------------------------------------------------
(* A response is the whole of its utterance.                               *)

gatherVars == <<utt, pcm, handed, pend, pacer, job, hold, eng, made>>

LEMMA GatherFrame ==
  [Next]_vars =>
    \/ ServeReset \/ ServeBump \/ ServeSpeak \/ Pacer \/ Scheduled \/ EngineQueue
    \/ EngineDrop \/ EngineFinish
    \/ UNCHANGED gatherVars /\ (pc' = "speak" => pc = "speak")
BY DEF gatherVars, vars, Next, Client, Serve, Engine, Scheduled, serveVars, uttVars,
  pacerVars, engVars, histVars, ClientClear, ClientWrite, ClientCancel, ClientClose,
  ServeReceive, ServeStopped, ServeGivesUp, ServeSleep, ServeArmed, ServeCancel,
  ServePoll, ServeSettleTick, ServeUnsettled, ServeDrained, ServeUndrained,
  ServeTail, PacerRelease, EngineReset, EngineResetReturn, EngineResetDies,
  EngineEnterCall, EngineLeaveCall, Gone

\* What disturbs an utterance stays until the next one begins.
LEMMA DisturbedStays ==
  TypeInv /\ [Next]_vars /\ Undisturbed' => Undisturbed \/ ServeBump
<1> SUFFICES ASSUME TypeInv, [Next]_vars, Undisturbed', ~ServeBump PROVE Undisturbed
  OBVIOUS
<1>1. ~outlasted
  BY OutlastedStays DEF Undisturbed
<1>2. ~ServeReset
  BY DEF Undisturbed, ServeReset
<1>3. ~dropped /\ ~auCancel
  BY <1>2, UttFrame DEF Undisturbed, TypeInv, TypeOK, UttOK, uttVars, ServeBump,
    ServeCancel, ServePoll, ServeSettleTick, PacerCollect, Scheduled, EngineSchedule,
    EngineDrop, EngineFinish
<1>4. ~(pc \in {"reset", "bump", "exit"})
  BY <1>2, RestFrame DEF Undisturbed, Serve, ClientClose, EngineResetDies, ServeReceive,
    ServeSpeak, ServeStopped, ServeGivesUp, ServeSleep, ServeArmed, ServeCancel,
    ServePoll, ServeSettleTick, ServeUnsettled, ServeDrained, ServeUndrained, ServeTail
<1> QED
  BY <1>1, <1>3, <1>4 DEF Undisturbed

\* Slices are numbered wherever they are.
LEMMA NumbersInFlight ==
  ASSUME TypeInv
  PROVE  /\ Len(pcm) \in Nat /\ Len(handed) \in Nat /\ Len(pend) \in Nat /\ made \in Nat
         /\ \A i \in 1 .. Len(handed) : handed[i].n \in Nat
         /\ \A k \in 1 .. Len(pend) : pend[k].slice.n \in Nat
         /\ job # None => job.slice.n \in Nat
         /\ hold # None => hold.n \in Nat
<1>1. \A s \in Slices : s.n \in Nat
  BY Constants DEF Slices
<1>2. \A j \in Jobs : j.slice.n \in Nat
  BY <1>1 DEF Jobs
<1>3. /\ pcm \in Seq(Jobs) /\ handed \in Seq(Slices) /\ pend \in Seq(Jobs)
      /\ (job # None => job \in Jobs) /\ (hold # None => hold \in Slices)
      /\ made \in 0 .. MaxSlice
  BY DEF TypeInv, TypeOK, UttOK, HistOK, PacerOK, EngineOK
<1> QED
  BY <1>1, <1>2, <1>3, LenProperties, Constants

\* The first of the audio still on its way is what the pacer holds.
LEMMA NextCollected ==
  ASSUME TypeInv, Ordered, Gathered, Holding, job # None, job.slice.audio
  PROVE  /\ Len(pcm) + 1 \in 1 .. Len(handed)
         /\ handed[Len(pcm) + 1] = job.slice
<1>0. /\ Len(pcm) \in Nat /\ Len(handed) \in Nat /\ Len(pend) \in Nat
      /\ \A i \in 1 .. Len(handed) : handed[i].n \in Nat
      /\ \A k \in 1 .. Len(pend) : pend[k].slice.n \in Nat
      /\ job.slice.n \in Nat /\ (hold # None => hold.n \in Nat)
  BY NumbersInFlight
<1>1. PICK k \in Uncollected : handed[k] = job.slice
  BY DEF Gathered, Expected
<1>2. Len(pcm) + 1 \in Uncollected /\ Len(pcm) + 1 \in 1 .. Len(handed) /\ k \in 1 .. Len(handed)
  BY <1>0, <1>1 DEF Uncollected
<1>3. k = Len(pcm) + 1 \/ Len(pcm) + 1 < k
  BY <1>0, <1>1 DEF Uncollected
<1>4. CASE Len(pcm) + 1 < k
  <2> DEFINE f == handed[Len(pcm) + 1]
  <2>1. f.n < job.slice.n /\ f.n \in Nat
    BY <1>0, <1>1, <1>2, <1>4 DEF Ordered
  <2>2. OnItsWay(f)
    BY <1>2 DEF Gathered
  <2> HIDE DEF f
  <2>3. CASE OnQueue(f)
    BY <2>1, <2>3, <1>0 DEF OnQueue, Ordered
  <2>4. CASE hold # None /\ hold = f
    BY <2>1, <2>4, <1>0 DEF Ordered
  <2>5. f # job.slice
    BY <2>1, <1>0
  <2> QED
    BY <2>2, <2>3, <2>4, <2>5 DEF OnItsWay
<1> QED
  BY <1>1, <1>2, <1>3, <1>4

LEMMA GatherBump ==
  ASSUME TypeInv, Separation, ServeBump PROVE (Current /\ Ordered /\ Gathered)'
<1>1. /\ pcm' = <<>> /\ handed' = <<>> /\ pend' = <<>> /\ pacer' = "idle"
      /\ job' = None /\ hold' = None /\ eng' = 0
  BY DEF ServeBump, Separation, AtRest, TypeInv, TypeOK, PacerOK, EngineOK, EngineAtRest,
    pacerVars, engVars
<1>2. Len(pcm') = 0 /\ Len(handed') = 0 /\ Len(pend') = 0
  BY <1>1, EmptySeq
<1> QED
  BY <1>1, <1>2 DEF Current, Ordered, Gathered, Uncollected, Holding

LEMMA GatherTake ==
  ASSUME TypeInv, Current, Ordered, Gathered, PacerTake
  PROVE  (Current /\ Ordered /\ Gathered)'
<1>1. /\ job = None /\ job' \in Jobs /\ job' = pend[1] /\ job' # None
      /\ pacer = "idle" /\ pacer' = "held"
      /\ Len(pend) \in Nat /\ 1 \in 1 .. Len(pend) /\ Len(pend') = Len(pend) - 1
      /\ \A k \in 1 .. Len(pend') : k + 1 \in 1 .. Len(pend) /\ pend'[k] = pend[k + 1]
      /\ UNCHANGED <<utt, pcm, handed, hold, eng, made, pc>>
  <2>1. pend \in Seq(Jobs) /\ pend # <<>> /\ job = None
    BY DEF PacerTake, TypeInv, TypeOK, PacerOK
  <2> QED
    BY <2>1, HeadTailProperties, LenProperties, EmptySeq, NoneIsNothing
    DEF PacerTake, uttVars, engVars, histVars
<1>2. \A k \in 1 .. Len(pend) : k = 1 \/ (k - 1 \in 1 .. Len(pend') /\ pend'[k - 1] = pend[k])
  BY <1>1
<1>3. Current'
  BY <1>1 DEF Current
<1>4. Ordered'
  <2>1. \A k, l \in 1 .. Len(pend') : k < l => pend'[k].slice.n < pend'[l].slice.n
    BY <1>1 DEF Ordered
  <2>2. \A k \in 1 .. Len(pend') : job'.slice.n < pend'[k].slice.n
    BY <1>1 DEF Ordered
  <2>3. hold # None => /\ \A k \in 1 .. Len(pend') : pend'[k].slice.n < hold.n
                       /\ job'.slice.n < hold.n
    BY <1>1 DEF Ordered
  <2>4. eng # 0 => /\ \A k \in 1 .. Len(pend') : pend'[k].slice.n <= made
                   /\ job'.slice.n <= made
    BY <1>1 DEF Ordered
  <2> QED
    BY <1>1, <2>1, <2>2, <2>3, <2>4 DEF Ordered
<1>5. \A s : OnItsWay(s) => OnItsWay(s)'
  <2> SUFFICES ASSUME NEW s, OnItsWay(s) PROVE OnItsWay(s)'
    OBVIOUS
  <2>1. CASE OnQueue(s)
    <3>1. PICK k \in 1 .. Len(pend) : pend[k].slice = s
      BY <2>1 DEF OnQueue
    <3>2. CASE k = 1
      BY <3>1, <3>2, <1>1 DEF OnItsWay, Holding
    <3>3. CASE k # 1
      BY <3>1, <3>3, <1>2 DEF OnItsWay, OnQueue
    <3> QED
      BY <3>2, <3>3
  <2>2. CASE hold # None /\ hold = s
    BY <2>2, <1>1 DEF OnItsWay
  <2> QED
    BY <2>1, <2>2, <1>1 DEF OnItsWay, Holding
<1>6. Uncollected' = Uncollected
  BY <1>1 DEF Uncollected
<1>7. \A s : Expected(s) => Expected(s)'
  BY <1>1, <1>6 DEF Expected
<1>8. (\A i \in Uncollected : OnItsWay(handed[i]))'
  BY <1>1, <1>5, <1>6 DEF Gathered
<1>9. /\ Expected(job.slice)'
      /\ (\A k \in 1 .. Len(pend) : Expected(pend[k].slice))'
      /\ (hold # None => Expected(hold))'
  <2>1. \A k \in 1 .. Len(pend') : Expected(pend[k].slice)'
    <3> SUFFICES ASSUME NEW k \in 1 .. Len(pend') PROVE Expected(pend[k].slice)'
      OBVIOUS
    <3>1. Expected(pend[k + 1].slice) /\ pend'[k].slice = pend[k + 1].slice
      BY <1>1 DEF Gathered
    <3> QED
      BY <3>1, <1>7
  <2>2. Expected(job.slice)'
    <3>1. Expected(pend[1].slice) /\ job'.slice = pend[1].slice
      BY <1>1 DEF Gathered
    <3> QED
      BY <3>1, <1>7
  <2>3. hold # None => Expected(hold)'
    BY <1>1, <1>7 DEF Gathered
  <2> QED
    BY <1>1, <2>1, <2>2, <2>3
<1>10. Gathered'
  BY <1>1, <1>8, <1>9 DEF Gathered, Expected, Uncollected
<1> QED
  BY <1>3, <1>4, <1>10

LEMMA GatherDecide ==
  ASSUME TypeInv, Current, Ordered, Gathered, ~auCancel, PacerDecide
  PROVE  (Current /\ Ordered /\ Gathered)'
<1>1. /\ pacer = "held" /\ pacer' = "keep"
      /\ UNCHANGED <<utt, pcm, handed, pend, job, hold, eng, made, pc>>
  BY NoneIsNothing DEF PacerDecide, Wanted, Current, TypeInv, TypeOK, PacerOK, uttVars,
    engVars, histVars
<1>2. \A s : OnItsWay(s)' <=> OnItsWay(s)
  BY <1>1 DEF OnItsWay, OnQueue, Holding
<1>3. \A s : Expected(s)' <=> Expected(s)
  BY <1>1 DEF Expected, Uncollected
<1> QED
  BY <1>1, <1>2, <1>3 DEF Current, Ordered, Gathered, Holding, Uncollected, Expected

LEMMA GatherCollect ==
  ASSUME TypeInv, Current, Ordered, Gathered, PacerCollect
  PROVE  (Current /\ Ordered /\ Gathered)'
<1>0. Len(pcm) \in Nat /\ Len(handed) \in Nat
  BY NumbersInFlight
<1>1. /\ pacer = "keep" /\ pacer' = "done" /\ Holding /\ ~Holding'
      /\ job \in Jobs /\ job # None
      /\ UNCHANGED <<utt, handed, pend, job, hold, eng, made, pc>>
  BY NoneIsNothing DEF PacerCollect, TypeInv, TypeOK, PacerOK, engVars, histVars, Holding
<1>2. Current' /\ Ordered'
  BY <1>1 DEF Current, Ordered
<1>3. \A s : OnItsWay(s) /\ s # job.slice => OnItsWay(s)'
  BY <1>1 DEF OnItsWay, OnQueue
<1>4. \A k \in 1 .. Len(pend) : pend[k].slice # job.slice
  BY <1>1, NumbersInFlight DEF Ordered
<1>5. hold # None => hold # job.slice
  BY <1>1, NumbersInFlight DEF Ordered
<1>6. CASE job.slice.audio
  <2>1. /\ Len(pcm) + 1 \in 1 .. Len(handed)
        /\ handed[Len(pcm) + 1] = job.slice
    BY <1>1, <1>6, NextCollected
  <2>2. /\ Len(pcm') = Len(pcm) + 1 /\ pcm'[Len(pcm) + 1] = job
        /\ \A i \in 1 .. Len(pcm) : pcm'[i] = pcm[i]
    <3>1. pcm \in Seq(Jobs) /\ pcm' = Append(pcm, job)
      BY <1>6 DEF PacerCollect, TypeInv, TypeOK, UttOK
    <3> QED
      BY <3>1, <1>1, AppendProperties
  <2>3. \A i \in 1 .. Len(pcm') : i \in 1 .. Len(pcm) \/ i = Len(pcm) + 1
    BY <2>2, <1>0
  <2>4. \A i \in 1 .. Len(pcm') : pcm'[i].slice = handed[i]
    BY <2>1, <2>2, <2>3 DEF Gathered
  <2>5. Len(pcm') <= Len(handed)
    BY <2>1, <2>2
  <2>6. \A i \in Uncollected' : i \in Uncollected /\ handed[i] # job.slice
    <3>1. \A i \in Uncollected' : i \in 1 .. Len(handed) /\ Len(pcm) + 1 < i
      BY <1>0, <1>1, <2>2 DEF Uncollected
    <3>2. \A i \in Uncollected' : handed[Len(pcm) + 1].n < handed[i].n
      BY <3>1, <2>1 DEF Ordered
    <3>3. \A i \in Uncollected' : handed[i] # job.slice
      BY <3>1, <3>2, <2>1, NumbersInFlight
    <3> QED
      BY <3>1, <3>3, <1>0 DEF Uncollected
  <2>7. \A i \in Uncollected' : OnItsWay(handed[i])'
    BY <1>3, <2>6, <1>1 DEF Gathered
  <2>8. \A i \in Uncollected : i \in Uncollected' \/ handed[i] = job.slice
    BY <1>0, <1>1, <2>1, <2>2 DEF Uncollected
  <2>9. \A s : Expected(s) /\ s # job.slice => Expected(s)'
    <3> SUFFICES ASSUME NEW s, Expected(s), s # job.slice, s.audio PROVE Expected(s)'
      BY DEF Expected
    <3>1. PICK i \in Uncollected : handed[i] = s
      BY DEF Expected
    <3>2. i \in Uncollected'
      BY <2>8, <3>1
    <3> QED
      BY <3>1, <3>2, <1>1 DEF Expected
  <2>10. \A k \in 1 .. Len(pend) : Expected(pend[k].slice)'
    BY <2>9, <1>1, <1>4 DEF Gathered
  <2>11. hold # None => Expected(hold)'
    BY <2>9, <1>5, <1>1 DEF Gathered
  <2>12. (\A k \in 1 .. Len(pend) : Expected(pend[k].slice))' /\ (hold # None => Expected(hold))'
    BY <2>10, <2>11, <1>1 DEF Expected
  <2>13. (\A i \in Uncollected : OnItsWay(handed[i]))'
    BY <2>7
  <2> QED
    BY <1>1, <1>2, <2>4, <2>5, <2>12, <2>13 DEF Gathered
<1>7. CASE ~job.slice.audio
  <2>1. pcm' = pcm
    BY <1>7 DEF PacerCollect
  <2>2. Uncollected' = Uncollected
    BY <1>1, <2>1 DEF Uncollected
  <2>3. \A i \in Uncollected : handed[i] # job.slice
    BY <1>7, <1>0 DEF Gathered, Uncollected
  <2>4. \A i \in Uncollected : OnItsWay(handed[i])'
    BY <1>1, <1>3, <2>3 DEF Gathered
  <2>5. (\A i \in Uncollected : OnItsWay(handed[i]))'
    BY <2>2, <2>4, <1>1 DEF OnItsWay, OnQueue, Holding
  <2>6. \A s : Expected(s)' <=> Expected(s)
    BY <1>1, <2>2 DEF Expected
  <2> QED
    BY <1>1, <1>2, <2>1, <2>5, <2>6 DEF Gathered, Expected, Uncollected
<1> QED
  BY <1>6, <1>7

LEMMA GatherComplete ==
  ASSUME TypeInv, Current, Ordered, Gathered, PacerComplete
  PROVE  (Current /\ Ordered /\ Gathered)'
<1>1. /\ ~Holding /\ ~Holding' /\ job' = None
      /\ UNCHANGED <<utt, pcm, handed, pend, hold, eng, made, pc>>
  BY DEF PacerComplete, uttVars, histVars, Holding
<1>2. \A s : OnItsWay(s)' <=> OnItsWay(s)
  BY <1>1 DEF OnItsWay, OnQueue
<1>3. \A s : Expected(s)' <=> Expected(s)
  BY <1>1 DEF Expected, Uncollected
<1> QED
  BY <1>1, <1>2, <1>3 DEF Current, Ordered, Gathered, Uncollected, Expected

LEMMA GatherSchedule ==
  ASSUME TypeInv, Separation, Current, Ordered, Gathered,
         NEW audio \in BOOLEAN, EngineSchedule(audio)
  PROVE  (Current /\ Ordered /\ Gathered)'
<1>0. /\ Len(pcm) \in Nat /\ Len(handed) \in Nat /\ made \in Nat
      /\ \A i \in 1 .. Len(handed) : handed[i].n \in Nat
      /\ \A k \in 1 .. Len(pend) : pend[k].slice.n \in Nat
      /\ job # None => job.slice.n \in Nat
  BY NumbersInFlight
<1>1. PICK s \in Slices : /\ s = [own |-> eng, n |-> made + 1, audio |-> audio]
                         /\ s # None /\ s.n = made + 1 /\ s.audio = audio
  <2>1. made + 1 \in 1 .. MaxSlice /\ eng \in Utts
    BY Constants DEF EngineSchedule, Utts, TypeInv, TypeOK, EngineOK
  <2>2. [own |-> eng, n |-> made + 1, audio |-> audio] \in Slices
    BY <2>1 DEF Slices
  <2> QED
    BY <2>2, NoneIsNothing
<1>2. /\ hold = None /\ eng # 0 /\ eng = utt /\ made' = made + 1 /\ pc # "exit"
      /\ UNCHANGED <<utt, pcm, pend, pacer, job, eng, pc>>
      /\ \/ hold' = None /\ handed' = handed
         \/ hold' = s /\ handed' = IF audio THEN Append(handed, s) ELSE handed
  BY <1>1 DEF EngineSchedule, TypeInv, TypeOK, EngineOK, Separation, pacerVars, alive
<1>3. pc # "speak"
  BY <1>2 DEF Separation, AtRest
<1>4. /\ \A i \in 1 .. Len(handed) : handed[i].n < s.n
      /\ \A k \in 1 .. Len(pend) : pend[k].slice.n < s.n
      /\ job # None => job.slice.n < s.n
  BY <1>0, <1>1, <1>2 DEF Ordered
<1>5. \/ /\ handed' = handed /\ (hold' = None \/ (hold' = s /\ ~s.audio))
      \/ /\ Len(handed') = Len(handed) + 1 /\ handed'[Len(handed) + 1] = s
         /\ \A i \in 1 .. Len(handed) : handed'[i] = handed[i]
         /\ hold' = s /\ s.audio
  <2>1. handed \in Seq(Slices)
    BY DEF TypeInv, TypeOK, HistOK
  <2> QED
    BY <1>1, <1>2, <2>1, AppendProperties
<1>6. CASE handed' = handed /\ (hold' = None \/ (hold' = s /\ ~s.audio))
  <2>1. Ordered'
    BY <1>0, <1>1, <1>2, <1>4, <1>6 DEF Ordered
  <2>2. \A x : Expected(x)' <=> Expected(x)
    BY <1>2, <1>6 DEF Expected, Uncollected
  <2>3. \A x : OnItsWay(x) => OnItsWay(x)'
    BY <1>2 DEF OnItsWay, OnQueue, Holding
  <2>4. (hold # None => Expected(hold))'
    BY <1>1, <1>6 DEF Expected
  <2>5. Gathered'
    BY <1>2, <1>3, <1>6, <2>2, <2>3, <2>4 DEF Gathered, Uncollected, Holding
  <2> QED
    BY <1>2, <2>1, <2>5 DEF Current
<1>7. CASE /\ Len(handed') = Len(handed) + 1 /\ handed'[Len(handed) + 1] = s
           /\ \A i \in 1 .. Len(handed) : handed'[i] = handed[i]
           /\ hold' = s /\ s.audio
  <2>1. \A i \in 1 .. Len(handed') : i \in 1 .. Len(handed) \/ i = Len(handed) + 1
    BY <1>0, <1>7
  <2>2. \A i, j \in 1 .. Len(handed') : i < j => handed'[i].n < handed'[j].n
    BY <1>0, <1>4, <1>7, <2>1 DEF Ordered
  <2>3. \A i \in 1 .. Len(handed') : handed'[i].n <= made'
    BY <1>0, <1>1, <1>2, <1>4, <1>7, <2>1
  <2>4. Ordered'
    BY <1>0, <1>1, <1>2, <1>4, <1>7, <2>2, <2>3 DEF Ordered
  <2>5. /\ \A i \in Uncollected' : i \in Uncollected \/ i = Len(handed) + 1
        /\ Uncollected \subseteq Uncollected' /\ Len(handed) + 1 \in Uncollected'
        /\ \A i \in Uncollected : handed'[i] = handed[i]
        /\ Len(pcm) <= Len(handed)
    BY <1>0, <1>2, <1>7 DEF Uncollected, Gathered
  <2>6. \A x : OnItsWay(x) => OnItsWay(x)'
    BY <1>2 DEF OnItsWay, OnQueue, Holding
  <2>7. OnItsWay(s)'
    BY <1>1, <1>7 DEF OnItsWay
  <2>8. \A x : Expected(x) => Expected(x)'
    BY <2>5 DEF Expected
  <2>9. (hold # None => Expected(hold))'
    BY <1>7, <2>5 DEF Expected
  <2>10. \A i \in Uncollected' : OnItsWay(handed[i])'
    BY <1>7, <2>5, <2>6, <2>7 DEF Gathered
  <2>11. /\ (Holding => Expected(job.slice))'
         /\ (\A k \in 1 .. Len(pend) : Expected(pend[k].slice))'
    BY <1>2, <2>8 DEF Gathered, Holding
  <2>12. /\ (Len(pcm) <= Len(handed))'
         /\ (\A i \in 1 .. Len(pcm) : pcm[i].slice = handed[i])'
         /\ (\A i \in 1 .. Len(handed) : handed[i].audio)'
    BY <1>0, <1>2, <1>7, <2>1 DEF Gathered
  <2>13. (\A i \in Uncollected : OnItsWay(handed[i]))'
    BY <2>10
  <2>14. (pc = "speak" => handed = <<>>)'
    BY <1>2, <1>3
  <2>15. Gathered'
    BY <2>9, <2>11, <2>12, <2>13, <2>14 DEF Gathered
  <2> QED
    BY <1>2, <2>4, <2>15 DEF Current
<1> QED
  BY <1>5, <1>6, <1>7

LEMMA GatherQueue ==
  ASSUME TypeInv, Separation, Current, Ordered, Gathered, EngineQueue
  PROVE  (Current /\ Ordered /\ Gathered)'
<1>0. /\ Len(pend) \in Nat /\ \A k \in 1 .. Len(pend) : pend[k].slice.n \in Nat
      /\ hold # None => hold.n \in Nat
  BY NumbersInFlight
<1>1. /\ hold # None /\ hold' = None /\ eng # 0
      /\ UNCHANGED <<utt, pcm, handed, pacer, job, eng, made, pc>>
      /\ Len(pend') = Len(pend) + 1
      /\ pend'[Len(pend) + 1].slice = hold /\ pend'[Len(pend) + 1].utt = utt
      /\ \A k \in 1 .. Len(pend) : pend'[k] = pend[k]
  <2>1. /\ hold \in Slices /\ pend \in Seq(Jobs) /\ utt \in 0 .. MaxReq
        /\ pend' = Append(pend, [slice |-> hold, utt |-> utt])
    BY DEF EngineQueue, TypeInv, TypeOK, UttOK, EngineOK, PacerOK
  <2>2. [slice |-> hold, utt |-> utt] \in Jobs
    BY <2>1 DEF Jobs
  <2>3. hold # None
    BY <2>1, NoneIsNothing
  <2> QED
    BY <2>1, <2>2, <2>3, AppendProperties
    DEF EngineQueue, TypeInv, EngineAtRest, uttVars, histVars
<1>2. \A k \in 1 .. Len(pend') : k \in 1 .. Len(pend) \/ k = Len(pend) + 1
  BY <1>0, <1>1
<1>3. Current'
  BY <1>1, <1>2 DEF Current
<1>4. Ordered'
  <2>1. \A k, l \in 1 .. Len(pend') : k < l => pend'[k].slice.n < pend'[l].slice.n
    BY <1>0, <1>1, <1>2 DEF Ordered
  <2>2. job # None => \A k \in 1 .. Len(pend') : job.slice.n < pend'[k].slice.n
    BY <1>1, <1>2 DEF Ordered
  <2>3. \A k \in 1 .. Len(pend') : pend'[k].slice.n <= made
    BY <1>1, <1>2 DEF Ordered
  <2> QED
    BY <1>1, <2>1, <2>2, <2>3 DEF Ordered
<1>5. \A x : OnItsWay(x) => OnItsWay(x)'
  <2> SUFFICES ASSUME NEW x, OnItsWay(x) PROVE OnItsWay(x)'
    OBVIOUS
  <2>1. CASE OnQueue(x)
    <3>1. PICK k \in 1 .. Len(pend) : pend[k].slice = x
      BY <2>1 DEF OnQueue
    <3>2. k \in 1 .. Len(pend') /\ pend'[k].slice = x
      BY <3>1, <1>0, <1>1
    <3> QED
      BY <3>2 DEF OnItsWay, OnQueue
  <2>2. CASE hold # None /\ hold = x
    <3>1. Len(pend) + 1 \in 1 .. Len(pend') /\ pend'[Len(pend) + 1].slice = x
      BY <2>2, <1>0, <1>1
    <3> QED
      BY <3>1 DEF OnItsWay, OnQueue
  <2> QED
    BY <2>1, <2>2, <1>1 DEF OnItsWay, Holding
<1>6. \A x : Expected(x)' <=> Expected(x)
  BY <1>1 DEF Expected, Uncollected
<1>7. \A k \in 1 .. Len(pend') : Expected(pend'[k].slice)
  BY <1>1, <1>2 DEF Gathered
<1>8. (\A k \in 1 .. Len(pend) : Expected(pend[k].slice))'
  BY <1>6, <1>7
<1>9. (\A i \in Uncollected : OnItsWay(handed[i]))'
  BY <1>1, <1>5 DEF Gathered, Uncollected
<1>10. Gathered'
  BY <1>1, <1>6, <1>8, <1>9 DEF Gathered, Holding
<1> QED
  BY <1>3, <1>4, <1>10

LEMMA GatherStep == TypeInv /\ BleedInv /\ GatherInv /\ [Next]_vars => GatherInv'
<1> SUFFICES ASSUME TypeInv, BleedInv, GatherInv, [Next]_vars, Undisturbed'
             PROVE  (Current /\ Ordered /\ Gathered)'
  BY DEF GatherInv
<1>1. CASE ServeBump
  <2>1. Separation
    BY OutlastedStays DEF Undisturbed, BleedInv
  <2> QED
    BY <1>1, <2>1, GatherBump
<1>2. CASE ~ServeBump
  <2>1. Undisturbed /\ Separation /\ Current /\ Ordered /\ Gathered
    BY <1>2, DisturbedStays DEF GatherInv, BleedInv, Undisturbed
  <2>2. CASE ServeReset
    BY <2>1, <2>2 DEF Undisturbed, ServeReset
  <2>3. CASE ServeSpeak
    <3>1. /\ handed = <<>> /\ pend = <<>> /\ job = None /\ hold = None
      BY <2>1, <2>3 DEF ServeSpeak, Gathered, Separation, AtRest, TypeInv, TypeOK, PacerOK,
        EngineOK, EngineAtRest
    <3>2. UNCHANGED <<utt, pcm, handed, pend, pacer, job, hold>> /\ pc' # "speak"
      BY <2>3 DEF ServeSpeak, uttVars, pacerVars, histVars
    <3>3. Len(handed) = 0 /\ Len(pend) = 0
      BY <3>1, EmptySeq
    <3>4. Ordered'
      BY <3>1, <3>2, <3>3 DEF Ordered
    <3>5. Gathered'
      BY <2>1, <3>2 DEF Gathered, Uncollected, OnItsWay, OnQueue, Holding, Expected
    <3> QED
      BY <2>1, <3>2, <3>4, <3>5 DEF Current
  <2>4. CASE Pacer
    BY <2>1, <2>4, GatherTake, GatherDecide, GatherCollect, GatherComplete
    DEF Pacer, Undisturbed
  <2>5. CASE Scheduled
    BY <2>1, <2>5, GatherSchedule DEF Scheduled
  <2>6. CASE EngineQueue
    BY <2>1, <2>6, GatherQueue
  <2>7. CASE EngineDrop
    BY <2>7 DEF EngineDrop, Undisturbed
  <2>8. CASE EngineFinish
    <3>1. /\ UNCHANGED <<utt, pcm, handed, pend, pacer, job, hold, pc>> /\ eng' = 0
      BY <2>1, <2>8 DEF EngineFinish, Separation, pacerVars, histVars
    <3>2. Ordered'
      BY <2>1, <3>1 DEF Ordered
    <3>3. Gathered'
      BY <2>1, <3>1 DEF Gathered, Uncollected, OnItsWay, OnQueue, Holding, Expected
    <3> QED
      BY <2>1, <3>1, <3>2, <3>3 DEF Current
  <2>9. CASE UNCHANGED gatherVars /\ (pc' = "speak" => pc = "speak")
    <3>1. Ordered' /\ Current'
      BY <2>1, <2>9 DEF gatherVars, Ordered, Current
    <3>2. Gathered'
      BY <2>1, <2>9
      DEF gatherVars, Gathered, Uncollected, OnItsWay, OnQueue, Holding, Expected
    <3> QED
      BY <3>1, <3>2
  <2> QED
    BY <1>2, <2>2, <2>3, <2>4, <2>5, <2>6, <2>7, <2>8, <2>9, GatherFrame
<1> QED
  BY <1>1, <1>2

-----------------------------------------------------------------------------
(* What is sent is the buffer's beginning.                                 *)

\* stream_chunk sends on from where the last one ended.
LEMMA SentBegins ==
  ASSUME NEW S, out \in Seq(S), pcm \in Seq(S), Len(out) <= Len(pcm),
         \A i \in 1 .. Len(out) : out[i] = pcm[i],
         NEW upto \in Nat, upto <= Len(pcm), NEW o, o = Sent(upto)
  PROVE  /\ Len(o) <= Len(pcm)
         /\ \A i \in 1 .. Len(o) : o[i] = pcm[i]
         /\ upto = Len(pcm) => Len(o) = Len(pcm)
<1>0. Len(out) \in Nat /\ Len(pcm) \in Nat
  BY LenProperties
<1>1. CASE Len(out) < upto
  <2> DEFINE t == SubSeq(pcm, Len(out) + 1, upto)
  <2>1. /\ t \in Seq(S) /\ Len(t) = upto - Len(out)
        /\ \A i \in 1 .. upto - Len(out) : t[i] = pcm[Len(out) + i]
    <3>1. \A i \in Len(out) + 1 .. upto : pcm[i] \in S
      BY <1>0, <1>1
    <3>2. \A i \in 1 .. upto - Len(out) : Len(out) + 1 + i - 1 = Len(out) + i
      BY <1>0
    <3> QED
      BY <1>0, <1>1, <3>1, <3>2, SubSeqProperties, LenProperties
  <2>2. o = out \o t
    BY <1>1 DEF Sent
  <2> HIDE DEF t
  <2>3. /\ Len(o) = upto
        /\ \A i \in 1 .. Len(out) : o[i] = out[i]
        /\ \A i \in 1 .. Len(t) : o[Len(out) + i] = t[i]
    BY <1>0, <2>1, <2>2, ConcatProperties
  <2>4. \A i \in 1 .. upto : o[i] = pcm[i]
    <3> SUFFICES ASSUME NEW i \in 1 .. upto PROVE o[i] = pcm[i]
      OBVIOUS
    <3>1. CASE i <= Len(out)
      BY <1>0, <2>3, <3>1
    <3>2. CASE i > Len(out)
      <4>1. i - Len(out) \in 1 .. Len(t) /\ Len(out) + (i - Len(out)) = i
        BY <1>0, <2>1, <3>2
      <4> QED
        BY <2>1, <2>3, <4>1
    <3> QED
      BY <1>0, <3>1, <3>2
  <2> QED
    BY <2>3, <2>4
<1>2. CASE ~(Len(out) < upto)
  <2>1. o = out
    BY <1>2 DEF Sent
  <2> QED
    BY <1>0, <1>2, <2>1
<1> QED
  BY <1>1, <1>2

LEMMA SentFrame ==
  [Next]_vars =>
    \/ ServeReceive \/ ServeReset \/ ServePoll \/ ServeTail \/ PacerCollect
    \/ /\ UNCHANGED <<out, pcm>>
       /\ pc' = "recv" => pc = "recv" /\ UNCHANGED cancelled
BY DEF vars, Next, Client, Serve, Pacer, Engine, serveVars, uttVars, ClientClear,
  ClientWrite, ClientCancel, ClientClose, ServeBump, ServeSpeak, ServeStopped,
  ServeGivesUp, ServeSleep, ServeArmed, ServeCancel, ServeSettleTick, ServeUnsettled,
  ServeDrained, ServeUndrained, PacerTake, PacerDecide, PacerComplete, PacerRelease,
  EngineSchedule, EngineQueue, EngineDrop, EngineReset, EngineResetReturn,
  EngineResetDies, EngineEnterCall, EngineLeaveCall, EngineFinish, Gone

LEMMA SentStep == TypeInv /\ BleedInv /\ SentInv /\ [Next]_vars => SentInv'
<1> SUFFICES ASSUME TypeInv, Separation, Begins, [Next]_vars PROVE Begins'
  BY OutlastedStays DEF BleedInv, SentInv
<1>0. /\ out \in Seq(Jobs) /\ pcm \in Seq(Jobs) /\ Len(out) \in Nat /\ Len(pcm) \in Nat
      /\ Len(<<>>) = 0
  BY LenProperties, EmptySeq DEF TypeInv, TypeOK, ServeOK, UttOK
<1>1. CASE ServeReceive
  <2>1. out' = <<>> /\ pcm' = pcm /\ pc' # "recv"
    BY <1>1 DEF ServeReceive, uttVars
  <2> QED
    BY <1>0, <2>1 DEF Begins
<1>2. CASE ServeReset
  <2>1. out' = <<>> /\ pcm' = <<>> /\ pc' # "recv"
    BY <1>2 DEF ServeReset, serveVars, Separation
  <2> QED
    BY <1>0, <2>1 DEF Begins
<1>3. CASE ServePoll
  <2>1. pcm' = pcm /\ pc' # "recv"
    BY <1>3 DEF ServePoll
  <2>2. PICK upto \in Nat : upto <= Len(pcm) /\ out' \in {out, Sent(upto)}
    BY <1>3, SettledRange DEF ServePoll, TypeInv
  <2>3. /\ Len(out') <= Len(pcm)
        /\ \A i \in 1 .. Len(out') : out'[i] = pcm[i]
    BY <1>0, <2>2, SentBegins DEF Begins
  <2> QED
    BY <2>1, <2>3 DEF Begins
<1>4. CASE ServeTail
  <2>1. /\ pcm' = pcm /\ cancelled' = cancelled
        /\ out' = IF streaming /\ cancelled THEN out ELSE Sent(Len(pcm))
    BY <1>4 DEF ServeTail, uttVars
  <2>2. /\ Len(out') <= Len(pcm)
        /\ \A i \in 1 .. Len(out') : out'[i] = pcm[i]
        /\ ~cancelled => Len(out') = Len(pcm)
    <3>1. PICK o : o = Sent(Len(pcm))
      OBVIOUS
    <3>2. /\ Len(o) <= Len(pcm) /\ Len(o) = Len(pcm)
          /\ \A i \in 1 .. Len(o) : o[i] = pcm[i]
      <4>1. Len(out) <= Len(pcm) /\ \A i \in 1 .. Len(out) : out[i] = pcm[i]
        BY DEF Begins
      <4>2. PICK upto \in Nat : upto = Len(pcm) /\ upto <= Len(pcm) /\ o = Sent(upto)
        BY <1>0, <3>1
      <4> QED
        BY <1>0, <4>1, <4>2, SentBegins
    <3>3. out' = o \/ (cancelled /\ out' = out)
      BY <2>1, <3>1
    <3> QED
      BY <3>2, <3>3 DEF Begins
  <2> QED
    BY <2>1, <2>2 DEF Begins
<1>5. CASE PacerCollect
  <2>1. pacer = "keep" /\ UNCHANGED <<out, pc>>
    BY <1>5 DEF PacerCollect, serveVars
  <2>2. pc # "recv"
    BY <2>1 DEF Separation, AtRest
  <2>3. /\ Len(pcm) <= Len(pcm')
        /\ \A i \in 1 .. Len(pcm) : pcm'[i] = pcm[i]
    <3>1. job \in Jobs /\ pcm' = IF job.slice.audio THEN Append(pcm, job) ELSE pcm
      BY <1>5 DEF PacerCollect, TypeInv, TypeOK, PacerOK
    <3> QED
      BY <1>0, <3>1, AppendProperties
  <2>4. Len(pcm') \in Nat
    <3>1. pcm' \in Seq(Jobs)
      BY UttStep DEF UttOK
    <3> QED
      BY <3>1, LenProperties
  <2> QED
    BY <1>0, <2>1, <2>2, <2>3, <2>4 DEF Begins
<1>6. CASE /\ UNCHANGED <<out, pcm>>
           /\ pc' = "recv" => pc = "recv" /\ UNCHANGED cancelled
  BY <1>6 DEF Begins
<1> QED
  BY <1>1, <1>2, <1>3, <1>4, <1>5, <1>6, SentFrame

LEMMA StopStep == TypeInv /\ StopInv /\ [Next]_vars => StopInv'
<1> SUFFICES ASSUME TypeInv, StopInv, [Next]_vars PROVE StopInv'
  OBVIOUS
<1>1. \/ ServeReset \/ ServeCancel \/ ServeReceive \/ ServeSettleTick
      \/ /\ UNCHANGED <<auCancel, cancelled>>
         /\ pc \in {"settle", "reset", "exit"} => pc' \in {"settle", "reset", "exit"}
  BY DEF vars, Next, Client, Serve, Pacer, Engine, serveVars, uttVars, ClientClear,
    ClientWrite, ClientCancel, ClientClose, ServeBump, ServeSpeak, ServeStopped,
    ServeGivesUp, ServeSleep, ServeArmed, ServePoll, ServeUnsettled,
    ServeDrained, ServeUndrained, ServeTail, PacerTake, PacerDecide, PacerCollect,
    PacerComplete, PacerRelease, EngineSchedule, EngineQueue, EngineDrop, EngineReset,
    EngineResetReturn, EngineResetDies, EngineEnterCall, EngineLeaveCall, EngineFinish, Gone
<1> QED
  BY <1>1 DEF StopInv, ServeReset, ServeCancel, ServeReceive, ServeSettleTick

\* Two sequences alike in length and everywhere are one.
LEMMA WholeFromParts ==
  ASSUME TypeInv, BleedInv, GatherInv, SentInv, StopInv PROVE WholeUtterance
<1> SUFFICES ASSUME Answered, ~cancelled, ~outlasted, ~dropped PROVE Audio(out) = handed
  BY DEF WholeUtterance
<1>1. pc = "recv" /\ Separation /\ Begins
  BY DEF Answered, BleedInv, SentInv
<1>2. Gathered
  BY <1>1 DEF StopInv, GatherInv, Undisturbed
<1>3. /\ out \in Seq(Jobs) /\ handed \in Seq(Slices) /\ pend = <<>> /\ hold = None
      /\ ~Holding /\ Len(out) \in Nat /\ Len(handed) \in Nat /\ Len(pcm) \in Nat
  BY <1>1, LenProperties DEF TypeInv, TypeOK, ServeOK, UttOK, HistOK, EngineOK, EngineAtRest,
    Separation, AtRest, Holding
<1>4. Uncollected = {}
  <2>1. \A s : ~OnItsWay(s)
    BY <1>3, EmptySeq DEF OnItsWay, OnQueue
  <2> QED
    BY <1>2, <2>1 DEF Gathered
<1>5. Len(handed) = Len(pcm)
  <2>1. Len(pcm) <= Len(handed)
    BY <1>2 DEF Gathered
  <2>2. Len(pcm) < Len(handed) => Len(pcm) + 1 \in Uncollected
    BY <1>3 DEF Uncollected
  <2> QED
    BY <1>3, <1>4, <2>1, <2>2
<1>6. Len(out) = Len(handed) /\ \A i \in 1 .. Len(out) : out[i].slice = handed[i]
  BY <1>1, <1>2, <1>5 DEF Begins, Gathered
<1>7. handed = [i \in 1 .. Len(handed) |-> handed[i]]
  BY <1>3, LenProperties
<1> QED
  BY <1>6, <1>7 DEF Audio

\* An utterance spoken to its end is answered with every slice of audio the
\* host accepted for it, once each and in order, streamed or not, unless a wait
\* was outlasted or a slice was counted as dropped (tiger_host_audio.c,
\* collect_slice and pacer_thread; tiger_host_serve.c, stream_chunk and the
\* drain before the answer).
THEOREM NothingIsCutOff == Spec => []WholeUtterance
<1>1. Init => GatherInv /\ SentInv /\ StopInv
  <2> SUFFICES ASSUME Init PROVE GatherInv /\ SentInv /\ StopInv
    OBVIOUS
  <2>1. /\ pcm = <<>> /\ handed = <<>> /\ pend = <<>> /\ out = <<>> /\ pacer = "idle"
        /\ job = None /\ hold = None /\ eng = 0 /\ ~auCancel
    BY DEF Init
  <2>2. Len(pcm) = 0 /\ Len(handed) = 0 /\ Len(pend) = 0 /\ Len(out) = 0
    BY <2>1, EmptySeq
  <2> QED
    BY <2>1, <2>2 DEF GatherInv, Current, Ordered, Gathered, Uncollected, Holding, SentInv,
      Begins, StopInv
<1>2. Init => BleedInv
  BY BleedInit
<1> QED
  BY <1>1, <1>2, TypeInit, TypeStep, SeparationStep, GatherStep, SentStep, StopStep,
    WholeFromParts, PTL DEF Spec
=============================================================================
