------------------------------ MODULE HostServe ------------------------------
(***************************************************************************)
(* The serve loop of the host process, the pacer that stands in for the    *)
(* sound device, and the engine whose audio they carry.                    *)
(*                                                                         *)
(* Four parties share the state below.  The client (the driver) writes one *)
(* request at a time and may signal the cancel event whenever it likes.    *)
(* The serve thread resets the per-utterance state, hands the text to the  *)
(* engine, waits for the audio, and writes the response.  The engine's     *)
(* worker hands over finished slices of audio through a bounded queue.     *)
(* The pacer takes them off it one at a time, collects what they carry and *)
(* calls the engine back: that completion is the engine's only clock.      *)
(*                                                                         *)
(* A slice is identified by the utterance the engine made it for and its   *)
(* number, which the code does not know: what it knows is the tag put on   *)
(* the slice when it was queued.  Positions inside the collected audio     *)
(* (collect_slice's timeline) are left out: here collected audio grows.    *)
(*                                                                         *)
(* The long waits of the code end on a clock (500 ms for room in the       *)
(* queue, five seconds of reset, 900 ticks of waiting, ten seconds of      *)
(* settling, 500 drain ticks).  Time has no measure here: a wait named in  *)
(* Deadlines may expire at any point of it, the others never do.  The      *)
(* history variable outlasted records that a wait, one of these or the     *)
(* quiet period, ended while the engine or the pacer was still at work.    *)
(***************************************************************************)
EXTENDS Naturals, Sequences, FiniteSets

CONSTANTS
  Kinds,        \* what the client asks for: blocking "TGR3", streamed "TGR4"
  Deadlines,    \* the long waits of the code that may expire
  MaxReq,       \* requests the client writes
  MaxSlice,     \* slices the engine makes of one utterance
  Ring,         \* slices the engine keeps scheduled at once
  Cap,          \* PACE_QCAP
  EmptyLimit,   \* SLICE_EMPTY_LIMIT
  SpinLimit,    \* SLICE_SPIN_LIMIT
  QuietLimit,   \* quiet ticks that end an utterance (30)
  StreamSettle, \* STREAM_SETTLE
  Lookbehind,   \* STREAM_LOOKBEHIND, in slices
  SettleTicks,  \* quiet ticks that settle a cancelled channel (15)
  None          \* no request, no job, no slice in hand

ASSUME BoundsAssumption ==
  /\ {MaxReq, MaxSlice, Ring, Cap, EmptyLimit, SpinLimit, QuietLimit,
      StreamSettle, SettleTicks} \subseteq Nat \ {0}
  /\ Lookbehind \in Nat
  /\ Kinds \subseteq {"TGR3", "TGR4"}
  /\ Deadlines \subseteq {"queue", "reset", "wait", "settle", "drain"}

VARIABLES
  written,     \* requests written so far; the client's current one
  ready,       \* the client has cleared the event and is about to write
  request,     \* the request in the pipe, or "none"
  asked,       \* history: cancel was signalled since the current one was written
  cancelEv,    \* the auto-reset event g_cancel_ev
  pc,          \* where the serve thread is
  streaming, err, cancelled, quiet, out,
  fresh,       \* g_slices # last: a slice came since the last tick looked
  utt,         \* g_utt
  pcm,         \* g_pcm[0 .. g_pcm_n)
  slices,      \* g_slices
  stopped,     \* g_stopped
  deferArm,    \* g_defer_arm # 0
  auCancel,    \* g_au_cancel
  emptyRun,    \* g_empty_run
  dropped,     \* g_p_drops # 0
  pend,        \* g_pending, from head to tail
  pacer, job,  \* where the pacer is, and the job it holds
  eng,         \* the utterance the engine is rendering, 0 when idle
  engNext,     \* text queued behind it in the channel, 0 when none
  engPc, hold, \* where the engine's worker is, the slice it is handing over
  made,        \* slices made of eng so far
  owed,        \* slices scheduled whose completion the engine waits for
  lost,        \* the part of owed that no completion will ever come for
  inCall,      \* g_dispatch_inflight # 0
  resHeld, resBusy,
  handed,      \* history: the audio handed over for utterance utt, in order
  outlasted    \* history: see above

clientVars == <<written, ready, request, asked>>
serveVars  == <<streaming, err, cancelled, quiet, out>>
uttVars    == <<utt, pcm, slices, fresh, stopped, deferArm, auCancel, emptyRun,
                dropped>>
pacerVars  == <<pend, pacer, job>>
engVars    == <<eng, engNext, engPc, hold, made, owed, lost, inCall>>
resVars    == <<resHeld, resBusy>>
histVars   == <<handed, outlasted>>
vars == <<clientVars, cancelEv, pc, serveVars, uttVars, pacerVars, engVars,
          resVars, histVars>>

Utts   == 1 .. MaxReq
Slices == [own: Utts, n: 1 .. MaxSlice, audio: BOOLEAN]
Jobs   == [slice: Slices, utt: 0 .. MaxReq]
ServePcs == {"recv", "reset", "bump", "speak", "wait", "tick",
             "settle", "drain", "tail", "exit"}

ASSUME NoneAssumption == None \notin Kinds \cup Slices \cup Jobs

ClientOK == /\ written \in 0 .. MaxReq /\ ready \in BOOLEAN /\ asked \in BOOLEAN
            /\ request \in Kinds \cup {None}
ServeOK  == /\ pc \in ServePcs /\ cancelEv \in BOOLEAN
            /\ streaming \in BOOLEAN /\ err \in BOOLEAN /\ cancelled \in BOOLEAN
            /\ quiet \in Nat /\ out \in Seq(Jobs)
UttOK    == /\ utt \in 0 .. MaxReq /\ pcm \in Seq(Jobs) /\ slices \in Nat
            /\ fresh \in BOOLEAN /\ stopped \in BOOLEAN /\ deferArm \in BOOLEAN
            /\ auCancel \in BOOLEAN /\ emptyRun \in Nat /\ dropped \in BOOLEAN
PacerOK  == /\ pend \in Seq(Jobs) /\ Len(pend) <= Cap
            /\ pacer \in {"idle", "held", "keep", "done"}
            /\ IF pacer = "idle" THEN job = None ELSE job \in Jobs
EngineOK == /\ eng \in 0 .. MaxReq /\ engNext \in 0 .. MaxReq
            /\ engPc \in {"run", "queue", "reset"}
            /\ IF engPc = "queue" THEN hold \in Slices ELSE hold = None
            /\ made \in 0 .. MaxSlice /\ owed \subseteq Slices
            /\ lost \subseteq Slices /\ inCall \in BOOLEAN
ResOK    == resHeld \in BOOLEAN /\ resBusy \in BOOLEAN
HistOK   == handed \in Seq(Slices) /\ outlasted \in BOOLEAN

TypeOK == ClientOK /\ ServeOK /\ UttOK /\ PacerOK /\ EngineOK /\ ResOK /\ HistOK

Init ==
  /\ written = 0 /\ ready = FALSE /\ request = None /\ asked = FALSE
  /\ cancelEv = FALSE /\ pc = "recv"
  /\ streaming = FALSE /\ err = FALSE /\ cancelled = FALSE
  /\ quiet = 0 /\ fresh = FALSE /\ out = <<>>
  /\ utt = 0 /\ pcm = <<>> /\ slices = 0
  /\ stopped = FALSE /\ deferArm = FALSE /\ auCancel = FALSE /\ emptyRun = 0
  /\ dropped = FALSE
  /\ pend = <<>> /\ pacer = "idle" /\ job = None
  /\ eng = 0 /\ engNext = 0 /\ engPc = "run" /\ hold = None
  /\ made = 0 /\ owed = {} /\ lost = {} /\ inCall = FALSE
  /\ resHeld = TRUE /\ resBusy = FALSE
  /\ handed = <<>> /\ outlasted = FALSE

alive == pc # "exit"

-----------------------------------------------------------------------------
(* The client.  It writes a request only when the response before it has   *)
(* been read to its end, clearing the event first; its cancel comes from   *)
(* another thread and lands between any two steps.                         *)

ClientClear ==
  /\ pc = "recv" /\ request = None /\ ~ready /\ written < MaxReq
  /\ ready' = TRUE /\ cancelEv' = FALSE
  /\ UNCHANGED <<written, request, asked, pc, serveVars, uttVars, pacerVars,
                 engVars, resVars, histVars>>

ClientWrite ==
  /\ alive /\ ready
  /\ \E k \in Kinds : request' = k
  /\ ready' = FALSE /\ written' = written + 1 /\ asked' = FALSE
  /\ UNCHANGED <<cancelEv, pc, serveVars, uttVars, pacerVars, engVars,
                 resVars, histVars>>

ClientCancel ==
  /\ alive
  /\ cancelEv' = TRUE /\ asked' = TRUE
  /\ UNCHANGED <<written, ready, request, pc, serveVars, uttVars, pacerVars,
                 engVars, resVars, histVars>>

\* The driver goes away: the next read of the request pipe ends the loop.
ClientClose ==
  /\ pc = "recv" /\ request = None /\ ~ready
  /\ pc' = "exit"
  /\ UNCHANGED <<clientVars, cancelEv, serveVars, uttVars, pacerVars, engVars,
                 resVars, histVars>>

Client == ClientClear \/ ClientWrite \/ ClientCancel \/ ClientClose

-----------------------------------------------------------------------------
(* The pacer.                                                              *)

\* An empty queue is not an idle pacer: the job it took may still be uncollected.
IdleByQueueAlone == pend = <<>>
PacerIdle == pend = <<>> /\ pacer = "idle"

PacerTake ==
  /\ alive /\ pacer = "idle" /\ pend # <<>>
  /\ job' = Head(pend) /\ pend' = Tail(pend) /\ pacer' = "held"
  /\ UNCHANGED <<clientVars, cancelEv, pc, serveVars, uttVars, engVars,
                 resVars, histVars>>

Wanted(j) == j.utt = utt /\ ~auCancel

\* A pacer that will not tick for audio nobody wants.
PacerHoldsStale ==
  /\ alive /\ pacer = "held" /\ Wanted(job)
  /\ pacer' = "keep"
  /\ UNCHANGED <<clientVars, cancelEv, pc, serveVars, uttVars, pend, job,
                 engVars, resVars, histVars>>

\* After the slice's playing time: is its audio still wanted?
PacerDecide ==
  /\ alive /\ pacer = "held"
  /\ pacer' = IF Wanted(job) THEN "keep" ELSE "done"
  /\ UNCHANGED <<clientVars, cancelEv, pc, serveVars, uttVars, pend, job,
                 engVars, resVars, histVars>>

PacerCollect ==
  /\ alive /\ pacer = "keep"
  /\ pcm' = IF job.slice.audio THEN Append(pcm, job) ELSE pcm
  /\ pacer' = "done"
  /\ UNCHANGED <<clientVars, cancelEv, pc, serveVars, utt, slices, fresh, stopped,
                 deferArm, auCancel, emptyRun, dropped, pend, job, engVars, resVars,
                 histVars>>

\* The completion callback into the engine, and g_p_busy = 0 after it.
PacerComplete ==
  /\ alive /\ pacer = "done"
  /\ owed' = owed \ {job.slice} /\ pacer' = "idle" /\ job' = None
  /\ UNCHANGED <<clientVars, cancelEv, pc, serveVars, uttVars, pend, eng,
                 engNext, engPc, hold, made, lost, inCall, resVars, histVars>>

ReleaseAlways == resHeld
MayRelease == resHeld /\ ~resBusy

\* Idle for half a second: give the 1 ms timer back if no request is in hand.
PacerRelease ==
  /\ alive /\ PacerIdle /\ MayRelease
  /\ resHeld' = FALSE
  /\ UNCHANGED <<clientVars, cancelEv, pc, serveVars, uttVars, pacerVars,
                 engVars, resBusy, histVars>>

Pacer == PacerTake \/ PacerDecide \/ PacerCollect \/ PacerComplete

-----------------------------------------------------------------------------
(* The engine's worker, as the audio unit's shims see it.                  *)

\* A slice is refused, and so never completed, once the engine has handed
\* over too many empty ones in a row or too many of any kind.
Refused == emptyRun' >= EmptyLimit \/ slices' >= SpinLimit

\* ScheduleAudioSlice: take_slice up to the wait for room in the queue.
EngineSchedule(audio) ==
  /\ alive /\ eng # 0 /\ engPc = "run" /\ made < MaxSlice /\ Cardinality(owed) < Ring
  /\ LET s == [own |-> eng, n |-> made + 1, audio |-> audio] IN
     /\ made' = made + 1
     /\ slices' = slices + 1 /\ fresh' = TRUE
     /\ emptyRun' = IF audio THEN 0 ELSE emptyRun + 1
     /\ owed' = owed \cup {s}
     /\ \/ /\ Refused
           /\ lost' = lost \cup {s}
           /\ UNCHANGED <<hold, engPc, handed>>
        \/ /\ ~Refused
           /\ hold' = s /\ engPc' = "queue"
           /\ handed' = IF audio /\ eng = utt THEN Append(handed, s) ELSE handed
           /\ UNCHANGED lost
  /\ UNCHANGED <<clientVars, cancelEv, pc, serveVars, utt, pcm, stopped,
                 deferArm, auCancel, dropped, pacerVars, eng, engNext, inCall, resVars,
                 outlasted>>

RoomOffByOne == Len(pend) <= Cap
Room == Len(pend) < Cap

\* queue_completion with room: the tag is read under the queue's lock.
EngineQueue ==
  /\ alive /\ engPc = "queue" /\ Room
  /\ pend' = Append(pend, [slice |-> hold, utt |-> utt])
  /\ hold' = None /\ engPc' = "run"
  /\ UNCHANGED <<clientVars, cancelEv, pc, serveVars, uttVars, pacer, job, eng,
                 engNext, made, owed, lost, inCall, resVars, histVars>>

\* queue_completion giving up: its completion will never fire.
EngineDrop ==
  /\ alive /\ "queue" \in Deadlines /\ engPc = "queue" /\ ~Room
  /\ lost' = lost \cup {hold} /\ hold' = None /\ engPc' = "run"
  /\ dropped' = TRUE
  /\ UNCHANGED <<clientVars, cancelEv, pc, serveVars, utt, pcm, slices, fresh,
                 stopped, deferArm, auCancel, emptyRun, pacerVars, eng,
                 engNext, made, owed, inCall, resVars, histVars>>

\* AudioUnitReset: wait for every completion, then retire what remains.
EngineReset ==
  /\ alive /\ eng # 0 /\ engPc = "run"
  /\ engPc' = "reset"
  /\ UNCHANGED <<clientVars, cancelEv, pc, serveVars, uttVars, pacerVars, eng,
                 engNext, hold, made, owed, lost, inCall, resVars, histVars>>

EngineResetReturn ==
  /\ alive /\ engPc = "reset" /\ PacerIdle
  /\ owed' = {} /\ lost' = {} /\ engPc' = "run"
  /\ UNCHANGED <<clientVars, cancelEv, pc, serveVars, uttVars, pacerVars, eng,
                 engNext, hold, made, inCall, resVars, histVars>>

\* The five seconds of reset_scheduled_audio ran out: the process dies.
EngineResetDies ==
  /\ alive /\ "reset" \in Deadlines /\ engPc = "reset" /\ ~PacerIdle
  /\ pc' = "exit"
  /\ UNCHANGED <<clientVars, cancelEv, serveVars, uttVars, pacerVars, engVars,
                 resVars, histVars>>

\* Lion's engine works inside dispatch source deliveries.
EngineEnterCall ==
  /\ alive /\ eng # 0 /\ ~inCall
  /\ inCall' = TRUE
  /\ UNCHANGED <<clientVars, cancelEv, pc, serveVars, uttVars, pacerVars, eng,
                 engNext, engPc, hold, made, owed, lost, resVars, histVars>>

EngineLeaveCall ==
  /\ alive /\ inCall /\ engPc = "run"
  /\ inCall' = FALSE
  /\ UNCHANGED <<clientVars, cancelEv, pc, serveVars, uttVars, pacerVars, eng,
                 engNext, engPc, hold, made, owed, lost, resVars, histVars>>

\* Nothing more to schedule.  10.4 and 10.5 stop the graph, 10.7 arms the
\* deferred stop this host refuses, and an engine may do neither.  A worker
\* that waits for a lost completion does not get here.
EngineFinish ==
  /\ alive /\ eng # 0 /\ engPc = "run" /\ lost = {}
  /\ \E signal \in {"stop", "arm", "neither"} :
       /\ stopped' = (stopped \/ signal = "stop")
       /\ deferArm' = (deferArm \/ signal = "arm")
  /\ eng' = engNext /\ engNext' = 0 /\ made' = 0
  /\ UNCHANGED <<clientVars, cancelEv, pc, serveVars, utt, pcm, slices, fresh,
                 auCancel, emptyRun, dropped, pacerVars, engPc, hold, owed, lost,
                 inCall, resVars, histVars>>

Engine ==
  \/ \E audio \in BOOLEAN : EngineSchedule(audio)
  \/ EngineQueue \/ EngineDrop
  \/ EngineReset \/ EngineResetReturn \/ EngineResetDies
  \/ EngineEnterCall \/ EngineLeaveCall \/ EngineFinish

-----------------------------------------------------------------------------
(* The serve thread: one request.                                          *)

ServeReceive ==
  /\ pc = "recv" /\ request # None
  /\ pc' = "reset" /\ streaming' = (request = "TGR4") /\ request' = None
  /\ err' = FALSE /\ cancelled' = FALSE /\ quiet' = 0 /\ out' = <<>>
  /\ resBusy' = TRUE /\ resHeld' = TRUE
  /\ UNCHANGED <<written, ready, asked, cancelEv, uttVars, pacerVars, engVars,
                 histVars>>

ServeReset ==
  /\ pc = "reset" /\ pc' = "bump"
  /\ pcm' = <<>> /\ slices' = 0 /\ fresh' = FALSE /\ emptyRun' = 0
  /\ stopped' = FALSE /\ deferArm' = FALSE
  /\ auCancel' = FALSE /\ dropped' = FALSE
  /\ UNCHANGED <<clientVars, cancelEv, serveVars, utt, pacerVars, engVars,
                 resVars, histVars>>

\* From here on what is in flight is stale.  A cancel left over from before
\* this request is consumed unheeded.
LeftoverKept == cancelEv
Leftover == FALSE

ServeBump ==
  /\ pc = "bump" /\ pc' = "speak"
  /\ utt' = utt + 1 /\ handed' = <<>>
  /\ cancelEv' = Leftover
  /\ UNCHANGED <<clientVars, serveVars, pcm, slices, fresh, stopped, deferArm,
                 auCancel, emptyRun, dropped, pacerVars, engVars, resVars,
                 outlasted>>

\* speak_text.  A busy channel queues the text behind what it is speaking,
\* or refuses it, as any channel refuses a voice that is not there; the
\* response's header carries the error at once.
ServeSpeak ==
  /\ pc = "speak"
  /\ \/ /\ pc' = "wait" /\ UNCHANGED err
        /\ IF eng = 0 THEN eng' = utt /\ made' = 0 /\ UNCHANGED engNext
                      ELSE engNext' = utt /\ UNCHANGED <<eng, made>>
     \/ /\ pc' = "tail" /\ err' = TRUE /\ UNCHANGED <<eng, engNext, made>>
  /\ UNCHANGED <<clientVars, cancelEv, streaming, cancelled, quiet, out,
                 uttVars, pacerVars, engPc, hold, owed, lost, inCall, resVars,
                 histVars>>

-----------------------------------------------------------------------------
(* The wait for the audio, one tick of 10 ms at a time.                    *)

\* AUGraphStop: the engine says it is done.
ServeStopped ==
  /\ pc = "wait" /\ stopped
  /\ pc' = "drain"
  /\ UNCHANGED <<clientVars, cancelEv, serveVars, uttVars, pacerVars, engVars,
                 resVars, histVars>>

WaitUntilStopped == FALSE
WaitOver == quiet >= QuietLimit \/ "wait" \in Deadlines

\* The quiet period, or the 900 ticks, ran out.
ServeGivesUp ==
  /\ pc = "wait" /\ WaitOver
  /\ pc' = "drain"
  /\ outlasted' = (outlasted \/ eng # 0)
  /\ UNCHANGED <<clientVars, cancelEv, serveVars, uttVars, pacerVars, engVars,
                 resVars, handed>>

ServeSleep ==
  /\ pc = "wait" /\ ~stopped /\ quiet < QuietLimit
  /\ pc' = "tick"
  /\ UNCHANGED <<clientVars, cancelEv, serveVars, uttVars, pacerVars, engVars,
                 resVars, histVars>>

\* 10.7's own end of an utterance; nothing can have been heard before audio.
Armed == deferArm /\ pcm # <<>>

ServeArmed ==
  /\ pc = "tick" /\ Armed
  /\ pc' = "drain"
  /\ UNCHANGED <<clientVars, cancelEv, serveVars, uttVars, pacerVars, engVars,
                 resVars, histVars>>

\* cancel_requested consumes the event; the engine is told to stop, which it
\* does in its own time, and the channel must settle before it is used again.
ServeCancel ==
  /\ pc = "tick" /\ ~Armed /\ cancelEv
  /\ pc' = "settle"
  /\ cancelEv' = FALSE /\ auCancel' = TRUE /\ quiet' = 0 /\ fresh' = FALSE
  /\ UNCHANGED <<clientVars, streaming, err, cancelled, out, utt, pcm, slices,
                 stopped, deferArm, emptyRun, dropped, pacerVars, engVars,
                 resVars, histVars>>

\* stream_chunk: send what is collected up to the given frontier.
Sent(upto) == IF Len(out) < upto
              THEN out \o SubSeq(pcm, Len(out) + 1, upto) ELSE out

SettledTo(q) ==
  IF q >= StreamSettle THEN Len(pcm)
  ELSE IF Len(pcm) > Lookbehind THEN Len(pcm) - Lookbehind ELSE 0

ServePoll ==
  /\ pc = "tick" /\ ~Armed /\ ~cancelEv
  /\ pc' = "wait"
  /\ fresh' = FALSE
  /\ quiet' = IF fresh THEN 0 ELSE quiet + 1
  /\ out' = IF streaming THEN Sent(SettledTo(quiet')) ELSE out
  /\ UNCHANGED <<clientVars, cancelEv, streaming, err, cancelled, utt, pcm,
                 slices, stopped, deferArm, auCancel, emptyRun, dropped,
                 pacerVars, engVars, resVars, histVars>>

-----------------------------------------------------------------------------
(* settle_cancelled_audio, the drain, and the end of the response.         *)

UnsettledIgnoringDelivery == fresh \/ ~PacerIdle
Unsettled == fresh \/ ~PacerIdle \/ inCall

ServeSettleTick ==
  /\ pc = "settle"
  /\ fresh' = FALSE
  /\ quiet' = IF Unsettled THEN 0 ELSE quiet + 1
  /\ \/ quiet' < SettleTicks /\ UNCHANGED <<pc, cancelled, outlasted>>
     \/ /\ quiet' >= SettleTicks
        /\ pc' = "drain" /\ cancelled' = TRUE
        \* an engine that was merely pausing outlasted the settle
        /\ outlasted' = (outlasted \/ (eng # 0 /\ ~inCall))
  /\ UNCHANGED <<clientVars, cancelEv, streaming, err, out, utt, pcm, slices,
                 stopped, deferArm, auCancel, emptyRun, dropped, pacerVars,
                 engVars, resVars, handed>>

\* Ten seconds without settling: serve returns and the process ends.
ServeUnsettled ==
  /\ "settle" \in Deadlines /\ pc = "settle"
  /\ pc' = "exit"
  /\ UNCHANGED <<clientVars, cancelEv, serveVars, uttVars, pacerVars, engVars,
                 resVars, histVars>>

ServeDrained ==
  /\ pc = "drain" /\ PacerIdle
  /\ pc' = "tail"
  /\ UNCHANGED <<clientVars, cancelEv, serveVars, uttVars, pacerVars, engVars,
                 resVars, histVars>>

ServeUndrained ==
  /\ "drain" \in Deadlines /\ pc = "drain" /\ ~PacerIdle
  /\ pc' = "tail" /\ outlasted' = TRUE
  /\ UNCHANGED <<clientVars, cancelEv, serveVars, uttVars, pacerVars, engVars,
                 resVars, handed>>

\* An abandoned stream sends no tail; a blocking response sends what there is.
ServeTail ==
  /\ pc = "tail" /\ pc' = "recv"
  /\ out' = IF streaming /\ cancelled THEN out ELSE Sent(Len(pcm))
  /\ resBusy' = FALSE
  /\ UNCHANGED <<clientVars, cancelEv, streaming, err, cancelled, quiet,
                 uttVars, pacerVars, engVars, resHeld, histVars>>

Serve ==
  \/ ServeReceive \/ ServeReset \/ ServeBump \/ ServeSpeak
  \/ ServeStopped \/ ServeGivesUp \/ ServeSleep \/ ServeArmed
  \/ ServeCancel \/ ServePoll \/ ServeSettleTick
  \/ ServeUnsettled \/ ServeDrained \/ ServeUndrained \/ ServeTail

\* The process, and every thread of it, is gone.
Gone == pc = "exit" /\ UNCHANGED vars

Next == Client \/ Serve \/ Pacer \/ PacerRelease \/ Engine \/ Gone

\* The serve thread and the pacer are threads of the host that never block on
\* the engine.  Nothing is assumed of the client or of the engine.
Spec == /\ Init /\ [][Next]_vars
        /\ WF_vars(Serve)
        /\ WF_vars(Pacer)

-----------------------------------------------------------------------------
(* What must hold.                                                         *)

Own(q)    == \A i \in 1 .. Len(q) : q[i].slice.own = utt
Audio(q)  == [i \in 1 .. Len(q) |-> q[i].slice]
Answered  == pc = "recv" /\ utt > 0

\* A response carries no audio of another utterance, and neither does the
\* buffer it is sent from (tiger_host_audio.c: "heard as a fragment of the
\* post above bleeding into the head of the post below"), unless the engine
\* or the pacer outlasted the wait the host gives it.
NoBleed == ~outlasted => Own(pcm) /\ Own(out)

\* An utterance spoken to its end is answered with every slice of audio the
\* host accepted for it, once each and in order, streamed or not: nothing is
\* cut off by answering while the pacer is still collecting, and a slice is
\* lost only to the drop the host counts and reports.
WholeUtterance ==
  Answered /\ ~err /\ ~cancelled /\ ~outlasted /\ ~dropped => Audio(out) = handed

\* Every slice queued or in the pacer's hands is one the engine still waits
\* for, so no completion is delivered twice or after AudioUnitReset retired it.
NoDoubleCompletion ==
  /\ \A i \in 1 .. Len(pend) : pend[i].slice \in owed
  /\ job # None => job.slice \in owed
  /\ \A i, j \in 1 .. Len(pend) : pend[i].slice = pend[j].slice => i = j
  /\ job # None => \A i \in 1 .. Len(pend) : pend[i].slice # job.slice

\* An utterance is abandoned only if the client signalled cancel while it was
\* the current one; a signal meant for the one before never reaches it.
CancelIsForThis == cancelled /\ utt = written => asked

\* No request is rendered without the 1 ms timer, whenever the idle pacer
\* chooses to let go of it.
RenderHoldsTimer == ~(pc \in {"recv", "exit"}) => resHeld

\* Every request is answered or the process ends, whatever the engine does.
EveryRequestAnswered == []<>(pc = "exit" \/ (pc = "recv" /\ request = None))

\* Completions are the engine's clock and it never stops: whatever is queued,
\* the pacer comes to rest with every completion delivered.
ClockKeepsTicking == []<>(pc = "exit" \/ PacerIdle)

\* serve.c, of the moment g_utt is bumped: "anything still in flight for the
\* last one is stale from here on, and the pacer will complete those slices
\* without collecting them".
StaleNeverCollected == \A i \in 1 .. Len(pcm) : pcm[i].utt = utt

=============================================================================
