--------------------------- MODULE AndroidRequest ---------------------------
(***************************************************************************)
(* One Android request after another (PantheraTtsService, PantheraEngine,  *)
(* PantheraRequest, PantheraWorkers): the synthesis thread takes a worker  *)
(* process, starts it and pulls its audio; onStop flags the request and    *)
(* then cancels it, in two steps of another thread; and a third thread     *)
(* decides whether the cancelled worker is quiet enough to be used again   *)
(* or is killed.  What a worker does inside is AndroidSpeech.              *)
(***************************************************************************)
EXTENDS Naturals

CONSTANTS MaxRequest, MaxStop, MaxWorker

VARIABLES
  stopRequested,                 \* of PantheraTtsService
  request,                       \* of PantheraEngine, 0 for null
  cancelled, completed, resource, started,     \* of the current PantheraRequest
  stage, next, spoken,           \* the synthesis thread, the worker it holds, requests so far
  stopper, stops,                \* the thread of onStop, and the request it read
  job,                           \* the work of the panthera-cancel thread
  connection, retired,           \* the worker of connections[generation], and its flag
  made, up,                   \* worker processes
  playing, pt_stop               \* worker |-> the request it renders, and its stop flag

requestVars == << request, cancelled, completed, resource, started >>
stopVars    == << stopRequested, stopper, stops >>
workerVars  == << connection, retired, made, up >>
nativeVars  == << playing, pt_stop >>
androidVars == << requestVars, stopVars, workerVars, nativeVars, stage, next, spoken, job >>

Workers == 1 .. MaxWorker
NoJob   == [pc |-> "none", for |-> 0, on |-> 0, acknowledged |-> FALSE]
Resting == [pc |-> "idle", of |-> 0]

Init ==
  /\ stopRequested = FALSE /\ stopper = Resting /\ stops = 0
  /\ request = 0 /\ cancelled = FALSE /\ completed = FALSE /\ resource = 0 /\ started = FALSE
  /\ stage = "idle" /\ next = 0 /\ spoken = 0 /\ job = NoJob
  /\ connection = 0 /\ retired = FALSE /\ made = 0 /\ up = {}
  /\ playing = [w \in Workers |-> 0] /\ pt_stop = [w \in Workers |-> FALSE]

(* ------------------------- PantheraRequest.cancel ---------------------- *)

(* Once, and only before the request is complete.  The worker is detached  *)
(* at once; what becomes of it is left to the other thread.                *)
Cancel(r) ==
  IF r = 0 \/ r # request \/ cancelled \/ completed
  THEN UNCHANGED << cancelled, resource, job >>
  ELSE /\ cancelled' = TRUE
       /\ resource' = 0
       /\ job' = IF resource = 0 THEN job
                 ELSE [pc |-> "reuse?", for |-> r, on |-> resource, acknowledged |-> started]
NoCancel == UNCHANGED << cancelled, resource, job >>

(* onStop: the flag, the volatile read of the request, and its cancel.     *)
StopFlag ==
  /\ stopper.pc = "idle" /\ stops < MaxStop
  /\ stopRequested' = TRUE /\ stops' = stops + 1
  /\ stopper' = [stopper EXCEPT !.pc = "flagged"]
  /\ UNCHANGED << requestVars, workerVars, nativeVars, stage, next, spoken, job >>
StopRead ==
  /\ stopper.pc = "flagged"
  /\ stopper' = [pc |-> "read", of |-> request]
  /\ UNCHANGED << stopRequested, stops, requestVars, workerVars, nativeVars, stage, next,
                  spoken, job >>
StopCancel ==
  /\ stopper.pc = "read"
  /\ Cancel(stopper.of)
  /\ stopper' = Resting
  /\ UNCHANGED << stopRequested, stops, request, completed, started, workerVars, nativeVars,
                  stage, next, spoken >>

(* ------------------------- The synthesis thread ------------------------ *)

Goes(to) == stage' = to /\ UNCHANGED << stopVars, spoken >>

(* onSynthesizeText forgets any stop, and withSynthesis makes the request. *)
Enter ==
  /\ stage = "idle" /\ spoken < MaxRequest
  /\ stage' = "entered" /\ spoken' = spoken + 1
  /\ stopRequested' = FALSE
  /\ UNCHANGED << stopper, stops, requestVars, workerVars, nativeVars, next, job >>
Own ==
  /\ stage = "entered" /\ Goes("piece")
  /\ request' = spoken
  /\ cancelled' = FALSE /\ completed' = FALSE /\ resource' = 0 /\ started' = FALSE
  /\ UNCHANGED << workerVars, nativeVars, next, job >>

(* Each piece of the text, while there is no stop.                         *)
Piece ==
  /\ stage = "piece"
  /\ Goes("ending") \/ (~stopRequested /\ Goes("opening"))
  /\ UNCHANGED << requestVars, workerVars, nativeVars, next, job >>

Usable == connection \in up /\ ~retired
(* PantheraWorkers.get and the worker's open: the worker that is there, a  *)
(* new one once the old is dead, or none in time.  A worker set up for     *)
(* other phrasing is retired first (RECONFIGURE).                          *)
Open ==
  /\ stage = "opening"
  /\ \/ /\ Usable
        /\ next' = connection /\ Goes("attach") /\ UNCHANGED workerVars
     \/ /\ Usable
        /\ retired' = TRUE /\ Goes("opening") /\ UNCHANGED << connection, made, up, next >>
     \/ /\ connection \notin up /\ made < MaxWorker
        /\ made' = made + 1 /\ connection' = made + 1
        /\ up' = up \union {made + 1} /\ retired' = FALSE
        /\ next' = made + 1 /\ Goes("attach")
     \/ Goes("ending") /\ UNCHANGED << workerVars, next >>
  /\ UNCHANGED << requestVars, nativeVars, job >>

Attach ==
  /\ stage = "attach"
  /\ IF cancelled THEN Goes("ending") /\ UNCHANGED << resource, started >>
     ELSE Goes("start") /\ resource' = next /\ started' = FALSE
  /\ UNCHANGED << request, cancelled, completed, workerVars, nativeVars, next, job >>

(* The worker's start: panthera_speak_start, which may refuse.             *)
Start ==
  /\ stage = "start"
  /\ \/ /\ next \in up
        /\ playing' = [playing EXCEPT ![next] = request]
        /\ pt_stop' = [pt_stop EXCEPT ![next] = FALSE]
        /\ Goes("started")
     \/ Goes("ending") /\ UNCHANGED nativeVars
  /\ UNCHANGED << requestVars, workerVars, next, job >>
Acknowledge ==
  /\ stage = "started" /\ Goes("stop?")
  /\ started' = (started \/ ~cancelled)
  /\ UNCHANGED << request, cancelled, completed, resource, workerVars, nativeVars, next, job >>
StopAfterStart ==
  /\ stage = "stop?" /\ Goes("loop")
  /\ IF stopRequested THEN Cancel(request) ELSE NoCancel
  /\ UNCHANGED << request, completed, started, workerVars, nativeVars, next >>

Loop ==
  /\ stage = "loop"
  /\ Goes(IF stopRequested THEN "ending" ELSE "pull")
  /\ UNCHANGED << requestVars, workerVars, nativeVars, next, job >>
(* A pull gives samples, nothing when the piece is done or stopped, or an  *)
(* error; an error that no stop explains, and samples the framework does   *)
(* not take, cancel the request.                                           *)
Audible == resource \in up /\ playing[resource] # 0 /\ ~pt_stop[resource]
Pull ==
  /\ stage = "pull"
  /\ \/ Audible /\ Goes("loop") /\ NoCancel
     \/ Audible /\ Goes("ending") /\ Cancel(request)
     \/ resource \in up /\ ~Audible /\ Goes("piece") /\ NoCancel
     \/ /\ Goes("ending")
        /\ IF stopRequested THEN NoCancel ELSE Cancel(request)
  /\ UNCHANGED << request, completed, started, workerVars, nativeVars, next >>

(* What panthera_finish does in a worker that was told to stop: the engine *)
(* settles, or not in time.                                                *)
NativeFinish(w) ==
  /\ UNCHANGED pt_stop
  /\ \/ pt_stop[w] /\ playing' = [playing EXCEPT ![w] = 0]
     \/ UNCHANGED playing

(* The end of withSynthesis: finish whatever worker is attached, complete  *)
(* the request, and wait until its cancellation is settled.                *)
Ending ==
  /\ stage = "ending"
  /\ next' = resource
  /\ Goes(IF resource = 0 THEN "complete" ELSE "finish")
  /\ UNCHANGED << requestVars, workerVars, nativeVars, job >>
Finish ==
  /\ stage = "finish" /\ Goes("complete")
  /\ IF next \in up THEN NativeFinish(next) ELSE UNCHANGED nativeVars
  /\ UNCHANGED << requestVars, workerVars, next, job >>
Complete ==
  /\ stage = "complete" /\ Goes("await")
  /\ completed' = TRUE /\ resource' = 0
  /\ UNCHANGED << request, cancelled, started, workerVars, nativeVars, next, job >>
(* A request that lets go while its cancellation is still at work. *)
SettledOrNot == TRUE
Settled == job = NoJob
Release ==
  /\ stage = "await" /\ Settled /\ Goes("idle")
  /\ request' = 0 /\ next' = 0
  /\ UNCHANGED << cancelled, completed, resource, started, workerVars, nativeVars, job >>

(* ------------------------ The panthera-cancel thread ------------------- *)

Job(pc)   == job.pc = pc /\ UNCHANGED << requestVars, stopVars, stage, next, spoken >>
Quiet(w)  == playing[w] = 0

(* canReuse: complete already, or within the grace of a short label; else  *)
(* a long one is stopped and finished, and what did not settle is retired. *)
Look ==
  /\ Job("reuse?")
  /\ \/ /\ job.acknowledged /\ job.on \in up /\ Quiet(job.on)
        /\ job' = NoJob
     \/ /\ job.acknowledged /\ job.on \in up /\ ~Quiet(job.on)
        /\ job' = [job EXCEPT !.pc = "stop"]
     \/ job' = [job EXCEPT !.pc = "retire"]
  /\ UNCHANGED << workerVars, nativeVars >>
WorkerStop ==
  /\ Job("stop")
  /\ pt_stop' = [pt_stop EXCEPT ![job.on] = TRUE]
  /\ job' = [job EXCEPT !.pc = "finish"]
  /\ UNCHANGED << workerVars, playing >>
WorkerFinish ==
  /\ Job("finish")
  /\ IF job.on \in up THEN NativeFinish(job.on) ELSE UNCHANGED nativeVars
  /\ job' = IF job.on \in up /\ playing'[job.on] = 0 THEN NoJob
            ELSE [job EXCEPT !.pc = "retire"]
  /\ UNCHANGED workerVars
(* PantheraWorkers.retire goes by identity: only the worker that is still  *)
(* the connection's is killed.                                             *)
Retire ==
  /\ Job("retire")
  /\ retired' = (retired \/ connection = job.on)
  /\ job' = NoJob
  /\ UNCHANGED << connection, made, up, nativeVars >>

(* ------------------------------ Workers -------------------------------- *)

RenderEnds ==
  /\ \E w \in up : ~Quiet(w) /\ playing' = [playing EXCEPT ![w] = 0]
  /\ UNCHANGED << requestVars, stopVars, workerVars, pt_stop, stage, next, spoken, job >>
(* A retired worker is killed, and any may crash; its connection is told.  *)
Die ==
  /\ \E w \in up :
       /\ up' = up \ {w}
       /\ retired' = (retired \/ connection = w)
       /\ playing' = [playing EXCEPT ![w] = 0]
  /\ UNCHANGED << connection, made, requestVars, stopVars, pt_stop, stage, next, spoken, job >>

Synthesis == \/ Own \/ Piece \/ Open \/ Attach \/ Start \/ Acknowledge \/ StopAfterStart
             \/ Loop \/ Pull \/ Ending \/ Finish \/ Complete \/ Release
Cancellation == Look \/ WorkerStop \/ WorkerFinish \/ Retire
(* No request is left to make.                                             *)
Rest == /\ stage = "idle" /\ spoken = MaxRequest /\ stopper = Resting
        /\ UNCHANGED androidVars
Next == \/ StopFlag \/ StopRead \/ StopCancel
        \/ Enter \/ Synthesis \/ Cancellation \/ RenderEnds \/ Die \/ Rest

Spec == Init /\ [][Next]_androidVars

-----------------------------------------------------------------------------
(* A request lets go of the engine only when its cancellation has decided, *)
(* so that no worker is killed under a later request (PantheraRequest.kt   *)
(* 6-9), and a request that was cancelled leaves its worker quiet or       *)
(* doomed.  Of one that ended before its stop became a cancel it says      *)
(* nothing: see StartsOnQuiet.                                             *)
LeftAtWork == \E w \in up : playing[w] = request /\ ~(retired /\ connection = w)
RequestOwnsWorker ==
  /\ job # NoJob => request = job.for
  /\ stage = "await" /\ cancelled /\ LeftAtWork => job # NoJob

(* A worker that is to start a request has finished the one before it (the *)
(* comment on panthera_finish: "before starting the next utterance.        *)
(* Required after pulling stops or the consumer declines audio").  It does *)
(* not hold: onStop sets its flag first, and a request that sees the flag  *)
(* ends, and is complete, before the cancel finds it.                      *)
StartsOnQuiet == stage = "start" /\ next \in up => Quiet(next)

(* A stop seen while a request is in hand ends it, whatever is left of its *)
(* text and whatever its worker does.                                      *)
StopEndsRequest == stopRequested /\ stage # "idle" ~> stage = "idle"
=============================================================================
