------------------------------- MODULE Markers -------------------------------
(* The positioned markers of tiger_host_markers.c and the stream that sends   *)
(* them (stream_markers and its two callers in tiger_host_serve.c).  The      *)
(* engine's output calls QueueSamples and NotifySync through the wrappers;    *)
(* the serve loop begins and ends a request and, between, sends the audio     *)
(* with each marker at its frame.                                             *)
EXTENDS Naturals, Sequences, FiniteSets

CONSTANTS Threads,      \* threads of the engine that queue samples
          MaxRequest,   \* requests
          MaxFrames,    \* frames one request queues
          Capacity,     \* markers there is room for
          Lookbehind    \* STREAM_LOOKBEHIND

VARIABLES
  active, failed, epoch, frontier, items, consumed,   \* g_markers
  call,       \* of each thread: "idle", or its call of QueueSamples
  queued,     \* frames each request's output has accepted (the engine)
  collected,  \* g_pcm_n
  sent,       \* sent, in serve()
  stream,     \* what this response carries: frames by their number, markers
  request,    \* the request served; 0 before the first
  serving,    \* "no", "yes", "broken" (marker_failed) or "ended"
  misused     \* whether this request notified late or had no room

markerVars == << active, failed, epoch, frontier, items, consumed, call, queued,
                 collected, sent, stream, request, serving, misused >>

Idle == [at |-> "idle", epoch |-> 0, active |-> FALSE, wake |-> FALSE, n |-> 0, for |-> 0]

Init ==
  /\ active = FALSE /\ failed = FALSE /\ epoch = 0 /\ frontier = 0
  /\ items = <<>> /\ consumed = 0
  /\ call = [t \in Threads |-> Idle] /\ queued = [r \in 0 .. MaxRequest |-> 0]
  /\ collected = 0 /\ sent = 0 /\ stream = <<>> /\ request = 0
  /\ serving = "no" /\ misused = FALSE

\* markers_begin: a new table, a new epoch.
Begin ==
  /\ serving = "no" /\ request < MaxRequest
  /\ request' = request + 1 /\ serving' = "yes"
  /\ active' = TRUE /\ failed' = FALSE /\ epoch' = epoch + 1
  /\ frontier' = 0 /\ items' = <<>> /\ consumed' = 0
  /\ collected' = 0 /\ sent' = 0 /\ stream' = <<>> /\ misused' = FALSE
  /\ UNCHANGED << call, queued >>

\* The engine speaks a request until its end, cancelled or not, and its output
\* makes one call at a time; a wakeup is another thread's.
Speaks == request > 0 /\ serving # "ended"
Between == \A u \in Threads : call[u].at = "idle" \/ call[u].for # request \/ call[u].wake

\* marker_queue, as far as the call of the engine's method.
Kick(n) == n = 1
QueueSamples(t, n, wake) ==
  /\ call[t] = Idle /\ Speaks
  /\ wake \/ (Between /\ queued[request] + n <= MaxFrames)
  /\ call' = [call EXCEPT ![t] = [at |-> "calling", epoch |-> epoch, active |-> active,
                                  wake |-> wake, n |-> n, for |-> request]]
  /\ failed' = (failed \/ (active /\ wake /\ ~Kick(n)))
  /\ misused' = (misused \/ (active /\ wake /\ ~Kick(n)))
  /\ UNCHANGED << active, epoch, frontier, items, consumed, queued, collected, sent, stream,
                  request, serving >>

\* The engine's method: the frames are its output's.
Accepted(t) ==
  /\ call[t].at = "calling"
  /\ call' = [call EXCEPT ![t].at = "accepted"]
  /\ queued' = IF call[t].wake THEN queued ELSE [queued EXCEPT ![call[t].for] = @ + call[t].n]
  /\ UNCHANGED << active, failed, epoch, frontier, items, consumed, collected, sent, stream,
                  request, serving, misused >>

\* A call that began in another epoch told as well.
CountsAnyEpoch(t) == call[t].active /\ active /\ ~call[t].wake

\* marker_queue, after the call: only the epoch it began in is told.
Counts(t) == call[t].active /\ active /\ call[t].epoch = epoch /\ ~call[t].wake
Commit(t) ==
  /\ call[t].at = "accepted"
  /\ frontier' = IF Counts(t) THEN frontier + call[t].n ELSE frontier
  /\ call' = [call EXCEPT ![t] = Idle]
  /\ UNCHANGED << active, failed, epoch, items, consumed, queued, collected, sent, stream,
                  request, serving, misused >>

\* marker_notify, between two calls of the output that notifies.  The engine
\* gives time 0, or the marker cannot be placed.
NotifySync(t, late) ==
  /\ call[t] = Idle /\ Speaks /\ Between
  /\ active /\ Len(items) <= Capacity
  /\ IF late \/ Len(items) = Capacity
       THEN failed' = TRUE /\ misused' = TRUE /\ UNCHANGED items
       ELSE /\ items' = Append(items, [id |-> Len(items) + 1, frame |-> frontier,
                                       before |-> queued[request]])
            /\ UNCHANGED << failed, misused >>
  /\ UNCHANGED << active, epoch, frontier, consumed, call, queued, collected, sent, stream,
                  request, serving >>

\* The pacer collects what the output has accepted for this request.
Collect ==
  /\ serving \in {"yes", "broken"} /\ collected < queued[request]
  /\ collected' = queued[request]
  /\ UNCHANGED << active, failed, epoch, frontier, items, consumed, call, queued, sent, stream,
                  request, serving, misused >>

\* stream_chunk: frames [sent, upto).
Frames(upto) == [ k \in 1 .. (IF upto > sent THEN upto - sent ELSE 0) |-> sent + k ]
Mark(m) == MaxFrames + m.id
Upto(settled) == IF frontier > settled THEN settled ELSE frontier

\* One turn of stream_markers: a marker that is due, or the rest of the audio.
Due(settled) == consumed < Len(items) /\ items[consumed + 1].frame <= Upto(settled)
Turn(settled) ==
  /\ IF failed \/ (Due(settled) /\ items[consumed + 1].frame < sent)
       THEN serving' = "broken" /\ UNCHANGED << consumed, sent, stream >>
       ELSE LET upto == IF Due(settled) THEN items[consumed + 1].frame ELSE Upto(settled)
            IN  /\ sent' = IF upto > sent THEN upto ELSE sent
                /\ stream' = stream \o Frames(upto)
                             \o (IF Due(settled) THEN <<Mark(items[consumed + 1])>> ELSE <<>>)
                /\ consumed' = IF Due(settled) THEN consumed + 1 ELSE consumed
                /\ UNCHANGED serving
  /\ UNCHANGED << active, failed, epoch, frontier, items, call, queued, collected, request,
                  misused >>

\* A tick of serve(): what has settled, or all of it once the slices stopped.
Settled == { IF collected > Lookbehind THEN collected - Lookbehind ELSE 0, collected }
Send == serving = "yes" /\ \E settled \in Settled : Turn(settled)

\* The response is over: nothing more is queued, all is sent, and the stream is
\* checked against what was collected; or the request was cancelled.
Done == /\ \A t \in Threads : call[t].at = "idle" \/ call[t].for # request
        /\ collected = queued[request]
Finish ==
  /\ serving = "yes" /\ Done /\ ~Due(collected) /\ ~failed
  /\ stream' = stream \o Frames(Upto(collected))
  /\ sent' = IF Upto(collected) > sent THEN Upto(collected) ELSE sent
  /\ serving' = IF frontier # collected \/ consumed # Len(items) THEN "broken" ELSE "ended"
  /\ UNCHANGED << active, failed, epoch, frontier, items, consumed, call, queued, collected,
                  request, misused >>
End ==
  /\ serving # "no"
  /\ active' = FALSE /\ epoch' = epoch + 1 /\ serving' = "no"
  /\ UNCHANGED << failed, frontier, items, consumed, call, queued, collected, sent, stream,
                  request, misused >>

Next ==
  \/ Begin \/ Collect \/ Send \/ Finish \/ End
  \/ \E t \in Threads : \/ \E n \in {1, 2}, wake \in BOOLEAN : QueueSamples(t, n, wake)
                        \/ Accepted(t) \/ Commit(t)
                        \/ \E late \in BOOLEAN : NotifySync(t, late)

-----------------------------------------------------------------------------
\* How many of what comes before the k-th in the response are frames.
Before(k) == Cardinality({j \in 1 .. k - 1 : stream[j] <= MaxFrames})

\* A response carries the frames of its own request in order, with the markers in
\* theirs, each after exactly the frames that request had queued when the engine
\* notified, whatever an earlier request's calls still do: a request the engine
\* did nothing wrong in is never broken, and ends with all its frames and markers
\* (marker_queue, marker_notify, stream_markers).
MarkersPlaced ==
  /\ \A k \in DOMAIN stream :
       IF stream[k] <= MaxFrames THEN stream[k] = Before(k) + 1
       ELSE LET m == k - Before(k)
            IN  stream[k] = MaxFrames + m /\ items[m].before = Before(k)
  /\ serving = "broken" => misused
  /\ serving = "ended" => /\ sent = queued[request]
                          /\ Len(stream) = queued[request] + Len(items)
=============================================================================
