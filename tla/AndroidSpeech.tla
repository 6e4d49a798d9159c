---------------------------- MODULE AndroidSpeech ----------------------------
(* The streaming interface of tiger_host_jni.c in one worker process: the     *)
(* synthesis thread starts a request, pulls its audio and finishes it, the    *)
(* binder thread stops it, the engine schedules slices and announces the end  *)
(* of them, and the pacer of tiger_host_audio.c collects them.  A worker      *)
(* whose cleanup failed is retired, and a new process serves what follows.    *)
EXTENDS Naturals, Sequences, SequencesExt

CONSTANTS MaxRequest,   \* requests
          MaxSlice,     \* slices of one request, after its kick
          MaxPull,      \* frames a pull has room for
          Lookbehind    \* STREAM_LOOKBEHIND

VARIABLES
  pt_stop, au_cancel, settle_failed, stopped, utt,   \* the g_ variables of those names
  pcm, pull_pos,    \* g_pcm and g_pull_pos
  pending, busy,    \* the pacer's queue and the slice in its hands
  defer_arm,        \* g_defer_arm # 0
  left, inflight,   \* the engine: slices it has not called for, and the one a call brings
  ending,           \* its announcement of the end
  early,            \* requests whose end was announced before it came
  syn,              \* the synthesis thread
  seen,             \* what panthera_pull read of completion
  req,              \* the request being served
  got, over         \* what the client was given of each, and how it ended

flagVars    == << pt_stop, au_cancel, settle_failed >>
signalVars  == << stopped, defer_arm >>
bufferVars  == << utt, pcm, pull_pos >>
pacerVars   == << pending, busy >>
engineVars  == << left, inflight, ending, early >>
clientVars  == << req, got, over >>
androidVars == << flagVars, signalVars, bufferVars, pacerVars, engineVars, syn, seen, clientVars >>

Requests == 1 .. MaxRequest
None   == [tag |-> 0, frame |-> << 0, 0 >>]
NoCall == << 0, 0 >>
Kick == 0      \* the silent frame that starts the player, replaced by what follows

Fresh ==
  /\ pt_stop = FALSE /\ au_cancel = FALSE /\ settle_failed = FALSE
  /\ stopped = FALSE /\ defer_arm = FALSE
  /\ utt = 0 /\ pcm = <<>> /\ pull_pos = 0 /\ pending = <<>> /\ busy = None
  /\ left = {} /\ inflight = NoCall /\ ending = "no" /\ syn = "idle" /\ seen = FALSE
Init == /\ Fresh /\ early = {}
        /\ req = 0 /\ got = [r \in Requests |-> <<>>] /\ over = [r \in Requests |-> "no"]

pacer_idle == pending = <<>> /\ busy = None
render_complete == (stopped \/ (defer_arm /\ pcm # <<>>)) /\ pacer_idle

\* Nothing is left of a request, in the engine's calls or the pacer.
Delivered == inflight = NoCall /\ ending # "called"
AtRest == pacer_idle /\ Delivered /\ left = {}

\* panthera_speak_start: refused after a cleanup that failed; otherwise the
\* flags, pt_utterance_reset, and the request handed to the engine.  An engine
\* that announced the end of the last before it came may still have some of it.
SpeakStart ==
  /\ syn = "idle" /\ req < MaxRequest /\ ~settle_failed
  /\ req' = req + 1
  /\ pt_stop' = FALSE /\ au_cancel' = FALSE
  /\ pcm' = <<>> /\ pull_pos' = 0 /\ utt' = utt + 1
  /\ stopped' = FALSE /\ defer_arm' = FALSE
  /\ left' = 0 .. MaxSlice /\ ending' = IF ending = "called" THEN "called" ELSE "owed"
  /\ early' = IF req \in early /\ ~AtRest THEN early \union {req + 1} ELSE early
  /\ syn' = "started" /\ seen' = FALSE
  /\ UNCHANGED << settle_failed, pacerVars, inflight, got, over >>

\* The engine calls with its next slice, which is scheduled under the utterance
\* of that moment (take_slice).
Call ==
  /\ left # {} /\ inflight = NoCall
  /\ LET k == CHOOSE i \in left : \A j \in left : i <= j
     IN  inflight' = << req, k >> /\ left' = left \ {k}
  /\ UNCHANGED << flagVars, signalVars, bufferVars, pacerVars, ending, early, syn, seen, clientVars >>
Schedule ==
  /\ inflight # NoCall /\ Len(pending) < 2
  /\ pending' = Append(pending, [tag |-> utt, frame |-> inflight])
  /\ inflight' = NoCall
  /\ UNCHANGED << flagVars, signalVars, bufferVars, busy, left, ending, early, syn, seen, clientVars >>

\* The engine announces the end in a call of its own: it stops its graph
\* (sh_AUGraphStop), or arms the deferred stop that is refused (10.7).  Nothing
\* makes it wait for its last slice; a request it did not wait for is early.
EndCall ==
  /\ ending = "owed" /\ ending' = "called"
  /\ early' = IF pt_stop \/ (left = {} /\ inflight = NoCall) THEN early ELSE early \union {req}
  /\ UNCHANGED << flagVars, signalVars, bufferVars, pacerVars, left, inflight, syn, seen, clientVars >>
Announce ==
  /\ ending = "called" /\ ending' = "no"
  /\ \/ stopped' = TRUE /\ UNCHANGED defer_arm
     \/ defer_arm' = TRUE /\ UNCHANGED stopped
  /\ UNCHANGED << flagVars, bufferVars, pacerVars, left, inflight, early, syn, seen, clientVars >>

\* The pacer: take a slice, collect it unless it is stale or cancelled.
Take ==
  /\ busy = None /\ pending # <<>>
  /\ busy' = Head(pending) /\ pending' = Tail(pending)
  /\ UNCHANGED << flagVars, signalVars, bufferVars, engineVars, syn, seen, clientVars >>
Wanted == busy.tag = utt /\ ~au_cancel
Placed == (IF Len(pcm) = 1 /\ pcm[1][2] = Kick THEN <<>> ELSE pcm) \o << busy.frame >>
Collect ==
  /\ busy # None
  /\ pcm' = IF Wanted THEN Placed ELSE pcm
  /\ busy' = None
  /\ UNCHANGED << flagVars, signalVars, utt, pull_pos, pending, engineVars, syn, seen, clientVars >>

\* panthera_pull: whether it is complete is read before how much there is.
Pull ==
  /\ syn = "started"
  /\ seen' = render_complete /\ syn' = "looked"
  /\ UNCHANGED << flagVars, signalVars, bufferVars, pacerVars, engineVars, clientVars >>
End == IF seen THEN Len(pcm) ELSE IF Len(pcm) > Lookbehind THEN Len(pcm) - Lookbehind ELSE 0
Given == SubSeq(pcm, pull_pos + 1, IF End - pull_pos > MaxPull THEN pull_pos + MaxPull ELSE End)
Over(how) == over' = [over EXCEPT ![req] = how]
Answer ==
  /\ syn = "looked"
  /\ \/ pt_stop /\ Over("cut") /\ syn' = "over" /\ UNCHANGED << got, pull_pos >>
     \/ /\ ~pt_stop /\ Given # <<>>
        /\ got' = [got EXCEPT ![req] = @ \o Given] /\ pull_pos' = pull_pos + Len(Given)
        /\ syn' = "started" /\ UNCHANGED over
     \/ ~pt_stop /\ Given = <<>> /\ seen /\ Over("all") /\ syn' = "over" /\ UNCHANGED << got, pull_pos >>
     \/ ~pt_stop /\ Given = <<>> /\ ~seen /\ syn' = "started" /\ UNCHANGED << got, pull_pos, over >>
  /\ UNCHANGED << flagVars, signalVars, utt, pcm, pacerVars, engineVars, seen, req >>

\* The client pulls no more: it was stopped or declined the audio, or a pull gave
\* up after ten seconds without any.  Its owner asks whether the request is
\* complete by now, before it stops it, and then the worker is used as it is.
Decline ==
  /\ syn = "started" /\ syn' = "cancelled" /\ Over("cut")
  /\ UNCHANGED << flagVars, signalVars, bufferVars, pacerVars, engineVars, seen, req, got >>
Reuse ==
  /\ syn = "cancelled" /\ ~pt_stop /\ render_complete /\ syn' = "idle"
  /\ UNCHANGED << flagVars, signalVars, bufferVars, pacerVars, engineVars, seen, clientVars >>

\* panthera_stop, on the binder's thread, of a request that started.
Stop ==
  /\ syn \in {"started", "looked", "over", "cancelled"} /\ ~pt_stop
  /\ pt_stop' = TRUE /\ au_cancel' = TRUE
  /\ UNCHANGED << settle_failed, signalVars, bufferVars, pacerVars, engineVars, syn, seen, clientVars >>

\* panthera_finish: without a stop there is nothing to do; with one, the engine
\* is told to stop, which drops what it has not called for, and may have it
\* announce the end.
Finish ==
  /\ syn = "over" \/ (syn = "cancelled" /\ pt_stop)
  /\ au_cancel' = (au_cancel \/ pt_stop)
  /\ IF pt_stop
     THEN /\ syn' = "settling" /\ left' = {}
          /\ ending' \in {ending, IF ending = "owed" THEN "called" ELSE ending}
     ELSE syn' = "idle" /\ UNCHANGED << left, ending >>
  /\ UNCHANGED << pt_stop, settle_failed, signalVars, bufferVars, pacerVars, inflight, early, seen,
                  clientVars >>

\* settle_cancelled_audio: the slices and calls in flight end, or it gives up;
\* and the worker is used again only if the request is complete (stopAndFinish).
Settled == pacer_idle /\ Delivered
Settle ==
  /\ syn = "settling"
  /\ settle_failed' = ~Settled
  /\ au_cancel' = ~Settled
  /\ syn' = IF Settled /\ render_complete THEN "idle" ELSE "retired"
  /\ UNCHANGED << pt_stop, signalVars, bufferVars, pacerVars, engineVars, seen, clientVars >>

\* A worker that was not quiet in time: the owner kills it and binds another.
Retire ==
  /\ syn \in {"cancelled", "retired"}
  /\ pt_stop' = FALSE /\ au_cancel' = FALSE /\ settle_failed' = FALSE
  /\ stopped' = FALSE /\ defer_arm' = FALSE
  /\ utt' = 0 /\ pcm' = <<>> /\ pull_pos' = 0 /\ pending' = <<>> /\ busy' = None
  /\ left' = {} /\ inflight' = NoCall /\ ending' = "no" /\ syn' = "idle" /\ seen' = FALSE
  /\ UNCHANGED << early, clientVars >>

Next == SpeakStart \/ Call \/ Schedule \/ EndCall \/ Announce \/ Take \/ Collect \/ Pull \/ Answer
        \/ Decline \/ Reuse \/ Stop \/ Finish \/ Settle \/ Retire

-----------------------------------------------------------------------------
\* What a client is given of a request is that request's audio from its start,
\* with no frame that was still to be replaced and none of a request stopped
\* before it, and a request nobody stopped ends with all of it (panthera_pull,
\* panthera_finish, settle_cancelled_audio).  It is said of the requests whose
\* end the engine announced when it had scheduled their last slice, as measured
\* at tiger_host_serve.c 683-691; nothing in the host would notice another.
Speech(r) == [ k \in 1 .. MaxSlice |-> << r, k >> ]
AndroidHeard ==
  \A r \in Requests \ early : /\ IsPrefix(got[r], Speech(r))
                              /\ over[r] = "all" => got[r] = Speech(r)
=============================================================================
