----------------------------- MODULE AacConverter -----------------------------
(* The AAC converter of tiger_host_aac.c over any of its decoders.  The engine *)
(* pulls an utterance's compressed units through AudioConverter as one stream  *)
(* (Alex), or hands one recording at a time to the Sound Manager (Vicki); the  *)
(* same decoder stands behind both.  A decoder is known by how many of the     *)
(* frames it owes it gives up, and when.                                       *)
(*                                                                             *)
(* A sample is <<p, u, j>>: the j-th of unit u, overlapped with unit p, which  *)
(* the decoder was fed just before (0: nothing).  A seam, a sample lost or one *)
(* heard twice is therefore a different sequence.                              *)
EXTENDS Naturals, Sequences, SequencesExt, FiniteSets

CONSTANTS Frame,        \* AAC_FRAME: samples in a decoded unit
          Priming,      \* AAC_PRIMING: the codec's delay in samples
          MaxRounds,    \* 64 in the code
          MaxUnit,      \* units in a stream
          MaxStreams,   \* streams and recordings the engine plays
          Asks          \* sample counts the engine asks for

VARIABLES
  backend,   \* the decoder this build or machine has
  dec,       \* [fed: units since it was flushed, out: frames it gave, open, eos]
  pcm, pos,  \* g_sc.pcm[0 .. pcm_n), g_sc.pcm_pos
  stream,    \* [live, prime, fed, given, last] of g_sc: the AudioConverter stream
  left,      \* units the engine's iterator still holds (external)
  call,      \* the engine's call in progress: [pc, want, give, rounds]
  accepted,  \* units the decoder took in this stream or recording
  lost,      \* the decoder refused one of a recording handed over whole
  heard,     \* samples the engine was given of it
  whole,     \* the stream has been closed, the decoder not stuck
  played     \* streams begun

vars == <<backend, dec, pcm, pos, stream, left, call, accepted, lost, heard,
          whole, played>>

Backends == {"mf", "win7", "glint", "faad", "ndk"}
Silent == [fed |-> <<>>, out |-> 0, open |-> FALSE]
Closed == [live |-> FALSE, prime |-> 0, fed |-> 0, given |-> 0, last |-> 0]
Idle == [pc |-> "idle", want |-> 0, give |-> 0, rounds |-> 0]

Smaller(a, b) == IF a < b THEN a ELSE b
Less(a, b) == IF a > b THEN a - b ELSE 0

-----------------------------------------------------------------------------
(* The decoders.                                                               *)

\* The k-th sample decoded from the units fed since a flush.
Overlapped(fed, k) ==
  LET i == ((k - 1) \div Frame) + 1
  IN  <<IF i = 1 THEN 0 ELSE fed[i - 1], fed[i], ((k - 1) % Frame) + 1>>

\* FAAD eats its first frame; the backend puts silence in its place.
SampleOf(fed, k) ==
  IF backend = "faad" /\ k <= Frame THEN <<0, 0, k>> ELSE Overlapped(fed, k)

\* Frames from + 1 .. to of what was fed, as pcm_append lays them down.
Decoded(fed, from, to) == [k \in 1..((to - from) * Frame) |-> SampleOf(fed, from * Frame + k)]

\* How many frames a decoder fed n units may have given by now, of which it had
\* given m: Media Foundation holds the newest until the next overlaps it, the
\* in-process decoders answer at once, Android's gives what is ready.
Ready(n, m) == CASE backend \in {"mf", "win7"} -> {Less(n, 1)}
                 [] backend \in {"glint", "faad"} -> {n}
                 [] OTHER -> m..n

\* And at the end of the stream: Windows 7 still keeps the newest, Android's
\* gives up the tail unless it never reports the end.
Drained(n, m) == CASE backend = "win7" -> {Less(n, 1)}
                   [] backend = "ndk" -> m..n
                   [] OTHER -> {n}

\* Which of the units offered it takes: Android's can be out of input buffers.
Chosen(n, m) == {e \in [1..n -> 1..m] : \A i, j \in 1..n : i < j => e[i] < e[j]}
Taken(units) ==
  IF backend = "ndk"
  THEN UNION {{[i \in 1..n |-> units[e[i]]] : e \in Chosen(n, Len(units))} : n \in 0..Len(units)}
  ELSE {units}

\* aac_flush_delay: the last unit again, twice.
Shaken(last) == IF last = 0 THEN {<<>>}
                ELSE UNION {{a \o b : a \in Taken(<<last>>)} : b \in Taken(<<last>>)}

\* aac_begin flushes; the in-process decoders are rebuilt.
Flushed == [dec EXCEPT !.fed = <<>>, !.out = 0]

-----------------------------------------------------------------------------
Init ==
  /\ backend \in Backends
  /\ dec = Silent /\ pcm = <<>> /\ pos = 0 /\ stream = Closed
  /\ left = 0 /\ call = Idle /\ accepted = <<>> /\ lost = FALSE
  /\ heard = <<>> /\ whole = FALSE /\ played = 0

Avail == Len(pcm) - pos

\* The engine starts on another recording: its iterator is filled.  The one
\* before was played out, or abandoned through Reset or Dispose.
NextStream ==
  /\ call.pc = "idle" /\ left = 0 /\ ~stream.live /\ Avail = 0
  /\ played < MaxStreams
  /\ \E n \in 1..MaxUnit : left' = n
  /\ accepted' = <<>> /\ heard' = <<>> /\ whole' = FALSE /\ lost' = FALSE
  /\ played' = played + 1
  /\ call' = [Idle EXCEPT !.pc = "stream"]
  /\ UNCHANGED <<backend, dec, pcm, pos, stream>>

\* AudioConverterFillComplexBuffer is asked for want samples.
FillComplexBuffer ==
  /\ call.pc = "stream"
  /\ \E want \in Asks : call' = [Idle EXCEPT !.pc = "fill", !.want = want]
  /\ UNCHANGED <<backend, dec, pcm, pos, stream, left, accepted, lost, heard,
                 whole, played>>

Filling == call.pc = "fill" /\ call.give < call.want

\* The decoded samples ran out: the inner loop starts, on an open decoder.
Refill ==
  /\ Filling /\ Avail = 0
  /\ dec' = [dec EXCEPT !.open = TRUE]
  /\ pcm' = <<>> /\ pos' = 0
  /\ call' = [call EXCEPT !.pc = "rounds", !.rounds = 0]
  /\ UNCHANGED <<backend, stream, left, accepted, lost, heard, whole, played>>

\* The codec's delay comes off the stream, not the refill.
Trim(s, samples) ==
  LET drop == Smaller(s.prime, Len(samples))
  IN  [samples |-> SubSeq(samples, drop + 1, Len(samples)), prime |-> s.prime - drop]

\* The engine's callback hands over k units: open the stream once, feed them,
\* collect what is ready.
Packets ==
  /\ call.pc = "rounds" /\ pcm = <<>> /\ call.rounds < MaxRounds /\ left > 0
  /\ \E k \in 1..Smaller(left, 2) :
       LET d    == IF stream.live THEN dec ELSE Flushed
           s    == IF stream.live THEN stream
                   ELSE [Closed EXCEPT !.live = TRUE, !.prime = Priming]
           units == [i \in 1..k |-> MaxUnit - left + i]
       IN  \E good \in Taken(units) :
             LET fed == d.fed \o good
             IN  \E out \in Ready(Len(fed), d.out) :
                   LET t == Trim(s, Decoded(fed, d.out, out))
                   IN  /\ dec' = [d EXCEPT !.fed = fed, !.out = out]
                       /\ pcm' = t.samples
                       /\ stream' = [s EXCEPT !.prime = t.prime, !.fed = @ + Len(good),
                                       !.last = IF good = <<>> THEN @ ELSE Last(good)]
                       /\ accepted' = accepted \o good
       /\ left' = left - k
  /\ call' = [call EXCEPT !.rounds = @ + 1]
  /\ UNCHANGED <<backend, pos, lost, heard, whole, played>>

\* The samples of a stream of n units.
Owed(n) == Less(n * Frame, Priming)

\* The callback has no more: shake loose what the decoder holds by feeding it
\* the last unit twice more, end the stream, and cut what is past its end.
NoMore ==
  /\ call.pc = "rounds" /\ pcm = <<>> /\ call.rounds < MaxRounds /\ left = 0
  /\ IF stream.live
     THEN \E extra \in Shaken(stream.last) :
          LET fed == dec.fed \o extra
          IN  \E out \in Drained(Len(fed), dec.out) :
                LET t == Trim(stream, Decoded(fed, dec.out, out))
                    n == Smaller(Len(t.samples), Less(Owed(stream.fed), stream.given))
                IN  /\ dec' = [dec EXCEPT !.fed = fed, !.out = out]
                    /\ pcm' = SubSeq(t.samples, 1, n)
                    /\ stream' = [stream EXCEPT !.live = FALSE, !.prime = t.prime]
                    /\ whole' = (out >= stream.fed)
     ELSE UNCHANGED <<dec, pcm, stream, whole>>
  /\ call' = [call EXCEPT !.pc = "rounded"]
  /\ UNCHANGED <<backend, pos, left, accepted, lost, heard, played>>

\* The rounds end with samples to hand over, or after MaxRounds without any.
Rounded ==
  /\ call.pc = "rounds" /\ (pcm # <<>> \/ call.rounds = MaxRounds)
  /\ call' = [call EXCEPT !.pc = "rounded"]
  /\ UNCHANGED <<backend, dec, pcm, pos, stream, left, accepted, lost, heard,
                 whole, played>>

\* Copy what fits the request.
Take ==
  /\ \/ Filling /\ Avail > 0
     \/ call.pc = "rounded" /\ Avail > 0
  /\ LET n == Smaller(Avail, call.want - call.give)
     IN  /\ heard' = heard \o SubSeq(pcm, pos + 1, pos + n)
         /\ pos' = pos + n
         /\ stream' = [stream EXCEPT !.given = @ + n]
         /\ call' = [call EXCEPT !.pc = "fill", !.give = @ + n]
  /\ UNCHANGED <<backend, dec, pcm, left, accepted, lost, whole, played>>

\* The request is filled, or the source is dry: a short fill, the rest silence.
\* The engine asks again, or after a short fill has the end of its recording.
Return ==
  /\ \/ call.pc = "fill" /\ call.give = call.want /\ call' = [Idle EXCEPT !.pc = "stream"]
     \/ /\ call.pc = "rounded" /\ Avail = 0
        /\ call' = IF left = 0 /\ ~stream.live THEN Idle ELSE [Idle EXCEPT !.pc = "stream"]
  /\ UNCHANGED <<backend, dec, pcm, pos, stream, left, accepted, lost, heard,
                 whole, played>>

\* AudioConverterReset and Dispose forget the stream; the engine gives up the
\* recording it was playing.
Reset ==
  /\ call.pc = "stream"
  /\ pcm' = <<>> /\ pos' = 0 /\ left' = 0 /\ call' = Idle /\ whole' = FALSE
  /\ IF stream.live /\ dec.open
     THEN dec' = Flushed /\ stream' = [stream EXCEPT !.live = FALSE]
     ELSE UNCHANGED <<dec, stream>>
  /\ UNCHANGED <<backend, accepted, lost, heard, played>>

\* AudioConverterNew or SoundConverterOpen for another rate or channel count.
OpenOther ==
  /\ call.pc = "idle" /\ dec.open
  /\ dec' = Silent
  /\ UNCHANGED <<backend, pcm, pos, stream, left, call, accepted, lost, heard,
                 whole, played>>

-----------------------------------------------------------------------------
(* The Sound Manager's route: one recording, decoded at once.                  *)

\* What aac_run_unit can leave behind of n units.
Runs(n) ==
  UNION {UNION {{[fed |-> good \o extra, good |-> good, out |-> out] :
                   out \in Drained(Len(good \o extra), 0)}
                  : extra \in Shaken(n)} : good \in Taken([i \in 1..n |-> i])}

\* aac_run_unit, and where the recording starts in what it decoded: after the
\* codec's delay.  The engine asks for what the recording holds from there.
Unit(n, run) ==
  /\ dec' = [fed |-> run.fed, out |-> run.out, open |-> TRUE]
  /\ pcm' = Decoded(run.fed, 0, run.out)
  /\ pos' = Smaller(Priming, run.out * Frame)
  /\ accepted' = run.good /\ lost' = (Len(run.good) < n)
  /\ call' = [pc |-> "unit", want |-> Owed(n), give |-> 0, rounds |-> call.rounds + 1]
  /\ whole' = (run.out >= n)

\* SoundConverterBeginConversion, and the FillBuffer that decodes a recording.
DecodeUnit ==
  /\ call.pc = "idle" /\ left = 0 /\ ~stream.live /\ Avail = 0
  /\ played < MaxStreams /\ played' = played + 1
  /\ \E n \in 1..MaxUnit : left' = n /\ \E run \in Runs(n) : Unit(n, run)
  /\ heard' = <<>>
  /\ UNCHANGED <<backend, stream>>

Short == call.rounds = 1 /\ dec.out < left

\* A short decode is done once more, on a new decoder.
DecodeAgain ==
  /\ call.pc = "unit" /\ Short /\ call.give = 0
  /\ \E run \in Runs(left) : Unit(left, run)
  /\ UNCHANGED <<backend, stream, left, heard, played>>

\* FillBuffer copies what it has, up to the bytes asked for.
FillBuffer ==
  /\ call.pc = "unit" /\ ~Short /\ call.give < call.want /\ Avail > 0
  /\ \E want \in Asks :
       LET n == Smaller(Avail, Smaller(want, call.want - call.give))
       IN  /\ heard' = heard \o SubSeq(pcm, pos + 1, pos + n)
           /\ pos' = pos + n
           /\ call' = [call EXCEPT !.give = @ + n]
  /\ UNCHANGED <<backend, dec, pcm, stream, left, accepted, lost, whole, played>>

\* EndConversion; the next BeginConversion drops what was not asked for.
EndConversion ==
  /\ call.pc = "unit" /\ ~Short /\ (call.give = call.want \/ Avail = 0)
  /\ pcm' = <<>> /\ pos' = 0 /\ left' = 0 /\ call' = Idle
  /\ UNCHANGED <<backend, dec, stream, accepted, lost, heard, whole, played>>

Next == NextStream \/ FillComplexBuffer \/ Refill \/ Packets \/ NoMore \/ Rounded
        \/ Take \/ Return \/ Reset \/ OpenOther \/ DecodeUnit \/ DecodeAgain
        \/ FillBuffer \/ EndConversion

Spec == Init /\ [][Next]_vars

-----------------------------------------------------------------------------
\* What an ideal decoder makes of the accepted units, without the codec's delay.
Payload == [k \in 1..Owed(Len(accepted)) |-> Overlapped(accepted, Priming + k)]

\* The engine is only ever given the recording: from its first sample after the
\* codec's delay, each sample once, no seam where one refill ends and the next
\* begins, nothing of the stream before - and all of it once the stream has
\* been closed, whichever decoder stands behind the converter and however it
\* holds frames back - unless a unit of a recording handed over whole is refused,
\* which the code reports.  The comments of FillComplexBuffer tell of the voices that
\* stuttered, skipped or lost their word ends when this was not so.
RecordingHeard ==
  ~lost =>
    /\ IsPrefix(heard, Payload)
    /\ whole /\ Avail = 0 => heard = Payload

=============================================================================
