------------------------------ MODULE SpeechQueue ------------------------------
(***************************************************************************)
(* The driver's speech pipeline: the queue of utterances, the worker that   *)
(* joins and renders them, the queue of audio, the feeder that pays it out  *)
(* to NVDA's player, and the marks that report an index when playback       *)
(* reaches it.                                                              *)
(*                                                                         *)
(* An utterance is one text and one index after it.  cancel() runs on       *)
(* NVDA's main thread against both other threads: it advances the epoch,    *)
(* drains the queues, stops the player and resets the marks, and any step   *)
(* of the worker, of the feeder or of the device may come between.          *)
(*                                                                         *)
(* Rendering is modules HostPool and HostServe.  Here it yields its chunks. *)
(***************************************************************************)
EXTENDS Naturals, Sequences, FiniteSets

CONSTANTS
  Settings,     \* values of _joinSentences, the breathing setting
  MaxItem,      \* utterances NVDA speaks
  MaxCancel,    \* cancels, the one terminate() makes included
  Chunks,       \* chunks of audio to an utterance
  MaxJoin,      \* sentences the joiner puts in one utterance
  None          \* the sentinel terminate() queues

ASSUME BoundsAssumption ==
  /\ Settings \subseteq BOOLEAN /\ {MaxItem, MaxCancel} \subseteq Nat
  /\ {Chunks, MaxJoin} \subseteq Nat \ {0} /\ None \notin 1 .. MaxItem

VARIABLES
  joining,               \* _joinSentences, which a run does not change
  epoch, stopped,        \* _epoch, _stopped
  queue, audioQueue,     \* _queue, _audioQueue
  playerLock,            \* the feeder is inside _playerLock
  worker, held, nxt, stamp, left,
                         \* the worker: where it is, the item in hand, the one
                         \* the joiner got, its epoch, its chunks to come
  feeder, got,           \* the feeder: where it is, its item
  main, pendingDone,     \* NVDA's thread: where it is, cancel()'s local
  device, firing,        \* the player: what it will sound, callbacks it will make
  fedBytes, playedBytes, markGen, marks,
  spoken, spokenIn,      \* utterances spoken, and the epoch of each
  lateFed,               \* history: stale chunks fed since the last stop()
  heard,                 \* history: utterances in the order they reached the player
  reported,              \* history: indexes NVDA was told of
  owed                   \* history: a "done" was queued and NVDA not told since

mainVars   == <<joining, epoch, stopped, main, pendingDone, spoken, spokenIn>>
workerVars == <<worker, held, nxt, stamp, left>>
feederVars == <<feeder, got, playerLock>>
markVars   == <<fedBytes, playedBytes, markGen, marks>>
deviceVars == <<device, firing>>
histVars   == <<lateFed, heard, reported, owed>>
vars == <<mainVars, workerVars, feederVars, markVars, deviceVars, histVars,
          queue, audioQueue>>

Items  == 1 .. MaxItem
Epochs == 1 .. MaxCancel + 1
NoTag  == 0            \* "index" and "done" are never tagged
Entry(kind, items, tag) == [kind |-> kind, items |-> items, tag |-> tag]
Stop   == Entry("none", <<>>, NoTag)

TypeOK ==
  /\ epoch \in Epochs /\ stopped \in BOOLEAN
  /\ queue \in Seq(Items \cup {None})
  /\ \A i \in 1 .. Len(audioQueue) :
       /\ audioQueue[i].kind \in {"audio", "index", "mark", "done", "none"}
       /\ audioQueue[i].tag # NoTag <=> audioQueue[i].kind = "audio"
  /\ playerLock \in BOOLEAN /\ (playerLock <=> feeder = "feeding")
  /\ worker \in {"get", "stamp", "report", "join", "waiting", "joined", "render",
                 "send", "put", "tail", "done", "end"}
  /\ held \in Seq(Items) /\ Len(held) <= MaxJoin /\ stamp \in 0 .. epoch
  /\ left \in 0 .. Chunks
  /\ feeder \in {"get", "look", "feed", "feeding", "idle", "drained", "end"}
  /\ main \in {"run", "drain", "drainAudio", "putDone", "stop", "reset",
               "sentinel", "closed"}
  /\ playedBytes <= fedBytes /\ markGen < epoch + 1
  /\ \A i \in 1 .. Len(marks) : marks[i].at \in playedBytes + 1 .. fedBytes
  /\ spoken \in 0 .. MaxItem /\ reported \subseteq Items

Init ==
  /\ joining \in Settings
  /\ epoch = 1 /\ stopped = FALSE /\ queue = <<>> /\ audioQueue = <<>>
  /\ playerLock = FALSE
  /\ worker = "get" /\ held = <<>> /\ nxt = None /\ stamp = 0 /\ left = 0
  /\ feeder = "get" /\ got = Stop /\ main = "run" /\ pendingDone = FALSE
  /\ device = <<>> /\ firing = <<>>
  /\ fedBytes = 0 /\ playedBytes = 0 /\ markGen = 0 /\ marks = <<>>
  /\ spoken = 0 /\ spokenIn = [i \in Items |-> 0]
  /\ lateFed = 0 /\ heard = <<>> /\ reported = {} /\ owed = FALSE

-----------------------------------------------------------------------------
(* The worker: _run, _join and _flush.                                     *)

Current == ~stopped /\ epoch = stamp
PutAudio(entry) == audioQueue' = Append(audioQueue, entry)

\* The loop's condition, read as the turn before ends.
LoopTop == IF stopped THEN "end" ELSE "get"

\* Blocked until something is queued, the sentinel included.
Take ==
  /\ worker = "get" /\ queue # <<>> /\ queue' = Tail(queue)
  /\ IF Head(queue) = None THEN worker' = "end" /\ UNCHANGED held
     ELSE worker' = "stamp" /\ held' = <<Head(queue)>>
  /\ UNCHANGED <<audioQueue, mainVars, nxt, stamp, left, feederVars, markVars,
                 deviceVars, histVars>>

\* The epoch is read after the item is taken, never when it was queued.
Stamp ==
  /\ worker = "stamp"
  /\ stamp' = epoch /\ worker' = IF joining THEN "report" ELSE "render"
  /\ UNCHANGED <<queue, audioQueue, mainVars, held, nxt, left, feederVars, markVars,
                 deviceVars, histVars>>

\* The joiner reports an index before it holds its sentence.
Report ==
  /\ worker = "report"
  /\ PutAudio(Entry("index", held, NoTag)) /\ worker' = "join"
  /\ UNCHANGED <<queue, mainVars, held, nxt, stamp, left, feederVars, markVars,
                 deviceVars, histVars>>

JoinMore ==
  /\ worker = "join"
  /\ worker' = IF Current /\ Len(held) < MaxJoin THEN "waiting" ELSE "render"
  /\ UNCHANGED <<queue, audioQueue, mainVars, held, nxt, stamp, left, feederVars,
                 markVars, deviceVars, histVars>>

\* The get with its timeout: whether it may wait at all is a matter of time.
JoinWait ==
  /\ worker = "waiting"
  /\ \/ /\ queue = <<>> /\ worker' = "render" /\ UNCHANGED <<queue, nxt>>
     \/ /\ queue # <<>> /\ nxt' = Head(queue) /\ queue' = Tail(queue)
        /\ worker' = "joined"
  /\ UNCHANGED <<audioQueue, mainVars, held, stamp, left, feederVars, markVars,
                 deviceVars, histVars>>

AbsorbsAnyway == nxt = None
HandsBack == nxt = None \/ ~Current

\* What a cancel made the next run's goes back to the queue, at its end.
Joined ==
  /\ worker = "joined" /\ nxt' = None
  /\ IF HandsBack
     THEN queue' = Append(queue, nxt) /\ worker' = "render" /\ UNCHANGED <<held, audioQueue>>
     ELSE /\ held' = Append(held, nxt) /\ PutAudio(Entry("index", <<nxt>>, NoTag))
          /\ worker' = "join" /\ UNCHANGED queue
  /\ UNCHANGED <<mainVars, stamp, left, feederVars, markVars, deviceVars, histVars>>

\* An item a cancel has overtaken is not rendered; its index is still NVDA's.
Render ==
  /\ worker = "render"
  /\ IF Current THEN worker' = "send" /\ left' = Chunks /\ UNCHANGED audioQueue
     ELSE /\ worker' = "done" /\ UNCHANGED left
          /\ IF joining THEN UNCHANGED audioQueue
             ELSE PutAudio(Entry("index", held, NoTag))
  /\ UNCHANGED <<queue, mainVars, held, nxt, stamp, feederVars, markVars, deviceVars,
                 histVars>>

\* The sink: the epoch first, then the put.
Sink ==
  /\ worker = "send"
  /\ worker' = IF left = 0 \/ ~Current THEN "tail" ELSE "put"
  /\ UNCHANGED <<queue, audioQueue, mainVars, held, nxt, stamp, left, feederVars,
                 markVars, deviceVars, histVars>>

SinkPut ==
  /\ worker = "put"
  /\ PutAudio(Entry("audio", held, stamp)) /\ left' = left - 1 /\ worker' = "send"
  /\ UNCHANGED <<queue, mainVars, held, nxt, stamp, feederVars, markVars, deviceVars,
                 histVars>>

MarkTail ==
  /\ worker = "tail"
  /\ IF joining THEN UNCHANGED audioQueue ELSE PutAudio(Entry("mark", held, NoTag))
  /\ worker' = "done" /\ left' = 0
  /\ UNCHANGED <<queue, mainVars, held, nxt, stamp, feederVars, markVars, deviceVars,
                 histVars>>

Done ==
  /\ worker = "done"
  /\ PutAudio(Entry("done", held, NoTag)) /\ owed' = TRUE
  /\ worker' = LoopTop /\ held' = <<>>
  /\ UNCHANGED <<queue, mainVars, nxt, stamp, left, feederVars, markVars, deviceVars,
                 lateFed, heard, reported>>

Worker == \/ Take \/ Stamp \/ Report \/ JoinMore \/ JoinWait \/ Joined
          \/ Render \/ Sink \/ SinkPut \/ MarkTail \/ Done

-----------------------------------------------------------------------------
(* The feeder: _feed, _feedPiece, _markReached, _marksDrained.             *)

Of(seq) == {seq[i] : i \in 1 .. Len(seq)}

TakeAudio ==
  /\ feeder = "get" /\ audioQueue # <<>> /\ audioQueue' = Tail(audioQueue)
  /\ got' = Head(audioQueue)
  /\ feeder' = IF got'.kind = "none" THEN "end" ELSE "look"
  /\ UNCHANGED <<queue, mainVars, workerVars, playerLock, markVars, deviceVars, histVars>>

PlaysAnyway(entry) == TRUE
Plays(entry) == entry.tag = NoTag \/ entry.tag = epoch

Skip ==
  /\ feeder = "look" /\ ~Plays(got)
  /\ feeder' = LoopTop /\ got' = Stop
  /\ UNCHANGED <<queue, audioQueue, mainVars, workerVars, playerLock, markVars,
                 deviceVars, histVars>>

LookAudio ==
  /\ feeder = "look" /\ Plays(got) /\ got.kind = "audio"
  /\ feeder' = "feed"
  /\ UNCHANGED <<queue, audioQueue, mainVars, workerVars, got, playerLock, markVars,
                 deviceVars, histVars>>

\* _feedPiece, under the player's lock: the bytes are counted, then fed.
FeedCount ==
  /\ feeder = "feed"
  /\ playerLock' = TRUE /\ feeder' = "feeding"
  /\ fedBytes' = IF joining THEN fedBytes ELSE fedBytes + 1
  /\ got' = [kind |-> "piece", items |-> got.items, tag |-> got.tag,
              end |-> fedBytes', gen |-> markGen]
  /\ UNCHANGED <<queue, audioQueue, mainVars, workerVars, playedBytes, markGen, marks,
                 deviceVars, histVars>>

Feed ==
  /\ feeder = "feeding"
  /\ device' = Append(device, got) /\ playerLock' = FALSE
  /\ heard' = heard \o SelectSeq(got.items, LAMBDA i : i \notin Of(heard))
  /\ lateFed' = IF got.tag = epoch THEN lateFed ELSE lateFed + 1
  /\ feeder' = LoopTop /\ got' = Stop
  /\ UNCHANGED <<queue, audioQueue, mainVars, workerVars, markVars, firing, reported, owed>>

ReportIndex ==
  /\ feeder = "look" /\ got.kind = "index"
  /\ reported' = reported \cup Of(got.items)
  /\ feeder' = LoopTop /\ got' = Stop
  /\ UNCHANGED <<queue, audioQueue, mainVars, workerVars, playerLock, markVars,
                 deviceVars, lateFed, heard, owed>>

WaitsForLast == playedBytes + 1 < fedBytes
Waits == playedBytes < fedBytes

\* A mark waits for everything fed so far, unless it has all been played.
MarkReached ==
  /\ feeder = "look" /\ got.kind = "mark"
  /\ IF Waits
     THEN /\ marks' = Append(marks, [at |-> fedBytes, items |-> got.items])
          /\ UNCHANGED reported
     ELSE /\ reported' = reported \cup Of(got.items) /\ UNCHANGED marks
  /\ feeder' = LoopTop /\ got' = Stop
  /\ UNCHANGED <<queue, audioQueue, mainVars, workerVars, playerLock, fedBytes,
                 playedBytes, markGen, deviceVars, lateFed, heard, owed>>

LookDone ==
  /\ feeder = "look" /\ got.kind = "done"
  /\ feeder' = "idle"
  /\ UNCHANGED <<queue, audioQueue, mainVars, workerVars, got, playerLock, markVars,
                 deviceVars, histVars>>

\* idle() waits out what the player holds, and its callbacks.
Idle ==
  /\ feeder = "idle" /\ device = <<>> /\ firing = <<>>
  /\ feeder' = "drained"
  /\ UNCHANGED <<queue, audioQueue, mainVars, workerVars, got, playerLock, markVars,
                 deviceVars, histVars>>

HeldMarks == UNION {Of(marks[i].items) : i \in 1 .. Len(marks)}
NothingHeld == {}
DueAtEnd == HeldMarks

\* _marksDrained, then the completion notice.
Drained ==
  /\ feeder = "drained"
  /\ reported' = reported \cup DueAtEnd
  /\ marks' = <<>> /\ fedBytes' = 0 /\ playedBytes' = 0
  /\ owed' = FALSE /\ feeder' = LoopTop /\ got' = Stop
  /\ UNCHANGED <<queue, audioQueue, mainVars, workerVars, playerLock, markGen,
                 deviceVars, lateFed, heard>>

Feeder == \/ TakeAudio \/ Skip \/ LookAudio \/ FeedCount \/ Feed \/ ReportIndex
          \/ MarkReached \/ LookDone \/ Idle \/ Drained

-----------------------------------------------------------------------------
(* The player.  It is given a callback with breathing off, and may never    *)
(* make it.                                                                *)

Play ==
  /\ device # <<>> /\ device' = Tail(device)
  /\ \/ ~joining /\ firing' = Append(firing, Head(device))
     \/ UNCHANGED firing
  /\ UNCHANGED <<queue, audioQueue, mainVars, workerVars, feederVars, markVars, histVars>>

AnyGeneration(gen) == TRUE
ThisGeneration(gen) == gen = markGen

\* _played: a callback of a generation cancel() retired is not counted.
Callback ==
  /\ firing # <<>> /\ firing' = Tail(firing)
  /\ LET end  == Head(firing).end
         due  == {i \in 1 .. Len(marks) : marks[i].at <= end}
     IN IF ThisGeneration(Head(firing).gen)
        THEN /\ playedBytes' = IF end > playedBytes THEN end ELSE playedBytes
             /\ reported' = reported \cup UNION {Of(marks[i].items) : i \in due}
             /\ marks' = SubSeq(marks, Cardinality(due) + 1, Len(marks))
        ELSE UNCHANGED <<playedBytes, reported, marks>>
  /\ UNCHANGED <<queue, audioQueue, mainVars, workerVars, feederVars, fedBytes, markGen,
                 device, lateFed, heard, owed>>

Player == Play \/ Callback

-----------------------------------------------------------------------------
(* NVDA's main thread: speak, cancel, terminate.                           *)

Speak ==
  /\ main = "run" /\ spoken < MaxItem
  /\ spoken' = spoken + 1 /\ queue' = Append(queue, spoken + 1)
  /\ spokenIn' = [spokenIn EXCEPT ![spoken + 1] = epoch]
  /\ UNCHANGED <<joining, audioQueue, epoch, stopped, main, pendingDone, workerVars,
                 feederVars, markVars, deviceVars, histVars>>

Bump ==
  /\ epoch <= MaxCancel /\ epoch' = epoch + 1 /\ main' = "drain"
  /\ UNCHANGED <<joining, queue, audioQueue, pendingDone, spoken, spokenIn,
                 workerVars, feederVars, markVars, deviceVars, histVars>>

Cancel == main = "run" /\ epoch < MaxCancel /\ Bump /\ UNCHANGED stopped
Terminate == main = "run" /\ stopped' = TRUE /\ Bump

Drain ==
  /\ main = "drain" /\ queue' = <<>> /\ main' = "drainAudio"
  /\ UNCHANGED <<joining, audioQueue, epoch, stopped, pendingDone, spoken, spokenIn,
                 workerVars, feederVars, markVars, deviceVars, histVars>>

LosesDone == FALSE
DrainsDone == \E i \in 1 .. Len(audioQueue) : audioQueue[i].kind = "done"

DrainAudio ==
  /\ main = "drainAudio"
  /\ pendingDone' = DrainsDone /\ audioQueue' = <<>> /\ main' = "putDone"
  /\ UNCHANGED <<joining, queue, epoch, stopped, spoken, spokenIn, workerVars,
                 feederVars, markVars, deviceVars, histVars>>

\* The completion notice is not thrown away with the audio.
PutDone ==
  /\ main = "putDone" /\ pendingDone' = FALSE /\ main' = "stop"
  /\ IF pendingDone THEN PutAudio(Entry("done", <<>>, NoTag)) ELSE UNCHANGED audioQueue
  /\ UNCHANGED <<joining, queue, epoch, stopped, spoken, spokenIn, workerVars,
                 feederVars, markVars, deviceVars, histVars>>

\* With the player's lock or, after 20 ms, without it.
StopPlayer ==
  /\ main = "stop" /\ device' = <<>> /\ lateFed' = 0 /\ main' = "reset"
  /\ UNCHANGED <<joining, queue, audioQueue, epoch, stopped, pendingDone, spoken,
                 spokenIn, workerVars, feederVars, markVars, firing, heard, reported,
                 owed>>

NoSentinel == IF stopped THEN "closed" ELSE "run"
AfterReset == IF stopped THEN "sentinel" ELSE "run"

ResetMarks ==
  /\ main = "reset" /\ main' = AfterReset
  /\ markGen' = markGen + 1 /\ marks' = <<>> /\ fedBytes' = 0 /\ playedBytes' = 0
  /\ UNCHANGED <<joining, queue, audioQueue, epoch, stopped, pendingDone, spoken,
                 spokenIn, workerVars, feederVars, deviceVars, histVars>>

Sentinel ==
  /\ main = "sentinel" /\ main' = "closed"
  /\ queue' = Append(queue, None) /\ PutAudio(Stop)
  /\ UNCHANGED <<joining, epoch, stopped, pendingDone, spoken, spokenIn, workerVars,
                 feederVars, markVars, deviceVars, histVars>>

Cancelling == Drain \/ DrainAudio \/ PutDone \/ StopPlayer \/ ResetMarks \/ Sentinel
Main == Speak \/ Cancel \/ Terminate \/ Cancelling

Closed == /\ main = "closed" /\ worker = "end" /\ feeder = "end" /\ device = <<>>
          /\ firing = <<>> /\ UNCHANGED vars

Next == Main \/ Worker \/ Feeder \/ Player \/ Closed

\* Three threads that run, a device that plays; NVDA finishes what it began.
Spec == /\ Init /\ [][Next]_vars
        /\ WF_vars(Worker) /\ WF_vars(Feeder) /\ WF_vars(Player) /\ WF_vars(Cancelling)

-----------------------------------------------------------------------------
(* What must hold.                                                         *)

Live(i) == spokenIn[i] = epoch /\ ~stopped

\* However a cancel falls between the two epoch checks, the queue and the feed,
\* no more than the one slice the feeder had in its hand when it looked can
\* reach the player after it was stopped.
OneLateSlice ==
  main \notin {"drain", "drainAudio", "putDone", "stop"} => lateFed <= 1

\* With breathing off an index is where its audio is: NVDA is not told of it
\* while the player still holds audio of its utterance, and a callback from
\* before a cancel is not counted against the audio after it.
MarkAfterAudio ==
  [][\A i \in reported' \ reported :
       Live(i) => \A k \in 1 .. Len(device) : i \notin Of(device[k].items)]_vars

\* NVDA hears every index of an utterance before it hears the end of it.
IndexBeforeDone ==
  [][feeder = "drained" /\ feeder' # feeder =>
       \A i \in Of(got.items) : Live(i) => i \in reported']_vars

\* The end of an utterance is always told: no cancel, drain or stopped player
\* swallows it, or everything NVDA holds behind it waits for ever.
DoneIsTold == owed ~> ~owed \/ stopped

\* An utterance no later cancel touches is heard and its index told, whatever
\* the cancels before it left behind in the joiner, the queues and the player.
LastWordIsHeard ==
  \A i \in Items : spokenIn[i] # 0 ~> ~Live(i) \/ (i \in Of(heard) /\ i \in reported)

\* terminate() brings both threads home, blocked on a get or not.
ThreadsEnd == stopped ~> worker = "end" /\ feeder = "end"

\* speech_pipeline.py: "The epoch check is why an utterance is not spoken after
\* it was cancelled."
CancelledNotSpoken ==
  \A k \in 1 .. Len(audioQueue) : audioQueue[k].tag = epoch =>
    \A i \in Of(audioQueue[k].items) : spokenIn[i] = epoch

\* speech_pipeline.py, of the joiner's put back: "after a cancel the queue is
\* empty, so the re-queue cannot reorder anything".
HeardInOrder ==
  \A j, k \in 1 .. Len(heard) :
    j < k /\ Live(heard[j]) /\ Live(heard[k]) => heard[j] < heard[k]
===============================================================================
