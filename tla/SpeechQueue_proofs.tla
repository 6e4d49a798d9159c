-------------------------- MODULE SpeechQueue_proofs --------------------------
(***************************************************************************)
(* What the speech pipeline guarantees for every number of utterances,      *)
(* cancels and chunks, and however its three threads and the player fall.   *)
(***************************************************************************)
EXTENDS SpeechQueue, FiniteSetTheorems, TLAPS

-----------------------------------------------------------------------------
(* The invariant, part by part: what each thread's variables are.          *)

Kinds    == {"audio", "index", "mark", "done", "none"}
Entries  == {e \in [kind : Kinds, items : Seq(Items), tag : Nat] :
               e.tag # NoTag <=> e.kind = "audio"}
Pieces   == [kind : {"piece"}, items : Seq(Items), tag : Nat, end : Nat, gen : Nat]
MarkSet  == [at : Nat, items : Seq(Items)]

\* The marks are of one generation less than the epochs, but for the time that
\* a cancel is at work.
Cancels == {"drain", "drainAudio", "putDone", "stop", "reset"}
MainTypes ==
  /\ joining \in BOOLEAN /\ stopped \in BOOLEAN /\ pendingDone \in BOOLEAN
  /\ epoch \in Epochs /\ markGen \in Nat
  /\ epoch = markGen + 1 + (IF main \in Cancels THEN 1 ELSE 0)
  /\ main \in Cancels \cup {"run", "sentinel", "closed"}
  /\ spoken \in 0 .. MaxItem /\ spokenIn \in [Items -> Nat]

Stamped == {"report", "join", "waiting", "joined", "render", "send", "put", "tail", "done"}
WorkTypes ==
  /\ queue \in Seq(Items \cup {None}) /\ nxt \in Items \cup {None}
  /\ worker \in Stamped \cup {"get", "stamp", "end"}
  /\ held \in Seq(Items) /\ Len(held) <= MaxJoin
  /\ worker \in {"waiting", "joined"} => Len(held) < MaxJoin
  /\ stamp \in 0 .. epoch /\ (worker \in Stamped => stamp # 0)
  /\ left \in 0 .. Chunks /\ (worker = "put" => left # 0)

FeedTypes ==
  /\ audioQueue \in Seq(Entries)
  /\ feeder \in {"get", "look", "feed", "feeding", "idle", "drained", "end"}
  /\ playerLock \in BOOLEAN /\ (playerLock <=> feeder = "feeding")
  /\ feeder # "feeding" => got \in Entries
  /\ feeder = "feed" => got.kind = "audio"
  /\ feeder = "feeding" => got \in Pieces
  /\ lateFed \in Nat /\ reported \subseteq Items

\* The bytes of this generation add up, and its marks are in order.
Counted(x) == x.gen <= markGen /\ (x.gen = markGen => x.end <= fedBytes)
MarkTypes ==
  /\ fedBytes \in Nat /\ playedBytes \in Nat /\ playedBytes <= fedBytes
  /\ marks \in Seq(MarkSet)
  /\ \A i \in 1 .. Len(marks) : playedBytes < marks[i].at /\ marks[i].at <= fedBytes
  /\ \A i, j \in 1 .. Len(marks) : i < j => marks[i].at <= marks[j].at
  /\ device \in Seq(Pieces) /\ firing \in Seq(Pieces)
  /\ \A k \in 1 .. Len(device) : Counted(device[k])
  /\ \A k \in 1 .. Len(firing) : Counted(firing[k])
  /\ feeder = "feeding" => Counted(got)
  /\ feeder = "drained" => device = <<>> /\ firing = <<>>

Types == MainTypes /\ WorkTypes /\ FeedTypes /\ MarkTypes

-----------------------------------------------------------------------------
(* What a step may touch.                                                  *)

LEMMA Bounds ==
  /\ MaxItem \in Nat /\ MaxCancel \in Nat /\ Chunks \in Nat /\ MaxJoin \in Nat
  /\ Chunks # 0 /\ MaxJoin # 0 /\ None \notin Items
BY BoundsAssumption DEF Items

LEMMA TakenOff ==
  ASSUME NEW S, NEW s \in Seq(S), s # <<>>
  PROVE  Head(s) \in S /\ Tail(s) \in Seq(S)
OBVIOUS

LEMMA PutOn ==
  ASSUME NEW S, NEW s \in Seq(S), NEW e \in S
  PROVE  Append(s, e) \in Seq(S) /\ Len(Append(s, e)) = Len(s) + 1
OBVIOUS

LEMMA WorkerFrame ==
  ASSUME Worker
  PROVE  UNCHANGED <<mainVars, feederVars, markVars, deviceVars, lateFed, heard, reported>>
BY DEF Worker, Take, Stamp, Report, JoinMore, JoinWait, Joined, Render, Sink, SinkPut,
   MarkTail, Done, histVars

LEMMA FeederFrame ==
  ASSUME Feeder
  PROVE  UNCHANGED <<queue, mainVars, workerVars, markGen, firing>>
BY DEF Feeder, TakeAudio, Skip, LookAudio, FeedCount, Feed, ReportIndex, MarkReached,
   LookDone, Idle, Drained, markVars, deviceVars

LEMMA PlayerFrame ==
  ASSUME Player
  PROVE  UNCHANGED <<queue, audioQueue, mainVars, workerVars, feederVars, fedBytes, markGen,
                     lateFed, heard, owed>>
BY DEF Player, Play, Callback, markVars, histVars

LEMMA MainFrame ==
  ASSUME Main
  PROVE  UNCHANGED <<workerVars, feederVars, firing, heard, reported, owed, joining>>
BY DEF Main, Speak, Cancel, Terminate, Bump, Cancelling, Drain, DrainAudio, PutDone,
   StopPlayer, ResetMarks, Sentinel, deviceVars, histVars

LEMMA MainStep ==
  ASSUME Types, [Next]_vars
  PROVE  MainTypes'
<1> USE Bounds DEF Types, MainTypes, mainVars, Cancels, Epochs, Items
<1>1. CASE Main
  <2>1. CASE Speak
    BY <2>1 DEF Speak, markVars
  <2>2. CASE Cancel \/ Terminate
    <3>1. /\ main = "run" /\ main' = "drain" /\ epoch <= MaxCancel /\ epoch' = epoch + 1
          /\ stopped' \in BOOLEAN
          /\ UNCHANGED <<joining, pendingDone, spoken, spokenIn, markGen>>
      BY <2>2 DEF Cancel, Terminate, Bump, markVars
    <3>2. epoch \in 1 .. MaxCancel + 1 /\ epoch = markGen + 1 BY <3>1
    <3> QED BY <3>1, <3>2
  <2>3. CASE Drain BY <2>3 DEF Drain, markVars
  <2>4. CASE DrainAudio BY <2>4 DEF DrainAudio, DrainsDone, markVars
  <2>5. CASE PutDone BY <2>5 DEF PutDone, markVars
  <2>6. CASE StopPlayer BY <2>6 DEF StopPlayer, markVars
  <2>7. CASE ResetMarks BY <2>7 DEF ResetMarks, AfterReset, markVars
  <2>8. CASE Sentinel BY <2>8 DEF Sentinel, markVars
  <2> QED BY <1>1, <2>1, <2>2, <2>3, <2>4, <2>5, <2>6, <2>7, <2>8 DEF Main, Cancelling
<1>2. CASE Worker BY <1>2, WorkerFrame DEF markVars
<1>3. CASE Feeder BY <1>3, FeederFrame
<1>4. CASE Player BY <1>4, PlayerFrame
<1>5. CASE UNCHANGED vars BY <1>5 DEF vars, markVars
<1> QED BY <1>1, <1>2, <1>3, <1>4, <1>5 DEF Next, Closed

LEMMA WorkStep ==
  ASSUME Types, [Next]_vars
  PROVE  WorkTypes'
<1> USE Bounds DEF Types, MainTypes, WorkTypes, Stamped, Epochs, workerVars
<1>1. CASE Main
  <2>1. epoch' \in Nat /\ epoch <= epoch'
    BY <1>1 DEF Main, Speak, Cancel, Terminate, Bump, Cancelling, Drain, DrainAudio, PutDone,
       StopPlayer, ResetMarks, Sentinel
  <2>2. queue' \in Seq(Items \cup {None})
    <3>1. CASE Speak
      <4>1. spoken + 1 \in Items BY <3>1 DEF Speak, Items
      <4> QED BY <3>1, <4>1, PutOn DEF Speak
    <3>2. CASE Sentinel BY <3>2, PutOn DEF Sentinel
    <3>3. CASE Drain BY <3>3 DEF Drain
    <3>4. CASE ~Speak /\ ~Sentinel /\ ~Drain
      BY <1>1, <3>4 DEF Main, Cancel, Terminate, Bump, Cancelling, DrainAudio, PutDone,
         StopPlayer, ResetMarks
    <3> QED BY <3>1, <3>2, <3>3, <3>4
  <2> QED BY <1>1, <2>1, <2>2, MainFrame
<1>2. CASE Worker
  <2> USE WorkerFrame, <1>2 DEF mainVars
  <2>1. CASE Take
    <3>1. Head(queue) \in Items \cup {None} /\ Tail(queue) \in Seq(Items \cup {None})
      BY <2>1, TakenOff DEF Take
    <3>2. CASE Head(queue) = None BY <2>1, <3>1, <3>2 DEF Take
    <3>3. CASE Head(queue) # None
      <4>1. <<Head(queue)>> \in Seq(Items) /\ Len(<<Head(queue)>>) = 1 BY <3>1, <3>3
      <4>2. held' = <<Head(queue)>> /\ worker' = "stamp"
        BY <2>1, <3>3 DEF Take
      <4>3. held' \in Seq(Items) /\ Len(held') <= MaxJoin BY <4>1, <4>2
      <4> QED BY <2>1, <3>1, <4>2, <4>3 DEF Take
    <3> QED BY <3>2, <3>3
  <2>2. CASE Stamp    BY <2>2 DEF Stamp
  <2>3. CASE Report   BY <2>3 DEF Report
  <2>4. CASE JoinMore BY <2>4 DEF JoinMore
  <2>5. CASE JoinWait
    <3>1. queue # <<>> => Head(queue) \in Items \cup {None} /\ Tail(queue) \in Seq(Items \cup {None})
      BY TakenOff
    <3> QED BY <2>5, <3>1 DEF JoinWait
  <2>6. CASE Joined
    <3>1. CASE HandsBack
      <4>1. Append(queue, nxt) \in Seq(Items \cup {None}) BY PutOn
      <4> QED BY <2>6, <3>1, <4>1 DEF Joined
    <3>2. CASE ~HandsBack
      <4>1. nxt \in Items BY <3>2 DEF HandsBack
      <4>2. Append(held, nxt) \in Seq(Items) /\ Len(Append(held, nxt)) = Len(held) + 1
        BY <4>1, PutOn
      <4>3. held' = Append(held, nxt) /\ worker' = "join"
        BY <2>6, <3>2 DEF Joined
      <4>4. held' \in Seq(Items) /\ Len(held') <= MaxJoin
        BY <2>6, <4>2, <4>3 DEF Joined
      <4> QED BY <2>6, <3>2, <4>3, <4>4 DEF Joined
    <3> QED BY <3>1, <3>2
  <2>7. CASE Render   BY <2>7 DEF Render
  <2>8. CASE Sink     BY <2>8 DEF Sink
  <2>9. CASE SinkPut  BY <2>9 DEF SinkPut
  <2>10. CASE MarkTail BY <2>10 DEF MarkTail
  <2>11. CASE Done    BY <2>11 DEF Done, LoopTop
  <2> QED BY <2>1, <2>2, <2>3, <2>4, <2>5, <2>6, <2>7, <2>8, <2>9, <2>10, <2>11 DEF Worker
<1>3. CASE Feeder BY <1>3, FeederFrame DEF mainVars
<1>4. CASE Player BY <1>4, PlayerFrame DEF mainVars
<1>5. CASE UNCHANGED vars BY <1>5 DEF vars, mainVars
<1> QED BY <1>1, <1>2, <1>3, <1>4, <1>5 DEF Next, Closed

LEMMA EntryTyped ==
  ASSUME NEW k \in Kinds, NEW s \in Seq(Items), NEW t \in Nat, t # NoTag <=> k = "audio"
  PROVE  Entry(k, s, t) \in Entries
BY DEF Entry, Entries

LEMMA StopTyped == Stop \in Entries
<1>1. <<>> \in Seq(Items) OBVIOUS
<1> QED BY <1>1, EntryTyped DEF Stop, Kinds, NoTag

LEMMA Reporting ==
  ASSUME NEW s \in Seq(Items)
  PROVE  Of(s) \subseteq Items
BY DEF Of

LEMMA MarkedItems ==
  ASSUME marks \in Seq(MarkSet)
  PROVE  \A i \in 1 .. Len(marks) : Of(marks[i].items) \subseteq Items
<1> TAKE i \in 1 .. Len(marks)
<1>1. marks[i] \in MarkSet OBVIOUS
<1>2. marks[i].items \in Seq(Items) BY <1>1 DEF MarkSet
<1> QED BY <1>2, Reporting

LEMMA FeedStep ==
  ASSUME Types, [Next]_vars
  PROVE  FeedTypes'
<1> USE DEF Types, FeedTypes, feederVars, histVars
<1>1. CASE Main
  <2>1. audioQueue' \in Seq(Entries)
    <3>1. CASE PutDone
      <4>0. <<>> \in Seq(Items) OBVIOUS
      <4>1. Entry("done", <<>>, NoTag) \in Entries BY <4>0, EntryTyped DEF Kinds, NoTag
      <4> QED BY <3>1, <4>1, PutOn DEF PutDone, PutAudio
    <3>2. CASE Sentinel BY <3>2, StopTyped, PutOn DEF Sentinel, PutAudio
    <3>3. CASE DrainAudio BY <3>3 DEF DrainAudio
    <3>4. CASE ~PutDone /\ ~Sentinel /\ ~DrainAudio
      BY <1>1, <3>4 DEF Main, Speak, Cancel, Terminate, Bump, Cancelling, Drain, StopPlayer, ResetMarks
    <3> QED BY <3>1, <3>2, <3>3, <3>4
  <2>2. lateFed' \in Nat
    BY <1>1 DEF Main, Speak, Cancel, Terminate, Bump, Cancelling, Drain, DrainAudio, PutDone,
       StopPlayer, ResetMarks, Sentinel
  <2> QED BY <1>1, <2>1, <2>2, MainFrame
<1>2. CASE Worker
  <2>1. audioQueue' \in Seq(Entries)
    <3> USE DEF WorkTypes, PutAudio, Kinds, NoTag
    <3>1. CASE Report   BY <3>1, EntryTyped, PutOn DEF Report
    <3>2. CASE Joined
      <4>1. nxt # None => Entry("index", <<nxt>>, NoTag) \in Entries
        <5>1. nxt # None => <<nxt>> \in Seq(Items) OBVIOUS
        <5> QED BY <5>1, EntryTyped
      <4> QED BY <3>2, <4>1, PutOn DEF Joined, HandsBack
    <3>3. CASE Render   BY <3>3, EntryTyped, PutOn DEF Render
    <3>4. CASE SinkPut
      <4>1. stamp \in Nat /\ stamp # 0 BY <3>4 DEF SinkPut, Stamped, MainTypes, Epochs
      <4>2. Entry("audio", held, stamp) \in Entries BY <4>1, EntryTyped
      <4> QED BY <3>4, <4>2, PutOn DEF SinkPut
    <3>5. CASE MarkTail BY <3>5, EntryTyped, PutOn DEF MarkTail
    <3>6. CASE Done     BY <3>6, EntryTyped, PutOn DEF Done
    <3>7. CASE Take \/ Stamp \/ JoinMore \/ JoinWait \/ Sink
      BY <3>7 DEF Take, Stamp, JoinMore, JoinWait, Sink
    <3> QED BY <1>2, <3>1, <3>2, <3>3, <3>4, <3>5, <3>6, <3>7 DEF Worker
  <2> QED BY <1>2, <2>1, WorkerFrame
<1>3. CASE Feeder
  <2> USE StopTyped DEF LoopTop
  <2>1. CASE TakeAudio
    <3>1. Head(audioQueue) \in Entries /\ Tail(audioQueue) \in Seq(Entries)
      BY <2>1, TakenOff DEF TakeAudio
    <3> QED BY <2>1, <3>1 DEF TakeAudio
  <2>2. CASE Skip BY <2>2 DEF Skip
  <2>3. CASE LookAudio BY <2>3 DEF LookAudio
  <2>4. CASE FeedCount
    <3>1. got'  \in Pieces
      <4>1. got \in Entries BY <2>4 DEF FeedCount
      <4>2. got.items \in Seq(Items) /\ got.tag \in Nat BY <4>1 DEF Entries
      <4>3. fedBytes' \in Nat /\ markGen \in Nat
        BY <2>4 DEF FeedCount, MarkTypes, MainTypes
      <4> QED BY <2>4, <4>2, <4>3 DEF FeedCount, Pieces
    <3> QED BY <2>4, <3>1 DEF FeedCount
  <2>5. CASE Feed
    <3>1. lateFed' \in Nat BY <2>5 DEF Feed
    <3> QED BY <2>5, <3>1 DEF Feed
  <2>6. CASE ReportIndex
    <3>1. Of(got.items) \subseteq Items BY <2>6, Reporting DEF ReportIndex, Entries
    <3> QED BY <2>6, <3>1 DEF ReportIndex
  <2>7. CASE MarkReached
    <3>1. Of(got.items) \subseteq Items BY <2>7, Reporting DEF MarkReached, Entries
    <3> QED BY <2>7, <3>1 DEF MarkReached
  <2>8. CASE LookDone BY <2>8 DEF LookDone
  <2>9. CASE Idle BY <2>9 DEF Idle
  <2>10. CASE Drained
    <3>1. HeldMarks \subseteq Items
      <4>1. \A i \in 1 .. Len(marks) : Of(marks[i].items) \subseteq Items
        BY MarkedItems DEF MarkTypes
      <4> QED BY <4>1 DEF HeldMarks
    <3> QED BY <2>10, <3>1 DEF Drained, DueAtEnd
  <2> QED BY <1>3, <2>1, <2>2, <2>3, <2>4, <2>5, <2>6, <2>7, <2>8, <2>9, <2>10 DEF Feeder
<1>4. CASE Player
  <2>1. reported' \subseteq Items
    <3>1. CASE Play BY <3>1 DEF Play
    <3>2. CASE Callback
      <4>1. \A i \in 1 .. Len(marks) : Of(marks[i].items) \subseteq Items
        BY MarkedItems DEF MarkTypes
      <4> QED BY <3>2, <4>1 DEF Callback
    <3> QED BY <1>4, <3>1, <3>2 DEF Player
  <2> QED BY <1>4, <2>1, PlayerFrame
<1>5. CASE UNCHANGED vars BY <1>5 DEF vars
<1> QED BY <1>1, <1>2, <1>3, <1>4, <1>5 DEF Next, Closed

-----------------------------------------------------------------------------
(* The bytes and the marks.                                                *)

LEMMA FirstOnes ==
  ASSUME NEW n \in Nat
  PROVE  IsFiniteSet(1 .. n) /\ Cardinality(1 .. n) = n
<1>1. IsFiniteSet(1 .. n) /\ Cardinality(1 .. n) = IF 1 > n THEN 0 ELSE n - 1 + 1
  BY FS_Interval
<1> QED BY <1>1

\* The marks are in order, so those a callback has reached are the first ones.
DueBy(end) == {i \in 1 .. Len(marks) : marks[i].at <= end}
LEMMA DueFirst ==
  ASSUME marks \in Seq(MarkSet), NEW end \in Nat,
         \A i, j \in 1 .. Len(marks) : i < j => marks[i].at <= marks[j].at
  PROVE  /\ Cardinality(DueBy(end)) \in 0 .. Len(marks)
         /\ \A i \in 1 .. Len(marks) : i <= Cardinality(DueBy(end)) <=> marks[i].at <= end
<1> DEFINE k == Cardinality(DueBy(end))
<1>0. Len(marks) \in Nat /\ \A i \in 1 .. Len(marks) : marks[i].at \in Nat
  <2>1. \A i \in 1 .. Len(marks) : marks[i] \in MarkSet OBVIOUS
  <2> QED BY <2>1 DEF MarkSet
<1>1. /\ IsFiniteSet(1 .. Len(marks)) /\ Cardinality(1 .. Len(marks)) = Len(marks)
  BY <1>0, FirstOnes
<1>2. k \in Nat /\ k <= Len(marks)
  <2>1. DueBy(end) \subseteq 1 .. Len(marks) BY DEF DueBy
  <2>2. IsFiniteSet(DueBy(end)) /\ k <= Len(marks) BY <1>1, <2>1, FS_Subset
  <2> QED BY <2>2, FS_CardinalityType
<1>3. ASSUME NEW i \in 1 .. Len(marks), marks[i].at <= end PROVE i <= k
  <2>1. 1 .. i \subseteq DueBy(end)
    <3> SUFFICES ASSUME NEW j \in 1 .. i PROVE j \in DueBy(end)
      OBVIOUS
    <3>1. j \in 1 .. Len(marks) /\ (j < i \/ j = i) BY <1>0
    <3>2. marks[j].at <= marks[i].at \/ j = i BY <3>1
    <3> QED BY <1>0, <1>3, <3>1, <3>2 DEF DueBy
  <2>2. IsFiniteSet(DueBy(end)) BY <1>1, FS_Subset DEF DueBy
  <2>3. Cardinality(1 .. i) = i
    <3>1. Cardinality(1 .. i) = IF 1 > i THEN 0 ELSE i - 1 + 1 BY <1>0, FS_Interval
    <3> QED BY <1>0, <3>1
  <2> QED BY <2>1, <2>2, <2>3, FS_Subset
<1>4. ASSUME NEW i \in 1 .. Len(marks), ~(marks[i].at <= end) PROVE k < i
  <2>1. DueBy(end) \subseteq 1 .. (i - 1)
    <3> SUFFICES ASSUME NEW j \in DueBy(end) PROVE j \in 1 .. (i - 1)
      OBVIOUS
    <3>1. j \in 1 .. Len(marks) /\ marks[j].at <= end BY DEF DueBy
    <3>2. i < j => marks[i].at <= marks[j].at BY <3>1
    <3>3. ~(i < j) /\ i # j BY <1>0, <1>4, <3>1, <3>2
    <3> QED BY <1>0, <3>1, <3>3
  <2>2. IsFiniteSet(1 .. (i - 1)) /\ Cardinality(1 .. (i - 1)) = i - 1
    <3>1. Cardinality(1 .. (i - 1)) = IF 1 > (i - 1) THEN 0 ELSE (i - 1) - 1 + 1
      BY <1>0, FS_Interval
    <3>2. IsFiniteSet(1 .. (i - 1)) BY <1>0, FS_Interval
    <3> QED BY <1>0, <3>1, <3>2
  <2>3. k <= i - 1 BY <2>1, <2>2, FS_Subset
  <2> QED BY <1>0, <1>2, <2>3
<1> QED BY <1>0, <1>2, <1>3, <1>4

\* What is left of a sequence when its first entries are taken away.
LEMMA Remainder ==
  ASSUME NEW S, NEW s \in Seq(S), NEW k \in 0 .. Len(s)
  PROVE  /\ SubSeq(s, k + 1, Len(s)) \in Seq(S)
         /\ Len(SubSeq(s, k + 1, Len(s))) = Len(s) - k
         /\ \A i \in 1 .. Len(s) - k : SubSeq(s, k + 1, Len(s))[i] = s[i + k]
OBVIOUS

\* What has been counted stays so: the bytes of a generation only add up, until
\* the generation is over or the player has sounded all of it.
LEMMA StillCounted ==
  ASSUME MarkTypes, NEW x \in Pieces, Counted(x),
         markGen \in Nat,
         \/ fedBytes' \in Nat /\ fedBytes <= fedBytes' /\ markGen' = markGen
         \/ markGen' = markGen + 1
  PROVE  Counted(x)'
<1>1. x.gen \in Nat /\ x.end \in Nat /\ fedBytes \in Nat BY DEF MarkTypes, Pieces
<1>2. CASE markGen' = markGen + 1 BY <1>1, <1>2 DEF Counted
<1>3. CASE fedBytes' \in Nat /\ fedBytes <= fedBytes' /\ markGen' = markGen
  <2>1. \A a, b, c \in Nat : a <= b /\ b <= c => a <= c OBVIOUS
  <2> QED BY <1>1, <1>3, <2>1 DEF Counted
<1> QED BY <1>2, <1>3

\* The device's pieces, one taken off or one put on.
LEMMA CountedOn ==
  ASSUME NEW s \in Seq(Pieces), NEW x \in Pieces,
         \A k \in 1 .. Len(s) : Counted(s[k]), Counted(x)
  PROVE  \A k \in 1 .. Len(Append(s, x)) : Counted(Append(s, x)[k])
BY DEF Counted

LEMMA CountedOff ==
  ASSUME NEW s \in Seq(Pieces), s # <<>>, \A k \in 1 .. Len(s) : Counted(s[k])
  PROVE  /\ Head(s) \in Pieces /\ Counted(Head(s))
         /\ \A k \in 1 .. Len(Tail(s)) : Counted(Tail(s)[k])
BY DEF Counted

LEMMA MarkStep ==
  ASSUME Types, [Next]_vars
  PROVE  MarkTypes'
<1> USE DEF Types, markVars, deviceVars
<1>1. CASE Main
  <2>1. CASE StopPlayer BY <1>1, <2>1, MainFrame DEF StopPlayer, MarkTypes, Counted, feederVars
  <2>2. CASE ResetMarks
    <3>1. markGen' = markGen + 1 /\ marks' = <<>> /\ fedBytes' = 0 /\ playedBytes' = 0
          /\ UNCHANGED <<device, firing, feeder, got>> /\ markGen \in Nat
      BY <2>2 DEF ResetMarks, feederVars, MainTypes
    <3>2. \A x \in Pieces : Counted(x) => Counted(x)'
      BY <3>1, StillCounted
    <3>3. \A k \in 1 .. Len(device) : device[k] \in Pieces BY DEF MarkTypes
    <3>4. \A k \in 1 .. Len(firing) : firing[k] \in Pieces BY DEF MarkTypes
    <3>5. feeder = "feeding" => got \in Pieces BY DEF FeedTypes
    <3> QED BY <3>1, <3>2, <3>3, <3>4, <3>5 DEF MarkTypes, Counted
  <2>3. CASE ~StopPlayer /\ ~ResetMarks
    <3>1. UNCHANGED <<markVars, device, firing, feeder, got>>
      BY <1>1, <2>3, MainFrame
      DEF Main, Speak, Cancel, Terminate, Bump, Cancelling, Drain, DrainAudio, PutDone, Sentinel,
          feederVars
    <3> QED BY <3>1 DEF MarkTypes, Counted
  <2> QED BY <2>1, <2>2, <2>3
<1>2. CASE Worker BY <1>2, WorkerFrame DEF MarkTypes, Counted, feederVars
<1>3. CASE Feeder
  <2>1. CASE FeedCount
    <3>1. /\ fedBytes' \in Nat /\ fedBytes <= fedBytes'
          /\ UNCHANGED <<markGen, marks, playedBytes, device, firing>>
          /\ feeder' = "feeding" /\ got'.gen = markGen /\ got'.end = fedBytes'
          /\ markGen \in Nat
      BY <2>1 DEF FeedCount, MarkTypes, MainTypes
    <3>2. \A x \in Pieces : Counted(x) => Counted(x)'
      BY <3>1, StillCounted
    <3>3. \A k \in 1 .. Len(device) : device[k] \in Pieces BY DEF MarkTypes
    <3>4. \A k \in 1 .. Len(firing) : firing[k] \in Pieces BY DEF MarkTypes
    <3>5. Counted(got)' BY <3>1 DEF Counted
    <3>6. playedBytes' <= fedBytes' BY <3>1 DEF MarkTypes
    <3>7. \A i \in 1 .. Len(marks) : marks[i].at \in Nat /\ marks[i].at <= fedBytes
      <4>1. \A i \in 1 .. Len(marks) : marks[i] \in MarkSet BY DEF MarkTypes
      <4> QED BY <4>1 DEF MarkTypes, MarkSet
    <3>8. \A i \in 1 .. Len(marks) : marks[i].at <= fedBytes'
      BY <3>1, <3>7 DEF MarkTypes
    <3> QED BY <3>1, <3>2, <3>3, <3>4, <3>5, <3>6, <3>8 DEF MarkTypes
  <2>2. CASE Feed
    <3>1. /\ device' = Append(device, got) /\ got \in Pieces /\ Counted(got)
          /\ feeder' # "feeding" /\ feeder' # "drained"
          /\ UNCHANGED <<fedBytes, playedBytes, markGen, marks, firing>>
      BY <2>2 DEF Feed, LoopTop, FeedTypes, MarkTypes
    <3>2. device' \in Seq(Pieces) BY <3>1, PutOn DEF MarkTypes
    <3>3. \A k \in 1 .. Len(device') : Counted(device'[k]) BY <3>1, CountedOn DEF MarkTypes
    <3> QED BY <3>1, <3>2, <3>3 DEF MarkTypes, Counted
  <2>3. CASE MarkReached
    <3>1. /\ feeder' # "feeding" /\ feeder' # "drained"
          /\ UNCHANGED <<fedBytes, playedBytes, markGen, device, firing>>
      BY <2>3 DEF MarkReached, LoopTop
    <3>2. CASE ~Waits BY <2>3, <3>1, <3>2 DEF MarkReached, MarkTypes, Counted
    <3>3. CASE Waits
      <4> DEFINE m == [at |-> fedBytes, items |-> got.items]
      <4>1. marks' = Append(marks, m) BY <2>3, <3>3 DEF MarkReached
      <4>2. m \in MarkSet BY <2>3 DEF MarkReached, FeedTypes, Entries, MarkTypes, MarkSet
      <4>3. m.at = fedBytes /\ playedBytes < fedBytes BY <3>3 DEF Waits
      <4>4. marks' \in Seq(MarkSet) /\ Len(marks') = Len(marks) + 1
        BY <4>1, <4>2, PutOn DEF MarkTypes
      <4>5. \A i \in 1 .. Len(marks) + 1 :
               marks'[i] = IF i = Len(marks) + 1 THEN m ELSE marks[i]
        BY <4>1 DEF MarkTypes
      <4> HIDE DEF m
      <4>6. \A i \in 1 .. Len(marks) + 1 : playedBytes < marks'[i].at /\ marks'[i].at <= fedBytes
        BY <4>3, <4>5 DEF MarkTypes
      <4>7. \A i, j \in 1 .. Len(marks) + 1 : i < j => marks'[i].at <= marks'[j].at
        <5> SUFFICES ASSUME NEW i \in 1 .. Len(marks) + 1, NEW j \in 1 .. Len(marks) + 1, i < j
                     PROVE  marks'[i].at <= marks'[j].at
          OBVIOUS
        <5>1. i \in 1 .. Len(marks) /\ marks'[i] = marks[i] BY <4>5 DEF MarkTypes
        <5>2. CASE j = Len(marks) + 1 BY <4>3, <4>5, <5>1, <5>2 DEF MarkTypes
        <5>3. CASE j # Len(marks) + 1
          <6>0. Len(marks) \in Nat BY DEF MarkTypes
          <6>1. j \in 1 .. Len(marks) BY <5>3, <6>0
          <6>2. marks'[j] = marks[j] BY <4>5, <5>3
          <6> QED BY <5>1, <6>1, <6>2 DEF MarkTypes
        <5> QED BY <5>2, <5>3
      <4> QED BY <3>1, <4>4, <4>6, <4>7 DEF MarkTypes, Counted
    <3> QED BY <3>2, <3>3
  <2>4. CASE Drained
    <3>1. /\ marks' = <<>> /\ fedBytes' = 0 /\ playedBytes' = 0 /\ feeder' # "feeding"
          /\ UNCHANGED <<device, firing>> /\ device = <<>> /\ firing = <<>>
      BY <2>4 DEF Drained, LoopTop, MarkTypes
    <3> QED BY <3>1 DEF MarkTypes
  <2>5. CASE Idle BY <2>5 DEF Idle, MarkTypes, Counted
  <2>6. CASE TakeAudio \/ Skip \/ LookAudio \/ ReportIndex \/ LookDone
    <3>1. feeder' # "feeding" /\ feeder' # "drained" /\ UNCHANGED <<markVars, deviceVars>>
      BY <2>6 DEF TakeAudio, Skip, LookAudio, ReportIndex, LookDone, LoopTop
    <3> QED BY <3>1 DEF MarkTypes, Counted
  <2> QED BY <1>3, <2>1, <2>2, <2>3, <2>4, <2>5, <2>6 DEF Feeder
<1>4. CASE Player
  <2>1. CASE Play
    <3>1. /\ device # <<>> /\ device' = Tail(device) /\ device' \in Seq(Pieces)
          /\ firing' = firing \/ firing' = Append(firing, Head(device))
          /\ UNCHANGED <<fedBytes, playedBytes, markGen, marks, feeder, got>>
      BY <2>1 DEF Play, MarkTypes, feederVars
    <3>2. /\ Head(device) \in Pieces /\ Counted(Head(device))
          /\ \A k \in 1 .. Len(device') : Counted(device'[k])
      BY <3>1, CountedOff DEF MarkTypes
    <3>3. firing' \in Seq(Pieces) BY <3>1, <3>2, PutOn DEF MarkTypes
    <3>4. \A k \in 1 .. Len(firing') : Counted(firing'[k])
      BY <3>1, <3>2, CountedOn DEF MarkTypes
    <3>5. feeder # "drained" BY <3>1 DEF MarkTypes
    <3> QED BY <3>1, <3>2, <3>3, <3>4, <3>5 DEF MarkTypes, Counted
  <2>2. CASE Callback
    <3> DEFINE end == Head(firing).end
               k   == Cardinality(DueBy(end))
    <3>1. /\ firing # <<>> /\ firing' = Tail(firing) /\ firing' \in Seq(Pieces)
          /\ UNCHANGED <<fedBytes, markGen, device, feeder, got>>
      BY <2>2 DEF Callback, MarkTypes, feederVars
    <3>2. /\ Head(firing) \in Pieces /\ Counted(Head(firing))
          /\ \A i \in 1 .. Len(firing') : Counted(firing'[i])
      BY <3>1, CountedOff DEF MarkTypes
    <3>3. feeder # "drained" BY <3>1 DEF MarkTypes
    <3>4. CASE Head(firing).gen # markGen
      <4>1. UNCHANGED <<playedBytes, marks>> BY <2>2, <3>4 DEF Callback, ThisGeneration
      <4> QED BY <3>1, <3>2, <3>3, <4>1 DEF MarkTypes, Counted
    <3>5. CASE Head(firing).gen = markGen
      <4>1. end \in Nat /\ end <= fedBytes BY <3>2, <3>5 DEF Counted, Pieces
      <4>2. /\ playedBytes' = IF end > playedBytes THEN end ELSE playedBytes
            /\ marks' = SubSeq(marks, k + 1, Len(marks))
        BY <2>2, <3>5 DEF Callback, ThisGeneration, DueBy
      <4>3. /\ k \in 0 .. Len(marks)
            /\ \A i \in 1 .. Len(marks) : i <= k <=> marks[i].at <= end
        BY <4>1, DueFirst DEF MarkTypes
      <4> HIDE DEF k
      <4>4. /\ marks' \in Seq(MarkSet) /\ Len(marks') = Len(marks) - k
            /\ \A i \in 1 .. Len(marks) - k : marks'[i] = marks[i + k]
        BY <4>2, <4>3, Remainder DEF MarkTypes
      <4>5. playedBytes' \in Nat /\ playedBytes' <= fedBytes
        BY <4>1, <4>2 DEF MarkTypes
      <4>6. \A i \in 1 .. Len(marks) : marks[i].at \in Nat
        <5>1. \A i \in 1 .. Len(marks) : marks[i] \in MarkSet BY DEF MarkTypes
        <5> QED BY <5>1 DEF MarkSet
      <4>7. ASSUME NEW i \in 1 .. Len(marks) - k
            PROVE  /\ i + k \in 1 .. Len(marks)
                   /\ playedBytes' < marks[i + k].at /\ marks[i + k].at <= fedBytes
        <5>1. i + k \in 1 .. Len(marks) /\ ~(i + k <= k) BY <4>3
        <5>2. marks[i + k].at > end BY <4>1, <4>3, <4>6, <5>1
        <5> QED BY <4>1, <4>2, <5>1, <5>2 DEF MarkTypes
      <4>8. ASSUME NEW i \in 1 .. Len(marks) - k, NEW j \in 1 .. Len(marks) - k, i < j
            PROVE  marks[i + k].at <= marks[j + k].at
        <5>1. i + k < j + k BY <4>3, <4>8
        <5> QED BY <4>7, <5>1 DEF MarkTypes
      <4> HIDE DEF end
      <4> QED BY <3>1, <3>2, <3>3, <4>4, <4>5, <4>7, <4>8 DEF MarkTypes, Counted
    <3> QED BY <3>4, <3>5
  <2> QED BY <1>4, <2>1, <2>2 DEF Player
<1>5. CASE UNCHANGED vars BY <1>5 DEF vars, MarkTypes, Counted, feederVars
<1> QED BY <1>1, <1>2, <1>3, <1>4, <1>5 DEF Next, Closed

LEMMA TypesStep ==
  ASSUME Types, [Next]_vars
  PROVE  Types'
BY MainStep, WorkStep, FeedStep, MarkStep DEF Types

LEMMA TypesInit ==
  ASSUME Init
  PROVE  Types
<1> USE Bounds, StopTyped DEF Init
<1>1. MainTypes
  <2>1. joining \in BOOLEAN BY BoundsAssumption
  <2>2. epoch \in Epochs /\ spoken \in 0 .. MaxItem BY DEF Epochs
  <2>3. spokenIn \in [Items -> Nat] OBVIOUS
  <2>4. stopped \in BOOLEAN /\ pendingDone \in BOOLEAN OBVIOUS
  <2>5. markGen \in Nat /\ main = "run" /\ epoch = markGen + 1 OBVIOUS
  <2> HIDE DEF Init
  <2> QED BY <2>1, <2>2, <2>3, <2>4, <2>5 DEF MainTypes, Cancels
<1>2. WorkTypes
  <2>1. <<>> \in Seq(Items \cup {None}) /\ <<>> \in Seq(Items) /\ Len(<<>>) = 0 OBVIOUS
  <2> QED BY <2>1 DEF WorkTypes, Stamped
<1>3. FeedTypes
  <2>1. audioQueue \in Seq(Entries) /\ got \in Entries /\ reported \subseteq Items OBVIOUS
  <2>2. playerLock \in BOOLEAN /\ (playerLock <=> feeder = "feeding") OBVIOUS
  <2> QED BY <2>1, <2>2 DEF FeedTypes
<1>4. MarkTypes BY DEF MarkTypes
<1> QED BY <1>1, <1>2, <1>3, <1>4 DEF Types

LEMMA TypesSuffice ==
  ASSUME Types
  PROVE  TypeOK
<1>1. \A i \in 1 .. Len(audioQueue) :
        /\ audioQueue[i].kind \in {"audio", "index", "mark", "done", "none"}
        /\ audioQueue[i].tag # NoTag <=> audioQueue[i].kind = "audio"
  <2>1. \A i \in 1 .. Len(audioQueue) : audioQueue[i] \in Entries BY DEF Types, FeedTypes
  <2> QED BY <2>1 DEF Entries, Kinds
<1>2. \A i \in 1 .. Len(marks) : marks[i].at \in playedBytes + 1 .. fedBytes
  <2>1. \A i \in 1 .. Len(marks) : marks[i] \in MarkSet BY DEF Types, MarkTypes
  <2>2. \A i \in 1 .. Len(marks) : marks[i].at \in Nat BY <2>1 DEF MarkSet
  <2> QED BY <2>2 DEF Types, MarkTypes
<1>3. markGen < epoch + 1 BY DEF Types, MainTypes, Epochs
<1>4. worker \in {"get", "stamp", "report", "join", "waiting", "joined", "render",
                  "send", "put", "tail", "done", "end"}
  BY DEF Types, WorkTypes, Stamped
<1> QED BY <1>1, <1>2, <1>3, <1>4
    DEF Types, TypeOK, MainTypes, WorkTypes, FeedTypes, MarkTypes, Cancels

-----------------------------------------------------------------------------
(* One late slice.                                                         *)

\* The feeder looks at the epoch before it feeds: what it has in hand is the one
\* slice that a cancel may find on its way, and it counts as fed.
InHand == feeder \in {"feed", "feeding"} /\ got.tag # epoch
LateInv == main \notin {"drain", "drainAudio", "putDone", "stop"} =>
             /\ lateFed <= 1
             /\ InHand => lateFed = 0

LEMMA LateStep ==
  ASSUME Types, LateInv, [Next]_vars
  PROVE  LateInv'
<1> USE DEF LateInv, InHand, mainVars, feederVars, histVars
<1>0. lateFed \in Nat BY DEF Types, FeedTypes
<1>1. CASE Main
  <2>1. CASE StopPlayer BY <1>1, <2>1, MainFrame DEF StopPlayer
  <2>2. CASE Speak \/ ResetMarks \/ Sentinel BY <1>1, <2>2, MainFrame DEF Speak, ResetMarks, Sentinel
  <2>3. CASE Cancel \/ Terminate \/ Drain \/ DrainAudio \/ PutDone
    BY <2>3 DEF Cancel, Terminate, Bump, Drain, DrainAudio, PutDone
  <2> QED BY <1>1, <2>1, <2>2, <2>3 DEF Main, Cancelling
<1>2. CASE Worker BY <1>2, WorkerFrame
<1>3. CASE Feeder
  <2>1. CASE LookAudio
    <3>1. got.tag = epoch
      BY <2>1 DEF LookAudio, Plays, Types, FeedTypes, Entries
    <3> QED BY <1>3, <2>1, <3>1, FeederFrame DEF LookAudio
  <2>2. CASE FeedCount BY <1>3, <2>2, FeederFrame DEF FeedCount
  <2>3. CASE Feed BY <1>0, <1>3, <2>3, FeederFrame DEF Feed, LoopTop
  <2>4. CASE TakeAudio \/ Skip \/ ReportIndex \/ MarkReached \/ LookDone \/ Idle \/ Drained
    BY <1>3, <2>4, FeederFrame
    DEF TakeAudio, Skip, ReportIndex, MarkReached, LookDone, Idle, Drained, LoopTop
  <2> QED BY <1>3, <2>1, <2>2, <2>3, <2>4 DEF Feeder
<1>4. CASE Player BY <1>4, PlayerFrame
<1>5. CASE UNCHANGED vars BY <1>5 DEF vars
<1> QED BY <1>1, <1>2, <1>3, <1>4, <1>5 DEF Next, Closed

\* Every variable of the pipeline stays in its type: among them the bytes that
\* _played() counts, never more than were fed, and the marks, each of which is
\* still to be reached.
THEOREM PipelineTypes == Spec => []TypeOK
<1>1. Init => Types BY TypesInit
<1>2. Types /\ [Next]_vars => Types' BY TypesStep
<1>3. Types => TypeOK BY TypesSuffice
<1> QED BY <1>1, <1>2, <1>3, PTL DEF Spec

\* After cancel() has stopped the player at most one stale slice is fed to it,
\* the one the feeder had in its hand: the epoch is read between the queue and
\* the feed (_feed, cancel).
THEOREM LateByOne == Spec => []OneLateSlice
<1>1. Init => Types /\ LateInv
  <2>1. Init => LateInv BY DEF Init, LateInv, InHand
  <2> QED BY <2>1, TypesInit
<1>2. Types /\ LateInv /\ [Next]_vars => Types' /\ LateInv'
  BY TypesStep, LateStep
<1>3. LateInv => OneLateSlice
  BY DEF LateInv, OneLateSlice
<1> QED BY <1>1, <1>2, <1>3, PTL DEF Spec

-----------------------------------------------------------------------------
(* Indexes: who has spoken of an utterance, and what is left of it.        *)

\* An item that is anywhere in the pipeline was spoken, and none is of this
\* epoch while a cancel is at work.
Old(i) == spokenIn[i] # 0
EpochInv ==
  /\ \A i \in Items : spokenIn[i] <= epoch /\ (Old(i) => i <= spoken)
  /\ main \in Cancels => \A i \in Items : spokenIn[i] # epoch
  /\ main \in {"sentinel", "closed"} => stopped
InAudio  == UNION {Of(e.items) : e \in Of(audioQueue)}
InDevice == UNION {Of(p.items) : p \in Of(device)}
InPipe   == ((Of(queue) \cup {nxt}) \ {None}) \cup Of(held) \cup InAudio
              \cup Of(got.items) \cup HeldMarks \cup InDevice
OldInv   == \A i \in InPipe : Old(i)

\* What the feeder has told NVDA of i or will, once the player gets there; what
\* it has in its hand; what is queued for it before place k.
Tells(e)    == e.kind \in {"index", "mark"}
Settled(i)  == i \in reported \cup HeldMarks
Looking(i)  == feeder = "look" /\ Tells(got) /\ i \in Of(got.items)
Ahead(i, k) == \/ Settled(i) \/ Looking(i)
               \/ \E j \in 1 .. Len(audioQueue) :
                    j < k /\ Tells(audioQueue[j]) /\ i \in Of(audioQueue[j].items)

\* The index of a live item comes before the end of its utterance.
Announced == \/ worker = "done"
             \/ joining /\ worker \in {"join", "waiting", "joined", "render", "send",
                                       "put", "tail", "done"}
ToldInv ==
  /\ \A k \in 1 .. Len(audioQueue) : audioQueue[k].kind = "done" =>
       \A i \in Of(audioQueue[k].items) : Live(i) => Ahead(i, k)
  /\ feeder \in {"look", "idle", "drained"} /\ got.kind = "done" =>
       \A i \in Of(got.items) : Live(i) => Settled(i)
  /\ feeder \in {"idle", "drained"} => got.kind = "done"
  /\ Announced => \A i \in Of(held) : Live(i) => Ahead(i, Len(audioQueue) + 1)

LEMMA OfPutOn ==
  ASSUME NEW S, NEW s \in Seq(S), NEW e \in S
  PROVE  Of(Append(s, e)) = Of(s) \cup {e}
<1>1. /\ Len(Append(s, e)) = Len(s) + 1 /\ Len(s) \in Nat
      /\ \A i \in 1 .. Len(s) : Append(s, e)[i] = s[i]
      /\ Append(s, e)[Len(s) + 1] = e
  OBVIOUS
<1>2. 1 .. Len(s) + 1 = (1 .. Len(s)) \cup {Len(s) + 1} BY <1>1
<1> QED BY <1>1, <1>2 DEF Of

LEMMA OfOne == \A x : Of(<<x>>) = {x}
BY DEF Of

LEMMA OfNone == Of(<<>>) = {}
BY DEF Of

LEMMA OfRest ==
  ASSUME NEW S, NEW s \in Seq(S), s # <<>>
  PROVE  Of(s) = {Head(s)} \cup Of(Tail(s))
<1>1. /\ Len(Tail(s)) = Len(s) - 1 /\ Len(s) \in Nat \ {0}
      /\ \A i \in 1 .. Len(s) - 1 : Tail(s)[i] = s[i + 1]
      /\ Head(s) = s[1]
  OBVIOUS
<1>2. ASSUME NEW i \in 1 .. Len(s), i # 1 PROVE s[i] \in Of(Tail(s))
  <2>1. i - 1 \in 1 .. Len(s) - 1 /\ (i - 1) + 1 = i BY <1>1, <1>2
  <2> QED BY <1>1, <2>1 DEF Of
<1>3. ASSUME NEW i \in 1 .. Len(s) - 1 PROVE Tail(s)[i] \in Of(s)
  <2>1. i + 1 \in 1 .. Len(s) BY <1>1
  <2> QED BY <1>1, <2>1 DEF Of
<1>4. ASSUME NEW x \in Of(s) PROVE x \in {Head(s)} \cup Of(Tail(s))
  <2> PICK i \in 1 .. Len(s) : x = s[i] BY DEF Of
  <2> QED BY <1>1, <1>2
<1>5. ASSUME NEW x \in {Head(s)} \cup Of(Tail(s)) PROVE x \in Of(s)
  <2>1. CASE x = Head(s) BY <1>1, <2>1 DEF Of
  <2>2. CASE x \in Of(Tail(s))
    <3> PICK i \in 1 .. Len(Tail(s)) : x = Tail(s)[i] BY <2>2 DEF Of
    <3> QED BY <1>1, <1>3
  <2> QED BY <1>5, <2>1, <2>2
<1> QED BY <1>4, <1>5

-----------------------------------------------------------------------------
(* Who is live.                                                            *)

LEMMA EpochStep ==
  ASSUME Types, EpochInv, [Next]_vars
  PROVE  EpochInv'
<1> USE Bounds DEF Types, MainTypes, EpochInv, Old, mainVars, Cancels, Epochs, Items
<1>1. CASE Main
  <2>1. CASE Speak
    <3>1. spoken + 1 \in Items /\ spokenIn' = [spokenIn EXCEPT ![spoken + 1] = epoch]
      BY <2>1 DEF Speak
    <3>2. UNCHANGED <<epoch, stopped, main>> /\ main = "run" /\ spoken' = spoken + 1
      BY <2>1 DEF Speak
    <3>3. \A i \in Items : spokenIn'[i] = IF i = spoken + 1 THEN epoch ELSE spokenIn[i]
      BY <3>1
    <3> QED BY <3>1, <3>2, <3>3
  <2>2. CASE Cancel \/ Terminate
    <3>1. /\ main' = "drain" /\ epoch' = epoch + 1
          /\ UNCHANGED <<spoken, spokenIn>>
      BY <2>2 DEF Cancel, Terminate, Bump
    <3>2. \A i \in Items : spokenIn[i] \in Nat OBVIOUS
    <3> QED BY <3>1, <3>2
  <2>3. CASE Drain \/ DrainAudio \/ PutDone \/ StopPlayer
    BY <2>3 DEF Drain, DrainAudio, PutDone, StopPlayer
  <2>4. CASE ResetMarks BY <2>4 DEF ResetMarks, AfterReset
  <2>5. CASE Sentinel BY <2>5 DEF Sentinel
  <2> QED BY <1>1, <2>1, <2>2, <2>3, <2>4, <2>5 DEF Main, Cancelling
<1>2. CASE Worker BY <1>2, WorkerFrame
<1>3. CASE Feeder BY <1>3, FeederFrame
<1>4. CASE Player BY <1>4, PlayerFrame
<1>5. CASE UNCHANGED vars BY <1>5 DEF vars
<1> QED BY <1>1, <1>2, <1>3, <1>4, <1>5 DEF Next, Closed

\* What cancel() and terminate() do to anybody's utterance: it is live no more.
LEMMA MainKills ==
  ASSUME Types, EpochInv, Main, ~Speak, NEW i \in Items
  PROVE  ~Live(i)'
<1> USE DEF Types, MainTypes, EpochInv, Live, Cancels, Epochs
<1>1. CASE Cancel \/ Terminate
  <2>1. epoch' = epoch + 1 /\ spokenIn' = spokenIn BY <1>1 DEF Cancel, Terminate, Bump
  <2>2. spokenIn[i] \in Nat /\ spokenIn[i] <= epoch /\ epoch \in Nat BY Bounds
  <2> QED BY <2>1, <2>2
<1>2. CASE Drain \/ DrainAudio \/ PutDone \/ StopPlayer \/ ResetMarks \/ Sentinel
  BY <1>2 DEF Drain, DrainAudio, PutDone, StopPlayer, ResetMarks, Sentinel
<1> QED BY <1>1, <1>2 DEF Main, Cancelling

\* Nobody comes to life again, and who was spoken was.
LEMMA LiveStep ==
  ASSUME Types, EpochInv, [Next]_vars, NEW i \in Items
  PROVE  /\ Old(i) => Old(i)'
         /\ Old(i) /\ Live(i)' => Live(i)
<1> USE DEF mainVars, Live, Old
<1>1. CASE Speak
  <2>1. spokenIn' = [spokenIn EXCEPT ![spoken + 1] = epoch] /\ UNCHANGED <<epoch, stopped>>
        /\ spoken + 1 \in Items /\ epoch # 0 /\ spoken \in Nat
    BY <1>1, Bounds DEF Speak, Types, MainTypes, Items, Epochs
  <2>2. Old(i) => i # spoken + 1 BY <2>1 DEF EpochInv, Items
  <2> QED BY <2>1, <2>2 DEF Types, MainTypes
<1>2. CASE Main /\ ~Speak
  <2>1. spokenIn' = spokenIn
    BY <1>2 DEF Main, Cancel, Terminate, Bump, Cancelling, Drain, DrainAudio, PutDone,
       StopPlayer, ResetMarks, Sentinel
  <2> QED BY <1>2, <2>1, MainKills
<1>3. CASE Worker BY <1>3, WorkerFrame
<1>4. CASE Feeder BY <1>4, FeederFrame
<1>5. CASE Player BY <1>5, PlayerFrame
<1>6. CASE UNCHANGED vars BY <1>6 DEF vars
<1> QED BY <1>1, <1>2, <1>3, <1>4, <1>5, <1>6 DEF Next, Closed

-----------------------------------------------------------------------------
(* What is in the pipeline was spoken.                                     *)

LEMMA PipeTyped ==
  ASSUME Types
  PROVE  InPipe \subseteq Items
<1> USE DEF Types, WorkTypes, FeedTypes, MarkTypes
<1>1. (Of(queue) \cup {nxt}) \ {None} \subseteq Items BY DEF Of
<1>2. Of(held) \subseteq Items BY Reporting
<1>3. InAudio \subseteq Items
  <2>1. \A e \in Of(audioQueue) : e \in Entries BY DEF Of
  <2>2. \A e \in Entries : Of(e.items) \subseteq Items BY Reporting DEF Entries
  <2> QED BY <2>1, <2>2 DEF InAudio
<1>4. Of(got.items) \subseteq Items
  <2>1. got.items \in Seq(Items) BY DEF Entries, Pieces
  <2> QED BY <2>1, Reporting
<1>5. HeldMarks \subseteq Items BY MarkedItems DEF HeldMarks
<1>6. InDevice \subseteq Items
  <2>1. \A e \in Of(device) : e \in Pieces BY DEF Of
  <2>2. \A e \in Pieces : Of(e.items) \subseteq Items BY Reporting DEF Pieces
  <2> QED BY <2>1, <2>2 DEF InDevice
<1> QED BY <1>1, <1>2, <1>3, <1>4, <1>5, <1>6 DEF InPipe

\* A queue of entries, one put at its end or its head taken.
ItemsIn(q) == UNION {Of(e.items) : e \in Of(q)}
LEMMA PutInPipe ==
  ASSUME NEW S, NEW q \in Seq(S), NEW e \in S
  PROVE  ItemsIn(Append(q, e)) = ItemsIn(q) \cup Of(e.items)
<1>1. Of(Append(q, e)) = Of(q) \cup {e} BY OfPutOn
<1> QED BY <1>1 DEF ItemsIn

LEMMA TakeFromPipe ==
  ASSUME NEW S, NEW q \in Seq(S), q # <<>>
  PROVE  ItemsIn(q) = ItemsIn(Tail(q)) \cup Of(Head(q).items)
<1>1. Of(q) = {Head(q)} \cup Of(Tail(q)) BY OfRest
<1> QED BY <1>1 DEF ItemsIn

\* The marks that a callback leaves are among those there were.
LEMMA FewerMarks ==
  ASSUME marks \in Seq(MarkSet), NEW k \in 0 .. Len(marks),
         marks' = SubSeq(marks, k + 1, Len(marks))
  PROVE  HeldMarks' \subseteq HeldMarks
<1>1. /\ Len(marks') = Len(marks) - k
      /\ \A i \in 1 .. Len(marks) - k : marks'[i] = marks[i + k] /\ i + k \in 1 .. Len(marks)
  BY Remainder
<1> QED BY <1>1 DEF HeldMarks

\* A callback takes marks away and leaves none that was not there.
LEMMA PlayerMarks ==
  ASSUME Types, Player
  PROVE  HeldMarks' \subseteq HeldMarks
<1> USE DEF Types
<1>1. CASE Play BY <1>1 DEF Play, markVars, HeldMarks
<1>2. CASE Callback /\ Head(firing).gen = markGen
  <2>1. Head(firing) \in Pieces BY <1>2, TakenOff DEF Callback, MarkTypes
  <2>2. Head(firing).end \in Nat BY <2>1 DEF Pieces
  <2>3. Cardinality(DueBy(Head(firing).end)) \in 0 .. Len(marks)
    BY <2>2, DueFirst DEF MarkTypes
  <2>4. marks' = SubSeq(marks, Cardinality(DueBy(Head(firing).end)) + 1, Len(marks))
    BY <1>2 DEF Callback, ThisGeneration, DueBy
  <2> QED BY <2>3, <2>4, FewerMarks DEF MarkTypes
<1>3. CASE Callback /\ Head(firing).gen # markGen
  BY <1>3 DEF Callback, ThisGeneration, HeldMarks
<1> QED BY <1>1, <1>2, <1>3 DEF Player

LEMMA OneMoreMark ==
  ASSUME marks \in Seq(MarkSet), NEW m \in MarkSet, marks' = Append(marks, m)
  PROVE  HeldMarks' = HeldMarks \cup Of(m.items)
<1>1. /\ Len(marks') = Len(marks) + 1 /\ Len(marks) \in Nat
      /\ \A i \in 1 .. Len(marks) : marks'[i] = marks[i]
      /\ marks'[Len(marks) + 1] = m
  OBVIOUS
<1>2. 1 .. Len(marks) + 1 = (1 .. Len(marks)) \cup {Len(marks) + 1} BY <1>1
<1> QED BY <1>1, <1>2 DEF HeldMarks

LEMMA StopEmpty == Of(Stop.items) = {} /\ Stop.kind = "none" /\ Stop.tag = NoTag
BY OfNone DEF Stop, Entry

\* Only speak() puts anything into the pipeline.
LEMMA PipeStep ==
  ASSUME Types, [Next]_vars, ~Speak
  PROVE  InPipe' \subseteq InPipe
<1> USE DEF Types
<1>3. CASE Main /\ ~Speak
  <2> USE MainFrame, <1>3 DEF InPipe, workerVars, feederVars, HeldMarks
  <2>1. CASE Cancel \/ Terminate
    BY <2>1 DEF Cancel, Terminate, Bump, markVars, deviceVars, InAudio, InDevice
  <2>2. CASE Drain BY <2>2, OfNone DEF Drain, markVars, deviceVars, InAudio, InDevice
  <2>3. CASE DrainAudio
    BY <2>3, OfNone DEF DrainAudio, markVars, deviceVars, InAudio, InDevice
  <2>4. CASE PutDone
    <3>1. Entry("done", <<>>, NoTag) \in Entries
      <4>1. <<>> \in Seq(Items) OBVIOUS
      <4> QED BY <4>1, EntryTyped DEF Kinds, NoTag
    <3>2. ItemsIn(audioQueue') = ItemsIn(audioQueue)
      <4>1. Of(Entry("done", <<>>, NoTag).items) = {} BY OfNone DEF Entry
      <4>2. audioQueue' \in {audioQueue, Append(audioQueue, Entry("done", <<>>, NoTag))}
        BY <2>4 DEF PutDone, PutAudio
      <4>3. audioQueue \in Seq(Entries) BY DEF FeedTypes
      <4>4. ItemsIn(Append(audioQueue, Entry("done", <<>>, NoTag))) = ItemsIn(audioQueue)
        BY <3>1, <4>1, <4>3, PutInPipe
      <4> QED BY <4>2, <4>4
    <3> QED BY <2>4, <3>2 DEF PutDone, markVars, deviceVars, InAudio, InDevice, ItemsIn
  <2>5. CASE StopPlayer BY <2>5, OfNone DEF StopPlayer, markVars, InAudio, InDevice
  <2>6. CASE ResetMarks BY <2>6, OfNone DEF ResetMarks, deviceVars, InAudio, InDevice
  <2>7. CASE Sentinel
    <3>1. ItemsIn(audioQueue') = ItemsIn(audioQueue)
      <4>1. audioQueue' = Append(audioQueue, Stop) BY <2>7 DEF Sentinel, PutAudio
      <4>2. audioQueue \in Seq(Entries) BY DEF FeedTypes
      <4>3. ItemsIn(Append(audioQueue, Stop)) = ItemsIn(audioQueue) \cup Of(Stop.items)
        BY <4>2, StopTyped, PutInPipe
      <4> QED BY <4>1, <4>3, StopEmpty
    <3>2. Of(queue') = Of(queue) \cup {None}
      BY <2>7, OfPutOn DEF Sentinel, WorkTypes
    <3> QED BY <2>7, <3>1, <3>2 DEF Sentinel, markVars, deviceVars, InAudio, InDevice, ItemsIn
  <2> QED BY <2>1, <2>2, <2>3, <2>4, <2>5, <2>6, <2>7 DEF Main, Cancelling
<1>4. CASE Worker
  <2> USE WorkerFrame, <1>4 DEF feederVars, markVars, deviceVars, HeldMarks, InDevice, InPipe
  <2>1. CASE Take
    <3>1. Of(queue) = {Head(queue)} \cup Of(Tail(queue))
      BY <2>1, OfRest DEF Take, WorkTypes
    <3> QED BY <2>1, <3>1, OfOne DEF Take, InAudio
  <2>2. CASE Stamp \/ JoinMore \/ Sink
    BY <2>2 DEF Stamp, JoinMore, Sink, InAudio
  <2>3. CASE JoinWait
    <3>1. queue # <<>> => Of(queue) = {Head(queue)} \cup Of(Tail(queue))
      BY OfRest DEF WorkTypes
    <3>2. UNCHANGED <<held, audioQueue>> BY <2>3 DEF JoinWait
    <3>3. (Of(queue') \cup {nxt'}) \ {None} \subseteq (Of(queue) \cup {nxt}) \ {None}
      BY <2>3, <3>1 DEF JoinWait
    <3> QED BY <3>2, <3>3 DEF InAudio
  <2>4. CASE Joined
    <3>1. CASE HandsBack
      <4>0. queue' = Append(queue, nxt) /\ nxt' = None /\ UNCHANGED <<held, audioQueue>>
        BY <2>4, <3>1 DEF Joined
      <4>1. Of(queue') = Of(queue) \cup {nxt} BY <4>0, OfPutOn DEF WorkTypes
      <4> QED BY <4>0, <4>1 DEF InAudio
    <3>2. CASE ~HandsBack
      <4>1. nxt \in Items BY <3>2 DEF HandsBack, WorkTypes
      <4>0. held' = Append(held, nxt) /\ nxt' = None /\ UNCHANGED queue
        BY <2>4, <3>2 DEF Joined
      <4>2. Of(held') = Of(held) \cup {nxt} BY <4>0, <4>1, OfPutOn DEF WorkTypes
      <4>3. ItemsIn(audioQueue') = ItemsIn(audioQueue) \cup {nxt}
        <5>1. <<nxt>> \in Seq(Items) BY <4>1
        <5>2. Entry("index", <<nxt>>, NoTag) \in Entries BY <5>1, EntryTyped DEF Kinds, NoTag
        <5>3. Of(Entry("index", <<nxt>>, NoTag).items) = {nxt} BY OfOne DEF Entry
        <5>4. audioQueue' = Append(audioQueue, Entry("index", <<nxt>>, NoTag))
          BY <2>4, <3>2 DEF Joined, PutAudio
        <5> QED BY <5>2, <5>3, <5>4, PutInPipe DEF FeedTypes
      <4>4. InAudio' = InAudio \cup {nxt} BY <4>3 DEF InAudio, ItemsIn
      <4>5. nxt # None BY <4>1, Bounds
      <4>6. HeldMarks' = HeldMarks /\ InDevice' = InDevice /\ got' = got OBVIOUS
      <4>7. InPipe' \subseteq InPipe
        <5> HIDE DEF InAudio, HeldMarks, InDevice
        <5> QED BY <4>0, <4>2, <4>4, <4>5, <4>6
      <4> QED BY <4>7
    <3> QED BY <3>1, <3>2
  <2>5. ASSUME NEW k \in Kinds, NEW t \in Nat, t # NoTag <=> k = "audio",
               audioQueue' = Append(audioQueue, Entry(k, held, t))
        PROVE  InAudio' = InAudio \cup Of(held)
    <3>1. Entry(k, held, t) \in Entries BY <2>5, EntryTyped DEF WorkTypes
    <3>2. Entry(k, held, t).items = held BY DEF Entry
    <3> QED BY <2>5, <3>1, <3>2, PutInPipe DEF FeedTypes, ItemsIn, InAudio
  <2> USE DEF PutAudio, Kinds, NoTag
  <2>6. CASE Report BY <2>5, <2>6 DEF Report
  <2>7. CASE Render BY <2>5, <2>7 DEF Render, InAudio
  <2>8. CASE SinkPut
    <3>1. stamp \in Nat /\ stamp # 0 BY <2>8 DEF SinkPut, Stamped, MainTypes, Epochs, WorkTypes
    <3> QED BY <2>5, <2>8, <3>1 DEF SinkPut
  <2>9. CASE MarkTail BY <2>5, <2>9 DEF MarkTail, InAudio
  <2>10. CASE Done BY <2>5, <2>10, OfNone DEF Done
  <2> QED BY <1>4, <2>1, <2>2, <2>3, <2>4, <2>6, <2>7, <2>8, <2>9, <2>10 DEF Worker
<1>5. CASE Feeder
  <2> USE FeederFrame, <1>5, StopEmpty DEF workerVars, InPipe
  <2>1. CASE TakeAudio
    <3>1. InAudio = InAudio' \cup Of(got'.items)
      BY <2>1, TakeFromPipe DEF TakeAudio, FeedTypes, ItemsIn, InAudio
    <3> QED BY <2>1, <3>1 DEF TakeAudio, markVars, deviceVars, HeldMarks, InDevice
  <2>2. CASE Skip \/ LookAudio \/ ReportIndex \/ LookDone \/ Idle
    BY <2>2 DEF Skip, LookAudio, ReportIndex, LookDone, Idle, markVars, deviceVars, HeldMarks,
       InAudio, InDevice
  <2>3. CASE FeedCount
    BY <2>3 DEF FeedCount, deviceVars, HeldMarks, InAudio, InDevice
  <2>4. CASE Feed
    <3>1. InDevice' = InDevice \cup Of(got.items)
      <4>1. device' = Append(device, got) /\ got \in Pieces BY <2>4 DEF Feed, FeedTypes
      <4>2. ItemsIn(device') = ItemsIn(device) \cup Of(got.items)
        BY <4>1, PutInPipe DEF MarkTypes
      <4> QED BY <4>2 DEF ItemsIn, InDevice
    <3> QED BY <2>4, <3>1 DEF Feed, markVars, HeldMarks, InAudio
  <2>5. CASE MarkReached
    <3>1. HeldMarks' \subseteq HeldMarks \cup Of(got.items)
      <4> DEFINE m == [at |-> fedBytes, items |-> got.items]
      <4>1. m \in MarkSet BY <2>5 DEF MarkReached, FeedTypes, Entries, MarkTypes, MarkSet
      <4>2. Waits => marks' = Append(marks, m) BY <2>5 DEF MarkReached
      <4>3. ~Waits => marks' = marks BY <2>5 DEF MarkReached
      <4>4. m.items = got.items OBVIOUS
      <4>5. CASE Waits
        <5> HIDE DEF m
        <5> QED BY <4>1, <4>2, <4>4, <4>5, OneMoreMark DEF MarkTypes
      <4>6. CASE ~Waits BY <4>3, <4>6 DEF HeldMarks
      <4> QED BY <4>5, <4>6
    <3> QED BY <2>5, <3>1 DEF MarkReached, deviceVars, InAudio, InDevice
  <2>6. CASE Drained
    BY <2>6 DEF Drained, deviceVars, HeldMarks, InAudio, InDevice
  <2> QED BY <1>5, <2>1, <2>2, <2>3, <2>4, <2>5, <2>6 DEF Feeder
<1>6. CASE Player
  <2> USE PlayerFrame, <1>6 DEF workerVars, feederVars, InPipe, InAudio
  <2>1. CASE Play
    <3>1. InDevice' \subseteq InDevice
      BY <2>1, TakeFromPipe DEF Play, MarkTypes, InDevice, ItemsIn
    <3> QED BY <2>1, <3>1 DEF Play, markVars, HeldMarks
  <2>2. CASE Callback
    <3>1. HeldMarks' \subseteq HeldMarks BY <1>6, PlayerMarks
    <3> QED BY <2>2, <3>1 DEF Callback, InDevice
  <2> QED BY <1>6, <2>1, <2>2 DEF Player
<1>7. CASE UNCHANGED vars
  BY <1>7 DEF vars, workerVars, feederVars, markVars, deviceVars, InPipe, InAudio,
     InDevice, HeldMarks
<1> QED BY <1>3, <1>4, <1>5, <1>6, <1>7 DEF Next, Closed, Main

LEMMA OldStep ==
  ASSUME Types, EpochInv, OldInv, [Next]_vars
  PROVE  OldInv'
<1>0. \A i \in InPipe : Old(i)' BY PipeTyped, LiveStep DEF OldInv
<1> USE DEF Types
<1>1. CASE Speak
  <2>1. UNCHANGED <<nxt, held, audioQueue, got, marks, device>>
        /\ queue' = Append(queue, spoken + 1)
        /\ spokenIn' = [spokenIn EXCEPT ![spoken + 1] = epoch]
    BY <1>1 DEF Speak, workerVars, feederVars, markVars, deviceVars
  <2>0. spoken + 1 \in Items BY <1>1, Bounds DEF Speak, MainTypes, Items
  <2>2. Of(queue') = Of(queue) \cup {spoken + 1} BY <2>0, <2>1, OfPutOn DEF WorkTypes
  <2>3. InPipe' \subseteq InPipe \cup {spoken + 1}
    BY <2>1, <2>2 DEF InPipe, HeldMarks, InAudio, InDevice
  <2>4. \A i \in {spoken + 1} : Old(i)'
    BY <2>0, <2>1, Bounds DEF Old, MainTypes, Epochs
  <2>5. \A i \in InPipe \cup {spoken + 1} : Old(i)' BY <1>0, <2>4
  <2> QED BY <2>3, <2>5 DEF OldInv
<1>2. CASE ~Speak BY <1>0, <1>2, PipeStep DEF OldInv
<1> QED BY <1>1, <1>2

-----------------------------------------------------------------------------
(* The index comes before the end.                                         *)

LEMMA StillLive ==
  ASSUME Types, EpochInv, OldInv, [Next]_vars, NEW i \in InPipe, Live(i)'
  PROVE  Live(i)
BY PipeTyped, LiveStep DEF OldInv

\* A cancel leaves nothing live in the pipeline, whatever it finds there.
LEMMA NoneLive ==
  ASSUME Types, EpochInv, Main, ~Speak, NEW i \in InPipe'
  PROVE  ~Live(i)'
<1>1. i \in Items BY PipeStep, PipeTyped DEF Next
<1> QED BY <1>1, MainKills

LEMMA Places ==
  /\ \A k \in 1 .. Len(audioQueue) : Of(audioQueue[k].items) \subseteq InPipe
  /\ \A k \in 1 .. Len(device) : Of(device[k].items) \subseteq InPipe
  /\ Of(got.items) \subseteq InPipe /\ HeldMarks \subseteq InPipe /\ Of(held) \subseteq InPipe
BY DEF InPipe, InAudio, InDevice, Of

\* What was told stays told, and what the feeder has in its hand it tells.
LEMMA TellStep ==
  ASSUME Types, Worker \/ Feeder \/ Player, NEW i
  PROVE  /\ Settled(i) => Settled(i)'
         /\ Looking(i) => Settled(i)' \/ Looking(i)'
<1> USE DEF Settled, Looking
<1>1. CASE Worker BY <1>1, WorkerFrame DEF feederVars, markVars, HeldMarks
<1>2. CASE Feeder
  <2> USE DEF markVars, histVars
  <2>1. CASE TakeAudio BY <2>1 DEF TakeAudio, HeldMarks
  <2>2. CASE Skip
    BY <2>2 DEF Skip, Plays, Tells, Types, FeedTypes, Entries, HeldMarks
  <2>3. CASE LookAudio \/ LookDone
    BY <2>3 DEF LookAudio, LookDone, Tells, HeldMarks
  <2>4. CASE FeedCount BY <2>4 DEF FeedCount, HeldMarks
  <2>5. CASE Feed BY <2>5 DEF Feed, HeldMarks
  <2>6. CASE ReportIndex BY <2>6 DEF ReportIndex, HeldMarks
  <2>7. CASE MarkReached
    <3> DEFINE m == [at |-> fedBytes, items |-> got.items]
    <3>1. CASE Waits
      <4>1. m \in MarkSet
        BY <2>7 DEF MarkReached, Types, FeedTypes, Entries, MarkTypes, MarkSet
      <4>2. marks' = Append(marks, m) /\ m.items = got.items /\ reported' = reported
        BY <2>7, <3>1 DEF MarkReached
      <4> HIDE DEF m
      <4>3. HeldMarks' = HeldMarks \cup Of(got.items)
        BY <4>1, <4>2, OneMoreMark DEF Types, MarkTypes
      <4> QED BY <4>2, <4>3
    <3>2. CASE ~Waits
      <4>1. marks' = marks /\ reported' = reported \cup Of(got.items)
        BY <2>7, <3>2 DEF MarkReached
      <4> QED BY <4>1 DEF HeldMarks
    <3> QED BY <3>1, <3>2
  <2>8. CASE Idle BY <2>8 DEF Idle, HeldMarks
  <2>9. CASE Drained
    <3>1. reported' = reported \cup HeldMarks /\ feeder = "drained"
      BY <2>9 DEF Drained, DueAtEnd
    <3> QED BY <3>1
  <2> QED BY <1>2, <2>1, <2>2, <2>3, <2>4, <2>5, <2>6, <2>7, <2>8, <2>9 DEF Feeder
<1>3. CASE Player
  <2>1. UNCHANGED <<feeder, got>> BY <1>3, PlayerFrame DEF feederVars
  <2>2. CASE Play BY <2>1, <2>2 DEF Play, markVars, histVars, HeldMarks
  <2>3. CASE Callback
    <3>1. CASE Head(firing).gen # markGen
      BY <2>1, <2>3, <3>1 DEF Callback, ThisGeneration, HeldMarks
    <3>2. CASE Head(firing).gen = markGen
      <4> DEFINE end == Head(firing).end
                 k   == Cardinality(DueBy(end))
      <4>1. Head(firing) \in Pieces
        BY <2>3, TakenOff DEF Callback, Types, MarkTypes
      <4>2. end \in Nat BY <4>1 DEF Pieces
      <4>3. /\ k \in 0 .. Len(marks)
            /\ \A m \in 1 .. Len(marks) : m <= k <=> marks[m].at <= end
        BY <4>2, DueFirst DEF Types, MarkTypes
      <4>4. /\ marks' = SubSeq(marks, k + 1, Len(marks))
            /\ reported' = reported \cup UNION {Of(marks[m].items) : m \in DueBy(end)}
        BY <2>3, <3>2 DEF Callback, ThisGeneration, DueBy
      <4> HIDE DEF k
      <4>5. /\ Len(marks') = Len(marks) - k
            /\ \A m \in 1 .. Len(marks) - k : marks'[m] = marks[m + k]
        BY <4>3, <4>4, Remainder DEF Types, MarkTypes
      <4>6. ASSUME NEW m \in 1 .. Len(marks), i \in Of(marks[m].items)
            PROVE  Settled(i)'
        <5>1. CASE m <= k
          <6>1. m \in DueBy(end) BY <4>3, <5>1 DEF DueBy
          <6> QED BY <4>4, <4>6, <6>1
        <5>2. CASE ~(m <= k)
          <6>1. m - k \in 1 .. Len(marks) - k /\ (m - k) + k = m BY <4>3, <5>2
          <6>2. marks'[m - k] = marks[m] BY <4>5, <6>1
          <6> QED BY <4>5, <4>6, <6>1, <6>2 DEF HeldMarks
        <5> QED BY <5>1, <5>2
      <4>7. i \in HeldMarks => Settled(i)' BY <4>6 DEF HeldMarks
      <4>8. reported \subseteq reported' BY <4>4
      <4> QED BY <2>1, <4>7, <4>8
    <3> QED BY <3>1, <3>2
  <2> QED BY <1>3, <2>2, <2>3 DEF Player
<1> QED BY <1>1, <1>2, <1>3

\* What the worker queues comes after all that is queued.
LEMMA AheadStays ==
  ASSUME Types, Worker, NEW e \in Entries, NEW i,
         audioQueue' = audioQueue \/ audioQueue' = Append(audioQueue, e)
  PROVE  /\ \A k \in Nat : Ahead(i, k) => Ahead(i, k)'
         /\ Len(audioQueue) \in Nat /\ Len(audioQueue') \in Nat
         /\ Len(audioQueue) <= Len(audioQueue')
         /\ Ahead(i, Len(audioQueue) + 1) => Ahead(i, Len(audioQueue) + 1)'
<1>1. audioQueue \in Seq(Entries) BY DEF Types, FeedTypes
<1>2. /\ Len(audioQueue) \in Nat /\ Len(audioQueue') \in Nat
      /\ Len(audioQueue) <= Len(audioQueue')
      /\ \A j \in 1 .. Len(audioQueue) : audioQueue'[j] = audioQueue[j]
  BY <1>1
<1>3. /\ Settled(i)' <=> Settled(i)
      /\ Looking(i)' <=> Looking(i)
  BY WorkerFrame DEF Settled, Looking, feederVars, markVars, HeldMarks
<1>4. ASSUME NEW k \in Nat, Ahead(i, k) PROVE Ahead(i, k)'
  <2>1. CASE Settled(i) \/ Looking(i) BY <1>3, <2>1 DEF Ahead
  <2>2. ASSUME NEW j \in 1 .. Len(audioQueue), j < k, Tells(audioQueue[j]),
               i \in Of(audioQueue[j].items)
        PROVE  Ahead(i, k)'
    <3>1. j \in 1 .. Len(audioQueue') /\ audioQueue'[j] = audioQueue[j] BY <1>2
    <3> QED BY <2>2, <3>1 DEF Ahead, Tells
  <2> QED BY <1>4, <2>1, <2>2 DEF Ahead
<1>5. Ahead(i, Len(audioQueue) + 1) => Ahead(i, Len(audioQueue) + 1)'
  <2>1. Len(audioQueue) + 1 \in Nat BY <1>2
  <2>2. SUFFICES ASSUME Ahead(i, Len(audioQueue) + 1)
                 PROVE  Ahead(i, Len(audioQueue) + 1)'
    OBVIOUS
  <2>3. CASE Settled(i) \/ Looking(i) BY <1>3, <2>3 DEF Ahead
  <2>4. ASSUME NEW j \in 1 .. Len(audioQueue), Tells(audioQueue[j]),
               i \in Of(audioQueue[j].items)
        PROVE  Ahead(i, Len(audioQueue) + 1)'
    <3>1. /\ j \in 1 .. Len(audioQueue') /\ j < Len(audioQueue') + 1
          /\ audioQueue'[j] = audioQueue[j]
      BY <1>2
    <3> QED BY <2>4, <3>1 DEF Ahead, Tells
  <2> QED BY <2>2, <2>3, <2>4 DEF Ahead
<1> QED BY <1>2, <1>4, <1>5

LEMMA ToldWorker ==
  ASSUME Types, EpochInv, OldInv, ToldInv, Worker
  PROVE  ToldInv'
<1> DEFINE n == Len(audioQueue)
<1>0. [Next]_vars /\ UNCHANGED <<feeder, got, joining>>
  BY WorkerFrame DEF Next, mainVars, feederVars
<1>1. \A i : (Settled(i)' <=> Settled(i)) /\ (Live(i)' <=> Live(i))
  BY WorkerFrame DEF Settled, Live, mainVars, feederVars, markVars, HeldMarks
<1>2. n \in Nat BY DEF Types, FeedTypes
<1>3. PICK e \in Entries :
        /\ audioQueue' = audioQueue \/ audioQueue' = Append(audioQueue, e)
        /\ audioQueue' # audioQueue /\ e.kind = "done" => worker = "done" /\ e.items = held
        /\ Announced' =>
             \/ Announced /\ held' = held
             \/ audioQueue' # audioQueue /\ Tells(e) /\ e.items = held'
             \/ /\ Announced /\ Of(held') = Of(held) \cup Of(e.items)
                /\ audioQueue' # audioQueue /\ Tells(e)
  <2> DEFINE Fits(e) ==
        /\ audioQueue' = audioQueue \/ audioQueue' = Append(audioQueue, e)
        /\ audioQueue' # audioQueue /\ e.kind = "done" => worker = "done" /\ e.items = held
        /\ Announced' =>
             \/ Announced /\ held' = held
             \/ audioQueue' # audioQueue /\ Tells(e) /\ e.items = held'
             \/ /\ Announced /\ Of(held') = Of(held) \cup Of(e.items)
                /\ audioQueue' # audioQueue /\ Tells(e)
  <2> SUFFICES \E e \in Entries : Fits(e)
    OBVIOUS
  <2>0. \A e \in Entries : Append(audioQueue, e) # audioQueue
    <3> SUFFICES ASSUME NEW e \in Entries PROVE Append(audioQueue, e) # audioQueue
      OBVIOUS
    <3>1. Len(Append(audioQueue, e)) = n + 1 BY PutOn DEF Types, FeedTypes
    <3> QED BY <1>2, <3>1
  <2> USE <1>0 DEF Announced, Types, WorkTypes, PutAudio, Kinds, NoTag, Tells
  <2>1. CASE Take
    <3>1. Fits(Stop)
      <4>1. worker' \in {"end", "stamp"} /\ audioQueue' = audioQueue BY <2>1 DEF Take
      <4> QED BY <4>1
    <3> QED BY <3>1, StopTyped
  <2>2. CASE Stamp
    <3>1. Fits(Stop)
      <4>1. /\ worker' = IF joining THEN "report" ELSE "render"
            /\ audioQueue' = audioQueue
        BY <2>2 DEF Stamp
      <4> QED BY <4>1
    <3> QED BY <3>1, StopTyped
  <2>3. CASE JoinMore \/ JoinWait
    <3>1. /\ worker \in {"join", "waiting"} /\ held' = held /\ audioQueue' = audioQueue
      BY <2>3 DEF JoinMore, JoinWait
    <3>2. worker' \in {"waiting", "render", "joined"} BY <2>3 DEF JoinMore, JoinWait
    <3>3. Fits(Stop) BY <3>1, <3>2
    <3> QED BY <3>3, StopTyped
  <2>4. CASE Sink
    <3>1. worker = "send" /\ worker' \in {"tail", "put"} /\ held' = held /\ audioQueue' = audioQueue
      BY <2>4 DEF Sink
    <3>2. Fits(Stop) BY <3>1
    <3> QED BY <3>2, StopTyped
  <2>5. ASSUME NEW k \in Kinds, NEW t \in Nat, t # NoTag <=> k = "audio"
        PROVE  /\ Entry(k, held, t) \in Entries /\ Entry(k, held, t).kind = k
               /\ Entry(k, held, t).items = held
    BY <2>5, EntryTyped DEF Entry
  <2>6. CASE Report
    <3> DEFINE e == Entry("index", held, NoTag)
    <3>1. audioQueue' = Append(audioQueue, e) /\ held' = held BY <2>6 DEF Report
    <3>2. e \in Entries /\ e.kind = "index" /\ e.items = held BY <2>5
    <3> HIDE DEF e
    <3>3. Fits(e) BY <2>0, <3>1, <3>2
    <3> QED BY <3>2, <3>3
  <2>7. CASE Joined
    <3>1. CASE HandsBack
      <4>1. worker = "joined" /\ worker' = "render" /\ UNCHANGED <<held, audioQueue>>
        BY <2>7, <3>1 DEF Joined
      <4>2. Fits(Stop) BY <4>1
      <4> QED BY <4>2, StopTyped
    <3>2. CASE ~HandsBack
      <4> DEFINE e == Entry("index", <<nxt>>, NoTag)
      <4>1. audioQueue' = Append(audioQueue, e) /\ held' = Append(held, nxt)
            /\ worker = "joined" /\ worker' = "join"
        BY <2>7, <3>2 DEF Joined
      <4>2. nxt \in Items BY <3>2 DEF HandsBack
      <4>3. <<nxt>> \in Seq(Items) BY <4>2
      <4>4. e \in Entries /\ e.kind = "index" /\ e.items = <<nxt>>
        BY <4>3, EntryTyped DEF Entry
      <4> HIDE DEF e
      <4>5. Of(held') = Of(held) \cup Of(e.items)
        <5>1. Of(Append(held, nxt)) = Of(held) \cup {nxt} BY <4>2, OfPutOn
        <5>2. Of(<<nxt>>) = {nxt} BY OfOne
        <5> QED BY <4>1, <4>4, <5>1, <5>2
      <4>6. Announced' => Announced BY <4>1
      <4>7. Fits(e) BY <2>0, <4>1, <4>4, <4>5, <4>6
      <4> QED BY <4>4, <4>7
    <3> QED BY <3>1, <3>2
  <2>8. CASE Render
    <3> DEFINE e == Entry("index", held, NoTag)
    <3>0. e \in Entries /\ e.kind = "index" /\ e.items = held BY <2>5
    <3> HIDE DEF e
    <3>1. CASE Current
      <4>1. worker = "render" /\ worker' = "send" /\ held' = held /\ audioQueue' = audioQueue
        BY <2>8, <3>1 DEF Render
      <4>2. Fits(e) BY <4>1
      <4> QED BY <3>0, <4>2
    <3>2. CASE ~Current /\ joining
      <4>1. worker = "render" /\ held' = held /\ audioQueue' = audioQueue
        BY <2>8, <3>2 DEF Render
      <4>2. Fits(e) BY <3>2, <4>1
      <4> QED BY <3>0, <4>2
    <3>3. CASE ~Current /\ ~joining
      <4>1. worker = "render" /\ held' = held /\ audioQueue' = Append(audioQueue, e)
        BY <2>8, <3>3 DEF Render, e
      <4>2. Fits(e) BY <2>0, <3>0, <4>1
      <4> QED BY <3>0, <4>2
    <3> QED BY <3>1, <3>2, <3>3
  <2>9. CASE SinkPut
    <3> DEFINE e == Entry("audio", held, stamp)
    <3>1. stamp \in Nat /\ stamp # 0 BY <2>9 DEF SinkPut, Stamped, MainTypes, Epochs
    <3>2. e \in Entries /\ e.kind = "audio" BY <2>5, <3>1
    <3>3. /\ audioQueue' = Append(audioQueue, e) /\ held' = held
          /\ worker = "put" /\ worker' = "send"
      BY <2>9 DEF SinkPut
    <3> HIDE DEF e
    <3>4. Fits(e) BY <3>2, <3>3
    <3> QED BY <3>2, <3>4
  <2>10. CASE MarkTail
    <3> DEFINE e == Entry("mark", held, NoTag)
    <3>0. e \in Entries /\ e.kind = "mark" /\ e.items = held BY <2>5
    <3> HIDE DEF e
    <3>1. CASE joining
      <4>1. worker = "tail" /\ held' = held /\ audioQueue' = audioQueue
        BY <2>10, <3>1 DEF MarkTail
      <4>2. Fits(e) BY <3>1, <4>1
      <4> QED BY <3>0, <4>2
    <3>2. CASE ~joining
      <4>1. held' = held /\ audioQueue' = Append(audioQueue, e)
        BY <2>10, <3>2 DEF MarkTail, e
      <4>2. Fits(e) BY <2>0, <3>0, <4>1
      <4> QED BY <3>0, <4>2
    <3> QED BY <3>1, <3>2
  <2>11. CASE Done
    <3> DEFINE e == Entry("done", held, NoTag)
    <3>1. e \in Entries /\ e.kind = "done" /\ e.items = held BY <2>5
    <3>2. /\ audioQueue' = Append(audioQueue, e) /\ worker = "done"
          /\ worker' \in {"get", "end"}
      BY <2>11 DEF Done, LoopTop
    <3> HIDE DEF e
    <3>3. Fits(e) BY <3>1, <3>2
    <3> QED BY <3>1, <3>3
  <2> QED BY <2>1, <2>2, <2>3, <2>4, <2>6, <2>7, <2>8, <2>9, <2>10, <2>11 DEF Worker
<1>4. \A i : /\ \A k \in Nat : Ahead(i, k) => Ahead(i, k)'
             /\ Ahead(i, n + 1) => Ahead(i, n + 1)'
  BY <1>3, AheadStays
<1>5. ASSUME audioQueue' # audioQueue
      PROVE  /\ Len(audioQueue') = n + 1 /\ audioQueue'[n + 1] = e
             /\ \A k \in 1 .. n : audioQueue'[k] = audioQueue[k]
  BY <1>3, <1>5 DEF Types, FeedTypes
<1>6. ASSUME NEW k \in 1 .. Len(audioQueue'), audioQueue'[k].kind = "done",
             NEW i \in Of(audioQueue'[k].items), Live(i)'
      PROVE  Ahead(i, k)'
  <2>1. Live(i) BY <1>1, <1>6
  <2>2. CASE k \in 1 .. n
    <3>1. audioQueue'[k] = audioQueue[k] BY <1>3, <1>5, <2>2
    <3>2. Ahead(i, k) BY <1>6, <2>1, <2>2, <3>1 DEF ToldInv
    <3>3. k \in Nat OBVIOUS
    <3> QED BY <1>4, <3>2, <3>3
  <2>3. CASE k \notin 1 .. n
    <3>1. audioQueue' # audioQueue BY <2>3
    <3>2. k = n + 1 /\ audioQueue'[k] = e BY <1>2, <1>5, <2>3, <3>1
    <3>3. i \in Of(held) /\ Announced BY <1>3, <1>6, <3>1, <3>2 DEF Announced
    <3>4. Ahead(i, k) BY <2>1, <3>2, <3>3 DEF ToldInv
    <3>5. k \in Nat OBVIOUS
    <3> QED BY <1>4, <3>4, <3>5
  <2> QED BY <2>2, <2>3
<1>7. ASSUME Announced', NEW i \in Of(held'), Live(i)'
      PROVE  Ahead(i, Len(audioQueue) + 1)'
  <2>1. Live(i) BY <1>1, <1>7
  <2>2. CASE Announced /\ i \in Of(held)
    <3>1. Ahead(i, n + 1) BY <2>1, <2>2 DEF ToldInv
    <3> QED BY <1>4, <3>1
  <2>3. CASE audioQueue' # audioQueue /\ Tells(e) /\ i \in Of(e.items)
    <3>1. Len(audioQueue') = n + 1 /\ audioQueue'[n + 1] = e BY <1>5, <2>3
    <3>2. n + 1 \in 1 .. Len(audioQueue') /\ n + 1 < Len(audioQueue') + 1 BY <1>2, <3>1
    <3> QED BY <2>3, <3>1, <3>2 DEF Ahead, Tells
  <2> QED BY <1>3, <1>7, <2>2, <2>3
<1> QED BY <1>0, <1>1, <1>6, <1>7 DEF ToldInv

\* When the feeder takes the head of its queue, what was told ahead of a place
\* is told ahead of the place before it.
LEMMA TakeShift ==
  ASSUME Types, TakeAudio, NEW i, NEW k \in Nat, Ahead(i, k + 1)
  PROVE  Settled(i)' \/ Looking(i)' \/
           \E j \in 1 .. Len(audioQueue') :
              j < k /\ Tells(audioQueue'[j]) /\ i \in Of(audioQueue'[j].items)
<1> USE DEF Tells
<1>1. /\ audioQueue \in Seq(Entries) /\ audioQueue # <<>> /\ feeder = "get"
      /\ audioQueue' = Tail(audioQueue) /\ got' = Head(audioQueue)
      /\ feeder' = IF got'.kind = "none" THEN "end" ELSE "look"
  BY DEF TakeAudio, Types, FeedTypes
<1>2. /\ Len(audioQueue) \in Nat /\ Len(audioQueue) >= 1
      /\ Len(audioQueue') = Len(audioQueue) - 1 /\ got' = audioQueue[1]
      /\ \A j \in 1 .. Len(audioQueue) - 1 : audioQueue'[j] = audioQueue[j + 1]
  BY <1>1
<1>3. Settled(i)' <=> Settled(i)
  BY DEF TakeAudio, Settled, HeldMarks, markVars, histVars
<1>4. CASE Settled(i) BY <1>3, <1>4
<1>5. ASSUME NEW j \in 1 .. Len(audioQueue), j < k + 1, Tells(audioQueue[j]),
             i \in Of(audioQueue[j].items)
      PROVE  Looking(i)' \/
               \E m \in 1 .. Len(audioQueue') :
                 m < k /\ Tells(audioQueue'[m]) /\ i \in Of(audioQueue'[m].items)
  <2>1. CASE j = 1
    <3>1. got' = audioQueue[j] BY <1>2, <2>1
    <3>2. got'.kind # "none" BY <1>5, <3>1
    <3>3. feeder' = "look" BY <1>1, <3>2
    <3> QED BY <1>5, <3>1, <3>3 DEF Looking
  <2>2. CASE j # 1
    <3>1. /\ j - 1 \in 1 .. Len(audioQueue') /\ j - 1 < k
          /\ audioQueue'[j - 1] = audioQueue[(j - 1) + 1] /\ (j - 1) + 1 = j
      BY <1>2, <1>5, <2>2
    <3> QED BY <1>5, <3>1
  <2> QED BY <2>1, <2>2
<1>6. ~Looking(i) BY <1>1 DEF Looking
<1> QED BY <1>4, <1>5, <1>6 DEF Ahead

LEMMA ToldFeeder ==
  ASSUME Types, EpochInv, OldInv, ToldInv, Feeder
  PROVE  ToldInv'
<1>0. UNCHANGED <<worker, held, joining>> BY FeederFrame DEF workerVars, mainVars
<1>1. \A i : Live(i)' <=> Live(i) BY FeederFrame DEF Live, mainVars
<1>2. \A i : /\ Settled(i) => Settled(i)'
             /\ Looking(i) => Settled(i)' \/ Looking(i)'
  BY TellStep
<1> USE DEF Tells
<1>3. CASE TakeAudio
  <2>1. /\ audioQueue \in Seq(Entries) /\ audioQueue # <<>> /\ feeder = "get"
        /\ audioQueue' = Tail(audioQueue) /\ got' = Head(audioQueue)
        /\ feeder' = IF got'.kind = "none" THEN "end" ELSE "look"
    BY <1>3 DEF TakeAudio, Types, FeedTypes
  <2>2. /\ Len(audioQueue) \in Nat /\ Len(audioQueue) >= 1
        /\ Len(audioQueue') = Len(audioQueue) - 1 /\ got' = audioQueue[1]
        /\ \A j \in 1 .. Len(audioQueue) - 1 : audioQueue'[j] = audioQueue[j + 1]
    BY <2>1
  <2>4. ASSUME NEW i, NEW k \in Nat, Ahead(i, k + 1)
        PROVE  Settled(i)' \/ Looking(i)' \/
                 \E j \in 1 .. Len(audioQueue') :
                    j < k /\ Tells(audioQueue'[j]) /\ i \in Of(audioQueue'[j].items)
    BY <1>3, <2>4, TakeShift
  <2>5. ASSUME NEW k \in 1 .. Len(audioQueue'), audioQueue'[k].kind = "done",
               NEW i \in Of(audioQueue'[k].items), Live(i)'
        PROVE  Ahead(i, k)'
    <3>1. k + 1 \in 1 .. Len(audioQueue) /\ audioQueue'[k] = audioQueue[k + 1] /\ k \in Nat
      BY <2>2
    <3>2. Ahead(i, k + 1) BY <1>1, <2>5, <3>1 DEF ToldInv
    <3> QED BY <2>4, <3>1, <3>2 DEF Ahead
  <2>6. ASSUME got'.kind = "done", NEW i \in Of(got'.items), Live(i)'
        PROVE  Settled(i)'
    <3>1. 1 \in 1 .. Len(audioQueue) BY <2>2
    <3>2. Ahead(i, 1) BY <1>1, <2>2, <2>6, <3>1 DEF ToldInv
    <3>3. Settled(i) \/ Looking(i) BY <3>2 DEF Ahead
    <3> QED BY <1>2, <2>6, <3>3 DEF Looking
  <2>7. ASSUME Announced', NEW i \in Of(held'), Live(i)'
        PROVE  Ahead(i, Len(audioQueue) + 1)'
    <3>1. Announced /\ i \in Of(held) BY <1>0, <2>7 DEF Announced
    <3>2. Ahead(i, Len(audioQueue) + 1) BY <1>1, <2>7, <3>1 DEF ToldInv
    <3>3. Len(audioQueue') + 1 = Len(audioQueue) BY <2>2
    <3> QED BY <2>2, <2>4, <3>2, <3>3 DEF Ahead
  <2>8. feeder' \notin {"idle", "drained"} BY <2>1
  <2> QED BY <2>5, <2>6, <2>7, <2>8 DEF ToldInv
<1>4. CASE ~TakeAudio
  <2>1. audioQueue' = audioQueue
    BY <1>4 DEF Feeder, Skip, LookAudio, FeedCount, Feed, ReportIndex, MarkReached, LookDone,
       Idle, Drained
  <2>2. \A i, k : Ahead(i, k) => Ahead(i, k)'
    <3> TAKE i, k
    <3> QED BY <1>2, <2>1 DEF Ahead
  <2>3. \A i : Ahead(i, Len(audioQueue) + 1) => Ahead(i, Len(audioQueue) + 1)'
    <3> TAKE i
    <3> QED BY <1>2, <2>1 DEF Ahead
  <2>4. /\ feeder' \in {"idle", "drained"} => got' = got /\ feeder \in {"look", "idle"}
                                              /\ got.kind = "done"
        /\ feeder' = "look" => FALSE
    BY <1>4, StopEmpty
    DEF Feeder, Skip, LookAudio, FeedCount, Feed, ReportIndex, MarkReached, LookDone, Idle,
        Drained, LoopTop, ToldInv
  <2>5. ASSUME NEW k \in 1 .. Len(audioQueue'), audioQueue'[k].kind = "done",
               NEW i \in Of(audioQueue'[k].items), Live(i)'
        PROVE  Ahead(i, k)'
    BY <1>1, <2>1, <2>2, <2>5 DEF ToldInv
  <2>6. ASSUME Announced', NEW i \in Of(held'), Live(i)'
        PROVE  Ahead(i, Len(audioQueue) + 1)'
    <3>1. Announced /\ i \in Of(held) BY <1>0, <2>6 DEF Announced
    <3> QED BY <1>1, <2>3, <2>6, <3>1 DEF ToldInv
  <2>7. feeder' \in {"look", "idle", "drained"} /\ got'.kind = "done" =>
          \A i \in Of(got'.items) : Live(i)' => Settled(i)'
    BY <1>1, <1>2, <2>4 DEF ToldInv
  <2> QED BY <2>4, <2>5, <2>6, <2>7 DEF ToldInv
<1> QED BY <1>3, <1>4

LEMMA ToldStep ==
  ASSUME Types, EpochInv, OldInv, ToldInv, [Next]_vars
  PROVE  ToldInv'
<1>1. CASE Speak
  <2>1. UNCHANGED <<audioQueue, reported, marks, feeder, got, worker, held, joining>>
    BY <1>1 DEF Speak, workerVars, feederVars, markVars, histVars
  <2>2. \A i \in InPipe : Live(i)' => Live(i) BY StillLive
  <2>3. \A i, k : Ahead(i, k)' <=> Ahead(i, k)
    BY <2>1 DEF Ahead, Settled, Looking, HeldMarks
  <2>4. \A i : Ahead(i, Len(audioQueue) + 1)' <=> Ahead(i, Len(audioQueue) + 1)
    BY <2>1 DEF Ahead, Settled, Looking, HeldMarks
  <2>5. \A i : Settled(i)' <=> Settled(i) BY <2>1 DEF Settled, HeldMarks
  <2>6. Announced' <=> Announced BY <2>1 DEF Announced
  <2> QED BY <2>1, <2>2, <2>3, <2>4, <2>5, <2>6, Places DEF ToldInv
<1>2. CASE Main /\ ~Speak
  <2>1. \A i \in InPipe' : ~Live(i)' BY <1>2, NoneLive
  <2>2. UNCHANGED <<feeder, got>> BY <1>2, MainFrame DEF feederVars
  <2>3. /\ \A k \in 1 .. Len(audioQueue') : Of(audioQueue'[k].items) \subseteq InPipe'
        /\ Of(got'.items) \subseteq InPipe' /\ Of(held') \subseteq InPipe'
    BY DEF InPipe, InAudio, Of
  <2> QED BY <2>1, <2>2, <2>3 DEF ToldInv
<1>3. CASE Worker BY <1>3, ToldWorker
<1>4. CASE Feeder BY <1>4, ToldFeeder
<1>5. CASE Player
  <2>1. UNCHANGED <<audioQueue, feeder, got, worker, held, joining, epoch, stopped, spokenIn>>
    BY <1>5, PlayerFrame DEF mainVars, workerVars, feederVars
  <2>2. \A i : /\ Settled(i) => Settled(i)'
               /\ Looking(i) => Settled(i)' \/ Looking(i)'
    BY <1>5, TellStep
  <2>3. \A i, k : Ahead(i, k) => Ahead(i, k)'
    <3> TAKE i, k
    <3> QED BY <2>1, <2>2 DEF Ahead
  <2>4. \A i : Ahead(i, Len(audioQueue) + 1) => Ahead(i, Len(audioQueue) + 1)'
    <3> TAKE i
    <3> QED BY <2>1, <2>2 DEF Ahead
  <2>5. \A i : Live(i)' <=> Live(i) BY <2>1 DEF Live
  <2>6. Announced' <=> Announced BY <2>1 DEF Announced
  <2> QED BY <2>1, <2>2, <2>3, <2>4, <2>5, <2>6 DEF ToldInv
<1>6. CASE UNCHANGED vars
  BY <1>6 DEF vars, mainVars, workerVars, feederVars, markVars, histVars, ToldInv, Ahead,
     Settled, Looking, Live, Announced, HeldMarks
<1> QED BY <1>1, <1>2, <1>3, <1>4, <1>5, <1>6 DEF Next, Closed

Pipeline == Types /\ EpochInv /\ OldInv /\ ToldInv
LEMMA PipelineInit == Init => Pipeline
<1>1. Init => EpochInv
  BY DEF Init, EpochInv, Cancels, Old
<1>2. Init => OldInv
  BY OfNone, StopEmpty DEF Init, OldInv, InPipe, InAudio, InDevice, HeldMarks
<1>3. Init => ToldInv
  BY DEF Init, ToldInv, Announced
<1> QED BY <1>1, <1>2, <1>3, TypesInit DEF Pipeline

LEMMA PipelineInvariant == Spec => []Pipeline
<1>1. Init => Pipeline BY PipelineInit
<1>2. Pipeline /\ [Next]_vars => Pipeline'
  BY TypesStep, EpochStep, OldStep, ToldStep DEF Pipeline
<1> QED BY <1>1, <1>2, PTL DEF Spec

\* NVDA hears every index of an utterance before it hears that the utterance is
\* over, on the joiner's path and on the marks' alike: when the feeder leaves
\* idle() it has told every index the utterance has, or tells it now, unless a
\* cancel has come between (_feed, _marksDrained).
THEOREM IndexesComeFirst == Spec => IndexBeforeDone
<1> DEFINE Heard == \A i \in Of(got.items) : Live(i) => i \in reported'
           Safe  == feeder = "drained" /\ feeder' # feeder => Heard
<1>1. ASSUME Pipeline, [Next]_vars PROVE Safe
  <2> SUFFICES ASSUME feeder = "drained", feeder' # feeder,
                      NEW i \in Of(got.items), Live(i)
               PROVE  i \in reported'
    OBVIOUS
  <2>1. Drained
    <3>1. ~Main BY MainFrame DEF feederVars
    <3>2. ~Worker BY WorkerFrame DEF feederVars
    <3>3. ~Player BY PlayerFrame DEF feederVars
    <3>4. Feeder BY <1>1, <3>1, <3>2, <3>3 DEF Next, Closed, vars, feederVars
    <3> QED BY <3>4 DEF Feeder, TakeAudio, Skip, LookAudio, FeedCount, Feed, ReportIndex,
               MarkReached, LookDone, Idle
  <2>2. got.kind = "done" /\ Settled(i) BY <1>1 DEF Pipeline, ToldInv
  <2> QED BY <2>1, <2>2 DEF Drained, Settled, DueAtEnd
<1>2. Pipeline /\ [Next]_vars => [Safe]_vars BY <1>1
<1> HIDE DEF Safe
<1>3. Spec => [][Safe]_vars BY <1>2, PipelineInvariant, PTL DEF Spec
<1> QED BY <1>3 DEF Safe, IndexBeforeDone

-----------------------------------------------------------------------------
(* Without the joiner an utterance is one item, which is at one place at a    *)
(* time: its mark is the last that is queued of it, and only what a cancel    *)
(* overtook has an index of its own.                                          *)

InWorker == IF worker \in {"stamp", "render", "send", "put", "tail"} THEN Of(held) ELSE {}
ToCome   == InWorker \cup Of(queue)
Marks(e, i)  == e.kind = "mark" /\ i \in Of(e.items)
Sounds(e, i) == e.kind = "audio" /\ i \in Of(e.items)
Handing(i)   == feeder \in {"look", "feed", "feeding"} /\ i \in Of(got.items)
                /\ got.kind \in {"audio", "piece"}
OnceInv ==
  ~joining =>
    /\ worker \notin {"report", "join", "waiting", "joined"}
    /\ \A j, k \in 1 .. Len(queue) : j < k => queue[j] = None \/ queue[j] # queue[k]
    /\ InWorker \cap Of(queue) = {}
    /\ worker \in {"render", "send", "put", "tail"} => \A i \in Of(held) : Live(i) => stamp = epoch
    /\ got.kind = "index" => \A i \in Of(got.items) : ~Live(i)
    /\ \A k \in 1 .. Len(audioQueue) : audioQueue[k].kind = "index" =>
         \A i \in Of(audioQueue[k].items) : ~Live(i)
MarkedLast(i) ==
  /\ \A j \in 1 .. Len(audioQueue) : Marks(audioQueue[j], i) =>
       /\ i \notin ToCome
       /\ \A k \in 1 .. Len(audioQueue) : j < k => ~Sounds(audioQueue[k], i)
  /\ Marks(got, i) \/ i \in HeldMarks =>
       /\ i \notin ToCome /\ ~Handing(i)
       /\ \A k \in 1 .. Len(audioQueue) : ~Sounds(audioQueue[k], i)
MarkedInv == ~joining => \A i \in Items : MarkedLast(i)

\* The shapes a queue may take: as it was, one entry longer, one shorter.
LEMMA Longer ==
  ASSUME NEW S, NEW q \in Seq(S), NEW e \in S
  PROVE  /\ Len(q) \in Nat /\ Len(Append(q, e)) = Len(q) + 1
         /\ Append(q, e)[Len(q) + 1] = e
         /\ \A k \in 1 .. Len(q) : Append(q, e)[k] = q[k]
OBVIOUS

LEMMA Shorter ==
  ASSUME NEW S, NEW q \in Seq(S), q # <<>>
  PROVE  /\ Len(q) \in Nat /\ Len(q) >= 1 /\ Len(Tail(q)) = Len(q) - 1 /\ Head(q) = q[1]
         /\ \A k \in 1 .. Len(q) - 1 : Tail(q)[k] = q[k + 1] /\ k + 1 \in 1 .. Len(q)
OBVIOUS

\* What main puts in the audio queue is nobody's, what it puts in the other is
\* new.
LEMMA MainPuts ==
  ASSUME Types, Main, ~Speak
  PROVE  /\ \/ audioQueue' = audioQueue \/ audioQueue' = <<>>
            \/ \E e \in Entries : /\ e.kind \in {"done", "none"} /\ Of(e.items) = {}
                                  /\ audioQueue' = Append(audioQueue, e)
         /\ queue' = queue \/ queue' = <<>> \/ queue' = Append(queue, None)
         /\ marks' = marks \/ marks' = <<>>
         /\ device' = device \/ device' = <<>>
<1>1. CASE Cancel \/ Terminate
  BY <1>1 DEF Cancel, Terminate, Bump, markVars, deviceVars
<1>2. CASE Drain BY <1>2 DEF Drain, markVars, deviceVars
<1>3. CASE DrainAudio BY <1>3 DEF DrainAudio, markVars, deviceVars
<1>4. CASE PutDone
  <2> DEFINE e == Entry("done", <<>>, NoTag)
  <2>1. e.kind = "done" /\ Of(e.items) = {} BY OfNone DEF Entry
  <2>2. e \in Entries
    <3>1. <<>> \in Seq(Items) OBVIOUS
    <3> QED BY <3>1, EntryTyped DEF Kinds, NoTag
  <2>3. audioQueue' = audioQueue \/ audioQueue' = Append(audioQueue, e)
    BY <1>4 DEF PutDone, PutAudio
  <2> HIDE DEF e
  <2>4. UNCHANGED <<queue, marks, device>> BY <1>4 DEF PutDone, markVars, deviceVars
  <2> QED BY <2>1, <2>2, <2>3, <2>4
<1>5. CASE StopPlayer BY <1>5 DEF StopPlayer, markVars
<1>6. CASE ResetMarks BY <1>6 DEF ResetMarks, deviceVars
<1>7. CASE Sentinel
  <2>1. audioQueue' = Append(audioQueue, Stop) /\ queue' = Append(queue, None)
        /\ UNCHANGED <<marks, device>>
    BY <1>7 DEF Sentinel, PutAudio, markVars, deviceVars
  <2> QED BY <2>1, StopTyped, StopEmpty
<1> QED BY <1>1, <1>2, <1>3, <1>4, <1>5, <1>6, <1>7 DEF Main, Cancelling

\* What the worker puts in the audio queue speaks of what it holds.
LEMMA WorkerPuts ==
  ASSUME Types, Worker, audioQueue' # audioQueue
  PROVE  \E e \in Entries :
           /\ audioQueue' = Append(audioQueue, e)
           /\ \/ Report /\ e.kind = "index" /\ e.items = held
              \/ Joined /\ e.kind = "index"
              \/ Render /\ ~joining /\ ~Current /\ e.kind = "index" /\ e.items = held
              \/ SinkPut /\ e.kind = "audio" /\ e.items = held
              \/ MarkTail /\ ~joining /\ e.kind = "mark" /\ e.items = held
              \/ Done /\ e.kind = "done" /\ e.items = held
<1> USE DEF Types, WorkTypes, PutAudio, Kinds, NoTag
<1>1. ASSUME NEW k \in Kinds, NEW t \in Nat, t # NoTag <=> k = "audio"
      PROVE  /\ Entry(k, held, t) \in Entries /\ Entry(k, held, t).kind = k
             /\ Entry(k, held, t).items = held
  BY <1>1, EntryTyped DEF Entry
<1>2. CASE Report BY <1>1, <1>2 DEF Report
<1>3. CASE Joined
  <2>1. ~HandsBack /\ audioQueue' = Append(audioQueue, Entry("index", <<nxt>>, NoTag))
    BY <1>3 DEF Joined
  <2>2. nxt \in Items BY <2>1 DEF HandsBack
  <2>3. <<nxt>> \in Seq(Items) BY <2>2
  <2>4. Entry("index", <<nxt>>, NoTag) \in Entries /\ Entry("index", <<nxt>>, NoTag).kind = "index"
    BY <2>3, EntryTyped DEF Entry
  <2> QED BY <1>3, <2>1, <2>4
<1>4. CASE Render
  <2>1. audioQueue' = Append(audioQueue, Entry("index", held, NoTag)) /\ ~joining /\ ~Current
    BY <1>4 DEF Render
  <2>2. Entry("index", held, NoTag) \in Entries BY <1>1
  <2>3. Entry("index", held, NoTag).kind = "index" /\ Entry("index", held, NoTag).items = held
    BY DEF Entry
  <2> QED BY <1>4, <2>1, <2>2, <2>3
<1>5. CASE SinkPut
  <2>1. stamp \in Nat /\ stamp # 0 BY <1>5 DEF SinkPut, Stamped, MainTypes, Epochs
  <2> QED BY <1>1, <1>5, <2>1 DEF SinkPut
<1>6. CASE MarkTail
  <2>1. audioQueue' = Append(audioQueue, Entry("mark", held, NoTag)) /\ ~joining
    BY <1>6 DEF MarkTail
  <2>2. Entry("mark", held, NoTag) \in Entries BY <1>1
  <2>3. Entry("mark", held, NoTag).kind = "mark" /\ Entry("mark", held, NoTag).items = held
    BY DEF Entry
  <2> QED BY <1>6, <2>1, <2>2, <2>3
<1>7. CASE Done BY <1>1, <1>7 DEF Done
<1>8. CASE Take \/ Stamp \/ JoinMore \/ JoinWait \/ Sink
  BY <1>8 DEF Take, Stamp, JoinMore, JoinWait, Sink
<1> QED BY <1>2, <1>3, <1>4, <1>5, <1>6, <1>7, <1>8 DEF Worker

LEMMA OnceMain ==
  ASSUME Types, EpochInv, OldInv, OnceInv, Main, ~joining
  PROVE  OnceInv'
<1> USE DEF Types
<1>1. UNCHANGED <<worker, held, stamp, got>>
  BY MainFrame DEF workerVars, feederVars
<1>2. CASE Speak
  <2>1. /\ queue' = Append(queue, spoken + 1) /\ audioQueue' = audioQueue
        /\ queue \in Seq(Items \cup {None})
    BY <1>2 DEF Speak, WorkTypes
  <2>2. spoken + 1 \in Items /\ ~Old(spoken + 1)
    BY <1>2, Bounds DEF Speak, MainTypes, Items, EpochInv, Old
  <2>3. \A i \in InPipe : Live(i)' => Live(i) BY <1>2, StillLive DEF Next
  <2>4. Of(queue') = Of(queue) \cup {spoken + 1} BY <2>1, <2>2, OfPutOn
  <2>5. spoken + 1 \notin Of(queue) /\ spoken + 1 \notin Of(held)
    BY <2>2, Bounds DEF OldInv, InPipe
  <2>6. \A j, k \in 1 .. Len(queue') : j < k => queue'[j] = None \/ queue'[j] # queue'[k]
    <3>1. \A k \in 1 .. Len(queue) : queue[k] \in Of(queue) BY DEF Of
    <3>2. /\ Len(queue) \in Nat /\ Len(queue') = Len(queue) + 1
          /\ queue'[Len(queue) + 1] = spoken + 1
          /\ \A k \in 1 .. Len(queue) : queue'[k] = queue[k]
      BY <2>1, <2>2, Longer
    <3> QED BY <1>1, <2>5, <3>1, <3>2 DEF OnceInv
  <2>7. InWorker' \cap Of(queue') = {}
    BY <1>1, <2>4, <2>5 DEF OnceInv, InWorker
  <2>8. /\ \A i \in Of(held) : Live(i)' => Live(i)
        /\ \A i \in Of(got.items) : Live(i)' => Live(i)
        /\ \A k \in 1 .. Len(audioQueue) : \A i \in Of(audioQueue[k].items) : Live(i)' => Live(i)
    BY <2>3, Places
  <2>9. epoch' = epoch /\ joining' = joining BY <1>2 DEF Speak
  <2> QED BY <1>1, <2>1, <2>6, <2>7, <2>8, <2>9 DEF OnceInv
<1>3. CASE ~Speak
  <2>1. \A i \in InPipe' : ~Live(i)' BY <1>3, NoneLive
  <2>2. /\ \A k \in 1 .. Len(audioQueue') : Of(audioQueue'[k].items) \subseteq InPipe'
        /\ Of(got'.items) \subseteq InPipe' /\ Of(held') \subseteq InPipe'
    BY DEF InPipe, InAudio, Of
  <2>3. queue' = queue \/ queue' = <<>> \/ queue' = Append(queue, None) BY <1>3, MainPuts
  <2>4. Of(queue') \subseteq Of(queue) \cup {None}
    <3>1. Of(Append(queue, None)) = Of(queue) \cup {None} BY OfPutOn DEF WorkTypes
    <3> QED BY <2>3, <3>1, OfNone
  <2>5. None \notin Of(held) BY Reporting, Bounds DEF WorkTypes
  <2>6. \A j, k \in 1 .. Len(queue') : j < k => queue'[j] = None \/ queue'[j] # queue'[k]
    <3>1. CASE queue' = queue \/ queue' = <<>> BY <3>1 DEF OnceInv
    <3>2. CASE queue' = Append(queue, None)
      <4>1. /\ Len(queue) \in Nat /\ Len(queue') = Len(queue) + 1
            /\ queue'[Len(queue) + 1] = None
            /\ \A k \in 1 .. Len(queue) : queue'[k] = queue[k]
        BY <3>2, Longer DEF WorkTypes
      <4> QED BY <4>1 DEF OnceInv
    <3> QED BY <2>3, <3>1, <3>2
  <2> QED BY <1>1, <2>1, <2>2, <2>4, <2>5, <2>6, MainFrame DEF OnceInv, InWorker
<1> QED BY <1>2, <1>3

LEMMA OnceWorker ==
  ASSUME Types, OnceInv, Worker, ~joining
  PROVE  OnceInv'
<1> USE DEF Types
<1>1. UNCHANGED <<got, joining, epoch>> /\ \A i : Live(i)' <=> Live(i)
  BY WorkerFrame DEF mainVars, feederVars, Live
<1>2. \A k \in 1 .. Len(audioQueue') : audioQueue'[k].kind = "index" =>
         \A i \in Of(audioQueue'[k].items) : ~Live(i)
  <2>1. CASE audioQueue' = audioQueue BY <2>1 DEF OnceInv
  <2>2. CASE audioQueue' # audioQueue
    <3>1. PICK e \in Entries :
           /\ audioQueue' = Append(audioQueue, e)
           /\ e.kind = "index" => Report \/ Joined \/
                (Render /\ ~Current /\ e.items = held)
      BY <2>2, WorkerPuts
    <3>2. e.kind = "index" => \A i \in Of(e.items) : ~Live(i)
      <4>1. ~Report /\ ~Joined BY DEF Report, Joined, OnceInv
      <4>2. Render /\ ~Current => \A i \in Of(held) : ~Live(i)
        BY DEF Render, Current, OnceInv, Live
      <4> QED BY <3>1, <4>1, <4>2
    <3>3. /\ Len(audioQueue) \in Nat /\ Len(audioQueue') = Len(audioQueue) + 1
          /\ audioQueue'[Len(audioQueue) + 1] = e
          /\ \A k \in 1 .. Len(audioQueue) : audioQueue'[k] = audioQueue[k]
      BY <3>1, Longer DEF FeedTypes
    <3>4. ASSUME NEW k \in 1 .. Len(audioQueue'), audioQueue'[k].kind = "index",
                 NEW i \in Of(audioQueue'[k].items)
          PROVE  ~Live(i)
      <4>1. CASE k = Len(audioQueue) + 1 BY <3>2, <3>3, <3>4, <4>1
      <4>2. CASE k # Len(audioQueue) + 1
        <5>1. k \in 1 .. Len(audioQueue) BY <3>3, <4>2
        <5>2. audioQueue'[k] = audioQueue[k] BY <3>3, <5>1
        <5> QED BY <3>4, <5>1, <5>2 DEF OnceInv
      <4> QED BY <4>1, <4>2
    <3> QED BY <3>4
  <2> QED BY <2>1, <2>2
<1>3. CASE Take
  <2>1. /\ queue \in Seq(Items \cup {None}) /\ queue # <<>> /\ queue' = Tail(queue)
        /\ worker = "get"
    BY <1>3 DEF Take, WorkTypes
  <2>2. /\ Len(queue) \in Nat /\ Len(queue') = Len(queue) - 1 /\ Head(queue) = queue[1]
        /\ \A k \in 1 .. Len(queue) - 1 : queue'[k] = queue[k + 1] /\ k + 1 \in 1 .. Len(queue)
    BY <2>1, Shorter
  <2>3. \A j, k \in 1 .. Len(queue') : j < k => queue'[j] = None \/ queue'[j] # queue'[k]
    BY <2>2 DEF OnceInv
  <2>4. Head(queue) # None => Head(queue) \notin Of(queue')
    <3>1. \A k \in 1 .. Len(queue') : 1 < k + 1 /\ 1 \in 1 .. Len(queue) BY <2>2
    <3> QED BY <2>2, <3>1 DEF OnceInv, Of
  <2>5. CASE Head(queue) = None
    <3>1. worker' = "end" BY <1>3, <2>5 DEF Take
    <3> QED BY <1>1, <1>2, <2>3, <3>1 DEF OnceInv, InWorker
  <2>6. CASE Head(queue) # None
    <3>1. worker' = "stamp" /\ held' = <<Head(queue)>> BY <1>3, <2>6 DEF Take
    <3>2. Of(held') = {Head(queue)} BY <3>1, OfOne
    <3> QED BY <1>1, <1>2, <2>3, <2>4, <2>6, <3>1, <3>2 DEF OnceInv, InWorker
  <2> QED BY <2>5, <2>6
<1>4. CASE Stamp
  <2>1. /\ worker = "stamp" /\ worker' = "render" /\ stamp' = epoch
        /\ UNCHANGED <<queue, held>>
    BY <1>4 DEF Stamp
  <2> QED BY <1>1, <1>2, <2>1 DEF OnceInv, InWorker
<1>5. CASE Report \/ JoinMore \/ JoinWait \/ Joined
  BY <1>5 DEF Report, JoinMore, JoinWait, Joined, OnceInv
<1>6. CASE Render \/ Sink \/ SinkPut \/ MarkTail
  <2>1. /\ worker \in {"render", "send", "put", "tail"}
        /\ worker' \in {"send", "put", "tail", "done"}
        /\ UNCHANGED <<queue, held, stamp>>
    BY <1>6 DEF Render, Sink, SinkPut, MarkTail
  <2> QED BY <1>1, <1>2, <2>1 DEF OnceInv, InWorker
<1>7. CASE Done
  <2>1. worker' \in {"get", "end"} /\ queue' = queue BY <1>7 DEF Done, LoopTop
  <2> QED BY <1>1, <1>2, <2>1 DEF OnceInv, InWorker
<1> QED BY <1>3, <1>4, <1>5, <1>6, <1>7 DEF Worker

LEMMA OnceStep ==
  ASSUME Types, EpochInv, OldInv, OnceInv, [Next]_vars
  PROVE  OnceInv'
<1>0. joining' = joining
  BY MainFrame, WorkerFrame, FeederFrame, PlayerFrame DEF Next, Closed, vars, mainVars
<1>1. CASE joining BY <1>0, <1>1 DEF OnceInv
<1>2. CASE ~joining
  <2>1. CASE Main BY <1>2, <2>1, OnceMain
  <2>2. CASE Worker BY <1>2, <2>2, OnceWorker
  <2>3. CASE Feeder
    <3>1. UNCHANGED <<queue, worker, held, stamp, epoch>> /\ \A i : Live(i)' <=> Live(i)
      BY <2>3, FeederFrame DEF mainVars, workerVars, Live
    <3>2. CASE TakeAudio
      <4>1. /\ got' = audioQueue[1] /\ 1 \in 1 .. Len(audioQueue)
            /\ Len(audioQueue') = Len(audioQueue) - 1 /\ Len(audioQueue) \in Nat
            /\ \A k \in 1 .. Len(audioQueue) - 1 :
                 audioQueue'[k] = audioQueue[k + 1] /\ k + 1 \in 1 .. Len(audioQueue)
        BY <3>2, Shorter DEF TakeAudio, Types, FeedTypes
      <4>2. got'.kind = "index" => \A i \in Of(got'.items) : ~Live(i)
        BY <1>2, <4>1 DEF OnceInv
      <4>3. \A k \in 1 .. Len(audioQueue') : audioQueue'[k].kind = "index" =>
              \A i \in Of(audioQueue'[k].items) : ~Live(i)
        BY <1>2, <4>1 DEF OnceInv
      <4> QED BY <1>2, <3>1, <4>2, <4>3 DEF OnceInv, InWorker
    <3>3. CASE ~TakeAudio
      <4>1. audioQueue' = audioQueue /\ (got' = got \/ got'.kind \in {"none", "piece"})
        <5>1. CASE FeedCount BY <5>1 DEF FeedCount
        <5>2. CASE ~FeedCount
          BY <2>3, <3>3, <5>2, StopEmpty
          DEF Feeder, Skip, LookAudio, Feed, ReportIndex, MarkReached, LookDone, Idle, Drained
        <5> QED BY <5>1, <5>2
      <4> QED BY <1>2, <3>1, <4>1 DEF OnceInv, InWorker
    <3> QED BY <3>2, <3>3
  <2>4. CASE Player
    BY <1>2, <2>4, PlayerFrame DEF OnceInv, InWorker, Live, mainVars, workerVars, feederVars
  <2>5. CASE UNCHANGED vars
    BY <1>2, <2>5 DEF vars, OnceInv, InWorker, Live, mainVars, workerVars, feederVars
  <2> QED BY <2>1, <2>2, <2>3, <2>4, <2>5 DEF Next, Closed
<1> QED BY <1>1, <1>2

\* A mark stays last when what is queued behind it is of what was to come.
LEMMA LastByQueue ==
  ASSUME audioQueue \in Seq(Entries), NEW i \in Items, MarkedLast(i),
         UNCHANGED <<feeder, got>>, HeldMarks' \subseteq HeldMarks,
         i \in ToCome' => i \in ToCome \/ i \notin InPipe,
         \/ audioQueue' = audioQueue \/ audioQueue' = <<>>
         \/ \E e \in Entries : /\ audioQueue' = Append(audioQueue, e)
                               /\ Sounds(e, i) => i \in ToCome
                               /\ Marks(e, i) => i \notin ToCome'
  PROVE  MarkedLast(i)'
<1> USE DEF Marks, Sounds, Handing
<1>1. /\ Marks(got, i) \/ i \in HeldMarks => i \in InPipe
      /\ \A j \in 1 .. Len(audioQueue) : Marks(audioQueue[j], i) => i \in InPipe
  BY Places
<1>2. CASE audioQueue' = audioQueue BY <1>1, <1>2 DEF MarkedLast
<1>3. CASE audioQueue' = <<>> BY <1>1, <1>3 DEF MarkedLast
<1>4. ASSUME NEW e \in Entries, audioQueue' = Append(audioQueue, e),
             Sounds(e, i) => i \in ToCome, Marks(e, i) => i \notin ToCome'
      PROVE  MarkedLast(i)'
  <2>1. /\ Len(audioQueue) \in Nat /\ Len(audioQueue') = Len(audioQueue) + 1
        /\ audioQueue'[Len(audioQueue) + 1] = e
        /\ \A k \in 1 .. Len(audioQueue) : audioQueue'[k] = audioQueue[k]
    BY <1>4, Longer
  <2>2. \A k \in 1 .. Len(audioQueue') :
          k = Len(audioQueue) + 1 \/ (k \in 1 .. Len(audioQueue) /\ audioQueue'[k] = audioQueue[k])
    BY <2>1
  <2>3. ASSUME NEW j \in 1 .. Len(audioQueue'), Marks(audioQueue'[j], i)
        PROVE  /\ i \notin ToCome'
               /\ \A k \in 1 .. Len(audioQueue') : j < k => ~Sounds(audioQueue'[k], i)
    <3>1. CASE j = Len(audioQueue) + 1
      <4>1. i \notin ToCome' BY <1>4, <2>1, <2>3, <3>1
      <4>2. \A k \in 1 .. Len(audioQueue') : ~(j < k) BY <2>1, <3>1
      <4> QED BY <4>1, <4>2
    <3>2. CASE j \in 1 .. Len(audioQueue) /\ audioQueue'[j] = audioQueue[j]
      <4>1. i \notin ToCome BY <2>3, <3>2 DEF MarkedLast
      <4>2. i \notin ToCome' BY <1>1, <2>3, <3>2, <4>1
      <4>3. ASSUME NEW k \in 1 .. Len(audioQueue'), j < k
            PROVE  ~Sounds(audioQueue'[k], i)
        BY <1>4, <2>1, <2>2, <2>3, <3>2, <4>1, <4>3 DEF MarkedLast
      <4> QED BY <4>2, <4>3
    <3> QED BY <2>2, <3>1, <3>2
  <2>4. ASSUME Marks(got, i) \/ i \in HeldMarks
        PROVE  /\ i \notin ToCome' /\ ~Handing(i)
               /\ \A k \in 1 .. Len(audioQueue') : ~Sounds(audioQueue'[k], i)
    <3>1. i \notin ToCome /\ i \notin ToCome' BY <1>1, <2>4 DEF MarkedLast
    <3>2. ASSUME NEW k \in 1 .. Len(audioQueue') PROVE ~Sounds(audioQueue'[k], i)
      BY <1>4, <2>1, <2>2, <2>4, <3>1 DEF MarkedLast
    <3> QED BY <2>4, <3>1, <3>2 DEF MarkedLast
  <2> QED BY <2>3, <2>4 DEF MarkedLast
<1> QED BY <1>2, <1>3, <1>4

LEMMA MarkedStep ==
  ASSUME Types, EpochInv, OldInv, OnceInv, MarkedInv, [Next]_vars
  PROVE  MarkedInv'
<1>0. joining' = joining /\ audioQueue \in Seq(Entries)
  BY MainFrame, WorkerFrame, FeederFrame, PlayerFrame
  DEF Next, Closed, vars, mainVars, Types, FeedTypes
<1> SUFFICES ASSUME ~joining, NEW i \in Items
             PROVE  MarkedLast(i)'
  BY <1>0 DEF MarkedInv
<1>1. MarkedLast(i) BY DEF MarkedInv
<1>2. CASE Speak
  <2>1. /\ queue' = Append(queue, spoken + 1) /\ UNCHANGED <<audioQueue, feeder, got, marks,
                                                             worker, held>>
        /\ queue \in Seq(Items \cup {None})
    BY <1>2 DEF Speak, Types, WorkTypes, workerVars, feederVars, markVars
  <2>2. spoken + 1 \in Items /\ ~Old(spoken + 1)
    BY <1>2, Bounds DEF Speak, Types, MainTypes, Items, EpochInv, Old
  <2>3. Of(queue') = Of(queue) \cup {spoken + 1} BY <2>1, <2>2, OfPutOn
  <2>4. ToCome' = ToCome \cup {spoken + 1} BY <2>1, <2>3 DEF ToCome, InWorker
  <2>5. spoken + 1 \notin InPipe BY <2>2 DEF OldInv
  <2>6. HeldMarks' = HeldMarks BY <2>1 DEF HeldMarks
  <2> QED BY <1>0, <1>1, <2>1, <2>4, <2>5, <2>6, LastByQueue
<1>3. CASE Main /\ ~Speak
  <2>1. UNCHANGED <<worker, held, feeder, got>> BY <1>3, MainFrame DEF workerVars, feederVars
  <2>2. /\ \/ audioQueue' = audioQueue \/ audioQueue' = <<>>
           \/ \E e \in Entries : /\ e.kind \in {"done", "none"} /\ Of(e.items) = {}
                                 /\ audioQueue' = Append(audioQueue, e)
        /\ queue' = queue \/ queue' = <<>> \/ queue' = Append(queue, None)
        /\ marks' = marks \/ marks' = <<>>
    BY <1>3, MainPuts
  <2>3. Of(queue') \subseteq Of(queue) \cup {None}
    <3>1. Of(Append(queue, None)) = Of(queue) \cup {None} BY OfPutOn DEF Types, WorkTypes
    <3> QED BY <2>2, <3>1, OfNone
  <2>4. i \in ToCome' => i \in ToCome BY <2>1, <2>3, Bounds DEF ToCome, InWorker
  <2>5. HeldMarks' \subseteq HeldMarks BY <2>2 DEF HeldMarks
  <2>6. \/ audioQueue' = audioQueue \/ audioQueue' = <<>>
        \/ \E e \in Entries : /\ audioQueue' = Append(audioQueue, e)
                              /\ ~Sounds(e, i) /\ ~Marks(e, i)
    BY <2>2 DEF Sounds, Marks
  <2> QED BY <1>0, <1>1, <2>1, <2>4, <2>5, <2>6, LastByQueue
<1>4. CASE Worker
  <2>1. UNCHANGED <<feeder, got, marks>> BY <1>4, WorkerFrame DEF feederVars, markVars
  <2>2. HeldMarks' = HeldMarks BY <2>1 DEF HeldMarks
  <2>3. ToCome' \subseteq ToCome
    <3> USE DEF ToCome, InWorker
    <3>1. CASE Take
      <4>1. /\ queue \in Seq(Items \cup {None}) /\ queue # <<>> /\ queue' = Tail(queue)
            /\ worker' = "end" \/ held' = <<Head(queue)>>
        BY <3>1 DEF Take, Types, WorkTypes
      <4>2. Of(queue) = {Head(queue)} \cup Of(Tail(queue)) BY <4>1, OfRest
      <4> QED BY <4>1, <4>2, OfOne
    <3>2. CASE Stamp BY <3>2 DEF Stamp
    <3>3. CASE Report \/ JoinMore \/ JoinWait \/ Joined
      BY <3>3 DEF Report, JoinMore, JoinWait, Joined, OnceInv
    <3>4. CASE Render \/ Sink \/ SinkPut \/ MarkTail
      <4>1. worker \in {"render", "send", "put", "tail"} /\ UNCHANGED <<queue, held>>
        BY <3>4 DEF Render, Sink, SinkPut, MarkTail
      <4> QED BY <4>1
    <3>5. CASE Done
      <4>1. worker' \in {"get", "end"} /\ queue' = queue BY <3>5 DEF Done, LoopTop
      <4> QED BY <4>1
    <3> QED BY <1>4, <3>1, <3>2, <3>3, <3>4, <3>5 DEF Worker
  <2>4. \/ audioQueue' = audioQueue
        \/ \E e \in Entries : /\ audioQueue' = Append(audioQueue, e)
                              /\ Sounds(e, i) => i \in ToCome
                              /\ Marks(e, i) => i \notin ToCome'
    <3> SUFFICES ASSUME audioQueue' # audioQueue
                 PROVE  \E e \in Entries : /\ audioQueue' = Append(audioQueue, e)
                                           /\ Sounds(e, i) => i \in ToCome
                                           /\ Marks(e, i) => i \notin ToCome'
      OBVIOUS
    <3>1. PICK e \in Entries :
             /\ audioQueue' = Append(audioQueue, e)
             /\ \/ e.kind \in {"index", "done"}
                \/ SinkPut /\ e.kind = "audio" /\ e.items = held
                \/ MarkTail /\ ~joining /\ e.kind = "mark" /\ e.items = held
      BY <1>4, WorkerPuts
    <3>2. Sounds(e, i) => i \in ToCome
      <4>1. SinkPut => worker = "put" BY DEF SinkPut
      <4> QED BY <3>1, <4>1 DEF Sounds, ToCome, InWorker
    <3>3. Marks(e, i) => i \notin ToCome'
      <4>1. MarkTail => worker = "tail" /\ worker' = "done" /\ queue' = queue BY DEF MarkTail
      <4>2. Marks(e, i) => MarkTail /\ i \in Of(held) BY <3>1 DEF Marks
      <4> QED BY <4>1, <4>2 DEF ToCome, InWorker, OnceInv
    <3> QED BY <3>1, <3>2, <3>3
  <2> QED BY <1>0, <1>1, <2>1, <2>2, <2>3, <2>4, LastByQueue
<1>5. CASE Feeder
  <2>1. ToCome' = ToCome BY <1>5, FeederFrame DEF ToCome, InWorker, workerVars
  <2>2. ASSUME audioQueue' = audioQueue, Handing(i)' => Handing(i),
               Marks(got, i)' \/ i \in HeldMarks' => Marks(got, i) \/ i \in HeldMarks
        PROVE  MarkedLast(i)'
    BY <1>1, <2>1, <2>2 DEF MarkedLast, Marks, Sounds
  <2> USE DEF Marks, Handing
  <2>3. CASE TakeAudio
    <3>1. /\ got' = audioQueue[1] /\ 1 \in 1 .. Len(audioQueue)
          /\ Len(audioQueue') = Len(audioQueue) - 1 /\ Len(audioQueue) \in Nat
          /\ \A k \in 1 .. Len(audioQueue) - 1 :
               audioQueue'[k] = audioQueue[k + 1] /\ k + 1 \in 1 .. Len(audioQueue)
      BY <2>3, Shorter DEF TakeAudio, Types, FeedTypes
    <3>2. UNCHANGED marks BY <2>3 DEF TakeAudio, markVars
    <3>3. HeldMarks' = HeldMarks BY <3>2 DEF HeldMarks
    <3>4. ASSUME NEW j \in 1 .. Len(audioQueue'), Marks(audioQueue'[j], i)
          PROVE  /\ i \notin ToCome'
                 /\ \A k \in 1 .. Len(audioQueue') : j < k => ~Sounds(audioQueue'[k], i)
      <4>1. Marks(audioQueue[j + 1], i) /\ j + 1 \in 1 .. Len(audioQueue) BY <3>1, <3>4
      <4>2. ASSUME NEW k \in 1 .. Len(audioQueue'), j < k PROVE ~Sounds(audioQueue'[k], i)
        <5>1. /\ k + 1 \in 1 .. Len(audioQueue) /\ audioQueue'[k] = audioQueue[k + 1]
              /\ j + 1 < k + 1
          BY <3>1, <4>2
        <5> QED BY <1>1, <4>1, <5>1 DEF MarkedLast
      <4> QED BY <1>1, <2>1, <4>1, <4>2 DEF MarkedLast
    <3>5. ASSUME Marks(got', i)
          PROVE  /\ i \notin ToCome' /\ ~Handing(i)'
                 /\ \A k \in 1 .. Len(audioQueue') : ~Sounds(audioQueue'[k], i)
      <4>1. Marks(audioQueue[1], i) /\ got'.kind = "mark" BY <3>1, <3>5
      <4>2. ASSUME NEW k \in 1 .. Len(audioQueue') PROVE ~Sounds(audioQueue'[k], i)
        <5>1. /\ k + 1 \in 1 .. Len(audioQueue) /\ audioQueue'[k] = audioQueue[k + 1]
              /\ 1 < k + 1
          BY <3>1
        <5> QED BY <1>1, <3>1, <4>1, <5>1 DEF MarkedLast
      <4> QED BY <1>1, <2>1, <3>1, <4>1, <4>2 DEF MarkedLast
    <3>6. ASSUME i \in HeldMarks
          PROVE  /\ i \notin ToCome' /\ ~Handing(i)'
                 /\ \A k \in 1 .. Len(audioQueue') : ~Sounds(audioQueue'[k], i)
      <4>1. i \notin ToCome /\ \A k \in 1 .. Len(audioQueue) : ~Sounds(audioQueue[k], i)
        BY <1>1, <3>6 DEF MarkedLast
      <4>2. got'.kind # "piece"
        <5>1. audioQueue[1] \in Entries BY <1>0, <3>1
        <5> QED BY <3>1, <5>1 DEF Entries, Kinds
      <4>3. ~Handing(i)' BY <3>1, <4>1, <4>2 DEF Sounds
      <4> QED BY <2>1, <3>1, <4>1, <4>3
    <3> QED BY <3>3, <3>4, <3>5, <3>6 DEF MarkedLast
  <2>4. CASE Skip \/ LookAudio \/ ReportIndex \/ LookDone \/ Idle
    <3>1. UNCHANGED <<audioQueue, marks>> /\ (got' = got \/ got' = Stop)
      BY <2>4 DEF Skip, LookAudio, ReportIndex, LookDone, Idle, markVars
    <3>2. feeder' \in {"look", "feed", "feeding"} => got' = got /\ feeder = "look"
      BY <2>4 DEF Skip, LookAudio, ReportIndex, LookDone, Idle, LoopTop
    <3> QED BY <2>2, <3>1, <3>2, StopEmpty DEF HeldMarks
  <2>5. CASE FeedCount
    <3>1. /\ UNCHANGED <<audioQueue, marks>> /\ feeder = "feed"
          /\ got'.kind = "piece" /\ got'.items = got.items
      BY <2>5 DEF FeedCount
    <3>2. got.kind = "audio" BY <3>1 DEF Types, FeedTypes
    <3> QED BY <2>2, <3>1, <3>2 DEF HeldMarks
  <2>6. CASE Feed
    <3>1. UNCHANGED <<audioQueue, marks>> /\ got' = Stop
      BY <2>6 DEF Feed, markVars
    <3> QED BY <2>2, <3>1, StopEmpty DEF HeldMarks
  <2>7. CASE MarkReached
    <3>1. audioQueue' = audioQueue /\ got' = Stop /\ got.kind = "mark"
      BY <2>7 DEF MarkReached
    <3>2. HeldMarks' \subseteq HeldMarks \cup Of(got.items)
      <4> DEFINE m == [at |-> fedBytes, items |-> got.items]
      <4>1. CASE Waits
        <5>1. m \in MarkSet
          BY <2>7 DEF MarkReached, Types, FeedTypes, Entries, MarkTypes, MarkSet
        <5>2. marks' = Append(marks, m) /\ m.items = got.items
          BY <2>7, <4>1 DEF MarkReached
        <5> HIDE DEF m
        <5> QED BY <5>1, <5>2, OneMoreMark DEF Types, MarkTypes
      <4>2. CASE ~Waits BY <2>7, <4>2 DEF MarkReached, HeldMarks
      <4> QED BY <4>1, <4>2
    <3> QED BY <2>2, <3>1, <3>2, StopEmpty
  <2>8. CASE Drained
    <3>1. audioQueue' = audioQueue /\ got' = Stop /\ marks' = <<>>
      BY <2>8 DEF Drained
    <3> QED BY <2>2, <3>1, StopEmpty DEF HeldMarks
  <2> QED BY <1>5, <2>3, <2>4, <2>5, <2>6, <2>7, <2>8 DEF Feeder
<1>6. CASE Player
  <2>1. UNCHANGED <<queue, audioQueue, feeder, got, worker, held>>
    BY <1>6, PlayerFrame DEF workerVars, feederVars
  <2>2. HeldMarks' \subseteq HeldMarks BY <1>6, PlayerMarks
  <2> QED BY <1>0, <1>1, <2>1, <2>2, LastByQueue DEF ToCome, InWorker
<1>7. CASE UNCHANGED vars
  <2>1. UNCHANGED <<queue, audioQueue, feeder, got, worker, held, marks>>
    BY <1>7 DEF vars, workerVars, feederVars, markVars
  <2> QED BY <1>0, <1>1, <2>1, LastByQueue DEF ToCome, InWorker, HeldMarks
<1> QED BY <1>2, <1>3, <1>4, <1>5, <1>6, <1>7 DEF Next, Closed

-----------------------------------------------------------------------------
(* With the joiner an index comes before its audio, and there are no marks. *)

JoinInv ==
  joining =>
    /\ marks = <<>> /\ firing = <<>>
    /\ got.kind # "mark" /\ \A k \in 1 .. Len(audioQueue) : audioQueue[k].kind # "mark"
    /\ \A k \in 1 .. Len(audioQueue) : audioQueue[k].kind = "audio" =>
         \A i \in Of(audioQueue[k].items) : Live(i) => Ahead(i, k)
    /\ got.kind \in {"audio", "piece"} => \A i \in Of(got.items) : Live(i) => i \in reported
    /\ \A k \in 1 .. Len(device) : \A i \in Of(device[k].items) : Live(i) => i \in reported

LEMMA JoinMain ==
  ASSUME Types, EpochInv, OldInv, JoinInv, Main, joining
  PROVE  JoinInv'
<1>0. UNCHANGED <<feeder, got, firing, reported, joining>>
  BY MainFrame DEF feederVars
<1>1. CASE Speak
  <2>1. UNCHANGED <<audioQueue, marks, device>>
    BY <1>1 DEF Speak, markVars, deviceVars
  <2>2. \A i \in InPipe : Live(i)' => Live(i) BY <1>1, StillLive DEF Next
  <2>3. \A i, k : Ahead(i, k)' <=> Ahead(i, k)
    BY <1>0, <2>1 DEF Ahead, Settled, Looking, HeldMarks
  <2> QED BY <1>0, <2>1, <2>2, <2>3, Places DEF JoinInv
<1>2. CASE ~Speak
  <2>1. \A i \in InPipe' : ~Live(i)' BY <1>2, NoneLive
  <2>2. /\ \A k \in 1 .. Len(audioQueue') : Of(audioQueue'[k].items) \subseteq InPipe'
        /\ \A k \in 1 .. Len(device') : Of(device'[k].items) \subseteq InPipe'
        /\ Of(got'.items) \subseteq InPipe'
    <3>1. \A k \in 1 .. Len(audioQueue') : Of(audioQueue'[k].items) \subseteq InPipe'
      BY DEF InPipe, InAudio, Of
    <3>2. \A k \in 1 .. Len(device') : Of(device'[k].items) \subseteq InPipe'
      BY DEF InPipe, InDevice, Of
    <3> QED BY <3>1, <3>2 DEF InPipe
  <2>3. marks' = <<>> BY <1>2, MainPuts DEF JoinInv
  <2>4. \A k \in 1 .. Len(audioQueue') : audioQueue'[k].kind # "mark"
    <3>1. CASE audioQueue' = audioQueue \/ audioQueue' = <<>> BY <3>1 DEF JoinInv
    <3>2. ASSUME NEW e \in Entries, e.kind # "mark", audioQueue' = Append(audioQueue, e)
          PROVE  \A k \in 1 .. Len(audioQueue') : audioQueue'[k].kind # "mark"
      <4>1. /\ Len(audioQueue) \in Nat /\ Len(audioQueue') = Len(audioQueue) + 1
            /\ audioQueue'[Len(audioQueue) + 1] = e
            /\ \A k \in 1 .. Len(audioQueue) : audioQueue'[k] = audioQueue[k]
        BY <3>2, Longer DEF Types, FeedTypes
      <4> QED BY <3>2, <4>1 DEF JoinInv
    <3> QED BY <1>2, <3>1, <3>2, MainPuts
  <2> QED BY <1>0, <2>1, <2>2, <2>3, <2>4 DEF JoinInv
<1> QED BY <1>1, <1>2

LEMMA JoinWorker ==
  ASSUME Types, EpochInv, OldInv, ToldInv, JoinInv, Worker, joining
  PROVE  JoinInv'
<1>0. UNCHANGED <<feeder, got, firing, marks, device, reported, joining>>
      /\ \A i : Live(i)' <=> Live(i)
  BY WorkerFrame DEF mainVars, feederVars, markVars, deviceVars, Live
<1>1. CASE audioQueue' = audioQueue
  BY <1>0, <1>1 DEF JoinInv, Ahead, Settled, Looking, HeldMarks
<1>2. CASE audioQueue' # audioQueue
  <2> DEFINE n == Len(audioQueue)
  <2>1. PICK e \in Entries :
          /\ audioQueue' = Append(audioQueue, e) /\ e.kind # "mark"
          /\ e.kind = "audio" => SinkPut /\ e.items = held
    BY <1>2, WorkerPuts
  <2>2. /\ n \in Nat /\ Len(audioQueue') = n + 1 /\ audioQueue'[n + 1] = e
        /\ \A k \in 1 .. n : audioQueue'[k] = audioQueue[k]
    BY <2>1, Longer DEF Types, FeedTypes
  <2>3. \A k \in 1 .. Len(audioQueue') :
          k = n + 1 \/ (k \in 1 .. n /\ audioQueue'[k] = audioQueue[k])
    BY <2>2
  <2>4. \A k \in 1 .. Len(audioQueue') : audioQueue'[k].kind # "mark"
    BY <2>1, <2>2, <2>3 DEF JoinInv
  <2>5. ASSUME NEW k \in 1 .. Len(audioQueue'), audioQueue'[k].kind = "audio",
               NEW i \in Of(audioQueue'[k].items), Live(i)
        PROVE  Ahead(i, k)'
    <3>1. Ahead(i, k)
      <4>1. CASE k = n + 1
        <5>1. SinkPut /\ i \in Of(held) BY <2>1, <2>2, <2>5, <4>1
        <5>2. Announced BY <5>1 DEF SinkPut, Announced
        <5> QED BY <2>5, <4>1, <5>1, <5>2 DEF ToldInv
      <4>2. CASE k \in 1 .. n /\ audioQueue'[k] = audioQueue[k]
        BY <2>5, <4>2 DEF JoinInv
      <4> QED BY <2>3, <4>1, <4>2
    <3>2. k \in Nat OBVIOUS
    <3> QED BY <2>1, <3>1, <3>2, AheadStays
  <2> QED BY <1>0, <2>4, <2>5 DEF JoinInv
<1> QED BY <1>1, <1>2

LEMMA JoinFeeder ==
  ASSUME Types, EpochInv, OldInv, JoinInv, Feeder, joining
  PROVE  JoinInv'
<1>0. joining' = joining /\ firing' = firing /\ \A i : Live(i)' <=> Live(i)
  BY FeederFrame DEF mainVars, Live
<1>1. marks = <<>> /\ HeldMarks = {} BY DEF JoinInv, HeldMarks
<1>2. \A i : /\ Settled(i) => Settled(i)'
             /\ Looking(i) => Settled(i)' \/ Looking(i)'
  BY TellStep
<1>3. reported \subseteq reported'
  BY DEF Feeder, TakeAudio, Skip, LookAudio, FeedCount, Feed, ReportIndex, MarkReached,
     LookDone, Idle, Drained, histVars
<1>4. CASE TakeAudio
  <2>1. /\ UNCHANGED <<marks, device, reported>> /\ feeder = "get"
        /\ got' = audioQueue[1] /\ 1 \in 1 .. Len(audioQueue)
        /\ Len(audioQueue') = Len(audioQueue) - 1 /\ Len(audioQueue) \in Nat
        /\ \A k \in 1 .. Len(audioQueue) - 1 :
             audioQueue'[k] = audioQueue[k + 1] /\ k + 1 \in 1 .. Len(audioQueue)
    BY <1>4, Shorter DEF TakeAudio, Types, FeedTypes, markVars, deviceVars, histVars
  <2>2. got'.kind # "mark" /\ \A k \in 1 .. Len(audioQueue') : audioQueue'[k].kind # "mark"
    BY <2>1 DEF JoinInv
  <2>3. ASSUME NEW k \in 1 .. Len(audioQueue'), audioQueue'[k].kind = "audio",
               NEW i \in Of(audioQueue'[k].items), Live(i)
        PROVE  Ahead(i, k)'
    <3>1. Ahead(i, k + 1) /\ k \in Nat BY <2>1, <2>3 DEF JoinInv
    <3> QED BY <1>4, <3>1, TakeShift DEF Ahead
  <2>4. got'.kind # "piece"
    <3>1. audioQueue[1] \in Entries BY <2>1 DEF Types, FeedTypes
    <3> QED BY <2>1, <3>1 DEF Entries, Kinds
  <2>5. ASSUME got'.kind = "audio", NEW i \in Of(got'.items), Live(i)
        PROVE  i \in reported
    <3>1. Ahead(i, 1) BY <2>1, <2>5 DEF JoinInv
    <3>2. ~Looking(i) BY <2>1 DEF Looking
    <3>3. Settled(i) BY <3>1, <3>2 DEF Ahead
    <3> QED BY <1>1, <3>3 DEF Settled
  <2> QED BY <1>0, <1>1, <2>1, <2>2, <2>3, <2>4, <2>5 DEF JoinInv
<1>5. CASE ~TakeAudio
  <2>1. audioQueue' = audioQueue
    BY <1>5 DEF Feeder, Skip, LookAudio, FeedCount, Feed, ReportIndex, MarkReached, LookDone,
       Idle, Drained
  <2>2. marks' = <<>> /\ got'.kind # "mark"
    <3>1. CASE FeedCount BY <1>1, <3>1 DEF FeedCount
    <3>2. CASE ~FeedCount
      BY <1>1, <1>5, <3>2, StopEmpty
      DEF Feeder, Skip, LookAudio, Feed, ReportIndex, MarkReached, LookDone, Idle, Drained,
          markVars, JoinInv
    <3> QED BY <3>1, <3>2
  <2>3. \A i, k : Ahead(i, k) => Ahead(i, k)'
    <3> TAKE i, k
    <3> QED BY <1>2, <2>1 DEF Ahead
  <2>4. got'.kind \in {"audio", "piece"} =>
          got'.items = got.items /\ got.kind \in {"audio", "piece"}
    <3>1. CASE FeedCount BY <3>1 DEF FeedCount, Types, FeedTypes
    <3>2. CASE ~FeedCount
      BY <1>5, <3>2, StopEmpty
      DEF Feeder, Skip, LookAudio, Feed, ReportIndex, MarkReached, LookDone, Idle, Drained
    <3> QED BY <3>1, <3>2
  <2>5. \A k \in 1 .. Len(device') :
          \/ device'[k].items = got.items /\ got.kind = "piece"
          \/ k \in 1 .. Len(device) /\ device'[k] = device[k]
    <3>1. CASE Feed
      <4>1. device' = Append(device, got) /\ got \in Pieces /\ device \in Seq(Pieces)
        BY <3>1 DEF Feed, Types, FeedTypes, MarkTypes
      <4>2. /\ Len(device) \in Nat /\ Len(device') = Len(device) + 1
            /\ device'[Len(device) + 1] = got
            /\ \A k \in 1 .. Len(device) : device'[k] = device[k]
        BY <4>1, Longer
      <4>3. got.kind = "piece" BY <4>1 DEF Pieces
      <4>4. \A k \in 1 .. Len(device') : k = Len(device) + 1 \/ k \in 1 .. Len(device)
        BY <4>2
      <4>5. ASSUME NEW k \in 1 .. Len(device')
            PROVE  \/ device'[k].items = got.items /\ got.kind = "piece"
                   \/ k \in 1 .. Len(device) /\ device'[k] = device[k]
        <5>1. CASE k = Len(device) + 1
          <6>1. device'[k] = got BY <4>2, <5>1
          <6> QED BY <4>3, <6>1
        <5>2. CASE k \in 1 .. Len(device) BY <4>2, <5>2
        <5> QED BY <4>4, <5>1, <5>2
      <4> QED BY <4>5
    <3>2. CASE ~Feed
      <4>1. device' = device
        BY <1>5, <3>2
        DEF Feeder, Skip, LookAudio, FeedCount, ReportIndex, MarkReached, LookDone, Idle, Drained,
            deviceVars
      <4> QED BY <4>1
    <3> QED BY <3>1, <3>2
  <2>6. ASSUME NEW k \in 1 .. Len(device'), NEW i \in Of(device'[k].items), Live(i)
        PROVE  i \in reported'
    BY <1>3, <2>5, <2>6 DEF JoinInv
  <2> QED BY <1>0, <1>3, <2>1, <2>2, <2>3, <2>4, <2>6 DEF JoinInv
<1> QED BY <1>4, <1>5

LEMMA JoinStep ==
  ASSUME Types, EpochInv, OldInv, ToldInv, JoinInv, [Next]_vars
  PROVE  JoinInv'
<1>0. joining' = joining
  BY MainFrame, WorkerFrame, FeederFrame, PlayerFrame DEF Next, Closed, vars, mainVars
<1>1. CASE ~joining BY <1>0, <1>1 DEF JoinInv
<1>2. CASE joining
  <2>1. CASE Main BY <1>2, <2>1, JoinMain
  <2>2. CASE Worker BY <1>2, <2>2, JoinWorker
  <2>3. CASE Feeder BY <1>2, <2>3, JoinFeeder
  <2>4. CASE Player
    <3>1. Play BY <1>2, <2>4 DEF Player, Callback, JoinInv
    <3>2. /\ UNCHANGED <<audioQueue, feeder, got, firing, marks, reported>>
          /\ device # <<>> /\ device' = Tail(device) /\ device \in Seq(Pieces)
      BY <1>2, <3>1 DEF Play, feederVars, markVars, histVars, Types, MarkTypes
    <3>3. \A k \in 1 .. Len(device') : device'[k] = device[k + 1] /\ k + 1 \in 1 .. Len(device)
      BY <3>2, Shorter
    <3>4. \A i : Live(i)' <=> Live(i) BY <2>4, PlayerFrame DEF Live, mainVars
    <3>5. \A i, k : Ahead(i, k)' <=> Ahead(i, k)
      BY <3>2 DEF Ahead, Settled, Looking, HeldMarks
    <3> QED BY <1>2, <3>2, <3>3, <3>4, <3>5 DEF JoinInv
  <2>5. CASE UNCHANGED vars
    BY <1>2, <2>5 DEF vars, mainVars, workerVars, feederVars, markVars, deviceVars, histVars,
       JoinInv, Ahead, Settled, Looking, Live, HeldMarks
  <2> QED BY <2>1, <2>2, <2>3, <2>4, <2>5 DEF Next, Closed
<1> QED BY <1>1, <1>2

-----------------------------------------------------------------------------
(* Without it pieces are sounded and called back in the order of their bytes, *)
(* so that no callback speaks for a piece the player still holds.             *)

Now(x) == x.gen = markGen
InOrder ==
  /\ \A k \in 1 .. Len(device) : Now(device[k]) => playedBytes < device[k].end
  /\ \A j \in 1 .. Len(firing), k \in 1 .. Len(device) :
       Now(firing[j]) /\ Now(device[k]) => firing[j].end < device[k].end
  /\ \A j, k \in 1 .. Len(device) :
       j < k /\ Now(device[j]) /\ Now(device[k]) => device[j].end < device[k].end
  /\ feeder = "feeding" /\ Now(got) =>
       /\ playedBytes < got.end
       /\ \A k \in 1 .. Len(device) : Now(device[k]) => device[k].end < got.end
       /\ \A j \in 1 .. Len(firing) : Now(firing[j]) => firing[j].end < got.end
OrderInv == ~joining => InOrder

\* What is live is of this generation, and its mark waits for its last byte.
GenInv ==
  ~joining =>
    /\ feeder = "feeding" => \A i \in Of(got.items) : Live(i) => Now(got)
    /\ \A k \in 1 .. Len(device) : \A i \in Of(device[k].items) : Live(i) =>
         /\ Now(device[k])
         /\ \A m \in 1 .. Len(marks) : i \in Of(marks[m].items) => device[k].end <= marks[m].at

LEMMA OrderStep ==
  ASSUME Types, OrderInv, [Next]_vars
  PROVE  OrderInv'
<1>0. joining' = joining
  BY MainFrame, WorkerFrame, FeederFrame, PlayerFrame DEF Next, Closed, vars, mainVars
<1> SUFFICES ASSUME ~joining PROVE InOrder'
  BY <1>0 DEF OrderInv
<1>1. InOrder BY DEF OrderInv
<1>2. /\ device \in Seq(Pieces) /\ firing \in Seq(Pieces) /\ markGen \in Nat
      /\ \A k \in 1 .. Len(device) : Counted(device[k]) /\ device[k] \in Pieces
      /\ \A k \in 1 .. Len(firing) : Counted(firing[k]) /\ firing[k] \in Pieces
      /\ feeder = "feeding" => Counted(got) /\ got \in Pieces
      /\ fedBytes \in Nat /\ playedBytes \in Nat /\ playedBytes <= fedBytes
  BY DEF Types, MainTypes, FeedTypes, MarkTypes
<1>3. CASE UNCHANGED <<device, firing, markGen, playedBytes>>
             /\ (feeder' = "feeding" => feeder = "feeding" /\ got' = got)
  BY <1>1, <1>3 DEF InOrder, Now
<1>4. CASE StopPlayer
  BY <1>1, <1>4 DEF StopPlayer, InOrder, Now, feederVars, markVars
<1>5. CASE ResetMarks
  <2>1. UNCHANGED <<device, firing, feeder, got>> /\ markGen' = markGen + 1
    BY <1>5 DEF ResetMarks, feederVars, deviceVars
  <2>2. ASSUME NEW x \in Pieces, Counted(x) PROVE ~Now(x)'
    <3>1. x.gen \in Nat /\ x.gen <= markGen BY <2>2 DEF Pieces, Counted
    <3> QED BY <1>2, <2>1, <3>1 DEF Now
  <2>3. /\ \A k \in 1 .. Len(device) : ~Now(device[k])'
        /\ \A k \in 1 .. Len(firing) : ~Now(firing[k])'
        /\ feeder = "feeding" => ~Now(got)'
    BY <1>2, <2>1, <2>2 DEF Now
  <2> QED BY <2>1, <2>3 DEF InOrder, Now
<1>6. CASE FeedCount
  <2>1. /\ UNCHANGED <<device, firing, markGen, playedBytes>>
        /\ got'.end = fedBytes + 1
    BY <1>6 DEF FeedCount, deviceVars
  <2>2. ASSUME NEW x \in Pieces, Counted(x), Now(x) PROVE x.end < fedBytes + 1
    <3>1. x.end \in Nat /\ x.end <= fedBytes BY <2>2 DEF Pieces, Counted, Now
    <3> QED BY <1>2, <3>1
  <2>3. playedBytes < fedBytes + 1 BY <1>2
  <2> QED BY <1>1, <1>2, <2>1, <2>2, <2>3 DEF InOrder, Now
<1>7. CASE Feed
  <2>1. /\ UNCHANGED <<firing, markGen, playedBytes>> /\ device' = Append(device, got)
        /\ feeder = "feeding" /\ feeder' # "feeding" /\ got \in Pieces
    BY <1>2, <1>7 DEF Feed, LoopTop, markVars
  <2>2. /\ Len(device) \in Nat /\ Len(device') = Len(device) + 1
        /\ device'[Len(device) + 1] = got
        /\ \A k \in 1 .. Len(device) : device'[k] = device[k]
    BY <1>2, <2>1, Longer
  <2>3. \A k \in 1 .. Len(device') :
          k = Len(device) + 1 \/ (k \in 1 .. Len(device) /\ device'[k] = device[k])
    BY <2>2
  <2>4. ASSUME NEW k \in 1 .. Len(device'), device'[k].gen = markGen
        PROVE  /\ playedBytes < device'[k].end
               /\ \A j \in 1 .. Len(firing) : firing[j].gen = markGen => firing[j].end < device'[k].end
    BY <1>1, <2>1, <2>2, <2>3, <2>4 DEF InOrder, Now
  <2>5. ASSUME NEW j \in 1 .. Len(device'), NEW k \in 1 .. Len(device'), j < k,
               device'[j].gen = markGen, device'[k].gen = markGen
        PROVE  device'[j].end < device'[k].end
    <3>1. j \in 1 .. Len(device) /\ device'[j] = device[j] BY <2>2, <2>5
    <3>2. CASE k = Len(device) + 1 BY <1>1, <2>1, <2>2, <2>5, <3>1, <3>2 DEF InOrder, Now
    <3>3. CASE k \in 1 .. Len(device) /\ device'[k] = device[k]
      BY <1>1, <2>5, <3>1, <3>3 DEF InOrder, Now
    <3> QED BY <2>3, <3>2, <3>3
  <2> QED BY <2>1, <2>4, <2>5 DEF InOrder, Now
<1>8. CASE Drained
  <2>1. /\ device' = <<>> /\ firing' = <<>> /\ feeder' # "feeding"
    BY <1>8 DEF Drained, LoopTop, deviceVars, Types, MarkTypes
  <2> QED BY <2>1 DEF InOrder
<1>9. CASE Play
  <2>1. /\ UNCHANGED <<markGen, playedBytes, feeder, got>> /\ device # <<>>
        /\ device' = Tail(device)
        /\ firing' = firing \/ firing' = Append(firing, Head(device))
    BY <1>9 DEF Play, markVars, feederVars
  <2>2. /\ Len(device) \in Nat /\ Len(device) >= 1 /\ Len(device') = Len(device) - 1
        /\ Head(device) = device[1] /\ 1 \in 1 .. Len(device)
        /\ \A k \in 1 .. Len(device) - 1 : device'[k] = device[k + 1] /\ k + 1 \in 1 .. Len(device)
    BY <1>2, <2>1, Shorter
  <2>3. \A j \in 1 .. Len(firing') :
          firing'[j] = device[1] \/ (j \in 1 .. Len(firing) /\ firing'[j] = firing[j])
    <3>1. CASE firing' = firing BY <3>1
    <3>2. CASE firing' = Append(firing, Head(device))
      <4>1. /\ Len(firing) \in Nat /\ Len(firing') = Len(firing) + 1
            /\ firing'[Len(firing) + 1] = device[1]
            /\ \A k \in 1 .. Len(firing) : firing'[k] = firing[k]
        BY <1>2, <2>2, <3>2, Longer
      <4>2. \A j \in 1 .. Len(firing') : j = Len(firing) + 1 \/ j \in 1 .. Len(firing) BY <4>1
      <4> QED BY <4>1, <4>2
    <3> QED BY <2>1, <3>1, <3>2
  <2>4. ASSUME NEW k \in 1 .. Len(device'), device'[k].gen = markGen
        PROVE  /\ playedBytes < device'[k].end
               /\ device[1].gen = markGen => device[1].end < device'[k].end
               /\ \A j \in 1 .. Len(firing) : firing[j].gen = markGen => firing[j].end < device'[k].end
               /\ feeder = "feeding" /\ got.gen = markGen => device'[k].end < got.end
    <3>1. device'[k] = device[k + 1] /\ k + 1 \in 1 .. Len(device) /\ 1 < k + 1 BY <2>2
    <3> QED BY <1>1, <2>2, <2>4, <3>1 DEF InOrder, Now
  <2>5. ASSUME NEW j \in 1 .. Len(device'), NEW k \in 1 .. Len(device'), j < k,
               device'[j].gen = markGen, device'[k].gen = markGen
        PROVE  device'[j].end < device'[k].end
    <3>1. /\ device'[j] = device[j + 1] /\ j + 1 \in 1 .. Len(device)
          /\ device'[k] = device[k + 1] /\ k + 1 \in 1 .. Len(device) /\ j + 1 < k + 1
      BY <2>2, <2>5
    <3> QED BY <1>1, <2>5, <3>1 DEF InOrder, Now
  <2>6. ASSUME NEW j \in 1 .. Len(firing'), firing'[j].gen = markGen
        PROVE  /\ \A k \in 1 .. Len(device') :
                    device'[k].gen = markGen => firing'[j].end < device'[k].end
               /\ feeder = "feeding" /\ got.gen = markGen => firing'[j].end < got.end
    <3>1. CASE firing'[j] = device[1] BY <1>1, <2>2, <2>4, <2>6, <3>1 DEF InOrder, Now
    <3>2. CASE j \in 1 .. Len(firing) /\ firing'[j] = firing[j]
      BY <1>1, <2>4, <2>6, <3>2 DEF InOrder, Now
    <3> QED BY <2>3, <3>1, <3>2
  <2>7. feeder = "feeding" /\ got.gen = markGen => playedBytes < got.end
    BY <1>1 DEF InOrder, Now
  <2> QED BY <2>1, <2>4, <2>5, <2>6, <2>7 DEF InOrder, Now
<1>10. CASE Callback
  <2> DEFINE h == Head(firing)
  <2>1. /\ UNCHANGED <<markGen, device, feeder, got>> /\ firing # <<>> /\ firing' = Tail(firing)
        /\ playedBytes' = playedBytes \/ (h.gen = markGen /\ playedBytes' = h.end)
    BY <1>10 DEF Callback, ThisGeneration, feederVars
  <2>2. /\ Len(firing) \in Nat /\ Len(firing') = Len(firing) - 1
        /\ h = firing[1] /\ 1 \in 1 .. Len(firing)
        /\ \A k \in 1 .. Len(firing) - 1 : firing'[k] = firing[k + 1] /\ k + 1 \in 1 .. Len(firing)
    BY <1>2, <2>1, Shorter
  <2> HIDE DEF h
  <2>3. \A k \in 1 .. Len(device) : device[k].gen = markGen => playedBytes' < device[k].end
    BY <1>1, <2>1, <2>2 DEF InOrder, Now
  <2>4. feeder = "feeding" /\ got.gen = markGen => playedBytes' < got.end
    BY <1>1, <2>1, <2>2 DEF InOrder, Now
  <2>5. ASSUME NEW j \in 1 .. Len(firing'), firing'[j].gen = markGen
        PROVE  /\ \A k \in 1 .. Len(device) :
                    device[k].gen = markGen => firing'[j].end < device[k].end
               /\ feeder = "feeding" /\ got.gen = markGen => firing'[j].end < got.end
    <3>1. firing'[j] = firing[j + 1] /\ j + 1 \in 1 .. Len(firing) BY <2>2
    <3> QED BY <1>1, <2>5, <3>1 DEF InOrder, Now
  <2> QED BY <1>1, <2>1, <2>3, <2>4, <2>5 DEF InOrder, Now
<1>11. CASE Main /\ ~StopPlayer /\ ~ResetMarks
  <2>1. UNCHANGED <<device, firing, markGen, playedBytes, feeder, got>>
    BY <1>11 DEF Main, Speak, Cancel, Terminate, Bump, Cancelling, Drain, DrainAudio, PutDone,
       Sentinel, feederVars, markVars, deviceVars
  <2> QED BY <1>3, <2>1
<1>12. CASE Worker
  <2>1. UNCHANGED <<device, firing, markGen, playedBytes, feeder, got>>
    BY <1>12, WorkerFrame DEF feederVars, markVars, deviceVars
  <2> QED BY <1>3, <2>1
<1>13. CASE Feeder /\ ~FeedCount /\ ~Feed /\ ~Drained
  <2>1. UNCHANGED <<device, firing, markGen, playedBytes>> /\ feeder' # "feeding"
    BY <1>13 DEF Feeder, TakeAudio, Skip, LookAudio, ReportIndex, MarkReached, LookDone, Idle,
       LoopTop, markVars, deviceVars
  <2> QED BY <1>3, <2>1
<1>14. CASE UNCHANGED vars
  <2>1. UNCHANGED <<device, firing, markGen, playedBytes, feeder, got>>
    BY <1>14 DEF vars, feederVars, markVars, deviceVars
  <2> QED BY <1>3, <2>1
<1> QED BY <1>4, <1>5, <1>6, <1>7, <1>8, <1>9, <1>10, <1>11, <1>12, <1>13, <1>14
    DEF Next, Closed, Player

LEMMA GenStep ==
  ASSUME Types, EpochInv, OldInv, MarkedInv, GenInv, [Next]_vars
  PROVE  GenInv'
<1>0. joining' = joining
  BY MainFrame, WorkerFrame, FeederFrame, PlayerFrame DEF Next, Closed, vars, mainVars
<1>1. CASE joining BY <1>0, <1>1 DEF GenInv
<1> SUFFICES ASSUME ~joining PROVE GenInv'
  BY <1>1
<1>2. \A i \in InPipe : Live(i)' => Live(i) BY StillLive
<1>3. /\ device \in Seq(Pieces) /\ marks \in Seq(MarkSet)
      /\ \A k \in 1 .. Len(device) : Counted(device[k]) /\ device[k] \in Pieces
  BY DEF Types, MarkTypes
<1>4. ASSUME UNCHANGED <<device, marks, markGen>>,
             feeder' = "feeding" => feeder = "feeding" /\ got' = got
      PROVE  GenInv'
  BY <1>0, <1>2, <1>4, Places DEF GenInv, Now
<1>5. CASE Main
  <2>1. UNCHANGED <<feeder, got>> BY <1>5, MainFrame DEF feederVars
  <2>2. CASE Speak BY <1>4, <2>1, <2>2 DEF Speak, markVars, deviceVars
  <2>3. CASE ~Speak
    <3>1. \A i \in InPipe' : ~Live(i)' BY <1>5, <2>3, NoneLive
    <3>2. \A k \in 1 .. Len(device') : Of(device'[k].items) \subseteq InPipe'
      BY DEF InPipe, InDevice, Of
    <3>3. Of(got'.items) \subseteq InPipe' BY DEF InPipe
    <3> QED BY <2>1, <3>1, <3>2, <3>3 DEF GenInv
  <2> QED BY <2>2, <2>3
<1>6. CASE Worker
  <2>1. UNCHANGED <<device, marks, markGen, feeder, got>>
    BY <1>6, WorkerFrame DEF feederVars, markVars, deviceVars
  <2> QED BY <1>4, <2>1
<1>7. CASE Feeder
  <2>1. CASE FeedCount
    <3>1. UNCHANGED <<device, marks, markGen>> /\ got'.gen = markGen
      BY <2>1 DEF FeedCount, deviceVars
    <3> QED BY <1>0, <1>2, <3>1, Places DEF GenInv, Now
  <2>2. CASE Feed
    <3>1. /\ UNCHANGED <<marks, markGen>> /\ device' = Append(device, got)
          /\ feeder = "feeding" /\ feeder' # "feeding" /\ got \in Pieces
      BY <2>2 DEF Feed, LoopTop, markVars, Types, FeedTypes
    <3>2. /\ Len(device) \in Nat /\ Len(device') = Len(device) + 1
          /\ device'[Len(device) + 1] = got
          /\ \A k \in 1 .. Len(device) : device'[k] = device[k]
      BY <1>3, <3>1, Longer
    <3>3. \A k \in 1 .. Len(device') :
            k = Len(device) + 1 \/ (k \in 1 .. Len(device) /\ device'[k] = device[k])
      BY <3>2
    <3>4. ASSUME NEW i \in Of(got.items) PROVE i \notin HeldMarks
      <4>1. i \in Items BY PipeTyped, Places
      <4>2. Handing(i) BY <3>1, <3>4 DEF Handing, Pieces
      <4> QED BY <4>1, <4>2 DEF MarkedInv, MarkedLast
    <3>5. ASSUME NEW k \in 1 .. Len(device'), NEW i \in Of(device'[k].items), Live(i)'
          PROVE  /\ device'[k].gen = markGen
                 /\ \A m \in 1 .. Len(marks) : i \in Of(marks[m].items) => device'[k].end <= marks[m].at
      <4>1. CASE k = Len(device) + 1
        <5>1. device'[k] = got /\ i \in Of(got.items) BY <3>2, <3>5, <4>1
        <5>2. Live(i) BY <1>2, <3>5, <5>1, Places
        <5>3. got.gen = markGen BY <3>1, <5>1, <5>2 DEF GenInv, Now
        <5>4. \A m \in 1 .. Len(marks) : i \notin Of(marks[m].items)
          BY <3>4, <5>1 DEF HeldMarks
        <5> QED BY <5>1, <5>3, <5>4
      <4>2. CASE k \in 1 .. Len(device) /\ device'[k] = device[k]
        <5>1. Live(i) BY <1>2, <3>5, <4>2, Places
        <5> QED BY <3>5, <4>2, <5>1 DEF GenInv, Now
      <4> QED BY <3>3, <4>1, <4>2
    <3> QED BY <3>1, <3>5 DEF GenInv, Now
  <2>3. CASE MarkReached
    <3>1. UNCHANGED <<device, markGen>> /\ feeder' # "feeding"
      BY <2>3 DEF MarkReached, LoopTop, deviceVars
    <3>2. CASE ~Waits BY <1>4, <2>3, <3>1, <3>2 DEF MarkReached
    <3>3. CASE Waits
      <4> DEFINE w == [at |-> fedBytes, items |-> got.items]
      <4>1. marks' = Append(marks, w) BY <2>3, <3>3 DEF MarkReached
      <4>2. w \in MarkSet BY <2>3 DEF MarkReached, Types, FeedTypes, Entries, MarkTypes, MarkSet
      <4>3. w.at = fedBytes OBVIOUS
      <4> HIDE DEF w
      <4>4. /\ Len(marks) \in Nat /\ Len(marks') = Len(marks) + 1
            /\ marks'[Len(marks) + 1] = w
            /\ \A k \in 1 .. Len(marks) : marks'[k] = marks[k]
        BY <1>3, <4>1, <4>2, Longer
      <4>5. \A m \in 1 .. Len(marks') :
              m = Len(marks) + 1 \/ (m \in 1 .. Len(marks) /\ marks'[m] = marks[m])
        BY <4>4
      <4>6. ASSUME NEW k \in 1 .. Len(device), NEW i \in Of(device[k].items), Live(i)'
            PROVE  /\ device[k].gen = markGen
                   /\ \A m \in 1 .. Len(marks') :
                        i \in Of(marks'[m].items) => device[k].end <= marks'[m].at
        <5>1. Live(i) BY <1>2, <4>6, Places
        <5>2. device[k].gen = markGen BY <4>6, <5>1 DEF GenInv, Now
        <5>3. device[k].end <= fedBytes BY <1>3, <5>2 DEF Counted
        <5> QED BY <4>3, <4>4, <4>5, <4>6, <5>1, <5>2, <5>3 DEF GenInv
      <4> QED BY <3>1, <4>6 DEF GenInv, Now
    <3> QED BY <3>2, <3>3
  <2>4. CASE Drained
    <3>1. device' = <<>> /\ feeder' # "feeding"
      BY <2>4 DEF Drained, LoopTop, deviceVars, Types, MarkTypes
    <3> QED BY <3>1 DEF GenInv
  <2>5. CASE ~FeedCount /\ ~Feed /\ ~MarkReached /\ ~Drained
    <3>1. UNCHANGED <<device, marks, markGen>> /\ feeder' # "feeding"
      BY <1>7, <2>5 DEF Feeder, TakeAudio, Skip, LookAudio, ReportIndex, LookDone, Idle,
         LoopTop, markVars, deviceVars
    <3> QED BY <1>4, <3>1
  <2> QED BY <2>1, <2>2, <2>3, <2>4, <2>5
<1>8. CASE Player
  <2>0. UNCHANGED <<feeder, got, markGen>> BY <1>8, PlayerFrame DEF feederVars
  <2>1. CASE Play
    <3>1. marks' = marks /\ device # <<>> /\ device' = Tail(device)
      BY <2>1 DEF Play, markVars
    <3>2. \A k \in 1 .. Len(device') : device'[k] = device[k + 1] /\ k + 1 \in 1 .. Len(device)
      BY <1>3, <3>1, Shorter
    <3>3. ASSUME NEW k \in 1 .. Len(device'), NEW i \in Of(device'[k].items), Live(i)'
          PROVE  /\ device'[k].gen = markGen
                 /\ \A m \in 1 .. Len(marks) : i \in Of(marks[m].items) => device'[k].end <= marks[m].at
      <4>1. Live(i) BY <1>2, <3>2, <3>3, Places
      <4> QED BY <3>2, <3>3, <4>1 DEF GenInv, Now
    <3>4. feeder = "feeding" => \A i \in Of(got.items) : Live(i)' => got.gen = markGen
      BY <1>2, Places DEF GenInv, Now
    <3> QED BY <2>0, <3>1, <3>3, <3>4 DEF GenInv, Now
  <2>2. CASE Callback
    <3>1. device' = device BY <2>2 DEF Callback
    <3>2. \A m \in 1 .. Len(marks') : \E j \in 1 .. Len(marks) : marks'[m] = marks[j]
      <4>1. CASE Head(firing).gen # markGen
        BY <2>2, <4>1 DEF Callback, ThisGeneration
      <4>2. CASE Head(firing).gen = markGen
        <5> DEFINE d == Cardinality(DueBy(Head(firing).end))
        <5>1. Head(firing) \in Pieces
          BY <2>2, TakenOff DEF Callback, Types, MarkTypes
        <5>2. Head(firing).end \in Nat BY <5>1 DEF Pieces
        <5>3. d \in 0 .. Len(marks) BY <5>2, DueFirst DEF Types, MarkTypes
        <5>4. marks' = SubSeq(marks, d + 1, Len(marks))
          BY <2>2, <4>2 DEF Callback, ThisGeneration, DueBy
        <5> HIDE DEF d
        <5>5. /\ Len(marks') = Len(marks) - d
              /\ \A m \in 1 .. Len(marks) - d : marks'[m] = marks[m + d]
          BY <1>3, <5>3, <5>4, Remainder
        <5>6. \A m \in 1 .. Len(marks) - d : m + d \in 1 .. Len(marks) BY <5>3
        <5> QED BY <5>5, <5>6
      <4> QED BY <4>1, <4>2
    <3>3. ASSUME NEW k \in 1 .. Len(device), NEW i \in Of(device[k].items), Live(i)'
          PROVE  /\ device[k].gen = markGen
                 /\ \A m \in 1 .. Len(marks') :
                      i \in Of(marks'[m].items) => device[k].end <= marks'[m].at
      <4>1. Live(i) BY <1>2, <3>3, Places
      <4> QED BY <3>2, <3>3, <4>1 DEF GenInv, Now
    <3>4. feeder = "feeding" => \A i \in Of(got.items) : Live(i)' => got.gen = markGen
      BY <1>2, Places DEF GenInv, Now
    <3> QED BY <2>0, <3>1, <3>3, <3>4 DEF GenInv, Now
  <2> QED BY <1>8, <2>1, <2>2 DEF Player
<1>9. CASE UNCHANGED vars
  <2>1. UNCHANGED <<device, marks, markGen, feeder, got>>
    BY <1>9 DEF vars, feederVars, markVars, deviceVars
  <2> QED BY <1>4, <2>1
<1> QED BY <1>5, <1>6, <1>7, <1>8, <1>9 DEF Next, Closed

Marking == Pipeline /\ JoinInv /\ OnceInv /\ MarkedInv /\ OrderInv /\ GenInv
LEMMA MarkingInvariant == Spec => []Marking
<1>1. Init => Marking
  <2>1. Init => Pipeline BY PipelineInit
  <2>2. Init => JoinInv BY StopEmpty DEF Init, JoinInv
  <2>3. Init => OnceInv BY StopEmpty DEF Init, OnceInv, InWorker
  <2>4. Init => MarkedInv BY StopEmpty DEF Init, MarkedInv, MarkedLast, Marks, HeldMarks
  <2>5. Init => OrderInv BY DEF Init, OrderInv, InOrder
  <2>6. Init => GenInv BY DEF Init, GenInv
  <2> QED BY <2>1, <2>2, <2>3, <2>4, <2>5, <2>6 DEF Marking
<1>2. Marking /\ [Next]_vars => Marking'
  <2> SUFFICES ASSUME Marking, [Next]_vars PROVE Marking'
    OBVIOUS
  <2>1. Types /\ EpochInv /\ OldInv /\ ToldInv BY DEF Marking, Pipeline
  <2>2. Pipeline' BY <2>1, TypesStep, EpochStep, OldStep, ToldStep DEF Pipeline
  <2>3. JoinInv' BY <2>1, JoinStep DEF Marking
  <2>4. OnceInv' BY <2>1, OnceStep DEF Marking
  <2>5. MarkedInv' BY <2>1, MarkedStep DEF Marking
  <2>6. OrderInv' BY <2>1, OrderStep DEF Marking
  <2>7. GenInv' BY <2>1, GenStep DEF Marking
  <2> QED BY <2>2, <2>3, <2>4, <2>5, <2>6, <2>7 DEF Marking
<1> QED BY <1>1, <1>2, PTL DEF Spec

\* NVDA is told of an index only when the player holds no audio of its utterance
\* any more: the marks wait for the last byte fed before them, bytes of another
\* generation are not counted, and with the joiner the index goes before its
\* audio is even fed (_markReached, _played, _marksDrained).
THEOREM IndexWaitsForAudio == Spec => MarkAfterAudio
<1> DEFINE Apart(i) == \A k \in 1 .. Len(device) : i \notin Of(device[k].items)
           Safe == \A i \in reported' \ reported : Live(i) => Apart(i)
<1>1. ASSUME Marking, [Next]_vars PROVE Safe
  <2> SUFFICES ASSUME NEW i \in reported', i \notin reported, Live(i),
                      NEW k \in 1 .. Len(device), i \in Of(device[k].items)
               PROVE  FALSE
    OBVIOUS
  <2> USE <1>1 DEF Marking, Pipeline
  <2>1. ~joining BY DEF JoinInv
  <2>2. /\ Now(device[k]) /\ playedBytes < device[k].end
        /\ \A m \in 1 .. Len(marks) : i \in Of(marks[m].items) => device[k].end <= marks[m].at
        /\ \A j \in 1 .. Len(firing) : Now(firing[j]) => firing[j].end < device[k].end
    BY <2>1 DEF GenInv, OrderInv, InOrder
  <2>3. device[k] \in Pieces /\ Counted(device[k]) /\ device # <<>>
        /\ playedBytes \in Nat /\ fedBytes \in Nat
    BY DEF Types, MarkTypes
  <2>4. device[k].end \in Nat /\ device[k].end <= fedBytes
    BY <2>2, <2>3 DEF Counted, Now, Pieces
  <2>5. CASE Main BY <2>5, MainFrame
  <2>6. CASE Worker BY <2>6, WorkerFrame
  <2>7. CASE ReportIndex
    <3>1. got.kind = "index" /\ i \in Of(got.items) BY <2>7 DEF ReportIndex
    <3> QED BY <2>1, <3>1 DEF OnceInv
  <2>8. CASE MarkReached
    <3>1. ~Waits BY <2>8 DEF MarkReached
    <3> QED BY <2>2, <2>3, <2>4, <3>1 DEF Waits
  <2>9. CASE Drained BY <2>3, <2>9 DEF Drained, Types, MarkTypes
  <2>10. CASE TakeAudio \/ Skip \/ LookAudio \/ FeedCount \/ Feed \/ LookDone \/ Idle
    BY <2>10 DEF TakeAudio, Skip, LookAudio, FeedCount, Feed, LookDone, Idle, histVars
  <2>11. CASE Play BY <2>11 DEF Play, histVars
  <2>12. CASE Callback
    <3>1. /\ firing # <<>> /\ Head(firing).gen = markGen
          /\ i \in UNION {Of(marks[m].items) : m \in DueBy(Head(firing).end)}
      BY <2>12 DEF Callback, ThisGeneration, DueBy
    <3>2. PICK m \in 1 .. Len(marks) : i \in Of(marks[m].items) /\ marks[m].at <= Head(firing).end
      BY <3>1 DEF DueBy
    <3>3. /\ Head(firing) = firing[1] /\ 1 \in 1 .. Len(firing) /\ firing[1] \in Pieces
          /\ marks[m] \in MarkSet
      BY <3>1 DEF Types, MarkTypes
    <3>4. Head(firing).end < device[k].end BY <2>2, <3>1, <3>3 DEF Now
    <3>5. device[k].end <= marks[m].at BY <2>2, <3>2
    <3>6. Head(firing).end \in Nat /\ marks[m].at \in Nat BY <3>3 DEF Pieces, MarkSet
    <3> QED BY <2>4, <3>2, <3>4, <3>5, <3>6
  <2>13. CASE UNCHANGED vars BY <2>13 DEF vars, histVars
  <2> QED BY <2>5, <2>6, <2>7, <2>8, <2>9, <2>10, <2>11, <2>12, <2>13
      DEF Next, Closed, Feeder, Player
<1>2. Marking /\ [Next]_vars => [Safe]_vars BY <1>1
<1> HIDE DEF Safe
<1>3. Spec => [][Safe]_vars BY <1>2, MarkingInvariant, PTL DEF Spec
<1> QED BY <1>3 DEF Safe, MarkAfterAudio
=============================================================================
