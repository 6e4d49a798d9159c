--------------------------- MODULE Libraries_proofs ---------------------------
(***************************************************************************)
(* That the engine is given its recordings whole, whichever decoder stands  *)
(* behind the converter; and what the stand-ins guarantee together: the     *)
(* invariants of module StandIns that join several components, from the     *)
(* theorems about each.                                                     *)
(***************************************************************************)
EXTENDS StandIns_proofs, Objects_proofs

-----------------------------------------------------------------------------
(* The recordings (AacConverter).                                          *)

\* A sample, and the calls of the AudioConverter's route.
Trio      == Nat \X Nat \X Nat
Streaming == {"stream", "fill", "rounds", "rounded"}
AacTypes ==
  /\ dec \in [fed : Seq(Nat), out : Nat, open : BOOLEAN]
  /\ stream \in [live : BOOLEAN, prime : Nat, fed : Nat, given : Nat, last : Nat]
  /\ call \in [pc : Streaming \cup {"idle", "unit"}, want : Nat, give : Nat, rounds : Nat]
  /\ pcm \in Seq(Trio) /\ heard \in Seq(Trio) /\ accepted \in Seq(Nat)
  /\ pos \in 0 .. Len(pcm) /\ left \in 0 .. MaxUnit
  /\ backend \in AA!Backends /\ lost \in BOOLEAN /\ whole \in BOOLEAN

\* An open stream has fed what it accepted, and what its decoder gave is the
\* codec's delay, as far as it is off, what the engine was given and what waits.
Opened ==
  stream.live =>
    /\ call.pc \in Streaming /\ dec.open /\ ~whole
    /\ dec.fed = accepted /\ stream.fed = Len(accepted) /\ stream.given = Len(heard)
    /\ dec.out <= Len(accepted)
    /\ backend \in {"mf", "win7"} => dec.out <= AA!Less(Len(accepted), 1)
    /\ dec.out * AacFrame + stream.prime = Priming + (Len(heard) + AA!Avail)
    /\ stream.prime > 0 => Len(heard) = 0 /\ AA!Avail = 0

\* A stream that has units to come and is not open has not begun.
Pulled ==
  call.pc \in Streaming =>
    /\ ~lost
    /\ call.pc \in {"rounds", "rounded"} => pos = 0 /\ dec.open /\ call.give < call.want
    /\ ~stream.live /\ left > 0 => accepted = <<>> /\ heard = <<>> /\ AA!Avail = 0 /\ ~whole

\* What was heard is the recording from its start; so is what waits to be heard,
\* and with a recording that is whole nothing else is to come.
Kept ==
  ~lost => /\ Len(heard) <= AA!Owed(Len(accepted))
           /\ \A k \in 1 .. Len(heard) : heard[k] = AA!Overlapped(accepted, Priming + k)
Pending ==
  call.pc # "unit" /\ ~lost =>
    /\ Len(heard) + AA!Avail <= AA!Owed(Len(accepted))
    /\ \A j \in 1 .. AA!Avail :
         pcm[pos + j] = AA!Overlapped(accepted, Priming + (Len(heard) + j))
    /\ whole => Len(heard) + AA!Avail = AA!Owed(Len(accepted))

\* A recording handed over whole is asked for no further than it goes.
HandedOver ==
  call.pc = "unit" =>
    /\ ~stream.live
    /\ call.give = Len(heard) /\ call.give <= call.want /\ call.want = AA!Owed(left)
    /\ ~lost => Len(accepted) = left
    /\ Len(accepted) <= Len(dec.fed) /\ \A i \in 1 .. Len(accepted) : dec.fed[i] = accepted[i]
    /\ dec.out <= Len(dec.fed) /\ Len(pcm) = dec.out * AacFrame
    /\ \A k \in 1 .. Len(pcm) : pcm[k] = AA!SampleOf(dec.fed, k)
    /\ IF Len(pcm) <= Priming THEN pos = Len(pcm) /\ call.give = 0
                              ELSE pos = Priming + call.give
    /\ whole => left <= dec.out

AacInv == AacTypes /\ Opened /\ Pulled /\ Kept /\ Pending /\ HandedOver

-----------------------------------------------------------------------------
LEMMA AacBounds ==
  /\ AacFrame \in Nat /\ AacFrame > 0 /\ Priming \in Nat /\ Priming >= AacFrame
  /\ MaxUnit \in Nat /\ Asks \subseteq Nat
BY AacAssumption

\* Frames are laid one after the other, and sample k lies in one of the first n
\* if it is one of their samples.
LEMMA FramesProduct ==
  ASSUME NEW a \in Nat, NEW b \in Nat, a <= b
  PROVE  /\ a * AacFrame \in Nat /\ b * AacFrame \in Nat /\ a * AacFrame <= b * AacFrame
         /\ (b - a) * AacFrame = b * AacFrame - a * AacFrame
BY AacBounds
LEMMA FrameAt ==
  ASSUME NEW k \in Nat \ {0}
  PROVE  /\ ((k - 1) \div AacFrame) + 1 \in Nat \ {0} /\ ((k - 1) % AacFrame) + 1 \in Nat
         /\ k > AacFrame => ((k - 1) \div AacFrame) + 1 # 1
         /\ \A n \in Nat : k <= n * AacFrame => ((k - 1) \div AacFrame) + 1 <= n
BY AacBounds

\* The sample r of the unit i, with what the unit before it leaves over.
AlikeAt(x, y, i) == /\ x[i] = y[i] /\ x[i] \in Nat
                    /\ i # 1 => x[i - 1] = y[i - 1] /\ x[i - 1] \in Nat
Joined(x, i, r) == << IF i = 1 THEN 0 ELSE x[i - 1], x[i], r >>
LEMMA JoinedSame ==
  ASSUME NEW a, NEW b, NEW i, NEW r \in Nat, AlikeAt(a, b, i)
  PROVE  Joined(a, i, r) = Joined(b, i, r) /\ Joined(a, i, r) \in Trio
<1> USE DEF AlikeAt
<1>1. CASE i = 1
  <2>1. Joined(a, i, r) = << 0, a[i], r >> /\ Joined(b, i, r) = << 0, b[i], r >>
    BY ONLY <1>1, Zenon DEF Joined
  <2>2. << 0, a[i], r >> \in Trio
    BY DEF Trio
  <2>3. a[i] = b[i]
    OBVIOUS
  <2> QED
    BY ONLY <2>1, <2>2, <2>3, Zenon
<1>2. CASE i # 1
  <2> DEFINE z == a[i - 1]
  <2>1. Joined(a, i, r) = << z, a[i], r >> /\ Joined(b, i, r) = << b[i - 1], b[i], r >>
    BY ONLY <1>2, Zenon DEF Joined
  <2>2. z \in Nat /\ z = b[i - 1]
    BY <1>2, Zenon
  <2>3. a[i] = b[i] /\ a[i] \in Nat
    OBVIOUS
  <2> HIDE DEF z
  <2>4. << z, a[i], r >> \in Trio
    BY ONLY <2>2, <2>3, r \in Nat DEF Trio
  <2> QED
    BY ONLY <2>1, <2>2, <2>3, <2>4, Zenon
<1> QED
  BY ONLY <1>1, <1>2, Zenon

\* Two sequences that begin with the same n units decode to the same samples.
LEMMA SameSamples ==
  ASSUME NEW a \in Seq(Nat), NEW b \in Seq(Nat), NEW n \in Nat, n <= Len(a), n <= Len(b),
         \A i \in 1 .. n : a[i] = b[i], NEW k \in 1 .. n * AacFrame
  PROVE  /\ AA!Overlapped(a, k) = AA!Overlapped(b, k)
         /\ AA!Overlapped(a, k) \in Trio /\ AA!SampleOf(a, k) \in Trio
         /\ k > AacFrame => AA!SampleOf(a, k) = AA!Overlapped(b, k)
<1> DEFINE i == ((k - 1) \div AacFrame) + 1
           r == ((k - 1) % AacFrame) + 1
<1>1. i \in 1 .. n /\ r \in Nat /\ k \in Nat /\ (k > AacFrame => i # 1)
  <2>1. n * AacFrame \in Nat
    BY ONLY n \in Nat, n <= n, FramesProduct, Zenon
  <2>2. k \in Nat \ {0} /\ k <= n * AacFrame
    BY ONLY <2>1, k \in 1 .. n * AacFrame
  <2> QED
    BY ONLY <2>2, n \in Nat, FrameAt
<1>2. AA!Overlapped(a, k) = Joined(a, i, r) /\ AA!Overlapped(b, k) = Joined(b, i, r)
  BY ONLY Zenon DEF AA!Overlapped, Joined
<1> HIDE DEF i, r
<1>3. a[i] = b[i] /\ a[i] \in Nat /\ (i # 1 => a[i - 1] = b[i - 1] /\ a[i - 1] \in Nat)
  <2>1. \A j \in 1 .. n : a[j] = b[j] /\ a[j] \in Nat
    <3>1. \A j \in 1 .. n : j \in 1 .. Len(a)
      BY ONLY n \in Nat, a \in Seq(Nat), n <= Len(a)
    <3> QED
      BY ONLY <3>1, a \in Seq(Nat), \A j \in 1 .. n : a[j] = b[j]
  <2>2. i # 1 => i - 1 \in 1 .. n
    BY ONLY <1>1, n \in Nat
  <2> QED
    BY ONLY <1>1, <2>1, <2>2, Zenon
<1>4. Joined(a, i, r) = Joined(b, i, r) /\ Joined(a, i, r) \in Trio
  <2>1. AlikeAt(a, b, i) /\ r \in Nat
    BY ONLY <1>1, <1>3, Zenon DEF AlikeAt
  <2> QED
    BY ONLY <2>1, JoinedSame, Zenon
<1>5. AA!Overlapped(a, k) = AA!Overlapped(b, k) /\ AA!Overlapped(a, k) \in Trio
  BY ONLY <1>2, <1>4, Zenon
<1>6. AA!SampleOf(a, k) \in Trio /\ (k > AacFrame => AA!SampleOf(a, k) = AA!Overlapped(b, k))
  <2>1. AA!SampleOf(a, k) = IF backend = "faad" /\ k <= AacFrame THEN << 0, 0, k >>
                            ELSE AA!Overlapped(a, k)
    BY ONLY Zenon DEF AA!SampleOf
  <2>2. << 0, 0, k >> \in Trio
    BY <1>1 DEF Trio
  <2>3. k > AacFrame => ~(k <= AacFrame)
    BY <1>1, AacBounds
  <2> QED
    BY ONLY <1>5, <2>1, <2>2, <2>3, Zenon
<1> QED
  BY ONLY <1>5, <1>6, Zenon

\* What pcm_append lays down.
LEMMA DecodedIs ==
  ASSUME NEW fed \in Seq(Nat), NEW from \in Nat, NEW to \in Nat, from <= to, to <= Len(fed)
  PROVE  /\ AA!Decoded(fed, from, to) \in Seq(Trio)
         /\ Len(AA!Decoded(fed, from, to)) = to * AacFrame - from * AacFrame
         /\ \A k \in 1 .. to * AacFrame - from * AacFrame :
              AA!Decoded(fed, from, to)[k] = AA!SampleOf(fed, from * AacFrame + k)
<1> DEFINE f == from * AacFrame
           m == (to - from) * AacFrame
<1>1. f \in Nat /\ m \in Nat /\ m = to * AacFrame - from * AacFrame /\ f + m = to * AacFrame
  <2>1. /\ from * AacFrame \in Nat /\ to * AacFrame \in Nat /\ from * AacFrame <= to * AacFrame
        /\ (to - from) * AacFrame = to * AacFrame - from * AacFrame
    BY ONLY from \in Nat, to \in Nat, from <= to, FramesProduct
  <2> QED
    BY ONLY <2>1
<1>2. AA!Decoded(fed, from, to) = [k \in 1 .. m |-> AA!SampleOf(fed, f + k)]
  BY Zenon DEF AA!Decoded
<1>3. ASSUME NEW k \in 1 .. m PROVE AA!SampleOf(fed, f + k) \in Trio
  <2>1. f + k \in 1 .. to * AacFrame
    BY <1>1
  <2>2. \A i \in 1 .. to : fed[i] = fed[i]
    OBVIOUS
  <2> QED
    BY ONLY <2>1, <2>2, fed \in Seq(Nat), to \in Nat, to <= Len(fed), SameSamples
<1> HIDE DEF f, m
<1>4. /\ [k \in 1 .. m |-> AA!SampleOf(fed, f + k)] \in Seq(Trio)
      /\ Len([k \in 1 .. m |-> AA!SampleOf(fed, f + k)]) = m
      /\ \A k \in 1 .. m : [j \in 1 .. m |-> AA!SampleOf(fed, f + j)][k] = AA!SampleOf(fed, f + k)
  <2> DEFINE g == [k \in 1 .. m |-> AA!SampleOf(fed, f + k)]
  <2>1. \A k \in 1 .. m : g[k] = AA!SampleOf(fed, f + k)
    BY ONLY Zenon
  <2>2. g \in [1 .. m -> Trio]
    BY ONLY <1>3, Zenon
  <2> HIDE DEF g
  <2>3. g \in Seq(Trio) /\ Len(g) = m
    <3>1. m \in Nat
      BY ONLY <1>1
    <3> QED
      BY ONLY <2>2, <3>1
  <2> QED
    BY ONLY <2>1, <2>3, Zenon DEF g
<1> QED
  BY ONLY <1>1, <1>2, <1>4, Zenon DEF f

\* The codec's delay is dropped from the front.
LEMMA TrimIs ==
  ASSUME NEW s, s.prime \in Nat, NEW x \in Seq(Trio)
  PROVE  LET t == AA!Trim(s, x)
         IN  /\ t.samples \in Seq(Trio)
             /\ IF s.prime <= Len(x)
                  THEN /\ t.prime = 0 /\ Len(t.samples) = Len(x) - s.prime
                       /\ \A j \in 1 .. Len(x) - s.prime : t.samples[j] = x[s.prime + j]
                  ELSE t.prime = s.prime - Len(x) /\ Len(t.samples) = 0
<1> DEFINE d == AA!Smaller(s.prime, Len(x))
<1>1. /\ d \in 0 .. Len(x) /\ Len(x) \in Nat /\ d \in Nat
      /\ d = IF s.prime <= Len(x) THEN s.prime ELSE Len(x)
  BY DEF AA!Smaller
<1>2. /\ AA!Trim(s, x).samples = SubSeq(x, d + 1, Len(x))
      /\ AA!Trim(s, x).prime = s.prime - d
  BY Zenon DEF AA!Trim
<1> HIDE DEF d
<1>3. /\ SubSeq(x, d + 1, Len(x)) \in Seq(Trio)
      /\ Len(SubSeq(x, d + 1, Len(x))) = Len(x) - d
      /\ \A j \in 1 .. Len(x) - d : SubSeq(x, d + 1, Len(x))[j] = x[d + j]
  <2> HIDE DEF Trio
  <2> QED
    BY ONLY <1>1, x \in Seq(Trio), SMTT(30)
<1>4. CASE s.prime <= Len(x)
  <2>1. d = s.prime /\ s.prime - d = 0
    BY <1>1, <1>4
  <2> QED
    BY ONLY <1>2, <1>3, <1>4, <2>1, Zenon
<1>5. CASE ~(s.prime <= Len(x))
  <2>1. d = Len(x) /\ Len(x) - d = 0
    BY <1>1, <1>5
  <2> QED
    BY ONLY <1>2, <1>3, <1>5, <2>1, Zenon
<1> QED
  BY <1>4, <1>5

\* What a decoder gives of a stream whose samples were all handed over goes on
\* where they ended: after the codec's delay, as far as that is off.
Laid(fed, to, g, t) ==
  /\ t.samples \in Seq(Trio) /\ t.prime \in Nat
  /\ to * AacFrame + t.prime = Priming + (g + Len(t.samples))
  /\ t.prime > 0 => g = 0 /\ Len(t.samples) = 0
  /\ \A j \in 1 .. Len(t.samples) :
       /\ t.samples[j] = AA!SampleOf(fed, Priming + (g + j))
       /\ Priming + (g + j) <= to * AacFrame
LEMMA LaidDown ==
  ASSUME NEW fed \in Seq(Nat), NEW from \in Nat, NEW to \in Nat, from <= to, to <= Len(fed),
         NEW s, s.prime \in Nat, NEW g \in Nat,
         from * AacFrame + s.prime = Priming + g, s.prime > 0 => g = 0
  PROVE  Laid(fed, to, g, AA!Trim(s, AA!Decoded(fed, from, to)))
<1> DEFINE f == from * AacFrame
           e == to * AacFrame
           x == AA!Decoded(fed, from, to)
           t == AA!Trim(s, x)
           p == s.prime
<1>1. /\ x \in Seq(Trio) /\ Len(x) = e - f
      /\ \A k \in 1 .. e - f : x[k] = AA!SampleOf(fed, f + k)
  BY ONLY fed \in Seq(Nat), from \in Nat, to \in Nat, from <= to, to <= Len(fed), DecodedIs
<1>2. /\ f \in Nat /\ e \in Nat /\ f <= e /\ p \in Nat /\ Priming \in Nat /\ f + p = Priming + g
      /\ (p > 0 => g = 0)
  BY AacBounds, FramesProduct
<1>3. /\ t.samples \in Seq(Trio)
      /\ IF p <= Len(x)
           THEN /\ t.prime = 0 /\ Len(t.samples) = Len(x) - p
                /\ \A j \in 1 .. Len(x) - p : t.samples[j] = x[p + j]
           ELSE t.prime = p - Len(x) /\ Len(t.samples) = 0
  BY ONLY <1>1, p \in Nat, TrimIs
<1> SUFFICES Laid(fed, to, g, t)
  OBVIOUS
<1>4. e = to * AacFrame
  OBVIOUS
<1> HIDE DEF f, e, x, t, p
<1>5. CASE p <= Len(x)
  <2>1. t.prime = 0 /\ Len(t.samples) = e - f - p /\ e - f - p \in Nat
    BY ONLY <1>1, <1>2, <1>3, <1>5
  <2>2. ASSUME NEW j \in 1 .. Len(t.samples)
        PROVE  /\ t.samples[j] = AA!SampleOf(fed, Priming + (g + j))
               /\ Priming + (g + j) <= e
    <3>1. p + j \in 1 .. e - f /\ f + (p + j) = Priming + (g + j) /\ Priming + (g + j) <= e
          /\ j \in 1 .. Len(x) - p
      BY ONLY <1>1, <1>2, <2>1, g \in Nat, j \in 1 .. Len(t.samples)
    <3>2. t.samples[j] = x[p + j] /\ x[p + j] = AA!SampleOf(fed, f + (p + j))
      BY ONLY <1>1, <1>3, <1>5, <3>1, Zenon
    <3> QED
      BY ONLY <3>1, <3>2, Zenon
  <2>3. t.prime \in Nat /\ e + t.prime = Priming + (g + Len(t.samples)) /\ ~(t.prime > 0)
    BY ONLY <1>2, <2>1, g \in Nat
  <2> QED
    BY ONLY <1>3, <1>4, <2>2, <2>3, Zenon DEF Laid
<1>6. CASE ~(p <= Len(x))
  <2>1. /\ t.prime \in Nat /\ e + t.prime = Priming + (g + Len(t.samples))
        /\ Len(t.samples) = 0 /\ g = 0 /\ 1 .. Len(t.samples) = {}
    <3>1. t.prime = p - (e - f) /\ Len(t.samples) = 0 /\ Len(x) = e - f
      BY ONLY <1>1, <1>3, <1>6, Zenon
    <3>2. t.prime = p - (e - f) /\ p - (e - f) \in Nat /\ g = 0 /\ e + (p - (e - f)) = Priming + (g + 0)
      BY ONLY <1>2, <1>6, <3>1, g \in Nat
    <3>3. 1 .. 0 = {}
      OBVIOUS
    <3> QED
      BY ONLY <3>1, <3>2, <3>3, Zenon
  <2> QED
    BY ONLY <1>3, <1>4, <2>1, Zenon DEF Laid
<1> QED
  BY <1>5, <1>6

\* What the decoders take and give.
LEMMA TakenIs ==
  ASSUME NEW units \in Seq(Nat), NEW good \in AA!Taken(units)
  PROVE  good \in Seq(Nat) /\ Len(good) <= Len(units)
<1>1. CASE good = units
  BY <1>1
<1>2. CASE \E n \in 0 .. Len(units) : \E e \in AA!Chosen(n, Len(units)) :
             good = [i \in 1 .. n |-> units[e[i]]]
  <2> PICK n \in 0 .. Len(units) : \E e \in AA!Chosen(n, Len(units)) :
             good = [i \in 1 .. n |-> units[e[i]]]
    BY <1>2
  <2>1. PICK e \in AA!Chosen(n, Len(units)) : good = [i \in 1 .. n |-> units[e[i]]]
    OBVIOUS
  <2>2. \A i \in 1 .. n : e[i] \in 1 .. Len(units)
    BY DEF AA!Chosen
  <2>3. n \in Nat /\ n <= Len(units) /\ \A i \in 1 .. n : units[e[i]] \in Nat
    BY <2>2
  <2>4. [i \in 1 .. n |-> units[e[i]]] \in Seq(Nat) /\ Len([i \in 1 .. n |-> units[e[i]]]) = n
    BY ONLY <2>3
  <2> QED
    BY ONLY <2>1, <2>3, <2>4, Zenon
<1> QED
  BY <1>1, <1>2, Zenon DEF AA!Taken

LEMMA ShakenIs ==
  ASSUME NEW u \in Nat, NEW extra \in AA!Shaken(u)
  PROVE  extra \in Seq(Nat)
<1>1. << u >> \in Seq(Nat) /\ << >> \in Seq(Nat)
  OBVIOUS
<1>2. ASSUME NEW a \in AA!Taken(<< u >>), NEW b \in AA!Taken(<< u >>) PROVE a \o b \in Seq(Nat)
  <2>1. a \in Seq(Nat) /\ b \in Seq(Nat)
    BY ONLY <1>1, a \in AA!Taken(<< u >>), b \in AA!Taken(<< u >>), TakenIs, Zenon
  <2> QED
    BY ONLY <2>1
<1>3. extra = << >> \/ \E b \in AA!Taken(<< u >>), a \in AA!Taken(<< u >>) : extra = a \o b
  <2>1. u = 0 => AA!Shaken(u) = {<< >>}
    BY Zenon DEF AA!Shaken
  <2>2. u # 0 => AA!Shaken(u) = UNION {{a \o b : a \in AA!Taken(<< u >>)} : b \in AA!Taken(<< u >>)}
    BY Zenon DEF AA!Shaken
  <2> DEFINE First(b) == {a \o b : a \in AA!Taken(<< u >>)}
  <2>3. ASSUME u # 0
        PROVE  \E b \in AA!Taken(<< u >>), a \in AA!Taken(<< u >>) : extra = a \o b
    <3>1. extra \in UNION {First(b) : b \in AA!Taken(<< u >>)}
      BY <2>2, <2>3, Zenon
    <3> HIDE DEF First
    <3>2. PICK b \in AA!Taken(<< u >>) : extra \in First(b)
      BY ONLY <3>1
    <3>3. PICK a \in AA!Taken(<< u >>) : extra = a \o b
      BY ONLY <3>2 DEF First
    <3> QED
      BY ONLY <3>2, <3>3, Zenon
  <2>4. u = 0 => extra = << >>
    <3>1. u = 0 => extra \in {<< >>}
      BY ONLY <2>1, extra \in AA!Shaken(u), Zenon
    <3> QED
      BY ONLY <3>1
  <2> QED
    BY ONLY <2>3, <2>4, Zenon
<1> QED
  BY ONLY <1>1, <1>2, <1>3, Zenon

LEMMA LessGrows ==
  ASSUME NEW m \in Nat, NEW n \in Nat, m <= n
  PROVE  AA!Less(m, 1) \in Nat /\ AA!Less(m, 1) <= AA!Less(n, 1) /\ AA!Less(m, 1) <= n
BY DEF AA!Less

LEMMA Compared ==
  ASSUME NEW a \in Nat, NEW b \in Nat
  PROVE  /\ \A r : r = (a >= b) => r \in BOOLEAN /\ (r => b <= a)
         /\ \A r : r = (a < b) => r \in BOOLEAN /\ (~r => b <= a)
<1>1. (a >= b) \in BOOLEAN /\ (a >= b => b <= a) /\ (a < b) \in BOOLEAN /\ (~(a < b) => b <= a)
  <2>1. ((a >= b) = TRUE \/ (a >= b) = FALSE) /\ ((a < b) = TRUE \/ (a < b) = FALSE)
    OBVIOUS
  <2>2. (a >= b => b <= a) /\ (~(a < b) => b <= a)
    OBVIOUS
  <2> QED
    BY ONLY <2>1, <2>2, Zenon
<1> QED
  BY ONLY <1>1, Zenon

LEMMA ReadyIs ==
  ASSUME NEW n \in Nat, NEW m \in 0 .. n, backend \in {"mf", "win7"} => m <= AA!Less(n, 1),
         backend \in AA!Backends
  PROVE  /\ \A x \in AA!Ready(n, m) :
              x \in m .. n /\ (backend \in {"mf", "win7"} => x <= AA!Less(n, 1))
         /\ \A x \in AA!Drained(n, m) : x \in m .. n
BY DEF AA!Ready, AA!Drained, AA!Less, AA!Backends

LEMMA OwedIs ==
  ASSUME NEW n \in Nat
  PROVE  /\ AA!Owed(n) \in Nat
         /\ \A x \in Nat : x <= AA!Owed(n) => x = 0 \/ Priming + x <= n * AacFrame
         /\ \A x \in Nat : Priming + x <= n * AacFrame => x <= AA!Owed(n)
         /\ \A x \in Nat : n * AacFrame <= Priming + x => AA!Owed(n) <= x
<1>1. n * AacFrame \in Nat /\ Priming \in Nat
  BY AacBounds, FramesProduct
<1>2. AA!Owed(n) = IF n * AacFrame > Priming THEN n * AacFrame - Priming ELSE 0
  BY Zenon DEF AA!Owed, AA!Less
<1> QED
  BY ONLY <1>1, <1>2

LEMMA OwedGrows ==
  ASSUME NEW m \in Nat, NEW n \in Nat, m <= n
  PROVE  AA!Owed(m) \in Nat /\ AA!Owed(n) \in Nat /\ AA!Owed(m) <= AA!Owed(n)
<1> DEFINE x == m * AacFrame
           y == n * AacFrame
<1>1. x \in Nat /\ y \in Nat /\ x <= y /\ Priming \in Nat
  BY AacBounds, FramesProduct
<1>2. /\ AA!Owed(m) = IF x > Priming THEN x - Priming ELSE 0
      /\ AA!Owed(n) = IF y > Priming THEN y - Priming ELSE 0
  BY Zenon DEF AA!Owed, AA!Less
<1> HIDE DEF x, y
<1> QED
  BY ONLY <1>1, <1>2

\* What is copied out of the decoded samples.
HandedOn(h, x, p, n, r) ==
  /\ r \in Seq(Trio) /\ Len(r) = Len(h) + n
  /\ \A k \in 1 .. Len(h) : r[k] = h[k]
  /\ \A j \in 1 .. n : r[Len(h) + j] = x[p + j]
LEMMA CopiedOut ==
  ASSUME NEW h \in Seq(Trio), NEW x \in Seq(Trio), NEW p \in Nat, NEW n \in Nat, p + n <= Len(x),
         NEW r, r = h \o SubSeq(x, p + 1, p + n)
  PROVE  HandedOn(h, x, p, n, r)
<1> HIDE DEF Trio
<1> DEFINE y == SubSeq(x, p + 1, p + n)
<1>1. y \in Seq(Trio) /\ Len(y) = n /\ \A j \in 1 .. n : y[j] = x[p + j]
  <2>1. \A i \in p + 1 .. p + n : i \in 1 .. Len(x)
    BY ONLY p \in Nat, n \in Nat, p + n <= Len(x), x \in Seq(Trio)
  <2>2. p + 1 \in Int /\ p + n \in Int /\ \A i \in p + 1 .. p + n : x[i] \in Trio
    BY ONLY <2>1, p \in Nat, n \in Nat, x \in Seq(Trio)
  <2>3. /\ y \in Seq(Trio)
        /\ Len(y) = IF p + 1 <= p + n THEN (p + n) - (p + 1) + 1 ELSE 0
        /\ \A i \in 1 .. (p + n) - (p + 1) + 1 : y[i] = x[(p + 1) + i - 1]
    BY ONLY <2>2, SubSeqProperties
  <2>4. /\ (p + n) - (p + 1) + 1 = n
        /\ (IF p + 1 <= p + n THEN (p + n) - (p + 1) + 1 ELSE 0) = n
        /\ \A j \in 1 .. n : (p + 1) + j - 1 = p + j
    BY ONLY p \in Nat, n \in Nat
  <2> QED
    BY ONLY <2>3, <2>4, Zenon
<1> HIDE DEF y
<1>2. /\ h \o y \in Seq(Trio) /\ Len(h \o y) = Len(h) + n
      /\ \A k \in 1 .. Len(h) : (h \o y)[k] = h[k]
      /\ \A j \in 1 .. n : (h \o y)[Len(h) + j] = x[p + j]
  <2>1. /\ h \o y \in Seq(Trio) /\ Len(h \o y) = Len(h) + Len(y)
        /\ \A i \in 1 .. Len(h) + Len(y) : (h \o y)[i] = IF i <= Len(h) THEN h[i] ELSE y[i - Len(h)]
    BY ONLY <1>1, h \in Seq(Trio), ConcatProperties
  <2>2. \A k \in 1 .. Len(h) : k \in 1 .. Len(h) + Len(y) /\ k <= Len(h)
    BY ONLY <1>1, h \in Seq(Trio), n \in Nat
  <2>3. \A j \in 1 .. n : /\ Len(h) + j \in 1 .. Len(h) + Len(y) /\ ~(Len(h) + j <= Len(h))
                          /\ (Len(h) + j) - Len(h) = j
    BY ONLY <1>1, h \in Seq(Trio), n \in Nat
  <2> QED
    BY ONLY <1>1, <2>1, <2>2, <2>3, Zenon
<1>3. r = h \o y
  BY DEF y
<1> QED
  BY ONLY <1>2, <1>3, Zenon DEF HandedOn

\* A recording goes on: what was heard of it stays what it begins with.
LEMMA HeardOfMore ==
  ASSUME NEW a \in Seq(Nat), NEW b \in Seq(Nat), Len(a) <= Len(b),
         \A i \in 1 .. Len(a) : a[i] = b[i], NEW k \in Nat \ {0}, k <= AA!Owed(Len(a)),
         NEW f \in Seq(Nat), Len(a) <= Len(f), \A i \in 1 .. Len(a) : f[i] = a[i]
  PROVE  /\ AA!Overlapped(a, Priming + k) = AA!Overlapped(b, Priming + k)
         /\ AA!SampleOf(f, Priming + k) = AA!Overlapped(a, Priming + k)
         /\ k <= AA!Owed(Len(b))
<1>1. /\ Len(a) \in Nat /\ Len(b) \in Nat /\ Priming \in Nat /\ Priming + k \in Nat
      /\ Priming + k > AacFrame /\ Priming + k >= 1 /\ Len(a) <= Len(a)
  BY AacBounds
<1>2. Priming + k <= Len(a) * AacFrame /\ Len(a) * AacFrame \in Nat
      /\ Len(a) * AacFrame <= Len(b) * AacFrame
  BY ONLY <1>1, k \in Nat \ {0}, k <= AA!Owed(Len(a)), Len(a) <= Len(b), OwedIs, FramesProduct,
     SMTT(30)
<1>3. Priming + k \in 1 .. Len(a) * AacFrame
  BY ONLY <1>1, <1>2
<1>4. AA!Overlapped(a, Priming + k) = AA!Overlapped(b, Priming + k)
  BY ONLY <1>1, <1>3, a \in Seq(Nat), b \in Seq(Nat), Len(a) <= Len(b),
     \A i \in 1 .. Len(a) : a[i] = b[i], SameSamples, ZenonT(30)
<1>5. AA!SampleOf(f, Priming + k) = AA!Overlapped(a, Priming + k)
  BY ONLY <1>1, <1>3, a \in Seq(Nat), f \in Seq(Nat), Len(a) <= Len(f),
     \A i \in 1 .. Len(a) : f[i] = a[i], SameSamples, ZenonT(30)
<1>6. k <= AA!Owed(Len(b))
  <2>1. Priming + k <= Len(b) * AacFrame
    BY ONLY <1>1, <1>2, FramesProduct, SMTT(30)
  <2> QED
    BY ONLY <1>1, <2>1, k \in Nat \ {0}, OwedIs
<1> QED
  BY <1>4, <1>5, <1>6

-----------------------------------------------------------------------------
LEMMA AacInit == AA!Init => AacInv
<1> SUFFICES ASSUME AA!Init PROVE AacInv
  OBVIOUS
<1>1. /\ dec = [fed |-> <<>>, out |-> 0, open |-> FALSE]
      /\ stream = [live |-> FALSE, prime |-> 0, fed |-> 0, given |-> 0, last |-> 0]
      /\ call = [pc |-> "idle", want |-> 0, give |-> 0, rounds |-> 0]
      /\ pcm = <<>> /\ pos = 0 /\ left = 0 /\ accepted = <<>> /\ heard = <<>>
      /\ lost = FALSE /\ whole = FALSE /\ backend \in AA!Backends
  BY Zenon DEF AA!Init, AA!Silent, AA!Closed, AA!Idle
<1>2. AacTypes
  <2>1. MaxUnit \in Nat /\ <<>> \in Seq(Trio) /\ <<>> \in Seq(Nat) /\ Len(<<>>) = 0
    BY AacBounds
  <2>2. /\ dec \in [fed : Seq(Nat), out : Nat, open : BOOLEAN]
        /\ stream \in [live : BOOLEAN, prime : Nat, fed : Nat, given : Nat, last : Nat]
        /\ call \in [pc : Streaming \cup {"idle", "unit"}, want : Nat, give : Nat, rounds : Nat]
    BY <1>1, <2>1
  <2>3. pos \in 0 .. Len(pcm) /\ left \in 0 .. MaxUnit
    BY <1>1, <2>1
  <2> QED
    BY ONLY <1>1, <2>1, <2>2, <2>3, Zenon DEF AacTypes
<1>3. AA!Owed(0) \in Nat /\ Len(<<>>) = 0 /\ ~stream.live /\ call.pc = "idle"
  BY <1>1, OwedIs
<1> QED
  BY <1>1, <1>2, <1>3 DEF AacInv, Opened, Pulled, Kept, Pending, HandedOver, AA!Avail, Streaming

\* The call goes on without touching the stream.
LEMMA CallMoves ==
  ASSUME AacInv, call.pc \in Streaming,
         UNCHANGED << backend, dec, pcm, pos, stream, left, accepted, lost, heard, whole >>,
         call' \in [pc : Streaming \cup {"idle", "unit"}, want : Nat, give : Nat, rounds : Nat],
         call'.pc \in Streaming \/ (call'.pc = "idle" /\ ~stream.live),
         call'.pc \in {"rounds", "rounded"} => pos = 0 /\ dec.open /\ call'.give < call'.want
  PROVE  AacInv'
<1>0. /\ backend' = backend /\ dec' = dec /\ pcm' = pcm /\ pos' = pos /\ stream' = stream
      /\ left' = left /\ accepted' = accepted /\ lost' = lost /\ heard' = heard /\ whole' = whole
      /\ call.pc # "unit" /\ call'.pc # "unit"
  BY DEF Streaming
<1>1. AacTypes'
  BY <1>0 DEF AacInv, AacTypes
<1>2. Opened'
  BY <1>0 DEF AacInv, Opened, AA!Avail
<1>3. Pulled'
  BY <1>0 DEF AacInv, Pulled, AA!Avail
<1>4. Kept'
  BY <1>0 DEF AacInv, Kept
<1>5. Pending'
  BY <1>0 DEF AacInv, Pending, AA!Avail
<1>6. HandedOver'
  BY <1>0 DEF HandedOver
<1> QED
  BY <1>1, <1>2, <1>3, <1>4, <1>5, <1>6 DEF AacInv

\* The types, one by one.
LEMMA AacParts ==
  ASSUME AacTypes
  PROVE  /\ dec.fed \in Seq(Nat) /\ dec.out \in Nat /\ dec.open \in BOOLEAN
         /\ dec = [fed |-> dec.fed, out |-> dec.out, open |-> dec.open]
         /\ stream.live \in BOOLEAN /\ stream.prime \in Nat /\ stream.fed \in Nat
         /\ stream.given \in Nat /\ stream.last \in Nat
         /\ call.pc \in Streaming \cup {"idle", "unit"}
         /\ call.want \in Nat /\ call.give \in Nat /\ call.rounds \in Nat
         /\ Len(pcm) \in Nat /\ Len(heard) \in Nat /\ Len(accepted) \in Nat
         /\ pos \in Nat /\ pos <= Len(pcm) /\ AA!Avail \in Nat /\ pos + AA!Avail = Len(pcm)
         /\ left \in Nat /\ left <= MaxUnit
<1> HIDE DEF Trio, Streaming
<1>1. /\ dec \in [fed : Seq(Nat), out : Nat, open : BOOLEAN]
      /\ stream \in [live : BOOLEAN, prime : Nat, fed : Nat, given : Nat, last : Nat]
      /\ call \in [pc : Streaming \cup {"idle", "unit"}, want : Nat, give : Nat, rounds : Nat]
      /\ pcm \in Seq(Trio) /\ heard \in Seq(Trio) /\ accepted \in Seq(Nat)
      /\ pos \in 0 .. Len(pcm) /\ left \in 0 .. MaxUnit
  BY Zenon DEF AacTypes
<1>2. /\ Len(pcm) \in Nat /\ Len(heard) \in Nat /\ Len(accepted) \in Nat
      /\ pos \in Nat /\ pos <= Len(pcm) /\ left \in Nat /\ left <= MaxUnit
  BY <1>1, AacBounds
<1>3. AA!Avail \in Nat /\ pos + AA!Avail = Len(pcm)
  BY <1>2 DEF AA!Avail
<1>4. /\ dec.fed \in Seq(Nat) /\ dec.out \in Nat /\ dec.open \in BOOLEAN
      /\ dec = [fed |-> dec.fed, out |-> dec.out, open |-> dec.open]
  BY ONLY <1>1
<1>5. /\ stream.live \in BOOLEAN /\ stream.prime \in Nat /\ stream.fed \in Nat
      /\ stream.given \in Nat /\ stream.last \in Nat
  BY ONLY <1>1
<1>6. /\ call.pc \in Streaming \cup {"idle", "unit"}
      /\ call.want \in Nat /\ call.give \in Nat /\ call.rounds \in Nat
  BY ONLY <1>1
<1> QED
  BY ONLY <1>2, <1>3, <1>4, <1>5, <1>6

LEMMA AacRefill == AacInv /\ AA!Refill => AacInv'
<1> SUFFICES ASSUME AacInv, AA!Refill PROVE AacInv'
  OBVIOUS
<1>0. /\ AacTypes /\ Opened /\ Pulled /\ Kept /\ Pending
  BY DEF AacInv
<1>1. /\ call.pc = "fill" /\ call.give < call.want /\ AA!Avail = 0
      /\ dec' = [dec EXCEPT !.open = TRUE] /\ pcm' = <<>> /\ pos' = 0
      /\ call' = [call EXCEPT !.pc = "rounds", !.rounds = 0]
      /\ backend' = backend /\ stream' = stream /\ left' = left /\ accepted' = accepted
      /\ lost' = lost /\ heard' = heard /\ whole' = whole
  BY Zenon DEF AA!Refill, AA!Filling
<1>2. /\ dec' \in [fed : Seq(Nat), out : Nat, open : BOOLEAN]
      /\ dec'.fed = dec.fed /\ dec'.out = dec.out /\ dec'.open
  BY <1>0, <1>1 DEF AacTypes
<1>3. /\ call' \in [pc : Streaming \cup {"idle", "unit"}, want : Nat, give : Nat, rounds : Nat]
      /\ call'.pc = "rounds" /\ call'.give = call.give /\ call'.want = call.want
  BY <1>0, <1>1 DEF AacTypes, Streaming
<1>4. AA!Avail' = 0 /\ Len(<<>>) = 0 /\ <<>> \in Seq(Trio) /\ 0 \in 0 .. Len(<<>>) /\ 1 .. 0 = {}
  BY <1>1 DEF AA!Avail
<1>5. call.pc \in Streaming /\ call'.pc \in Streaming /\ call.pc # "unit" /\ call'.pc # "unit"
  BY <1>1, <1>3 DEF Streaming
<1>6. AacTypes'
  BY ONLY <1>0, <1>1, <1>2, <1>3, <1>4, Zenon DEF AacTypes
<1>7. Opened'
  BY ONLY <1>0, <1>1, <1>2, <1>4, <1>5 DEF Opened
<1>8. Pulled'
  BY ONLY <1>0, <1>1, <1>2, <1>3, <1>4, <1>5 DEF Pulled
<1>9. Kept'
  BY ONLY <1>0, <1>1, Zenon DEF Kept
<1>10. Pending'
  BY ONLY <1>0, <1>1, <1>4, <1>5 DEF Pending
<1>11. HandedOver'
  BY ONLY <1>5, ZenonT(30) DEF HandedOver
<1> QED
  BY ONLY <1>6, <1>7, <1>8, <1>9, <1>10, <1>11, Zenon DEF AacInv

LEMMA AacTake == AacInv /\ AA!Take => AacInv'
<1> SUFFICES ASSUME AacInv, AA!Take PROVE AacInv'
  OBVIOUS
<1>0. AacTypes /\ Opened /\ Pulled /\ Kept /\ Pending
  BY DEF AacInv
<1> DEFINE n == AA!Smaller(AA!Avail, call.want - call.give)
<1>1. /\ call.pc \in {"fill", "rounded"} /\ AA!Avail > 0
      /\ call.pc = "fill" => call.give < call.want
      /\ heard' = heard \o SubSeq(pcm, pos + 1, pos + n) /\ pos' = pos + n
      /\ stream' = [stream EXCEPT !.given = @ + n]
      /\ call' = [call EXCEPT !.pc = "fill", !.give = @ + n]
      /\ backend' = backend /\ dec' = dec /\ pcm' = pcm /\ left' = left /\ accepted' = accepted
      /\ lost' = lost /\ whole' = whole
  BY Zenon DEF AA!Take, AA!Filling
<1>2. call.pc \in Streaming /\ call.pc # "unit" /\ call.give < call.want /\ ~lost
  BY <1>0, <1>1 DEF Pulled, Streaming
<1>3. n \in Nat /\ n <= AA!Avail /\ pos + n <= Len(pcm)
  <2>1. /\ AA!Avail \in Nat /\ call.want - call.give \in Nat /\ pos \in Nat
        /\ pos + AA!Avail = Len(pcm)
    BY <1>0, <1>2, AacParts, SMTT(30)
  <2> QED
    BY <2>1 DEF AA!Smaller
<1> HIDE DEF n
<1>4. /\ heard' \in Seq(Trio) /\ Len(heard') = Len(heard) + n
      /\ \A k \in 1 .. Len(heard) : heard'[k] = heard[k]
      /\ \A j \in 1 .. n : heard'[Len(heard) + j] = pcm[pos + j]
  <2>1. heard \in Seq(Trio) /\ pcm \in Seq(Trio) /\ pos \in Nat
    BY <1>0, AacParts DEF AacTypes
  <2>2. heard' = heard \o SubSeq(pcm, pos + 1, pos + n)
    BY <1>1
  <2>3. n \in Nat /\ pos + n <= Len(pcm)
    BY ONLY <1>3
  <2>4. HandedOn(heard, pcm, pos, n, heard')
    BY ONLY <2>1, <2>2, <2>3, CopiedOut
  <2> QED
    BY ONLY <2>4, Zenon DEF HandedOn
<1>5. /\ Len(heard) \in Nat /\ AA!Avail \in Nat /\ AA!Avail' = AA!Avail - n
      /\ pos \in Nat /\ Len(pcm) \in Nat
      /\ Len(heard') + AA!Avail' = Len(heard) + AA!Avail
  <2>1. /\ Len(heard) \in Nat /\ AA!Avail \in Nat /\ pos \in Nat /\ Len(pcm) \in Nat
        /\ AA!Avail = Len(pcm) - pos
    BY <1>0, AacParts DEF AA!Avail
  <2>2. AA!Avail' = Len(pcm) - (pos + n)
    BY <1>1 DEF AA!Avail
  <2> QED
    BY ONLY <1>3, <1>4, <2>1, <2>2
<1>6. /\ stream' \in [live : BOOLEAN, prime : Nat, fed : Nat, given : Nat, last : Nat]
      /\ stream'.live = stream.live /\ stream'.prime = stream.prime /\ stream'.fed = stream.fed
      /\ stream'.given = stream.given + n
  <2>1. stream \in [live : BOOLEAN, prime : Nat, fed : Nat, given : Nat, last : Nat]
    BY <1>0, Zenon DEF AacTypes
  <2>2. stream' = [stream EXCEPT !.given = @ + n]
    BY <1>1
  <2> QED
    BY ONLY <1>3, <2>1, <2>2
<1>7. /\ call' \in [pc : Streaming \cup {"idle", "unit"}, want : Nat, give : Nat, rounds : Nat]
      /\ call'.pc = "fill" /\ call'.pc \in Streaming
  <2>1. call \in [pc : Streaming \cup {"idle", "unit"}, want : Nat, give : Nat, rounds : Nat]
    BY <1>0, Zenon DEF AacTypes
  <2>2. call' = [call EXCEPT !.pc = "fill", !.give = @ + n] /\ "fill" \in Streaming
    BY <1>1, Zenon DEF Streaming
  <2> HIDE DEF Streaming
  <2>3. call.want \in Nat /\ call.give + n \in Nat /\ call.rounds \in Nat
    BY ONLY <1>3, <2>1
  <2>4. call' = [pc |-> "fill", want |-> call.want, give |-> call.give + n, rounds |-> call.rounds]
    BY ONLY <2>1, <2>2
  <2> QED
    BY ONLY <2>2, <2>3, <2>4
<1>8. AacTypes'
  <2>1. pos' \in 0 .. Len(pcm)
    BY <1>1, <1>3, <1>5
  <2> QED
    BY ONLY <1>0, <1>1, <1>4, <1>6, <1>7, <2>1, Zenon DEF AacTypes
<1>9. Opened'
  <2> SUFFICES ASSUME stream.live PROVE Opened'
    BY <1>6, Zenon DEF Opened
  <2>1. /\ dec.open /\ ~whole /\ dec.fed = accepted /\ stream.fed = Len(accepted)
        /\ stream.given = Len(heard) /\ dec.out <= Len(accepted)
        /\ backend \in {"mf", "win7"} => dec.out <= AA!Less(Len(accepted), 1)
        /\ dec.out * AacFrame + stream.prime = Priming + (Len(heard) + AA!Avail)
        /\ stream.prime > 0 => Len(heard) = 0 /\ AA!Avail = 0
    BY <1>0, Zenon DEF Opened
  <2>2. ~(stream.prime > 0)
    BY ONLY <1>1, <2>1
  <2>3. stream'.given = Len(heard')
    BY ONLY <1>4, <1>6, <2>1
  <2> QED
    BY ONLY <1>1, <1>5, <1>6, <1>7, <2>1, <2>2, <2>3, Zenon DEF Opened
<1>10. Pulled'
  <2>1. ~stream.live => left = 0
    <3>1. left \in Nat /\ AA!Avail # 0
      BY <1>0, <1>1, AacParts
    <3>2. ~stream.live /\ left > 0 => AA!Avail = 0
      BY ONLY <1>0, <1>2, Zenon DEF Pulled
    <3> QED
      BY ONLY <3>1, <3>2
  <2> QED
    BY ONLY <1>1, <1>2, <1>6, <1>7, <2>1 DEF Pulled
<1>11. Kept'
  <2>1. Len(heard') <= AA!Owed(Len(accepted))
    <3>1. AA!Owed(Len(accepted)) \in Nat /\ Len(heard) + AA!Avail <= AA!Owed(Len(accepted))
      BY <1>0, <1>2, AacParts, OwedIs DEF Pending
    <3> QED
      BY ONLY <1>3, <1>4, <1>5, <3>1
  <2>2. ASSUME NEW k \in 1 .. Len(heard')
        PROVE  heard'[k] = AA!Overlapped(accepted, Priming + k)
    <3>1. CASE k <= Len(heard)
      <4>1. k \in 1 .. Len(heard)
        BY <3>1
      <4> QED
        BY <1>0, <1>2, <1>4, <4>1 DEF Kept
    <3>2. CASE k > Len(heard)
      <4> DEFINE j == k - Len(heard)
      <4>1. j \in 1 .. n /\ j \in 1 .. AA!Avail /\ k = Len(heard) + j
        BY <1>3, <1>4, <1>5, <3>2
      <4> HIDE DEF j
      <4>2. heard'[k] = pcm[pos + j]
        BY ONLY <1>4, <4>1, Zenon
      <4>3. pcm[pos + j] = AA!Overlapped(accepted, Priming + (Len(heard) + j))
        BY ONLY <1>0, <1>2, <4>1, Zenon DEF Pending
      <4> QED
        BY ONLY <4>1, <4>2, <4>3, Zenon
    <3> QED
      BY <1>5, <3>1, <3>2
  <2> QED
    BY ONLY <1>1, <2>1, <2>2, Zenon DEF Kept
<1>12. Pending'
  <2>1. ASSUME NEW j \in 1 .. AA!Avail'
        PROVE  pcm[pos' + j] = AA!Overlapped(accepted, Priming + (Len(heard') + j))
    <3>1. /\ n + j \in 1 .. AA!Avail /\ pos' + j = pos + (n + j)
          /\ Len(heard') + j = Len(heard) + (n + j)
      <4>1. /\ n \in Nat /\ AA!Avail \in Nat /\ AA!Avail' = AA!Avail - n /\ Len(heard) \in Nat
            /\ pos' = pos + n /\ pos \in Nat /\ Len(heard') = Len(heard) + n
        BY <1>1, <1>3, <1>4, <1>5
      <4> QED
        BY ONLY <4>1, j \in 1 .. AA!Avail'
    <3>2. pcm[pos + (n + j)] = AA!Overlapped(accepted, Priming + (Len(heard) + (n + j)))
      BY ONLY <1>0, <1>2, <3>1, Zenon DEF Pending
    <3> QED
      BY ONLY <3>1, <3>2, Zenon
  <2>2. /\ Len(heard) + AA!Avail <= AA!Owed(Len(accepted))
        /\ whole => Len(heard) + AA!Avail = AA!Owed(Len(accepted))
    BY ONLY <1>0, <1>2, Zenon DEF Pending
  <2> QED
    BY ONLY <1>1, <1>5, <2>1, <2>2, Zenon DEF Pending
<1>13. HandedOver'
  <2>1. call'.pc # "unit"
    BY <1>7
  <2> QED
    BY ONLY <2>1, Zenon DEF HandedOver
<1> QED
  BY ONLY <1>8, <1>9, <1>10, <1>11, <1>12, <1>13, Zenon DEF AacInv

\* Units that go on from those of a.
Extends(b, a) == /\ a \in Seq(Nat) /\ b \in Seq(Nat) /\ Len(a) <= Len(b)
                 /\ \A i \in 1 .. Len(a) : b[i] = a[i]

\* What stands after a decode of the pulled stream b, which begins with what was
\* accepted: the samples that wait are the ones that come next.
LEMMA NextToHear ==
  ASSUME AacTypes, Kept, ~lost, NEW b, Extends(b, accepted), NEW f, Extends(f, b),
         NEW to \in Nat, NEW t, Laid(f, to, Len(heard), t),
         NEW m \in Nat, m <= Len(t.samples), Len(heard) + m <= AA!Owed(Len(b))
  PROVE  /\ Len(heard) <= AA!Owed(Len(b))
         /\ \A k \in 1 .. Len(heard) : heard[k] = AA!Overlapped(b, Priming + k)
         /\ \A j \in 1 .. m : t.samples[j] = AA!Overlapped(b, Priming + (Len(heard) + j))
<1>0. /\ b \in Seq(Nat) /\ Len(accepted) <= Len(b)
      /\ (\A i \in 1 .. Len(accepted) : b[i] = accepted[i])
      /\ f \in Seq(Nat) /\ Len(b) <= Len(f) /\ (\A i \in 1 .. Len(b) : f[i] = b[i])
  BY Zenon DEF Extends
<1> USE <1>0
<1>1. /\ accepted \in Seq(Nat) /\ Len(heard) \in Nat /\ Len(b) \in Nat /\ Len(t.samples) \in Nat
      /\ AA!Owed(Len(b)) \in Nat
  <2>1. t.samples \in Seq(Trio)
    BY Zenon DEF Laid
  <2>2. accepted \in Seq(Nat) /\ Len(heard) \in Nat
    BY AacParts, Zenon DEF AacTypes
  <2>3. Len(b) \in Nat /\ Len(t.samples) \in Nat
    BY ONLY <2>1, b \in Seq(Nat)
  <2> QED
    BY ONLY <2>2, <2>3, OwedIs
<1>2. Len(heard) <= AA!Owed(Len(b))
  BY ONLY <1>1, m \in Nat, Len(heard) + m <= AA!Owed(Len(b))
<1>3. ASSUME NEW k \in 1 .. Len(heard) PROVE heard[k] = AA!Overlapped(b, Priming + k)
  <2>1. heard[k] = AA!Overlapped(accepted, Priming + k) /\ Len(heard) <= AA!Owed(Len(accepted))
    BY Zenon DEF Kept
  <2>2. k \in Nat \ {0} /\ k <= AA!Owed(Len(accepted))
    <3>1. AA!Owed(Len(accepted)) \in Nat
      BY <1>1, OwedIs
    <3> QED
      BY ONLY <1>1, <2>1, <3>1, k \in 1 .. Len(heard)
  <2>3. Len(accepted) <= Len(accepted) /\ \A i \in 1 .. Len(accepted) : accepted[i] = accepted[i]
    BY <1>1
  <2>4. \A i \in 1 .. Len(accepted) : accepted[i] = b[i]
    OBVIOUS
  <2>5. AA!Overlapped(accepted, Priming + k) = AA!Overlapped(b, Priming + k)
    BY ONLY <1>1, <2>2, <2>3, <2>4, b \in Seq(Nat), Len(accepted) <= Len(b), HeardOfMore
  <2> QED
    BY ONLY <2>1, <2>5, Zenon
<1>4. ASSUME NEW j \in 1 .. m
      PROVE  t.samples[j] = AA!Overlapped(b, Priming + (Len(heard) + j))
  <2>1. j \in 1 .. Len(t.samples)
    BY ONLY <1>1, m \in Nat, m <= Len(t.samples), j \in 1 .. m
  <2>2. t.samples[j] = AA!SampleOf(f, Priming + (Len(heard) + j))
    BY ONLY <2>1, Laid(f, to, Len(heard), t), Zenon DEF Laid
  <2>3. Len(heard) + j \in Nat \ {0} /\ Len(heard) + j <= AA!Owed(Len(b))
    BY ONLY <1>1, m \in Nat, Len(heard) + m <= AA!Owed(Len(b)), j \in 1 .. m
  <2>4. Len(b) <= Len(b) /\ \A i \in 1 .. Len(b) : b[i] = b[i]
    BY <1>1
  <2>5. AA!SampleOf(f, Priming + (Len(heard) + j)) = AA!Overlapped(b, Priming + (Len(heard) + j))
    BY ONLY <2>3, <2>4, b \in Seq(Nat), f \in Seq(Nat), Len(b) <= Len(f),
       \A i \in 1 .. Len(b) : f[i] = b[i], HeardOfMore
  <2> QED
    BY ONLY <2>2, <2>5, Zenon
<1> QED
  BY ONLY <1>2, <1>3, <1>4

\* How much of a stream of n units is laid, when to frames of it are.
LEMMA LaidLength ==
  ASSUME NEW f, NEW to \in Nat, NEW g \in Nat, NEW t, Laid(f, to, g, t), NEW n \in Nat,
         g <= AA!Owed(n)
  PROVE  /\ to <= n => g + Len(t.samples) <= AA!Owed(n)
         /\ n <= to => AA!Owed(n) <= g + Len(t.samples)
<1> DEFINE l == Len(t.samples)
<1>1. l \in Nat /\ t.prime \in Nat /\ to * AacFrame + t.prime = Priming + (g + l)
      /\ (t.prime > 0 => g = 0 /\ l = 0)
  BY DEF Laid
<1> HIDE DEF l
<1>2. to * AacFrame \in Nat /\ n * AacFrame \in Nat /\ Priming \in Nat /\ AA!Owed(n) \in Nat
      /\ (to <= n => to * AacFrame <= n * AacFrame) /\ (n <= to => n * AacFrame <= to * AacFrame)
  BY ONLY AacBounds, OwedIs, FramesProduct, to \in Nat, n \in Nat
<1>3. ASSUME to <= n PROVE g + l <= AA!Owed(n)
  <2>1. CASE t.prime > 0
    BY ONLY <1>1, <1>2, <2>1, g <= AA!Owed(n)
  <2>2. CASE ~(t.prime > 0)
    <3>1. Priming + (g + l) <= n * AacFrame /\ g + l \in Nat
      BY ONLY <1>1, <1>2, <1>3, <2>2, g \in Nat
    <3> QED
      BY ONLY <3>1, n \in Nat, OwedIs
  <2> QED
    BY <2>1, <2>2
<1>4. ASSUME n <= to PROVE AA!Owed(n) <= g + l
  <2>1. n * AacFrame <= Priming + (g + l) /\ g + l \in Nat
    BY ONLY <1>1, <1>2, <1>4, g \in Nat
  <2> QED
    BY ONLY <2>1, n \in Nat, OwedIs
<1> QED
  BY <1>3, <1>4 DEF l

LEMMA AacPackets == AacInv /\ AA!Packets => AacInv'
<1> SUFFICES ASSUME AacInv, AA!Packets PROVE AacInv'
  OBVIOUS
<1>0. AacTypes /\ Opened /\ Pulled /\ Kept
  BY DEF AacInv
<1> DEFINE d == IF stream.live THEN dec ELSE AA!Flushed
           s == IF stream.live THEN stream
                ELSE [AA!Closed EXCEPT !.live = TRUE, !.prime = Priming]
           Units(n) == [i \in 1 .. n |-> MaxUnit - left + i]
<1>1. /\ call.pc = "rounds" /\ pcm = <<>> /\ left > 0
      /\ call' = [call EXCEPT !.rounds = @ + 1]
      /\ backend' = backend /\ pos' = pos /\ lost' = lost /\ heard' = heard /\ whole' = whole
  BY Zenon DEF AA!Packets
<1>2. PICK n \in 1 .. AA!Smaller(left, 2) :
        \E good \in AA!Taken(Units(n)) :
          \E out \in AA!Ready(Len(d.fed \o good), d.out) :
            /\ dec' = [d EXCEPT !.fed = d.fed \o good, !.out = out]
            /\ pcm' = AA!Trim(s, AA!Decoded(d.fed \o good, d.out, out)).samples
            /\ stream' = [s EXCEPT
                 !.prime = AA!Trim(s, AA!Decoded(d.fed \o good, d.out, out)).prime,
                 !.fed = @ + Len(good), !.last = IF good = <<>> THEN @ ELSE AA!Last(good)]
            /\ accepted' = accepted \o good
            /\ left' = left - n
  BY Zenon DEF AA!Packets
<1>3. PICK good \in AA!Taken(Units(n)) :
          \E out \in AA!Ready(Len(d.fed \o good), d.out) :
            /\ dec' = [d EXCEPT !.fed = d.fed \o good, !.out = out]
            /\ pcm' = AA!Trim(s, AA!Decoded(d.fed \o good, d.out, out)).samples
            /\ stream' = [s EXCEPT
                 !.prime = AA!Trim(s, AA!Decoded(d.fed \o good, d.out, out)).prime,
                 !.fed = @ + Len(good), !.last = IF good = <<>> THEN @ ELSE AA!Last(good)]
            /\ accepted' = accepted \o good
            /\ left' = left - n
  BY ONLY <1>2, Zenon
<1> DEFINE fed == d.fed \o good
<1>4. PICK out \in AA!Ready(Len(fed), d.out) :
            /\ dec' = [d EXCEPT !.fed = fed, !.out = out]
            /\ pcm' = AA!Trim(s, AA!Decoded(fed, d.out, out)).samples
            /\ stream' = [s EXCEPT
                 !.prime = AA!Trim(s, AA!Decoded(fed, d.out, out)).prime,
                 !.fed = @ + Len(good), !.last = IF good = <<>> THEN @ ELSE AA!Last(good)]
            /\ accepted' = accepted \o good
            /\ left' = left - n
  BY ONLY <1>3, Zenon
<1>5. /\ pos = 0 /\ dec.open /\ ~lost /\ AA!Avail = 0 /\ call.pc \in Streaming /\ ~whole
      /\ Len(heard) \in Nat /\ accepted \in Seq(Nat) /\ Len(accepted) \in Nat
      /\ call.give < call.want
  <2>1. /\ pos = 0 /\ dec.open /\ ~lost /\ call.pc \in Streaming /\ call.give < call.want
        /\ (~stream.live /\ left > 0 => ~whole)
    BY <1>0, <1>1 DEF Pulled, Streaming
  <2>2. stream.live => ~whole
    BY <1>0, Zenon DEF Opened
  <2>3. AA!Avail = 0
    BY <1>1, <2>1 DEF AA!Avail
  <2>4. accepted \in Seq(Nat) /\ Len(accepted) \in Nat /\ Len(heard) \in Nat
    BY <1>0, AacParts, Zenon DEF AacTypes
  <2> QED
    BY ONLY <1>1, <2>1, <2>2, <2>3, <2>4, Zenon
\* Either way the stream stands where what was accepted ends.
<1>6. /\ d \in [fed : Seq(Nat), out : Nat, open : BOOLEAN] /\ d.open /\ d.fed = accepted
      /\ d.out \in Nat /\ d.out <= Len(accepted)
      /\ backend \in {"mf", "win7"} => d.out <= AA!Less(Len(accepted), 1)
      /\ s \in [live : BOOLEAN, prime : Nat, fed : Nat, given : Nat, last : Nat] /\ s.live
      /\ s.prime \in Nat /\ s.fed = Len(accepted) /\ s.given = Len(heard)
      /\ d.out * AacFrame + s.prime = Priming + Len(heard)
      /\ s.prime > 0 => Len(heard) = 0
  <2>1. CASE stream.live
    <3>1. d = dec /\ s = stream
      BY <2>1
    <3>2. /\ dec \in [fed : Seq(Nat), out : Nat, open : BOOLEAN]
          /\ stream \in [live : BOOLEAN, prime : Nat, fed : Nat, given : Nat, last : Nat]
          /\ dec.out \in Nat /\ stream.prime \in Nat
      BY <1>0, AacParts, Zenon DEF AacTypes
    <3>3. /\ dec.fed = accepted /\ stream.fed = Len(accepted) /\ stream.given = Len(heard)
          /\ dec.out <= Len(accepted)
          /\ backend \in {"mf", "win7"} => dec.out <= AA!Less(Len(accepted), 1)
          /\ dec.out * AacFrame + stream.prime = Priming + (Len(heard) + AA!Avail)
          /\ stream.prime > 0 => Len(heard) = 0
      BY <1>0, <2>1, Zenon DEF Opened
    <3>4. Len(heard) + AA!Avail = Len(heard)
      BY <1>5
    <3> QED
      BY ONLY <1>5, <2>1, <3>1, <3>2, <3>3, <3>4, Zenon
  <2>2. CASE ~stream.live
    <3>1. accepted = <<>> /\ heard = <<>>
      BY <1>0, <1>1, <1>5, <2>2, Zenon DEF Pulled
    <3>2. d = [fed |-> <<>>, out |-> 0, open |-> TRUE]
      <4>1. d = AA!Flushed /\ dec = [fed |-> dec.fed, out |-> dec.out, open |-> dec.open]
        BY <1>0, <2>2, AacParts, Zenon
      <4> QED
        BY ONLY <1>5, <4>1 DEF AA!Flushed
    <3>3. s = [live |-> TRUE, prime |-> Priming, fed |-> 0, given |-> 0, last |-> 0]
      BY ONLY <2>2 DEF AA!Closed
    <3>4. Len(<<>>) = 0 /\ <<>> \in Seq(Nat) /\ Priming \in Nat /\ 0 * AacFrame = 0
          /\ AA!Less(0, 1) = 0
      BY AacBounds DEF AA!Less
    <3> HIDE DEF d, s
    <3> QED
      BY ONLY <3>1, <3>2, <3>3, <3>4
  <2> QED
    BY <2>1, <2>2
<1> HIDE DEF d, s
<1>7. /\ good \in Seq(Nat) /\ Len(good) \in Nat /\ left' \in 0 .. MaxUnit
      /\ good # <<>> => AA!Last(good) \in Nat
  <2>1. left \in Nat /\ left <= MaxUnit /\ MaxUnit \in Nat /\ n \in Nat /\ n <= left
    <3>1. left \in Nat /\ left <= MaxUnit /\ MaxUnit \in Nat
      BY <1>0, AacParts, AacBounds
    <3> QED
      BY ONLY <3>1, n \in 1 .. AA!Smaller(left, 2) DEF AA!Smaller
  <2>2. Units(n) \in Seq(Nat)
    BY <2>1
  <2>3. good \in Seq(Nat)
    BY ONLY <1>3, <2>2, TakenIs, Zenon
  <2>4. good # <<>> => AA!Last(good) \in Nat
    BY ONLY <2>3 DEF AA!Last
  <2> QED
    BY ONLY <1>4, <2>1, <2>3, <2>4
<1>8. /\ fed \in Seq(Nat) /\ Len(fed) = Len(accepted) + Len(good) /\ Len(fed) \in Nat
      /\ \A i \in 1 .. Len(accepted) : fed[i] = accepted[i]
      /\ fed = accepted' /\ Len(accepted) <= Len(fed)
  BY ONLY <1>4, <1>5, <1>6, <1>7
<1>9. /\ out \in d.out .. Len(fed)
      /\ backend \in {"mf", "win7"} => out <= AA!Less(Len(fed), 1)
  <2>1. backend \in {"mf", "win7"} => d.out <= AA!Less(Len(fed), 1)
    <3>1. AA!Less(Len(accepted), 1) <= AA!Less(Len(fed), 1)
          /\ AA!Less(Len(accepted), 1) \in Nat /\ AA!Less(Len(fed), 1) \in Nat
      <4>1. Len(accepted) <= Len(fed) /\ Len(fed) <= Len(fed)
        BY ONLY <1>8
      <4> QED
        BY ONLY <1>5, <1>8, <4>1, LessGrows
    <3> QED
      BY ONLY <1>6, <3>1
  <2>2. d.out \in 0 .. Len(fed) /\ Len(fed) \in Nat
    BY ONLY <1>5, <1>6, <1>8
  <2>3. backend \in AA!Backends
    BY <1>0, Zenon DEF AacTypes
  <2> QED
    BY ONLY <1>4, <2>1, <2>2, <2>3, ReadyIs, Zenon
<1> HIDE DEF fed
<1> DEFINE t == AA!Trim(s, AA!Decoded(fed, d.out, out))
<1>10. Laid(fed, out, Len(heard), t) /\ out \in Nat /\ out <= Len(fed)
  <2>1. out \in Nat /\ d.out <= out /\ out <= Len(fed)
    BY ONLY <1>6, <1>8, <1>9
  <2> QED
    BY ONLY <1>5, <1>6, <1>8, <2>1, LaidDown
<1>11. pcm' = t.samples /\ stream'.prime = t.prime /\ stream'.live
       /\ stream'.fed = Len(fed) /\ stream'.given = Len(heard)
       /\ stream' \in [live : BOOLEAN, prime : Nat, fed : Nat, given : Nat, last : Nat]
  <2>1. t.prime \in Nat
    BY <1>10, Zenon DEF Laid
  <2>2. stream' = [s EXCEPT !.prime = t.prime, !.fed = @ + Len(good),
                            !.last = IF good = <<>> THEN @ ELSE AA!Last(good)]
    BY <1>4, Zenon
  <2>3. pcm' = t.samples
    BY <1>4, Zenon
  <2> HIDE DEF t
  <2>4. s.last \in Nat /\ s.fed + Len(good) \in Nat /\ s.given \in Nat /\ s.live \in BOOLEAN
        /\ s.fed + Len(good) = Len(fed)
    BY ONLY <1>6, <1>7, <1>8
  <2> DEFINE l == IF good = <<>> THEN s.last ELSE AA!Last(good)
  <2>5. l \in Nat
    BY ONLY <1>7, <2>4
  <2>6. stream' = [s EXCEPT !.prime = t.prime, !.fed = @ + Len(good), !.last = l]
    BY ONLY <2>2
  <2> HIDE DEF l
  <2>7. s \in [live : BOOLEAN, prime : Nat, fed : Nat, given : Nat, last : Nat]
    BY ONLY <1>6
  <2>8. stream' = [live |-> s.live, prime |-> t.prime, fed |-> s.fed + Len(good),
                   given |-> s.given, last |-> l]
    BY ONLY <2>6, <2>7
  <2> QED
    BY ONLY <1>6, <2>1, <2>3, <2>4, <2>5, <2>8
<1>12. dec' \in [fed : Seq(Nat), out : Nat, open : BOOLEAN]
       /\ dec'.fed = fed /\ dec'.out = out /\ dec'.open
  BY ONLY <1>4, <1>6, <1>8, <1>10
<1> HIDE DEF t
<1>13. /\ t.samples \in Seq(Trio) /\ Len(t.samples) \in Nat /\ t.prime \in Nat
       /\ out * AacFrame + t.prime = Priming + (Len(heard) + Len(t.samples))
       /\ t.prime > 0 => Len(heard) = 0 /\ Len(t.samples) = 0
  <2>1. t.samples \in Seq(Trio) /\ t.prime \in Nat
    BY ONLY <1>10, Zenon DEF Laid
  <2> QED
    BY ONLY <1>10, <2>1 DEF Laid
<1>14. AA!Avail' = Len(t.samples)
  <2>1. AA!Avail' = Len(t.samples) - 0
    BY ONLY <1>1, <1>5, <1>11, Zenon DEF AA!Avail
  <2> QED
    BY ONLY <1>13, <2>1
<1>15. Len(heard) + Len(t.samples) <= AA!Owed(Len(fed))
  <2>1. Len(heard) <= AA!Owed(Len(fed))
    <3>1. Len(heard) <= AA!Owed(Len(accepted)) /\ Len(accepted) <= Len(fed)
      BY ONLY <1>0, <1>5, <1>8, ZenonT(30) DEF Kept
    <3>2. AA!Owed(Len(accepted)) <= AA!Owed(Len(fed))
          /\ AA!Owed(Len(accepted)) \in Nat /\ AA!Owed(Len(fed)) \in Nat
      BY ONLY <1>5, <1>8, <3>1, OwedGrows
    <3> QED
      BY ONLY <1>5, <3>1, <3>2
  <2> QED
    BY ONLY <1>5, <1>8, <1>10, <2>1, LaidLength
<1>16. /\ Len(heard) <= AA!Owed(Len(fed))
       /\ \A k \in 1 .. Len(heard) : heard[k] = AA!Overlapped(fed, Priming + k)
       /\ \A j \in 1 .. Len(t.samples) :
            t.samples[j] = AA!Overlapped(fed, Priming + (Len(heard) + j))
  <2>1. Len(fed) <= Len(fed) /\ Len(t.samples) <= Len(t.samples)
    BY ONLY <1>8, <1>13
  <2>2. Extends(fed, accepted) /\ Extends(fed, fed)
    BY ONLY <1>5, <1>8, <2>1, Zenon DEF Extends
  <2> QED
    BY ONLY <1>0, <1>5, <1>10, <1>13, <1>15, <2>1, <2>2, NextToHear, SMTT(30)
<1>17. call' \in [pc : Streaming \cup {"idle", "unit"}, want : Nat, give : Nat, rounds : Nat]
       /\ call'.pc = "rounds" /\ call'.give = call.give /\ call'.want = call.want
       /\ call'.pc \in Streaming /\ call'.pc # "unit"
  <2>1. call \in [pc : Streaming \cup {"idle", "unit"}, want : Nat, give : Nat, rounds : Nat]
    BY <1>0, Zenon DEF AacTypes
  <2> HIDE DEF Streaming
  <2>2. /\ call.want \in Nat /\ call.give \in Nat /\ call.rounds + 1 \in Nat
        /\ call' = [pc |-> "rounds", want |-> call.want, give |-> call.give,
                    rounds |-> call.rounds + 1]
    BY ONLY <1>1, <2>1
  <2>3. "rounds" \in Streaming
    BY Zenon DEF Streaming
  <2> QED
    BY ONLY <2>2, <2>3
<1>18. AacTypes'
  <2>1. pos' \in 0 .. Len(pcm') /\ pcm' \in Seq(Trio)
    BY ONLY <1>1, <1>5, <1>11, <1>13
  <2> QED
    BY ONLY <1>0, <1>1, <1>7, <1>8, <1>11, <1>12, <1>17, <2>1, ZenonT(30) DEF AacTypes
<1>19. Opened'
  BY ONLY <1>1, <1>5, <1>8, <1>9, <1>10, <1>11, <1>12, <1>13, <1>14, <1>17, ZenonT(30) DEF Opened
<1>20. Pulled'
  BY ONLY <1>1, <1>5, <1>11, <1>12, <1>17, Zenon DEF Pulled
<1>21. Kept'
  BY ONLY <1>1, <1>8, <1>16, Zenon DEF Kept
<1>22. Pending'
  <2>1. \A j \in 1 .. AA!Avail' : pos' + j = j
    BY ONLY <1>1, <1>5, <1>13, <1>14
  <2> QED
    BY ONLY <1>1, <1>5, <1>8, <1>11, <1>14, <1>15, <1>16, <2>1, ZenonT(30) DEF Pending
<1>23. HandedOver'
  BY ONLY <1>17, Zenon DEF HandedOver
<1> QED
  BY ONLY <1>18, <1>19, <1>20, <1>21, <1>22, <1>23, Zenon DEF AacInv

LEMMA AacNoMore == AacInv /\ AA!NoMore => AacInv'
<1> SUFFICES ASSUME AacInv, AA!NoMore PROVE AacInv'
  OBVIOUS
<1>0. AacTypes /\ Opened /\ Pulled /\ Kept
  BY DEF AacInv
<1>1. /\ call.pc = "rounds" /\ pcm = <<>> /\ left = 0
      /\ call' = [call EXCEPT !.pc = "rounded"]
      /\ backend' = backend /\ pos' = pos /\ left' = left /\ accepted' = accepted
      /\ lost' = lost /\ heard' = heard
  BY Zenon DEF AA!NoMore
<1>2. /\ pos = 0 /\ dec.open /\ ~lost /\ AA!Avail = 0 /\ call.pc \in Streaming
      /\ call.give < call.want
  <2>1. pos = 0 /\ dec.open /\ ~lost /\ call.pc \in Streaming /\ call.give < call.want
    BY <1>0, <1>1 DEF Pulled, Streaming
  <2>2. AA!Avail = 0
    BY <1>1, <2>1 DEF AA!Avail
  <2> QED
    BY <2>1, <2>2
<1>3. /\ call' \in [pc : Streaming \cup {"idle", "unit"}, want : Nat, give : Nat, rounds : Nat]
      /\ call'.pc = "rounded" /\ call'.give = call.give /\ call'.want = call.want
      /\ call'.pc \in Streaming /\ call'.pc # "unit"
  <2>1. call \in [pc : Streaming \cup {"idle", "unit"}, want : Nat, give : Nat, rounds : Nat]
    BY <1>0, Zenon DEF AacTypes
  <2> HIDE DEF Streaming
  <2>2. /\ call.want \in Nat /\ call.give \in Nat /\ call.rounds \in Nat
        /\ call' = [pc |-> "rounded", want |-> call.want, give |-> call.give,
                    rounds |-> call.rounds]
    BY ONLY <1>1, <2>1
  <2>3. "rounded" \in Streaming /\ "rounded" # "unit"
    BY DEF Streaming
  <2> QED
    BY ONLY <2>2, <2>3
<1>4. CASE ~stream.live
  <2>1. UNCHANGED << dec, pcm, stream, whole >>
    BY <1>4, Zenon DEF AA!NoMore
  <2>2. UNCHANGED << backend, dec, pcm, pos, stream, left, accepted, lost, heard, whole >>
    BY ONLY <1>1, <2>1
  <2> QED
    BY ONLY <1>2, <1>3, <2>2, AacInv, CallMoves
<1>5. CASE stream.live
  <2>1. PICK extra \in AA!Shaken(stream.last) :
          \E out \in AA!Drained(Len(dec.fed \o extra), dec.out) :
            LET t == AA!Trim(stream, AA!Decoded(dec.fed \o extra, dec.out, out))
                n == AA!Smaller(Len(t.samples), AA!Less(AA!Owed(stream.fed), stream.given))
            IN  /\ dec' = [dec EXCEPT !.fed = dec.fed \o extra, !.out = out]
                /\ pcm' = SubSeq(t.samples, 1, n)
                /\ stream' = [stream EXCEPT !.live = FALSE, !.prime = t.prime]
                /\ whole' = (out >= stream.fed)
    BY <1>5, Zenon DEF AA!NoMore
  <2> DEFINE fed == dec.fed \o extra
  <2>2. PICK out \in AA!Drained(Len(fed), dec.out) :
            LET t == AA!Trim(stream, AA!Decoded(fed, dec.out, out))
                n == AA!Smaller(Len(t.samples), AA!Less(AA!Owed(stream.fed), stream.given))
            IN  /\ dec' = [dec EXCEPT !.fed = fed, !.out = out]
                /\ pcm' = SubSeq(t.samples, 1, n)
                /\ stream' = [stream EXCEPT !.live = FALSE, !.prime = t.prime]
                /\ whole' = (out >= stream.fed)
    BY ONLY <2>1, Zenon
  <2>3. /\ dec.fed = accepted /\ stream.fed = Len(accepted) /\ stream.given = Len(heard)
        /\ dec.out <= Len(accepted)
        /\ backend \in {"mf", "win7"} => dec.out <= AA!Less(Len(accepted), 1)
        /\ dec.out * AacFrame + stream.prime = Priming + (Len(heard) + AA!Avail)
        /\ stream.prime > 0 => Len(heard) = 0
    BY <1>0, <1>5, Zenon DEF Opened
  <2>4. /\ dec \in [fed : Seq(Nat), out : Nat, open : BOOLEAN] /\ dec.out \in Nat
        /\ stream \in [live : BOOLEAN, prime : Nat, fed : Nat, given : Nat, last : Nat]
        /\ stream.prime \in Nat /\ accepted \in Seq(Nat) /\ Len(accepted) \in Nat
        /\ Len(heard) \in Nat /\ heard \in Seq(Trio) /\ backend \in AA!Backends
        /\ stream.last \in Nat
    BY <1>0, AacParts, Zenon DEF AacTypes
  <2>5. extra \in Seq(Nat)
    BY ONLY <2>1, <2>4, ShakenIs, Zenon
  <2>6. /\ fed \in Seq(Nat) /\ Len(fed) \in Nat /\ Len(accepted) <= Len(fed)
        /\ \A i \in 1 .. Len(accepted) : fed[i] = accepted[i]
    BY ONLY <2>3, <2>4, <2>5
  <2>7. out \in Nat /\ dec.out <= out /\ out <= Len(fed)
    <3>1. backend \in {"mf", "win7"} => dec.out <= AA!Less(Len(fed), 1)
      <4>1. AA!Less(Len(accepted), 1) <= AA!Less(Len(fed), 1)
            /\ AA!Less(Len(accepted), 1) \in Nat /\ AA!Less(Len(fed), 1) \in Nat
        <5>1. Len(fed) <= Len(fed)
          BY ONLY <2>6
        <5> QED
          BY ONLY <2>4, <2>6, <5>1, LessGrows
      <4> QED
        BY ONLY <2>3, <2>4, <4>1
    <3>2. dec.out \in 0 .. Len(fed) /\ Len(fed) \in Nat
      BY ONLY <2>3, <2>4, <2>6
    <3>3. out \in dec.out .. Len(fed)
      BY ONLY <2>2, <2>4, <3>1, <3>2, ReadyIs, Zenon
    <3> QED
      BY ONLY <2>4, <3>2, <3>3
  <2> HIDE DEF fed
  <2> DEFINE t == AA!Trim(stream, AA!Decoded(fed, dec.out, out))
             n == AA!Smaller(Len(t.samples), AA!Less(AA!Owed(stream.fed), stream.given))
  <2>8. Laid(fed, out, Len(heard), t)
    <3>1. dec.out * AacFrame + stream.prime = Priming + Len(heard)
      <4>1. Len(heard) + AA!Avail = Len(heard)
        BY ONLY <1>2, <2>4
      <4> QED
        BY ONLY <2>3, <4>1
    <3> QED
      BY ONLY <2>3, <2>4, <2>6, <2>7, <3>1, LaidDown
  <2>9. /\ dec' = [dec EXCEPT !.fed = fed, !.out = out]
        /\ pcm' = SubSeq(t.samples, 1, n)
        /\ stream' = [stream EXCEPT !.live = FALSE, !.prime = t.prime]
        /\ whole' = (out >= stream.fed)
        /\ n = AA!Smaller(Len(t.samples), AA!Less(AA!Owed(stream.fed), stream.given))
    BY ONLY <2>2, Zenon
  <2> HIDE DEF t, n
  <2>10. t.samples \in Seq(Trio) /\ t.prime \in Nat /\ Len(t.samples) \in Nat
    <3>1. t.samples \in Seq(Trio) /\ t.prime \in Nat
      BY ONLY <2>8, Zenon DEF Laid
    <3> QED
      BY ONLY <3>1
  <2>11. AA!Owed(Len(accepted)) \in Nat /\ Len(heard) <= AA!Owed(Len(accepted))
    <3>1. AA!Owed(Len(accepted)) \in Nat
      BY ONLY <2>4, OwedIs
    <3> QED
      BY <1>0, <1>2, <3>1, Zenon DEF Kept
\* What is past the end of the stream is cut off, and with a decoder that gave
\* all it was fed nothing before it is missing.
  <2>12. /\ n \in Nat /\ n <= Len(t.samples) /\ Len(heard) + n <= AA!Owed(Len(accepted))
         /\ whole' => Len(heard) + n = AA!Owed(Len(accepted))
         /\ whole' \in BOOLEAN
    <3>1. Len(accepted) <= out => AA!Owed(Len(accepted)) <= Len(heard) + Len(t.samples)
      BY ONLY <2>4, <2>7, <2>8, <2>11, LaidLength
    <3>2. AA!Less(AA!Owed(stream.fed), stream.given) = AA!Owed(Len(accepted)) - Len(heard)
      BY ONLY <2>3, <2>4, <2>11 DEF AA!Less
    <3>3. n = IF Len(t.samples) < AA!Owed(Len(accepted)) - Len(heard)
              THEN Len(t.samples) ELSE AA!Owed(Len(accepted)) - Len(heard)
      BY ONLY <2>9, <3>2 DEF AA!Smaller
    <3>4. whole' = (out >= Len(accepted))
      BY ONLY <2>3, <2>9, Zenon
    <3>5. whole' \in BOOLEAN /\ (whole' => Len(accepted) <= out)
      BY ONLY <2>4, <2>7, <3>4, Compared
    <3>6. /\ n \in Nat /\ n <= Len(t.samples) /\ Len(heard) + n <= AA!Owed(Len(accepted))
          /\ AA!Owed(Len(accepted)) <= Len(heard) + Len(t.samples) =>
               Len(heard) + n = AA!Owed(Len(accepted))
      BY ONLY <2>4, <2>10, <2>11, <3>3, SMTT(30)
    <3> QED
      BY ONLY <3>1, <3>5, <3>6, Zenon
  <2>13. /\ pcm' \in Seq(Trio) /\ Len(pcm') = n
         /\ \A j \in 1 .. n : pcm'[j] = t.samples[j]
    <3> HIDE DEF Trio
    <3> QED
      BY ONLY <2>9, <2>10, <2>12
  <2>14. AA!Avail' = n
    <3>1. AA!Avail' = n - 0
      BY ONLY <1>1, <1>2, <2>13, Zenon DEF AA!Avail
    <3> QED
      BY ONLY <2>12, <3>1
  <2>15. \A j \in 1 .. n :
            t.samples[j] = AA!Overlapped(accepted, Priming + (Len(heard) + j))
    <3>1. Len(accepted) <= Len(accepted) /\ \A i \in 1 .. Len(accepted) : accepted[i] = accepted[i]
      BY ONLY <2>4
    <3>2. Extends(accepted, accepted) /\ Extends(fed, accepted)
      BY ONLY <2>4, <2>6, <3>1, Zenon DEF Extends
    <3> QED
      BY ONLY <1>0, <1>2, <2>7, <2>8, <2>12, <3>2, NextToHear
  <2>16. /\ stream' \in [live : BOOLEAN, prime : Nat, fed : Nat, given : Nat, last : Nat]
         /\ ~stream'.live
    BY ONLY <2>4, <2>9, <2>10
  <2>17. dec' \in [fed : Seq(Nat), out : Nat, open : BOOLEAN] /\ dec'.open
    BY ONLY <1>2, <2>4, <2>6, <2>7, <2>9
  <2>18. AacTypes'
    <3>1. pos' \in 0 .. Len(pcm')
      BY ONLY <1>1, <1>2, <2>12, <2>13
    <3> QED
      BY ONLY <1>0, <1>1, <1>3, <2>12, <2>13, <2>16, <2>17, <3>1, ZenonT(30) DEF AacTypes
  <2>19. Opened'
    BY ONLY <2>16, Zenon DEF Opened
  <2>20. Pulled'
    <3>1. ~(left' > 0)
      BY ONLY <1>1
    <3> QED
      BY ONLY <1>1, <1>2, <1>3, <2>17, <3>1, Zenon DEF Pulled
  <2>21. Kept'
    BY ONLY <1>0, <1>1, Zenon DEF Kept
  <2>22. Pending'
    <3>1. \A j \in 1 .. AA!Avail' : pos' + j = j
      BY ONLY <1>1, <1>2, <2>12, <2>14
    <3> QED
      BY ONLY <1>1, <2>12, <2>13, <2>14, <2>15, <3>1, ZenonT(30) DEF Pending
  <2>23. HandedOver'
    BY ONLY <1>3, Zenon DEF HandedOver
  <2> QED
    BY ONLY <2>18, <2>19, <2>20, <2>21, <2>22, <2>23, Zenon DEF AacInv
<1> QED
  BY <1>4, <1>5

LEMMA AacCalls ==
  AacInv /\ (AA!FillComplexBuffer \/ AA!Rounded \/ AA!Return) => AacInv'
<1> SUFFICES ASSUME AacInv, AA!FillComplexBuffer \/ AA!Rounded \/ AA!Return PROVE AacInv'
  OBVIOUS
<1>0. AacTypes /\ Opened /\ Pulled
  BY DEF AacInv
<1>1. call \in [pc : Streaming \cup {"idle", "unit"}, want : Nat, give : Nat, rounds : Nat]
  BY <1>0, Zenon DEF AacTypes
<1>2. /\ UNCHANGED << backend, dec, pcm, pos, stream, left, accepted, lost, heard, whole >>
      /\ call.pc \in {"stream", "fill", "rounds", "rounded"}
  <2>1. CASE AA!FillComplexBuffer
    BY <2>1 DEF AA!FillComplexBuffer
  <2>2. CASE AA!Rounded
    BY <2>2 DEF AA!Rounded
  <2>3. CASE AA!Return
    BY <2>3 DEF AA!Return
  <2> QED
    BY <2>1, <2>2, <2>3
<1>3. \/ \E want \in Nat : call' = [pc |-> "fill", want |-> want, give |-> 0, rounds |-> 0]
      \/ call.pc = "rounds" /\ call' = [call EXCEPT !.pc = "rounded"]
      \/ call' = [pc |-> "stream", want |-> 0, give |-> 0, rounds |-> 0]
      \/ /\ call' = [pc |-> "idle", want |-> 0, give |-> 0, rounds |-> 0]
         /\ ~stream.live
  <2>1. CASE AA!FillComplexBuffer
    <3>1. PICK want \in Asks : call' = [AA!Idle EXCEPT !.pc = "fill", !.want = want]
      BY <2>1, Zenon DEF AA!FillComplexBuffer
    <3>2. call' = [pc |-> "fill", want |-> want, give |-> 0, rounds |-> 0]
      BY ONLY <3>1 DEF AA!Idle
    <3>3. want \in Nat
      BY AacBounds
    <3> QED
      BY ONLY <3>2, <3>3, Zenon
  <2>2. CASE AA!Rounded
    BY <2>2, Zenon DEF AA!Rounded
  <2>3. CASE AA!Return
    <3>1. \/ call' = [AA!Idle EXCEPT !.pc = "stream"]
          \/ call' = AA!Idle /\ ~stream.live
      BY <2>3, Zenon DEF AA!Return
    <3> QED
      BY ONLY <3>1 DEF AA!Idle
  <2> QED
    BY <2>1, <2>2, <2>3
<1>4. {"stream", "fill", "rounds", "rounded"} = Streaming /\ Streaming \subseteq Streaming \cup {"idle", "unit"}
  BY DEF Streaming
<1>5. /\ call' \in [pc : Streaming \cup {"idle", "unit"}, want : Nat, give : Nat, rounds : Nat]
      /\ call'.pc \in Streaming \/ (call'.pc = "idle" /\ ~stream.live)
      /\ call'.pc \in {"rounds", "rounded"} =>
           call.pc = "rounds" /\ call'.give = call.give /\ call'.want = call.want
  <2>1. CASE \E want \in Nat : call' = [pc |-> "fill", want |-> want, give |-> 0, rounds |-> 0]
    BY ONLY <1>4, <2>1
  <2>2. CASE call.pc = "rounds" /\ call' = [call EXCEPT !.pc = "rounded"]
    <3>1. call' = [pc |-> "rounded", want |-> call.want, give |-> call.give,
                   rounds |-> call.rounds]
          /\ call.want \in Nat /\ call.give \in Nat /\ call.rounds \in Nat
      BY ONLY <1>1, <2>2
    <3> QED
      BY ONLY <1>4, <2>2, <3>1
  <2>3. CASE call' = [pc |-> "stream", want |-> 0, give |-> 0, rounds |-> 0]
    BY ONLY <1>4, <2>3
  <2>4. CASE call' = [pc |-> "idle", want |-> 0, give |-> 0, rounds |-> 0] /\ ~stream.live
    BY ONLY <1>4, <2>4
  <2> QED
    BY ONLY <1>3, <2>1, <2>2, <2>3, <2>4
<1>6. call'.pc \in {"rounds", "rounded"} => pos = 0 /\ dec.open /\ call'.give < call'.want
  <2> SUFFICES ASSUME call'.pc \in {"rounds", "rounded"}
               PROVE  pos = 0 /\ dec.open /\ call'.give < call'.want
    OBVIOUS
  <2>1. call.pc = "rounds" /\ call'.give = call.give /\ call'.want = call.want
    BY ONLY <1>5, call'.pc \in {"rounds", "rounded"}
  <2>2. call.pc \in Streaming /\ call.pc \in {"rounds", "rounded"}
    BY ONLY <2>1, <1>4
  <2>3. pos = 0 /\ dec.open /\ call.give < call.want
    BY ONLY <1>0, <2>2, Zenon DEF Pulled
  <2> QED
    BY ONLY <2>1, <2>3
<1> QED
  BY ONLY <1>2, <1>4, <1>5, <1>6, AacInv, CallMoves

LEMMA AacReset == AacInv /\ AA!Reset => AacInv'
<1> SUFFICES ASSUME AacInv, AA!Reset PROVE AacInv'
  OBVIOUS
<1>0. AacTypes /\ Opened /\ Pulled /\ Kept
  BY DEF AacInv
<1>1. /\ call.pc = "stream" /\ pcm' = <<>> /\ pos' = 0 /\ left' = 0 /\ whole' = FALSE
      /\ call' = [pc |-> "idle", want |-> 0, give |-> 0, rounds |-> 0]
      /\ backend' = backend /\ accepted' = accepted /\ lost' = lost /\ heard' = heard
  BY Zenon DEF AA!Reset, AA!Idle
<1>2. /\ dec \in [fed : Seq(Nat), out : Nat, open : BOOLEAN]
      /\ stream \in [live : BOOLEAN, prime : Nat, fed : Nat, given : Nat, last : Nat]
      /\ accepted \in Seq(Nat) /\ Len(accepted) \in Nat /\ Len(heard) \in Nat /\ MaxUnit \in Nat
  BY <1>0, AacParts, AacBounds, Zenon DEF AacTypes
<1>3. /\ dec' \in [fed : Seq(Nat), out : Nat, open : BOOLEAN]
      /\ stream' \in [live : BOOLEAN, prime : Nat, fed : Nat, given : Nat, last : Nat]
      /\ ~stream'.live
  <2>1. CASE stream.live
    <3>1. dec.open
      BY <1>0, <2>1, Zenon DEF Opened
    <3>2. dec' = AA!Flushed /\ stream' = [stream EXCEPT !.live = FALSE]
      BY <2>1, <3>1, Zenon DEF AA!Reset
    <3>3. dec' = [dec EXCEPT !.fed = <<>>, !.out = 0] /\ <<>> \in Seq(Nat)
      BY <3>2 DEF AA!Flushed
    <3>4. dec' \in [fed : Seq(Nat), out : Nat, open : BOOLEAN]
      BY ONLY <1>2, <3>3
    <3>5. /\ stream' \in [live : BOOLEAN, prime : Nat, fed : Nat, given : Nat, last : Nat]
          /\ ~stream'.live
      BY ONLY <1>2, <3>2
    <3> QED
      BY ONLY <3>4, <3>5
  <2>2. CASE ~stream.live
    <3>1. dec' = dec /\ stream' = stream
      BY <2>2, Zenon DEF AA!Reset
    <3> QED
      BY ONLY <1>2, <2>2, <3>1
  <2> QED
    BY <2>1, <2>2
<1>4. /\ Len(<<>>) = 0 /\ <<>> \in Seq(Trio) /\ 0 \in 0 .. Len(<<>>) /\ 0 \in 0 .. MaxUnit
      /\ AA!Avail' = 0 /\ 1 .. 0 = {} /\ Len(heard) + 0 = Len(heard)
  BY <1>1, <1>2 DEF AA!Avail
<1>5. /\ call' \in [pc : Streaming \cup {"idle", "unit"}, want : Nat, give : Nat, rounds : Nat]
      /\ call'.pc = "idle" /\ call'.pc \notin Streaming /\ call'.pc # "unit"
  BY ONLY <1>1 DEF Streaming
<1>6. AacTypes'
  BY ONLY <1>0, <1>1, <1>3, <1>4, <1>5, Zenon DEF AacTypes
<1>7. Opened' /\ Pulled' /\ HandedOver'
  BY ONLY <1>3, <1>5, Zenon DEF Opened, Pulled, HandedOver
<1>8. Kept'
  BY ONLY <1>0, <1>1, Zenon DEF Kept
<1>9. Pending'
  BY ONLY <1>0, <1>1, <1>4, Zenon DEF Pending, Kept
<1> QED
  BY ONLY <1>6, <1>7, <1>8, <1>9, Zenon DEF AacInv

LEMMA AacNextStream == AacInv /\ AA!NextStream => AacInv'
<1> SUFFICES ASSUME AacInv, AA!NextStream PROVE AacInv'
  OBVIOUS
<1>0. AacTypes
  BY DEF AacInv
<1>1. /\ ~stream.live /\ AA!Avail = 0
      /\ accepted' = <<>> /\ heard' = <<>> /\ whole' = FALSE /\ lost' = FALSE
      /\ call' = [AA!Idle EXCEPT !.pc = "stream"]
      /\ backend' = backend /\ dec' = dec /\ pcm' = pcm /\ pos' = pos /\ stream' = stream
  BY Zenon DEF AA!NextStream
<1>2. left' \in 0 .. MaxUnit
  <2>1. PICK n \in 1 .. MaxUnit : left' = n
    BY Zenon DEF AA!NextStream
  <2> QED
    BY <2>1, AacBounds
<1>3. /\ call' = [pc |-> "stream", want |-> 0, give |-> 0, rounds |-> 0]
      /\ call' \in [pc : Streaming \cup {"idle", "unit"}, want : Nat, give : Nat, rounds : Nat]
      /\ call'.pc = "stream" /\ call'.pc # "unit"
  BY ONLY <1>1 DEF AA!Idle, Streaming
<1>4. /\ Len(<<>>) = 0 /\ <<>> \in Seq(Nat) /\ <<>> \in Seq(Trio) /\ 1 .. 0 = {}
      /\ AA!Avail' = 0 /\ AA!Owed(0) \in Nat
  <2>1. AA!Avail' = AA!Avail
    BY <1>1, Zenon DEF AA!Avail
  <2> QED
    BY <1>1, <2>1, OwedIs
<1>5. AacTypes'
  BY ONLY <1>0, <1>1, <1>2, <1>3, <1>4, Zenon DEF AacTypes
<1>6. Opened' /\ HandedOver'
  BY ONLY <1>1, <1>3, Zenon DEF Opened, HandedOver
<1>7. Pulled'
  BY ONLY <1>1, <1>3, <1>4 DEF Pulled
<1>8. Kept'
  BY ONLY <1>1, <1>4 DEF Kept
<1>9. Pending'
  BY ONLY <1>1, <1>4 DEF Pending
<1> QED
  BY ONLY <1>5, <1>6, <1>7, <1>8, <1>9, Zenon DEF AacInv

LEMMA AacOpenOther == AacInv /\ AA!OpenOther => AacInv'
<1> SUFFICES ASSUME AacInv, AA!OpenOther PROVE AacInv'
  OBVIOUS
<1>0. AacTypes /\ Opened /\ Kept /\ Pending
  BY DEF AacInv
<1>1. /\ call.pc = "idle" /\ dec' = AA!Silent
      /\ backend' = backend /\ pcm' = pcm /\ pos' = pos /\ stream' = stream /\ left' = left
      /\ call' = call /\ accepted' = accepted /\ lost' = lost /\ heard' = heard /\ whole' = whole
  BY Zenon DEF AA!OpenOther
<1>2. call.pc \notin Streaming /\ call.pc # "unit"
  BY ONLY <1>1 DEF Streaming
<1>3. ~stream.live
  BY ONLY <1>0, <1>2, Zenon DEF Opened
<1>4. dec' \in [fed : Seq(Nat), out : Nat, open : BOOLEAN]
  BY ONLY <1>1 DEF AA!Silent
<1>5. AacTypes'
  BY ONLY <1>0, <1>1, <1>4, Zenon DEF AacTypes
<1>6. Opened' /\ Pulled' /\ HandedOver'
  BY ONLY <1>1, <1>2, <1>3, Zenon DEF Opened, Pulled, HandedOver
<1>7. Kept'
  BY ONLY <1>0, <1>1, Zenon DEF Kept
<1>8. Pending'
  <2>1. AA!Avail' = AA!Avail
    BY <1>1, Zenon DEF AA!Avail
  <2> QED
    BY ONLY <1>0, <1>1, <2>1, Zenon DEF Pending
<1> QED
  BY ONLY <1>5, <1>6, <1>7, <1>8, Zenon DEF AacInv

-----------------------------------------------------------------------------
\* A recording handed over whole: what was decoded of it, from its first frame.
LEMMA UnitDecoded ==
  ASSUME AacTypes, ~stream.live, NEW n \in 0 .. MaxUnit, NEW run \in AA!Runs(n), AA!Unit(n, run),
         left' = n, heard' = <<>>, stream' = stream, backend' = backend
  PROVE  AacInv'
<1> DEFINE units == [i \in 1 .. n |-> i]
<1>1. n \in Nat /\ units \in Seq(Nat) /\ Len(units) = n
  <2>1. n \in Nat
    BY AacBounds
  <2> QED
    BY ONLY <2>1
<1>2. \E good \in AA!Taken(units) : \E extra \in AA!Shaken(n) :
        \E out \in AA!Drained(Len(good \o extra), 0) :
          run = [fed |-> good \o extra, good |-> good, out |-> out]
  <2> DEFINE Outs(good, extra) == {[fed |-> good \o extra, good |-> good, out |-> out] :
                                     out \in AA!Drained(Len(good \o extra), 0)}
             Fed(good) == {Outs(good, extra) : extra \in AA!Shaken(n)}
  <2>1. AA!Runs(n) = UNION {UNION Fed(good) : good \in AA!Taken(units)}
    BY Zenon DEF AA!Runs
  <2> HIDE DEF units, Outs, Fed
  <2>2. PICK good \in AA!Taken(units) : run \in UNION Fed(good)
    BY ONLY <2>1, run \in AA!Runs(n)
  <2>3. PICK extra \in AA!Shaken(n) : run \in Outs(good, extra)
    BY ONLY <2>2 DEF Fed
  <2>4. PICK out \in AA!Drained(Len(good \o extra), 0) :
          run = [fed |-> good \o extra, good |-> good, out |-> out]
    BY ONLY <2>3 DEF Outs
  <2> QED
    BY ONLY <2>2, <2>3, <2>4, Zenon
<1> HIDE DEF units
<1>3. PICK good \in AA!Taken(units) : \E extra \in AA!Shaken(n) :
        \E out \in AA!Drained(Len(good \o extra), 0) :
          run = [fed |-> good \o extra, good |-> good, out |-> out]
  BY ONLY <1>2, Zenon
<1>4. PICK extra \in AA!Shaken(n) : \E out \in AA!Drained(Len(good \o extra), 0) :
        run = [fed |-> good \o extra, good |-> good, out |-> out]
  BY ONLY <1>3, Zenon
<1> DEFINE fed == good \o extra
<1>5. PICK out \in AA!Drained(Len(fed), 0) : run = [fed |-> fed, good |-> good, out |-> out]
  BY ONLY <1>4, Zenon
<1>6. good \in Seq(Nat) /\ Len(good) \in Nat /\ Len(good) <= n /\ extra \in Seq(Nat)
  <2>1. good \in Seq(Nat) /\ Len(good) <= n
    BY ONLY <1>1, <1>3, TakenIs
  <2>2. extra \in Seq(Nat)
    BY ONLY <1>1, <1>4, ShakenIs
  <2> QED
    BY ONLY <2>1, <2>2
<1>7. /\ fed \in Seq(Nat) /\ Len(fed) \in Nat /\ Len(good) <= Len(fed)
      /\ \A i \in 1 .. Len(good) : fed[i] = good[i]
  BY ONLY <1>6
<1> HIDE DEF fed
<1>8. out \in Nat /\ out <= Len(fed)
  <2>1. backend \in AA!Backends
    BY Zenon DEF AacTypes
  <2>2. 0 \in 0 .. Len(fed) /\ 0 <= AA!Less(Len(fed), 1)
    BY ONLY <1>7 DEF AA!Less
  <2>3. out \in 0 .. Len(fed)
    BY ONLY <1>5, <1>7, <2>1, <2>2, ReadyIs, Zenon
  <2> QED
    BY ONLY <1>7, <2>3
<1>9. /\ dec' = [fed |-> fed, out |-> out, open |-> TRUE]
      /\ pcm' = AA!Decoded(fed, 0, out)
      /\ pos' = AA!Smaller(Priming, out * AacFrame)
      /\ accepted' = good /\ lost' = (Len(good) < n)
      /\ call' = [pc |-> "unit", want |-> AA!Owed(n), give |-> 0, rounds |-> call.rounds + 1]
      /\ whole' = (out >= n)
  <2>1. run.fed = fed /\ run.good = good /\ run.out = out
    BY ONLY <1>5
  <2>2. /\ dec' = [fed |-> run.fed, out |-> run.out, open |-> TRUE]
        /\ pcm' = AA!Decoded(run.fed, 0, run.out)
        /\ pos' = AA!Smaller(Priming, run.out * AacFrame)
        /\ accepted' = run.good /\ lost' = (Len(run.good) < n)
        /\ call' = [pc |-> "unit", want |-> AA!Owed(n), give |-> 0, rounds |-> call.rounds + 1]
        /\ whole' = (run.out >= n)
    BY Zenon DEF AA!Unit
  <2> QED
    BY ONLY <2>1, <2>2, Zenon
<1>10. /\ lost' \in BOOLEAN /\ (~lost' => Len(good) = n)
       /\ whole' \in BOOLEAN /\ (whole' => n <= out)
  <2>1. /\ lost' \in BOOLEAN /\ (~lost' => n <= Len(good))
        /\ whole' \in BOOLEAN /\ (whole' => n <= out)
    BY ONLY <1>1, <1>6, <1>8, <1>9, Compared
  <2>2. n <= Len(good) => Len(good) = n
    BY ONLY <1>1, <1>6
  <2> QED
    BY ONLY <2>1, <2>2, Zenon
<1>11. /\ out * AacFrame \in Nat /\ pcm' \in Seq(Trio) /\ Len(pcm') = out * AacFrame
       /\ \A k \in 1 .. Len(pcm') : pcm'[k] = AA!SampleOf(fed, k)
  <2>1. out * AacFrame \in Nat /\ 0 * AacFrame = 0 /\ 0 \in Nat /\ 0 <= out
    BY ONLY <1>8, AacBounds, FramesProduct
  <2>2. /\ pcm' \in Seq(Trio) /\ Len(pcm') = out * AacFrame - 0 * AacFrame
        /\ \A k \in 1 .. out * AacFrame - 0 * AacFrame :
             pcm'[k] = AA!SampleOf(fed, 0 * AacFrame + k)
    BY ONLY <1>7, <1>8, <1>9, <2>1, DecodedIs
  <2>3. out * AacFrame - 0 * AacFrame = out * AacFrame
    BY ONLY <2>1
  <2>4. \A k \in 1 .. out * AacFrame : 0 * AacFrame + k = k
    BY ONLY <2>1
  <2> QED
    BY ONLY <2>1, <2>2, <2>3, <2>4, Zenon
<1>12. /\ pos' \in 0 .. Len(pcm')
       /\ IF Len(pcm') <= Priming THEN pos' = Len(pcm') ELSE pos' = Priming + 0
  <2>1. Priming \in Nat
    BY AacBounds
  <2> QED
    BY ONLY <1>9, <1>11, <2>1 DEF AA!Smaller
<1>13. /\ AA!Owed(n) \in Nat /\ AA!Owed(Len(good)) \in Nat /\ call.rounds + 1 \in Nat
       /\ Len(<<>>) = 0 /\ <<>> \in Seq(Trio) /\ 1 .. 0 = {}
  <2>1. call.rounds \in Nat
    BY AacParts
  <2>2. call.rounds + 1 \in Nat /\ 1 .. 0 = {} /\ Len(<<>>) = 0
    BY ONLY <2>1
  <2>3. <<>> \in Seq(Trio)
    BY ONLY EmptySeq, Zenon
  <2>4. AA!Owed(n) \in Nat /\ AA!Owed(Len(good)) \in Nat
    BY ONLY <1>1, <1>6, OwedIs
  <2> QED
    BY ONLY <2>2, <2>3, <2>4, Zenon
<1>14. /\ call' \in [pc : Streaming \cup {"idle", "unit"}, want : Nat, give : Nat, rounds : Nat]
       /\ call'.pc = "unit" /\ call'.pc \notin Streaming /\ call'.want = AA!Owed(n)
       /\ call'.give = 0
  <2>1. "unit" \notin Streaming
    BY DEF Streaming
  <2> HIDE DEF Streaming
  <2> QED
    BY ONLY <1>9, <1>13, <2>1
<1>15. /\ dec' \in [fed : Seq(Nat), out : Nat, open : BOOLEAN] /\ dec'.fed = fed
       /\ dec'.out = out
  BY ONLY <1>7, <1>8, <1>9
<1>16. AacTypes'
  <2>1. /\ stream' \in [live : BOOLEAN, prime : Nat, fed : Nat, given : Nat, last : Nat]
        /\ backend' \in AA!Backends /\ left' \in 0 .. MaxUnit
    BY Zenon DEF AacTypes
  <2> QED
    BY ONLY <1>6, <1>9, <1>10, <1>11, <1>12, <1>13, <1>14, <1>15, <2>1, heard' = <<>>,
       Zenon DEF AacTypes
<1>17. Opened' /\ Pulled' /\ Pending'
  BY ONLY <1>14, ~stream.live, stream' = stream, Zenon DEF Opened, Pulled, Pending
<1>18. Kept'
  <2>1. 0 <= AA!Owed(Len(good))
    BY ONLY <1>13
  <2> QED
    BY ONLY <1>9, <1>13, <2>1, heard' = <<>> DEF Kept
<1>19. HandedOver'
  <2>1. 0 <= AA!Owed(n)
    BY ONLY <1>13
  <2>2. /\ ~stream'.live /\ call'.give = Len(heard') /\ call'.give <= call'.want
        /\ call'.want = AA!Owed(left')
        /\ ~lost' => Len(accepted') = left'
        /\ whole' => left' <= dec'.out
    BY ONLY <1>9, <1>10, <1>13, <1>14, <1>15, <2>1, heard' = <<>>, left' = n, ~stream.live,
       stream' = stream, Zenon
  <2>3. /\ Len(accepted') <= Len(dec'.fed)
        /\ \A i \in 1 .. Len(accepted') : dec'.fed[i] = accepted'[i]
        /\ dec'.out <= Len(dec'.fed) /\ Len(pcm') = dec'.out * AacFrame
        /\ \A k \in 1 .. Len(pcm') : pcm'[k] = AA!SampleOf(dec'.fed, k)
    BY ONLY <1>7, <1>8, <1>9, <1>11, <1>15, Zenon
  <2>4. IF Len(pcm') <= Priming THEN pos' = Len(pcm') /\ call'.give = 0
                                ELSE pos' = Priming + call'.give
    BY ONLY <1>12, <1>14
  <2>5. \A k \in 1 .. Len(pcm') : pcm'[k] = AA!SampleOf(dec.fed, k)'
    <3>1. \A k \in 1 .. Len(pcm') : AA!SampleOf(dec.fed, k)' = AA!SampleOf(dec'.fed, k)
      BY ONLY backend' = backend, Zenon DEF AA!SampleOf
    <3> QED
      BY ONLY <2>3, <3>1, Zenon
  <2> QED
    BY ONLY <2>2, <2>3, <2>4, <2>5, Zenon DEF HandedOver
<1> QED
  BY ONLY <1>16, <1>17, <1>18, <1>19, Zenon DEF AacInv

LEMMA AacDecodeUnit == AacInv /\ (AA!DecodeUnit \/ AA!DecodeAgain) => AacInv'
<1> SUFFICES ASSUME AacInv, AA!DecodeUnit \/ AA!DecodeAgain PROVE AacInv'
  OBVIOUS
<1>0. AacTypes /\ HandedOver
  BY DEF AacInv
<1>1. CASE AA!DecodeUnit
  <2>1. PICK n \in 1 .. MaxUnit : left' = n /\ \E run \in AA!Runs(n) : AA!Unit(n, run)
    BY <1>1, Zenon DEF AA!DecodeUnit
  <2>2. PICK run \in AA!Runs(n) : AA!Unit(n, run)
    BY <2>1
  <2>3. ~stream.live /\ heard' = <<>> /\ stream' = stream /\ backend' = backend
    BY <1>1, Zenon DEF AA!DecodeUnit
  <2>4. n \in 0 .. MaxUnit
    BY AacBounds
  <2> QED
    BY ONLY <1>0, <2>1, <2>2, <2>3, <2>4, UnitDecoded
<1>2. CASE AA!DecodeAgain
  <2>1. PICK run \in AA!Runs(left) : AA!Unit(left, run)
    BY <1>2, Zenon DEF AA!DecodeAgain
  <2>2. /\ call.pc = "unit" /\ call.give = 0 /\ stream' = stream /\ backend' = backend
        /\ left' = left /\ heard' = heard
    BY <1>2, Zenon DEF AA!DecodeAgain
  <2>3. ~stream.live /\ Len(heard) = 0
    BY <1>0, <2>2, Zenon DEF HandedOver
  <2>4. heard = <<>>
    <3>1. heard \in Seq(Trio)
      BY <1>0, Zenon DEF AacTypes
    <3> QED
      BY ONLY <2>3, <3>1, EmptySeq
  <2>5. left \in 0 .. MaxUnit
    BY <1>0, Zenon DEF AacTypes
  <2> QED
    BY ONLY <1>0, <2>1, <2>2, <2>3, <2>4, <2>5, UnitDecoded
<1> QED
  BY <1>1, <1>2

LEMMA AacFillBuffer == AacInv /\ AA!FillBuffer => AacInv'
<1> SUFFICES ASSUME AacInv, AA!FillBuffer PROVE AacInv'
  OBVIOUS
<1>0. AacTypes /\ Kept /\ HandedOver
  BY DEF AacInv
<1>1. /\ call.pc = "unit" /\ call.give < call.want /\ AA!Avail > 0
      /\ backend' = backend /\ dec' = dec /\ pcm' = pcm /\ stream' = stream /\ left' = left
      /\ accepted' = accepted /\ lost' = lost /\ whole' = whole
  BY Zenon DEF AA!FillBuffer
<1>2. PICK w \in Asks :
        /\ heard' = heard \o SubSeq(pcm, pos + 1, pos + AA!Smaller(AA!Avail,
                                                       AA!Smaller(w, call.want - call.give)))
        /\ pos' = pos + AA!Smaller(AA!Avail, AA!Smaller(w, call.want - call.give))
        /\ call' = [call EXCEPT !.give = @ + AA!Smaller(AA!Avail,
                                                       AA!Smaller(w, call.want - call.give))]
  BY Zenon DEF AA!FillBuffer
<1> DEFINE n == AA!Smaller(AA!Avail, AA!Smaller(w, call.want - call.give))
<1>3. /\ heard' = heard \o SubSeq(pcm, pos + 1, pos + n) /\ pos' = pos + n
      /\ call' = [call EXCEPT !.give = @ + n]
  BY <1>2
<1>4. /\ AA!Avail \in Nat /\ pos \in Nat /\ pos + AA!Avail = Len(pcm) /\ Len(pcm) \in Nat
      /\ call.want \in Nat /\ call.give \in Nat /\ call.rounds \in Nat /\ Len(heard) \in Nat
      /\ heard \in Seq(Trio) /\ pcm \in Seq(Trio) /\ accepted \in Seq(Nat)
      /\ Len(accepted) \in Nat /\ dec.fed \in Seq(Nat)
  BY <1>0, AacParts, Zenon DEF AacTypes
<1>5. n \in Nat /\ n <= AA!Avail /\ call.give + n <= call.want /\ pos + n <= Len(pcm)
  <2>1. w \in Nat
    BY AacBounds
  <2> QED
    BY ONLY <1>1, <1>4, <2>1, SMTT(30) DEF AA!Smaller
<1> HIDE DEF n
<1>6. /\ ~stream.live /\ call.give = Len(heard) /\ call.want = AA!Owed(left)
      /\ ~lost => Len(accepted) = left
      /\ Len(accepted) <= Len(dec.fed) /\ \A i \in 1 .. Len(accepted) : dec.fed[i] = accepted[i]
      /\ \A k \in 1 .. Len(pcm) : pcm[k] = AA!SampleOf(dec.fed, k)
  BY ONLY <1>0, <1>1, Zenon DEF HandedOver
\* With samples to hand over the recording does not end in the codec's delay.
<1>7. ~(Len(pcm) <= Priming) /\ pos = Priming + Len(heard)
  <2>1. IF Len(pcm) <= Priming THEN pos = Len(pcm) /\ call.give = 0
                               ELSE pos = Priming + call.give
    BY ONLY <1>0, <1>1, Zenon DEF HandedOver
  <2> QED
    BY ONLY <1>1, <1>4, <1>6, <2>1
<1>8. /\ heard' \in Seq(Trio) /\ Len(heard') = Len(heard) + n
      /\ \A k \in 1 .. Len(heard) : heard'[k] = heard[k]
      /\ \A j \in 1 .. n : heard'[Len(heard) + j] = pcm[pos + j]
  <2>1. heard \in Seq(Trio) /\ pcm \in Seq(Trio) /\ pos \in Nat
    BY ONLY <1>4
  <2>2. heard' = heard \o SubSeq(pcm, pos + 1, pos + n)
    BY ONLY <1>3
  <2>3. n \in Nat /\ pos + n <= Len(pcm)
    BY ONLY <1>5
  <2>4. HandedOn(heard, pcm, pos, n, heard')
    BY ONLY <2>1, <2>2, <2>3, CopiedOut
  <2> QED
    BY ONLY <2>4, Zenon DEF HandedOn
<1>9. /\ call' \in [pc : Streaming \cup {"idle", "unit"}, want : Nat, give : Nat, rounds : Nat]
      /\ call'.pc = "unit" /\ call'.pc \notin Streaming /\ call'.want = call.want
      /\ call'.give = call.give + n
  <2>1. "unit" \notin Streaming
    BY DEF Streaming
  <2>2. call \in [pc : Streaming \cup {"idle", "unit"}, want : Nat, give : Nat, rounds : Nat]
    BY <1>0, Zenon DEF AacTypes
  <2> HIDE DEF Streaming
  <2>3. call' = [pc |-> call.pc, want |-> call.want, give |-> call.give + n,
                 rounds |-> call.rounds]
    <3>1. call' = [call EXCEPT !.give = @ + n]
      BY ONLY <1>3
    <3> QED
      BY ONLY <2>2, <3>1
  <2>4. call.give + n \in Nat
    BY ONLY <1>4, <1>5
  <2> QED
    BY ONLY <1>1, <1>4, <2>1, <2>3, <2>4
<1>10. AacTypes'
  <2>1. pos' \in 0 .. Len(pcm)
    BY ONLY <1>3, <1>4, <1>5, SMTT(30)
  <2> QED
    BY ONLY <1>0, <1>1, <1>8, <1>9, <2>1, Zenon DEF AacTypes
<1>11. Opened' /\ Pulled' /\ Pending'
  BY ONLY <1>1, <1>6, <1>9, Zenon DEF Opened, Pulled, Pending
<1>12. Kept'
  <2> SUFFICES ASSUME ~lost PROVE Kept'
    BY <1>1, Zenon DEF Kept
  <2>1. Len(heard') <= AA!Owed(Len(accepted))
    BY ONLY <1>4, <1>5, <1>6, <1>8, ~lost
  <2>2. ASSUME NEW k \in 1 .. Len(heard')
        PROVE  heard'[k] = AA!Overlapped(accepted, Priming + k)
    <3>1. CASE k <= Len(heard)
      <4>1. k \in 1 .. Len(heard)
        BY ONLY <1>4, <3>1, k \in 1 .. Len(heard')
      <4> QED
        BY ONLY <1>0, <1>8, <4>1, ~lost, Zenon DEF Kept
    <3>2. CASE ~(k <= Len(heard))
      <4> DEFINE j == k - Len(heard)
      <4>1. /\ j \in 1 .. n /\ k = Len(heard) + j /\ pos + j = Priming + k
            /\ pos + j \in 1 .. Len(pcm) /\ k \in Nat \ {0} /\ k <= AA!Owed(Len(accepted))
        <5>1. Priming \in Nat /\ AA!Owed(Len(accepted)) \in Nat
          BY <1>4, AacBounds, OwedIs
        <5>2. k \in Nat \ {0} /\ k <= Len(heard) + n /\ Len(heard) < k
          BY ONLY <1>4, <1>5, <1>8, <3>2, k \in 1 .. Len(heard'), SMTT(30)
        <5>3. k <= AA!Owed(Len(accepted))
          BY ONLY <1>4, <1>5, <1>8, <2>1, <5>1, <5>2
        <5>4. pos = Priming + Len(heard) /\ pos + n <= Len(pcm)
          BY ONLY <1>5, <1>7
        <5> QED
          BY ONLY <1>4, <1>5, <5>1, <5>2, <5>3, <5>4, SMTT(30)
      <4> HIDE DEF j
      <4>2. heard'[k] = AA!SampleOf(dec.fed, Priming + k)
        BY ONLY <1>6, <1>8, <4>1, Zenon
      <4>3. Len(accepted) <= Len(accepted) /\ \A i \in 1 .. Len(accepted) : accepted[i] = accepted[i]
        BY ONLY <1>4
      <4>4. AA!SampleOf(dec.fed, Priming + k) = AA!Overlapped(accepted, Priming + k)
        BY ONLY <1>4, <1>6, <4>1, <4>3, HeardOfMore
      <4> QED
        BY ONLY <4>2, <4>4, Zenon
    <3> QED
      BY <3>1, <3>2
  <2> QED
    BY ONLY <1>1, <2>1, <2>2, Zenon DEF Kept
<1>13. HandedOver'
  <2>1. /\ Len(heard') = call'.give /\ call'.give <= call'.want
        /\ pos' = Priming + call'.give
    <3>1. Priming \in Nat
      BY AacBounds
    <3> QED
      BY ONLY <1>3, <1>4, <1>5, <1>6, <1>7, <1>8, <1>9, <3>1
  <2>2. \A k \in 1 .. Len(pcm') : pcm'[k] = AA!SampleOf(dec.fed, k)'
    <3>1. \A k \in 1 .. Len(pcm') : AA!SampleOf(dec.fed, k)' = AA!SampleOf(dec.fed, k)
      BY ONLY <1>1, Zenon DEF AA!SampleOf
    <3> QED
      BY ONLY <1>1, <1>6, <3>1, Zenon
  <2>3. /\ dec'.out <= Len(dec'.fed) /\ Len(pcm') = dec'.out * AacFrame
        /\ whole' => left' <= dec'.out
    BY ONLY <1>0, <1>1, Zenon DEF HandedOver
  <2> QED
    BY ONLY <1>1, <1>6, <1>7, <1>9, <2>1, <2>2, <2>3, Zenon DEF HandedOver
<1> QED
  BY ONLY <1>10, <1>11, <1>12, <1>13, Zenon DEF AacInv

\* A recording handed over whole is whole when it was given or nothing is left.
LEMMA UnitEnds ==
  ASSUME AacInv, call.pc = "unit", ~lost, whole, call.give = call.want \/ AA!Avail = 0
  PROVE  Len(heard) = AA!Owed(Len(accepted))
<1>0. AacTypes /\ HandedOver
  BY DEF AacInv
<1>1. /\ call.give = Len(heard) /\ call.give <= call.want /\ call.want = AA!Owed(left)
      /\ Len(accepted) = left /\ Len(pcm) = dec.out * AacFrame /\ left <= dec.out
      /\ IF Len(pcm) <= Priming THEN pos = Len(pcm) /\ call.give = 0
                                ELSE pos = Priming + call.give
  BY <1>0, Zenon DEF HandedOver
<1>2. /\ Len(pcm) \in Nat /\ pos + AA!Avail = Len(pcm) /\ pos \in Nat /\ AA!Avail \in Nat
      /\ call.give \in Nat /\ call.want \in Nat /\ left \in Nat /\ dec.out \in Nat
      /\ Priming \in Nat
  BY <1>0, AacParts, AacBounds, Zenon
<1>3. CASE call.give = call.want
  BY ONLY <1>1, <1>3, Zenon
<1>4. CASE AA!Avail = 0
  <2>1. left * AacFrame <= Len(pcm) /\ left * AacFrame \in Nat
    BY ONLY <1>1, <1>2, FramesProduct, ZenonT(30)
  <2>2. left * AacFrame <= Priming + call.give
    BY ONLY <1>1, <1>2, <1>4, <2>1
  <2>3. AA!Owed(left) <= call.give
    BY ONLY <1>2, <2>2, OwedIs
  <2> QED
    BY ONLY <1>1, <1>2, <2>3
<1> QED
  BY <1>3, <1>4

LEMMA AacEndConversion == AacInv /\ AA!EndConversion => AacInv'
<1> SUFFICES ASSUME AacInv, AA!EndConversion PROVE AacInv'
  OBVIOUS
<1>0. AacTypes /\ Kept /\ HandedOver
  BY DEF AacInv
<1>1. /\ call.pc = "unit" /\ (call.give = call.want \/ AA!Avail = 0)
      /\ pcm' = <<>> /\ pos' = 0 /\ left' = 0
      /\ call' = [pc |-> "idle", want |-> 0, give |-> 0, rounds |-> 0]
      /\ backend' = backend /\ dec' = dec /\ stream' = stream /\ accepted' = accepted
      /\ lost' = lost /\ heard' = heard /\ whole' = whole
  BY Zenon DEF AA!EndConversion, AA!Idle
<1>2. ~stream'.live
  BY ONLY <1>0, <1>1, Zenon DEF HandedOver
<1>3. /\ call' \in [pc : Streaming \cup {"idle", "unit"}, want : Nat, give : Nat, rounds : Nat]
      /\ call'.pc = "idle" /\ call'.pc \notin Streaming /\ call'.pc # "unit"
  BY ONLY <1>1 DEF Streaming
<1>4. /\ Len(<<>>) = 0 /\ 0 \in 0 .. Len(<<>>) /\ 0 \in 0 .. MaxUnit
      /\ AA!Avail' = 0 /\ 1 .. 0 = {} /\ Len(heard) + 0 = Len(heard)
  <2>1. Len(heard) \in Nat /\ MaxUnit \in Nat
    BY <1>0, AacParts, AacBounds
  <2>2. AA!Avail' = Len(<<>>) - 0
    BY ONLY <1>1, Zenon DEF AA!Avail
  <2> QED
    BY ONLY <2>1, <2>2
<1>5. <<>> \in Seq(Trio)
  BY ONLY EmptySeq, Zenon
<1>6. AacTypes'
  BY ONLY <1>0, <1>1, <1>3, <1>4, <1>5, Zenon DEF AacTypes
<1>7. Opened' /\ Pulled' /\ HandedOver'
  BY ONLY <1>2, <1>3, Zenon DEF Opened, Pulled, HandedOver
<1>8. Kept'
  BY ONLY <1>0, <1>1, Zenon DEF Kept
<1>9. ~lost /\ whole => Len(heard) = AA!Owed(Len(accepted))
  BY ONLY AacInv, <1>1, UnitEnds, Zenon
<1>10. Pending'
  BY ONLY <1>0, <1>1, <1>4, <1>9, Zenon DEF Pending, Kept
<1> QED
  BY ONLY <1>6, <1>7, <1>8, <1>10, Zenon DEF AacInv

-----------------------------------------------------------------------------
LEMMA AacStep == AacInv /\ [AA!Next]_aacVars => AacInv'
<1> SUFFICES ASSUME AacInv, [AA!Next]_aacVars PROVE AacInv'
  OBVIOUS
<1>1. ASSUME AA!Next PROVE AacInv'
  BY ONLY <1>1, AacInv, AacNextStream, AacCalls, AacRefill, AacPackets, AacNoMore, AacTake,
     AacReset, AacOpenOther, AacDecodeUnit, AacFillBuffer, AacEndConversion, ZenonT(30) DEF AA!Next
<1>2. CASE UNCHANGED aacVars
  <2>1. /\ backend' = backend /\ dec' = dec /\ pcm' = pcm /\ pos' = pos /\ stream' = stream
        /\ left' = left /\ call' = call /\ accepted' = accepted /\ lost' = lost
        /\ heard' = heard /\ whole' = whole
    BY <1>2 DEF aacVars
  <2>2. AA!Avail' = AA!Avail
    BY ONLY <2>1, Zenon DEF AA!Avail
  <2>3. AacTypes' /\ Opened' /\ Pulled' /\ Kept' /\ Pending'
    BY ONLY <2>1, <2>2, AacInv, Zenon DEF AacInv, AacTypes, Opened, Pulled, Kept, Pending
  <2>4. \A k \in 1 .. Len(pcm) : AA!SampleOf(dec.fed, k)' = AA!SampleOf(dec.fed, k)
    BY ONLY <2>1, Zenon DEF AA!SampleOf
  <2>5. HandedOver'
    BY ONLY <2>1, <2>4, AacInv, Zenon DEF AacInv, HandedOver
  <2> QED
    BY ONLY <2>3, <2>5, Zenon DEF AacInv
<1> QED
  BY ONLY <1>1, <1>2, [AA!Next]_aacVars

LEMMA WhatWasHeard == AacInv => AA!RecordingHeard
<1> SUFFICES ASSUME AacInv, ~lost
             PROVE  /\ AA!IsPrefix(heard, AA!Payload)
                    /\ whole /\ AA!Avail = 0 => heard = AA!Payload
  BY Zenon DEF AA!RecordingHeard
<1> DEFINE o == AA!Owed(Len(accepted))
           p == [k \in 1 .. o |-> AA!Overlapped(accepted, Priming + k)]
<1>1. AacTypes /\ Kept /\ Pending
  BY DEF AacInv
<1>2. /\ heard \in Seq(Trio) /\ Len(heard) \in Nat /\ o \in Nat /\ Len(heard) <= o
      /\ \A k \in 1 .. Len(heard) : heard[k] = AA!Overlapped(accepted, Priming + k)
  <2>1. heard \in Seq(Trio) /\ Len(heard) \in Nat /\ Len(accepted) \in Nat
    BY <1>1, AacParts, Zenon DEF AacTypes
  <2>2. Len(heard) <= o /\ \A k \in 1 .. Len(heard) : heard[k] = AA!Overlapped(accepted, Priming + k)
    BY <1>1, Zenon DEF Kept
  <2> QED
    BY <2>1, <2>2, OwedIs
<1>3. AA!Payload = p
  BY Zenon DEF AA!Payload
<1>4. \A k \in 1 .. o : p[k] = AA!Overlapped(accepted, Priming + k)
  OBVIOUS
<1>5. DOMAIN p = 1 .. o
  OBVIOUS
<1>6. p \in Seq(Trio) /\ Len(p) = o
  <2>1. ASSUME NEW k \in 1 .. o PROVE AA!Overlapped(accepted, Priming + k) \in Trio
    <3>1. accepted \in Seq(Nat) /\ Len(accepted) \in Nat /\ Priming \in Nat
      BY <1>1, AacParts, AacBounds, Zenon DEF AacTypes
    <3>2. k \in Nat \ {0} /\ k <= o
      BY <1>2
    <3>3. Priming + k <= Len(accepted) * AacFrame
      BY ONLY <3>1, <3>2, OwedIs
    <3>4. Priming + k \in 1 .. Len(accepted) * AacFrame
      <4>1. Len(accepted) * AacFrame \in Nat
        BY ONLY <3>1, AacBounds, FramesProduct
      <4> QED
        BY ONLY <3>1, <3>2, <3>3, <4>1
    <3>5. Len(accepted) <= Len(accepted) /\ \A i \in 1 .. Len(accepted) : accepted[i] = accepted[i]
      BY ONLY <3>1
    <3> QED
      BY ONLY <3>1, <3>4, <3>5, SameSamples
  <2> HIDE DEF o
  <2> QED
    BY ONLY <1>2, <2>1
<1> HIDE DEF o, p
<1>7. AA!IsPrefix(heard, p)
  <2>1. SubSeq(p, 1, Len(heard)) = heard
    <3> DEFINE l == Len(heard)
    <3>1. \A k \in 1 .. l : heard[k] = p[k]
      BY ONLY <1>2, <1>4
    <3>2. SubSeq(p, 1, l) = [k \in 1 .. l |-> p[k]]
      BY ONLY <1>2, <1>6
    <3>3. heard = [k \in 1 .. l |-> heard[k]]
      BY ONLY <1>2
    <3> HIDE DEF l
    <3>4. [k \in 1 .. l |-> p[k]] = [k \in 1 .. l |-> heard[k]]
      BY ONLY <3>1, Zenon
    <3> QED
      BY ONLY <3>2, <3>3, <3>4, Zenon DEF l
  <2>2. SubSeq(heard, 1, Len(heard)) = heard
    BY ONLY <1>2
  <2> QED
    BY ONLY <1>2, <1>6, <2>1, <2>2 DEF AA!IsPrefix
<1>8. ASSUME whole, AA!Avail = 0 PROVE heard = p
  <2>1. Len(heard) = o
    <3>1. CASE call.pc = "unit"
      BY ONLY AacInv, ~lost, <1>8, <3>1, UnitEnds, Zenon DEF o
    <3>2. CASE call.pc # "unit"
      <4>1. Len(heard) + AA!Avail = o
        BY ONLY <1>1, ~lost, <1>8, <3>2, Zenon DEF Pending, o
      <4> QED
        BY ONLY <1>2, <1>8, <4>1
    <3> QED
      BY <3>1, <3>2
  <2>2. /\ \A k \in 1 .. Len(heard) : heard[k] = p[k]
        /\ Len(heard) = Len(p)
    BY ONLY <1>2, <1>4, <1>6, <2>1
  <2> QED
    BY ONLY <1>2, <1>6, <2>2, SeqEqual
<1> QED
  BY ONLY <1>3, <1>7, <1>8, Zenon

\* The engine is only ever given the recording it plays, each sample once, in order
\* and without a seam, and all of it once its stream was closed.
THEOREM RecordingsStayWhole == AA!Init /\ [][AA!Next]_aacVars => []AA!RecordingHeard
<1>1. AA!Init => AacInv
  BY AacInit
<1>2. AacInv /\ [AA!Next]_aacVars => AacInv'
  BY AacStep
<1>3. AacInv => AA!RecordingHeard
  BY WhatWasHeard
<1> QED
  BY <1>1, <1>2, <1>3, PTL

-----------------------------------------------------------------------------
(* What the stand-ins guarantee together.                                  *)

\* What somebody still refers to is not freed and what nobody does is given back
\* once, of the objects, the heap blocks, SQLite's handles and the compiled
\* patterns together, whatever the steps of the four; of the variables that blocks
\* capture it says nothing (tiger_host_cf.c, tiger_host_gcd.c,
\* tiger_host_sqlite.c and tiger_host_regex.c).
THEOREM CountsMatchReferences ==
  /\ CF!Init /\ [][CF!Next]_cfVars
  /\ BL!Init /\ [][BL!Next]_blockVars
  /\ SQ!Init /\ [][SQ!Next]_sqlVars
  /\ RT!Init /\ [][RT!Next]_tableVars
  => []ReferencesHeld
<1>1. CF!ObjectsHeld /\ BL!BlocksBalance /\ SQ!HandlesBoxed /\ RT!PatternsKept => ReferencesHeld
  BY DEF ReferencesHeld
<1> QED
  BY <1>1, ObjectsStayHeld, BlocksStayBalanced, HandlesStayBoxed, PatternsStayKept, PTL

\* The engine is given its recordings whole, the client its markers where they
\* were set and each Android request its own audio, the last as long as the engine
\* announces the end of its speech behind the last of it, whatever the steps of
\* the three (tiger_host_aac.c, tiger_host_markers.c and tiger_host_jni.c).
THEOREM WhatIsMeantIsHeard ==
  /\ AA!Init /\ [][AA!Next]_aacVars
  /\ MK!Init /\ [][MK!Next]_markerVars
  /\ AN!Init /\ [][AN!Next]_androidVars
  => []SpeechHeard
<1>1. AA!RecordingHeard /\ MK!MarkersPlaced /\ AN!AndroidHeard => SpeechHeard
  BY DEF SpeechHeard
<1> QED
  BY <1>1, RecordingsStayWhole, MarkersStayPlaced, ClientsHearTheirOwn, PTL
=============================================================================
