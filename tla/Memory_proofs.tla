---------------------------- MODULE Memory_proofs ----------------------------
(***************************************************************************)
(* What the memory the host and the guest share guarantees for every size  *)
(* of reservation, arena, block and stack, and every number of threads and *)
(* emulators: the regions the host reserves (PlatMemory), the arena guest   *)
(* blocks are carved from and the maps every emulator holds (GuestMemory).  *)
(* One inductive invariant each, and the lemmas about the heap as a value   *)
(* they rest on.                                                            *)
(***************************************************************************)
EXTENDS StandIns, FiniteSetTheorems, SequenceTheorems, WellFoundedInduction, TLAPS

-----------------------------------------------------------------------------
(* The reservations and views of the POSIX host (PlatMemory).              *)

Region == [base : Nat, len : Nat \ {0}]
Given == [region : Region, kind : PM!Kinds, known : BOOLEAN]
Called == [step : {"idle", "ask", "map", "check", "raise", "bump", "record"},
           kind : PM!Kinds, want : Nat, ask : Nat, size : Nat \ {0},
           got : [base : Nat, len : Nat], tries : 0 .. MaxTries]
PlatTypes ==
  /\ pages \in SUBSET Region /\ given \in SUBSET Given /\ forgotten \in SUBSET Region
  /\ hint \in Nat /\ at \in [Threads -> Called]

\* What a call has in hand is what it asked for; an address it may ask for is in
\* reach, and from the check on so is the region.
Hands(t) == at[t].step \in {"check", "bump", "record"}
Handed ==
  \A t \in Threads :
    /\ at[t].want # Top => at[t].want + at[t].size <= Reach
    /\ Hands(t) => at[t].got \in Region /\ at[t].got.len = at[t].size
    /\ at[t].step \in {"bump", "record"} => PM!Reached(at[t].got)

\* The kernel's regions share no page, and each is in one place: with a caller,
\* in one call's hand, or forgotten.
Apart == \A m, n \in pages : m # n => PM!Pages(m) \cap PM!Pages(n) = {}
OnePlace ==
  /\ \A g, h \in given : g.region = h.region => g = h
  /\ \A t, u \in Threads : Hands(t) /\ Hands(u) /\ at[t].got = at[u].got => t = u
  /\ \A h \in given : h.region \notin forgotten
  /\ \A t \in Threads : Hands(t) =>
       /\ at[t].got \notin forgotten
       /\ \A h \in given : h.region # at[t].got
Everywhere ==
  /\ \A h \in given : PM!Reached(h.region) /\ h.region \in pages
  /\ \A t \in Threads : Hands(t) => at[t].got \in pages
  /\ forgotten \subseteq pages
  /\ \A m \in pages : \/ \E h \in given : h.region = m
                      \/ \E t \in Threads : Hands(t) /\ at[t].got = m
                      \/ m \in forgotten
Tabled ==
  /\ table \in [PM!Kinds -> SUBSET Region]
  /\ \A k \in PM!Kinds : \A r \in Region :
       r \in table[k] <=> \E g \in given : g.kind = k /\ g.known /\ g.region = r

PlatInv == PlatTypes /\ Handed /\ Apart /\ OnePlace /\ Everywhere /\ Tabled

LEMMA PlatInit == PM!Init => PlatInv
<1> SUFFICES ASSUME PM!Init PROVE PlatInv
  OBVIOUS
<1> USE PlatAssumption DEF PM!Init
<1>1. PM!Idle \in Called /\ PM!Idle.step = "idle" /\ PM!Idle.want = Top
  BY DEF PM!Idle, PM!None, PM!Kinds, Called
<1>2. \A t \in Threads : at[t] = PM!Idle
  OBVIOUS
<1>3. PlatTypes
  BY <1>1 DEF PlatTypes
<1>4. Handed /\ OnePlace /\ Everywhere
  BY <1>1, <1>2 DEF Handed, OnePlace, Everywhere, Hands
<1>5. Apart /\ Tabled
  BY DEF Apart, Tabled
<1> QED
  BY <1>3, <1>4, <1>5 DEF PlatInv

\* Two regions that share no page are not the same one.
LEMMA RegionsHavePages ==
  ASSUME NEW m \in Region
  PROVE  m.base \in PM!Pages(m)
BY DEF Region, PM!Pages

\* A call moves on, with what it has in hand or without anything.
LEMMA CallMoves ==
  ASSUME PlatInv, NEW t \in Threads, NEW c \in Called, at' = [at EXCEPT ![t] = c],
         UNCHANGED << pages, table, given, forgotten >>, hint' \in Nat,
         c.want # Top => c.want + c.size <= Reach,
         Hands(t) => c.step \in {"check", "bump", "record"} /\ c.got = at[t].got /\ c.size = at[t].size,
         ~Hands(t) => ~(c.step \in {"check", "bump", "record"}),
         c.step \in {"bump", "record"} => PM!Reached(c.got)
  PROVE  PlatInv'
<1> USE DEF PlatInv
<1>1. /\ at'[t] = c /\ \A u \in Threads : u # t => at'[u] = at[u]
      /\ at' \in [Threads -> Called]
  BY DEF PlatTypes
<1>2. \A u \in Threads : Hands(u)' = Hands(u) /\ (Hands(u) => at'[u].got = at[u].got)
  BY <1>1 DEF Hands
<1>3. PlatTypes'
  BY <1>1 DEF PlatTypes
<1>4. Handed'
  BY <1>1, <1>2 DEF Handed, Hands, PM!Reached
<1>5. OnePlace' /\ Everywhere'
  BY <1>2 DEF OnePlace, Everywhere, PM!Reached
<1>6. Apart' /\ Tabled'
  BY DEF Apart, Tabled, PM!Pages
<1> QED
  BY <1>3, <1>4, <1>5, <1>6

LEMMA CallBegins ==
  ASSUME PlatInv, NEW t \in Threads, NEW k \in PM!Kinds, NEW w \in {PM!None} \cup AskedAt,
         NEW s \in Sizes, w = PM!None \/ w + s <= Reach, PM!Call(t, k, w, s)
  PROVE  PlatInv'
<1> DEFINE c == [PM!Idle EXCEPT !.step = "ask", !.kind = k, !.want = w, !.size = s]
<1>1. c \in Called /\ c.step = "ask" /\ c.want = w /\ c.size = s
  <2>1. PM!Idle \in Called
    BY PlatAssumption DEF PM!Idle, PM!None, PM!Kinds, Called
  <2>2. w \in Nat /\ s \in Nat \ {0}
    BY PlatAssumption DEF PM!None
  <2> QED
    BY <2>1, <2>2 DEF Called
<1>2. at' = [at EXCEPT ![t] = c] /\ at[t].step = "idle"
  BY DEF PM!Call
<1> HIDE DEF c
<1>3. UNCHANGED << pages, table, given, forgotten >> /\ hint' \in Nat
  BY DEF PM!Call, PlatInv, PlatTypes
<1> QED
  BY <1>1, <1>2, <1>3, CallMoves DEF Hands, PM!None

\* What the handlers do to a call, as a record of its own.
LEMMA CallAsks == ASSUME PlatInv, NEW t \in Threads, PM!Ask(t) PROVE PlatInv'
<1> DEFINE c == [at[t] EXCEPT !.step = "map", !.ask = IF at[t].want = PM!None THEN hint ELSE at[t].want]
<1>1. at[t] \in Called /\ hint \in Nat
  BY DEF PlatInv, PlatTypes
<1>2. c \in Called /\ c.step = "map" /\ c.want = at[t].want /\ c.size = at[t].size
  BY <1>1 DEF Called
<1>3. at' = [at EXCEPT ![t] = c] /\ at[t].step = "ask"
  BY <1>1 DEF PM!Ask, PlatInv, PlatTypes, Called
<1> HIDE DEF c
<1>4. UNCHANGED << pages, table, given, forgotten >> /\ hint' \in Nat
  BY <1>1 DEF PM!Ask
<1>5. at[t].want # Top => at[t].want + at[t].size <= Reach
  BY DEF PlatInv, Handed
<1> QED
  BY <1>2, <1>3, <1>4, <1>5, CallMoves DEF Hands

LEMMA CallRaises == ASSUME PlatInv, NEW t \in Threads, PM!Raise(t) PROVE PlatInv'
<1>1. at[t] \in Called /\ hint \in Nat /\ PM!Raised(t) \in Nat
  BY PlatAssumption DEF PlatInv, PlatTypes, PM!Raised, Called
<1>2. PICK c \in { [at[t] EXCEPT !.step = "ask"],
                   [at[t] EXCEPT !.step = "map", !.ask = PM!Raised(t)] } :
        at' = [at EXCEPT ![t] = c]
  BY <1>1 DEF PM!Raise, PlatInv, PlatTypes, Called
<1>3. c \in Called /\ c.step \in {"ask", "map"} /\ c.want = at[t].want /\ c.size = at[t].size
  BY <1>1 DEF Called
<1>4. /\ UNCHANGED << pages, table, given, forgotten >> /\ hint' \in Nat
      /\ at[t].step = "raise"
  BY <1>1 DEF PM!Raise
<1>5. at[t].want # Top => at[t].want + at[t].size <= Reach
  BY DEF PlatInv, Handed
<1> QED
  BY <1>2, <1>3, <1>4, <1>5, CallMoves DEF Hands

LEMMA CallBumps == ASSUME PlatInv, NEW t \in Threads, PM!Bump(t) PROVE PlatInv'
<1> DEFINE c == [at[t] EXCEPT !.step = "record"]
<1>1. at[t] \in Called /\ hint \in Nat /\ at[t].step = "bump" /\ at[t].got \in Region
  BY DEF PlatInv, PlatTypes, Handed, Hands, PM!Bump
<1>2. c \in Called /\ c.step = "record" /\ c.want = at[t].want /\ c.size = at[t].size
      /\ c.got = at[t].got
  BY <1>1 DEF Called
<1>3. at' = [at EXCEPT ![t] = c]
  BY <1>1 DEF PM!Bump, PlatInv, PlatTypes, Called
<1> HIDE DEF c
<1>4. UNCHANGED << pages, table, given, forgotten >> /\ hint' \in Nat
  BY <1>1 DEF PM!Bump, Region
<1>5. /\ at[t].want # Top => at[t].want + at[t].size <= Reach
      /\ PM!Reached(at[t].got)
  BY <1>1 DEF PlatInv, Handed
<1> QED
  BY <1>1, <1>2, <1>3, <1>4, <1>5, CallMoves DEF Hands

\* The kernel maps a region where there is room, and the call has it in hand.
LEMMA CallMaps == ASSUME PlatInv, NEW t \in Threads, PM!Map(t) PROVE PlatInv'
<1> USE DEF PlatInv
<1>1. at[t] \in Called /\ at[t].step = "map" /\ hint \in Nat /\ PM!Idle \in Called
  BY PlatAssumption DEF PlatTypes, PM!Map, PM!Idle, PM!None, PM!Kinds, Called
<1>2. at[t].want # Top => at[t].want + at[t].size <= Reach
  BY DEF Handed
<1>3. CASE PM!Fail(t) /\ UNCHANGED << pages, hint, table, given, forgotten >>
  <2>1. at' = [at EXCEPT ![t] = PM!Idle] /\ PM!Idle.step = "idle" /\ PM!Idle.want = Top
    BY <1>3 DEF PM!Fail, PM!Idle, PM!None
  <2> QED
    BY <1>1, <1>3, <2>1, CallMoves DEF Hands
<1>4. CASE ~(PM!Fail(t) /\ UNCHANGED << pages, hint, table, given, forgotten >>)
  <2>1. PICK b \in 0 .. Top - 1 :
          LET r == PM!Range(b, at[t].size)
          IN  /\ PM!Clear(r) /\ pages' = pages \cup {r}
              /\ at' = [at EXCEPT ![t].step = "check", ![t].got = r]
    BY <1>4 DEF PM!Map
  <2> DEFINE r == PM!Range(b, at[t].size)
             c == [at[t] EXCEPT !.step = "check", !.got = r]
  <2>2. r \in Region /\ r.len = at[t].size
    BY <1>1, PlatAssumption DEF PM!Range, Region, Called
  <2>3. c \in Called /\ c.step = "check" /\ c.want = at[t].want /\ c.size = at[t].size /\ c.got = r
    BY <1>1, <2>2 DEF Called, Region
  <2>4. at' = [at EXCEPT ![t] = c]
    BY <1>1, <2>1 DEF PlatTypes, Called
  <2>5. PM!Clear(r) /\ pages' = pages \cup {r}
    BY <2>1
  <2> HIDE DEF r, c
  <2>6. UNCHANGED << hint, table, given, forgotten >>
    BY <1>4 DEF PM!Map
  <2>7. r \notin pages
    BY <2>2, <2>5, RegionsHavePages DEF PM!Clear
  <2>8. /\ at'[t] = c /\ \A u \in Threads : u # t => at'[u] = at[u]
        /\ at' \in [Threads -> Called]
    BY <2>3, <2>4 DEF PlatTypes
  <2>9. /\ Hands(t)' /\ at'[t].got = r /\ ~Hands(t)
        /\ \A u \in Threads : u # t => Hands(u)' = Hands(u) /\ at'[u].got = at[u].got
    BY <1>1, <2>3, <2>8 DEF Hands
  <2>10. PlatTypes'
    BY <2>2, <2>5, <2>6, <2>8 DEF PlatTypes
  <2>11. Handed'
    BY <1>2, <2>2, <2>3, <2>8, <2>9 DEF Handed, PM!Reached
  <2>12. Apart'
    BY <2>5 DEF Apart, PM!Clear, PM!Pages
  <2>13. OnePlace'
    BY <2>6, <2>7, <2>9 DEF OnePlace, Everywhere
  <2>14. Everywhere'
    BY <2>5, <2>6, <2>9 DEF Everywhere, PM!Reached
  <2>15. Tabled'
    BY <2>6 DEF Tabled
  <2> QED
    BY <2>10, <2>11, <2>12, <2>13, <2>14, <2>15
<1> QED
  BY <1>3, <1>4 DEF PM!Map

\* A call lets go of its region, which is handed back, or forgets it.
LEMMA CallLetsGo ==
  ASSUME PlatInv, NEW t \in Threads, NEW c \in Called, at' = [at EXCEPT ![t] = c],
         Hands(t), c.step \in {"idle", "raise"}, pages' = pages \ {at[t].got},
         c.want # Top => c.want + c.size <= Reach,
         UNCHANGED << hint, table, given, forgotten >>
  PROVE  PlatInv'
<1> USE DEF PlatInv
<1>1. /\ at'[t] = c /\ \A u \in Threads : u # t => at'[u] = at[u]
      /\ at' \in [Threads -> Called]
  BY DEF PlatTypes
<1>2. /\ ~Hands(t)'
      /\ \A u \in Threads : u # t => Hands(u)' = Hands(u) /\ at'[u].got = at[u].got
  BY <1>1 DEF Hands
<1>3. PlatTypes'
  BY <1>1 DEF PlatTypes
<1>4. Handed'
  BY <1>1, <1>2 DEF Handed, Hands, PM!Reached
<1>5. OnePlace' /\ Everywhere'
  BY <1>1, <1>2 DEF OnePlace, Everywhere, PM!Reached
<1>6. Apart' /\ Tabled'
  BY DEF Apart, Tabled, PM!Pages
<1> QED
  BY <1>3, <1>4, <1>5, <1>6

LEMMA CallChecks == ASSUME PlatInv, NEW t \in Threads, PM!Check(t) PROVE PlatInv'
<1>1. /\ at[t] \in Called /\ at[t].step = "check" /\ hint \in Nat
      /\ at[t].want # Top => at[t].want + at[t].size <= Reach
      /\ at[t].got \in Region /\ at[t].got.len = at[t].size
      /\ UNCHANGED << hint, table, given, forgotten >>
  BY DEF PM!Check, PlatInv, PlatTypes, Handed, Hands
<1>2. PM!Idle \in Called /\ PM!Idle.step = "idle" /\ PM!Idle.want = Top
  BY PlatAssumption DEF PM!Idle, PM!None, PM!Kinds, Called
<1>3. CASE PM!Refused(t) \/ PM!High(t)
  <2>1. pages' = pages \ {at[t].got}
    BY <1>3 DEF PM!Check
  <2>2. CASE at' = [at EXCEPT ![t] = PM!Idle]
    BY <1>1, <1>2, <2>1, <2>2, CallLetsGo DEF Hands
  <2>3. CASE at' = [at EXCEPT ![t].step = "raise", ![t].tries = @ + 1] /\ at[t].tries < MaxTries
    <3> DEFINE c == [at[t] EXCEPT !.step = "raise", !.tries = @ + 1]
    <3>0. at[t].tries + 1 \in 0 .. MaxTries
      BY <1>1, <2>3, PlatAssumption DEF Called
    <3>1. c \in Called /\ c.step = "raise" /\ c.want = at[t].want /\ c.size = at[t].size
      BY <1>1, <3>0 DEF Called
    <3>2. at' = [at EXCEPT ![t] = c]
      BY <1>1, <2>3 DEF PlatInv, PlatTypes, Called
    <3> HIDE DEF c
    <3> QED
      BY <1>1, <2>1, <3>1, <3>2, CallLetsGo DEF Hands
  <2>4. at[t].tries = MaxTries \/ at[t].tries < MaxTries
    BY <1>1, PlatAssumption DEF Called
  <2> QED
    BY <1>3, <2>2, <2>3, <2>4 DEF PM!Check, PM!Fail
<1>4. CASE ~(PM!Refused(t) \/ PM!High(t))
  <2>1. pages' = pages
    BY <1>4 DEF PM!Check
  <2>2. PM!Reached(at[t].got)
    BY <1>1, <1>4 DEF PM!Refused, PM!High, PM!Reached, PM!None
  <2>3. PICK st1 \in {"record", "bump"} : at' = [at EXCEPT ![t].step = st1]
    BY <1>4 DEF PM!Check
  <2> DEFINE c == [at[t] EXCEPT !.step = st1]
  <2>4. c \in Called /\ c.step = st1 /\ c.want = at[t].want /\ c.size = at[t].size /\ c.got = at[t].got
    BY <1>1 DEF Called
  <2>5. at' = [at EXCEPT ![t] = c]
    BY <1>1, <2>3 DEF PlatInv, PlatTypes, Called
  <2> HIDE DEF c
  <2> QED
    BY <1>1, <2>1, <2>2, <2>4, <2>5, CallMoves DEF Hands
<1> QED
  BY <1>3, <1>4

\* The region is the caller's, whether or not a table has room for it.
LEMMA CallRecords == ASSUME PlatInv, NEW t \in Threads, PM!Record(t) PROVE PlatInv'
<1> USE DEF PlatInv
<1> DEFINE room == Cardinality(table[at[t].kind]) < MaxTable
           r == at[t].got
           g0 == [region |-> r, kind |-> at[t].kind, known |-> room]
<1>1. /\ at[t] \in Called /\ at[t].step = "record" /\ Hands(t) /\ r \in Region /\ PM!Reached(r)
      /\ at[t].kind \in PM!Kinds
  BY DEF PM!Record, PlatTypes, Handed, Hands, Called
<1>2. PM!Idle \in Called /\ PM!Idle.step = "idle" /\ PM!Idle.want = Top
  BY PlatAssumption DEF PM!Idle, PM!None, PM!Kinds, Called
<1>3. /\ given' = given \cup {g0}
      /\ table' = IF room THEN [table EXCEPT ![at[t].kind] = @ \cup {r}] ELSE table
      /\ UNCHANGED << pages, hint, forgotten >>
  BY DEF PM!Record, PM!Cardinality, Cardinality
<1>4. g0 \in Given /\ g0.region = r /\ g0.kind = at[t].kind /\ g0.known = room
  BY <1>1 DEF Given
<1>5. \A h \in given : h.region # r /\ h.region \in Region
  BY <1>1 DEF OnePlace, PlatTypes, Given
<1>6. r \notin forgotten /\ r \in pages
  BY <1>1 DEF OnePlace, Everywhere
<1> HIDE DEF g0
<1>7. /\ at'[t] = PM!Idle /\ \A u \in Threads : u # t => at'[u] = at[u]
      /\ at' \in [Threads -> Called]
  BY <1>2 DEF PlatTypes, PM!Record, PM!Fail
<1>8. /\ ~Hands(t)'
      /\ \A u \in Threads : u # t => Hands(u)' = Hands(u) /\ at'[u].got = at[u].got
  BY <1>2, <1>7 DEF Hands
<1>9. PlatTypes'
  BY <1>3, <1>4, <1>7 DEF PlatTypes
<1>10. Handed'
  BY <1>2, <1>7, <1>8 DEF Handed, Hands, PM!Reached
<1>11. OnePlace'
  <2>1. \A u \in Threads : Hands(u)' => u # t /\ Hands(u) /\ at'[u].got = at[u].got /\ at[u].got # r
    BY <1>1, <1>8 DEF OnePlace
  <2> QED
    BY <1>3, <1>4, <1>5, <1>6, <2>1 DEF OnePlace
<1>12. Everywhere'
  BY <1>1, <1>3, <1>4, <1>6, <1>8 DEF Everywhere, PM!Reached
<1>13. Apart'
  BY <1>3 DEF Apart, PM!Pages
<1>14. Tabled'
  <2>1. table' \in [PM!Kinds -> SUBSET Region]
    BY <1>1, <1>3 DEF Tabled
  <2>2. ASSUME NEW k \in PM!Kinds, NEW q \in Region
        PROVE  q \in table'[k] <=> \E g \in given' : g.kind = k /\ g.known /\ g.region = q
    <3>1. q \in table'[k] <=> q \in table[k] \/ (room /\ k = at[t].kind /\ q = r)
      BY <1>1, <1>3 DEF Tabled
    <3>2. q \in table[k] <=> \E g \in given : g.kind = k /\ g.known /\ g.region = q
      BY DEF Tabled
    <3> HIDE DEF r, room
    <3> QED
      BY <1>3, <1>4, <3>1, <3>2
  <2> QED
    BY <2>1, <2>2 DEF Tabled
<1> QED
  BY <1>9, <1>10, <1>11, <1>12, <1>13, <1>14

\* What is returned goes back to the kernel if its table knows it, and by its
\* base it knows no other.
LEMMA RegionReturns == ASSUME PlatInv, NEW h \in given, PM!Return(h) PROVE PlatInv'
<1> USE DEF PlatInv
<1> DEFINE mine == {r \in table[h.kind] : r.base = h.region.base}
<1>1. h \in Given /\ h.region \in Region /\ h.kind \in PM!Kinds
  BY DEF PlatTypes, Given
<1>2. /\ given' = given \ {h} /\ table' = [table EXCEPT ![h.kind] = @ \ mine]
      /\ pages' = pages \ mine
      /\ forgotten' = IF mine = {} THEN forgotten \cup {h.region} ELSE forgotten
      /\ UNCHANGED << hint, at >>
  BY DEF PM!Return
<1>3. mine = IF h.known THEN {h.region} ELSE {}
  <2>1. ASSUME NEW r \in mine PROVE r = h.region /\ h.known
    <3>1. PICK g \in given : g.kind = h.kind /\ g.known /\ g.region = r
      BY <1>1 DEF Tabled
    <3>2. r \in pages /\ r \in Region /\ h.region \in pages
      BY <3>1 DEF Everywhere, PlatTypes
    <3>3. r = h.region
      BY <1>1, <3>2, RegionsHavePages DEF Apart
    <3> QED
      BY <3>1, <3>3 DEF OnePlace
  <2>2. h.known => h.region \in mine
    BY <1>1 DEF Tabled
  <2> QED
    BY <2>1, <2>2
<1> HIDE DEF mine
<1>4. /\ \A g \in given : g # h => g.region # h.region
      /\ \A t \in Threads : Hands(t)' = Hands(t) /\ (Hands(t) => at[t].got # h.region)
      /\ h.region \notin forgotten
  BY <1>2 DEF OnePlace, Hands
<1>5. PlatTypes'
  BY <1>1, <1>2, <1>3 DEF PlatTypes
<1>6. Handed'
  BY <1>2 DEF Handed, Hands, PM!Reached
<1>7. OnePlace'
  BY <1>2, <1>4 DEF OnePlace
<1>8. Everywhere'
  BY <1>2, <1>3, <1>4 DEF Everywhere, PM!Reached
<1>9. Apart'
  BY <1>2 DEF Apart, PM!Pages
<1>10. Tabled'
  BY <1>1, <1>2, <1>3, <1>4 DEF Tabled
<1> QED
  BY <1>5, <1>6, <1>7, <1>8, <1>9, <1>10

LEMMA PlatStep == PlatInv /\ [PM!Next]_platVars => PlatInv'
<1> SUFFICES ASSUME PlatInv, [PM!Next]_platVars PROVE PlatInv'
  OBVIOUS
<1>1. CASE UNCHANGED platVars
  BY <1>1 DEF platVars, PlatInv, PlatTypes, Handed, Hands, Apart, OnePlace, Everywhere, Tabled,
              PM!Reached, PM!Pages
<1>2. CASE PM!Next
  BY <1>2, CallBegins, CallAsks, CallMaps, CallChecks, CallRaises, CallBumps, CallRecords,
     RegionReturns DEF PM!Next
<1> QED
  BY <1>1, <1>2

\* Every region a caller holds is one the guest can name and is the caller's
\* alone, and the host maps nothing that nobody has: whatever addresses the kernel
\* answers with, however often a call tries again, and for every number of calls
\* and size of the tables (VirtualAlloc, MapViewOfFile, VirtualFree,
\* UnmapViewOfFile).
THEOREM HostMemoryReached == PM!Init /\ [][PM!Next]_platVars => []PM!MemoryReached
<1>1. PlatInv => PM!MemoryReached
  <2> SUFFICES ASSUME PlatInv PROVE PM!MemoryReached
    OBVIOUS
  <2> USE DEF PlatInv
  <2>1. \A h \in given : PM!Reached(h.region) /\ h.region \in pages
    BY DEF Everywhere
  <2>2. \A g, h \in given : g # h => PM!Pages(g.region) \cap PM!Pages(h.region) = {}
    BY DEF Everywhere, Apart, OnePlace
  <2>3. pages = {h.region : h \in given} \cup PM!InHand \cup forgotten
    BY DEF Everywhere, Hands, PM!InHand
  <2>4. ASSUME NEW k \in PM!Kinds
        PROVE  table[k] = {h.region : h \in {g \in given : g.kind = k /\ g.known}}
    BY DEF Tabled, PlatTypes, Given
  <2> QED
    BY <2>1, <2>2, <2>3, <2>4 DEF PM!MemoryReached
<1> QED
  BY <1>1, PlatInit, PlatStep, PTL

-----------------------------------------------------------------------------
(* The arena of guest blocks (GuestMemory), first as a heap by itself.     *)

LEMMA ArenaBounds ==
  /\ Hdr \in Nat \ {0} /\ Align \in Nat \ {0} /\ Split \in Nat /\ StackSize \in Nat
  /\ GM!Base \in Nat \ {0} /\ GM!End \in Nat /\ Needs \subseteq Nat
BY GuestAssumption DEF GM!Base, GM!End

LEMMA RoundedUp ==
  ASSUME NEW n \in Nat
  PROVE  GM!Rounded(n) \in Nat /\ GM!Rounded(n) >= n
BY ArenaBounds DEF GM!Rounded

\* A set of places has a first.
LEMMA FirstPlace ==
  ASSUME NEW S \in SUBSET Nat, S # {}
  PROVE  \E i \in S : \A j \in S : i <= j
<1>1. PICK i \in S : \A j \in S : ~ (<<j, i>> \in OpToRel(<, Nat))
  BY NatLessThanWellFounded, WFMin
<1>2. ASSUME NEW j \in S PROVE i <= j
  <2>1. j < i => << j, i >> \in OpToRel(<, Nat)
    BY DEF OpToRel
  <2>2. ~ (j < i)
    BY <1>1, <2>1, Zenon
  <2> QED
    BY <2>2
<1> QED
  BY <1>2

LEMMA Appended ==
  ASSUME NEW S, NEW u \in Seq(S), NEW v \in Seq(S)
  PROVE  /\ u \o v \in Seq(S) /\ Len(u \o v) = Len(u) + Len(v)
         /\ \A j \in 1 .. Len(u) + Len(v) :
              (u \o v)[j] = IF j <= Len(u) THEN u[j] ELSE v[j - Len(u)]
OBVIOUS

LEMMA Without ==
  ASSUME NEW S, NEW s \in Seq(S), NEW i \in 1 .. Len(s)
  PROVE  /\ GM!RemoveAt(s, i) \in Seq(S) /\ Len(GM!RemoveAt(s, i)) = Len(s) - 1
         /\ \A j \in 1 .. Len(s) - 1 : GM!RemoveAt(s, i)[j] = IF j < i THEN s[j] ELSE s[j + 1]
<1> DEFINE u == SubSeq(s, 1, i - 1)
           v == SubSeq(s, i + 1, Len(s))
<1>1. /\ u \in Seq(S) /\ Len(u) = i - 1 /\ \A j \in 1 .. i - 1 : u[j] = s[j]
  OBVIOUS
<1>2. /\ v \in Seq(S) /\ Len(v) = Len(s) - i /\ \A j \in 1 .. Len(s) - i : v[j] = s[j + i]
  OBVIOUS
<1>3. GM!RemoveAt(s, i) = u \o v
  BY DEF GM!RemoveAt
<1> HIDE DEF u, v
<1>4. /\ u \o v \in Seq(S) /\ Len(u \o v) = Len(s) - 1
      /\ \A j \in 1 .. Len(s) - 1 : (u \o v)[j] = IF j < i THEN u[j] ELSE v[j - (i - 1)]
  <2>1. PICK m \in Nat : m = i - 1
    OBVIOUS
  <2>2. PICK n \in Nat : n = Len(s) - i
    <3>1. Len(s) \in Nat
      OBVIOUS
    <3> QED
      BY ONLY <3>1, i \in 1 .. Len(s)
  <2>3. u \in Seq(S) /\ v \in Seq(S) /\ Len(u) = m /\ Len(v) = n
    BY <1>1, <1>2, <2>1, <2>2
  <2>4. /\ u \o v \in Seq(S) /\ Len(u \o v) = m + n
        /\ \A j \in 1 .. m + n : (u \o v)[j] = IF j <= m THEN u[j] ELSE v[j - m]
    BY ONLY <2>3, Appended
  <2>5. m + n = Len(s) - 1 /\ i - 1 = m /\ \A j \in Nat : j < i <=> j <= m
    <3>1. Len(s) \in Nat
      OBVIOUS
    <3> QED
      BY ONLY <2>1, <2>2, <3>1, i \in 1 .. Len(s)
  <2> QED
    BY ONLY <2>4, <2>5
<1>5. ASSUME NEW j \in 1 .. Len(s) - 1, ~(j < i) PROVE v[j - (i - 1)] = s[j + 1]
  <2>1. j - (i - 1) \in 1 .. Len(s) - i /\ j - (i - 1) + i = j + 1
    BY <1>5
  <2> QED
    BY <1>2, <2>1
<1> QED
  BY <1>1, <1>3, <1>4, <1>5

IsInserted(s, b, e, r) ==
  /\ r \in Seq(Nat) /\ Len(r) = Len(s) + 1
  /\ \A j \in 1 .. Len(s) + 1 :
       r[j] = IF j < b + 1 THEN s[j] ELSE IF j = b + 1 THEN e ELSE s[j - 1]

LEMMA Inserted ==
  ASSUME NEW s \in Seq(Nat), NEW b \in 0 .. Len(s), NEW e \in Nat
  PROVE  IsInserted(s, b, e, GM!InsertAt(s, b + 1, e))
<1> DEFINE u == SubSeq(s, 1, b)
           v == SubSeq(s, b + 1, Len(s))
           w == u \o << e >>
<1>1. /\ u \in Seq(Nat) /\ Len(u) = b /\ \A j \in 1 .. b : u[j] = s[j]
  OBVIOUS
<1>2. /\ v \in Seq(Nat) /\ Len(v) = Len(s) - b
      /\ \A j \in 1 .. Len(s) - b : v[j] = s[j + b]
  OBVIOUS
<1>3. GM!InsertAt(s, b + 1, e) = w \o v
  <2>1. (b + 1) - 1 = b
    OBVIOUS
  <2> QED
    BY <2>1 DEF GM!InsertAt
<1> HIDE DEF u, v
<1>4. /\ w \in Seq(Nat) /\ Len(w) = b + 1
      /\ \A j \in 1 .. b + 1 : w[j] = IF j < b + 1 THEN s[j] ELSE e
  BY <1>1
<1> HIDE DEF w
<1>5. /\ w \o v \in Seq(Nat) /\ Len(w \o v) = Len(s) + 1
      /\ \A j \in 1 .. Len(s) + 1 : (w \o v)[j] = IF j <= b + 1 THEN w[j] ELSE v[j - (b + 1)]
  <2>0. Len(s) \in Nat
    OBVIOUS
  <2>1. PICK m \in Nat : m = b + 1
    OBVIOUS
  <2>2. PICK n \in Nat : n = Len(s) - b
    BY ONLY <2>0, b \in 0 .. Len(s)
  <2>3. w \in Seq(Nat) /\ v \in Seq(Nat) /\ Len(w) = m /\ Len(v) = n
    BY <1>2, <1>4, <2>1, <2>2
  <2>4. /\ w \o v \in Seq(Nat) /\ Len(w \o v) = m + n
        /\ \A j \in 1 .. m + n : (w \o v)[j] = IF j <= m THEN w[j] ELSE v[j - m]
    BY ONLY <2>3, Appended
  <2>5. m + n = Len(s) + 1
    BY ONLY <2>0, <2>1, <2>2, b \in 0 .. Len(s)
  <2> QED
    BY ONLY <2>1, <2>4, <2>5
<1>6. ASSUME NEW j \in 1 .. Len(s) + 1, ~(j <= b + 1) PROVE v[j - (b + 1)] = s[j - 1]
  <2>1. j - (b + 1) \in 1 .. Len(s) - b /\ j - (b + 1) + b = j - 1
    BY <1>6
  <2> QED
    BY <1>2, <2>1
<1>7. ASSUME NEW j \in 1 .. Len(s) + 1
      PROVE  (w \o v)[j] = IF j < b + 1 THEN s[j] ELSE IF j = b + 1 THEN e ELSE s[j - 1]
  <2>1. CASE j <= b + 1
    <3>1. (w \o v)[j] = w[j] /\ j \in 1 .. b + 1
      BY <1>5, <2>1
    <3> QED
      BY <1>4, <2>1, <3>1
  <2>2. CASE ~(j <= b + 1)
    <3>1. (w \o v)[j] = s[j - 1] /\ ~(j < b + 1) /\ j # b + 1
      BY <1>5, <1>6, <2>2
    <3> QED
      BY <3>1
  <2> QED
    BY <2>1, <2>2
<1>8. PICK x : x = w \o v
  OBVIOUS
<1>9. \A j \in 1 .. Len(s) + 1 : x[j] = IF j < b + 1 THEN s[j] ELSE IF j = b + 1 THEN e ELSE s[j - 1]
  BY ONLY <1>7, <1>8
<1>10. GM!InsertAt(s, b + 1, e) = x /\ x \in Seq(Nat) /\ Len(x) = Len(s) + 1
  BY ONLY <1>3, <1>5, <1>8
<1> QED
  BY ONLY <1>9, <1>10 DEF IsInserted

Sizings == UNION {[S -> Nat] : S \in SUBSET Nat}
Heaps == [next : Nat, free : Seq(Nat), size : Sizings]

LEMMA SizingFacts ==
  ASSUME NEW f \in Sizings
  PROVE  /\ DOMAIN f \subseteq Nat /\ \A a \in DOMAIN f : f[a] \in Nat
BY DEF Sizings

\* The blocks lie end to end; the free ones are listed by address; some of the
\* others are used, and what is neither is an empty block at the very end.
Laid(h) ==
  /\ h \in Heaps /\ GM!Base <= h.next /\ h.next <= GM!End
  /\ \A a \in DOMAIN h.size :
       /\ GM!Base <= a /\ GM!BlockEnd(h, a) <= h.next
       /\ GM!BlockEnd(h, a) \in DOMAIN h.size \cup {h.next}
  /\ h.next = GM!Base \/ GM!Base \in DOMAIN h.size
  /\ \A a, b \in DOMAIN h.size : a < b => GM!BlockEnd(h, a) <= b
Ranked(h) ==
  /\ \A i \in 1 .. Len(h.free) : h.free[i] \in DOMAIN h.size
  /\ \A i, j \in 1 .. Len(h.free) : i < j => h.free[i] < h.free[j]
Gap(h, i) ==
  i \in 1 .. Len(h.free) /\ i + 1 \in 1 .. Len(h.free) =>
    GM!BlockEnd(h, h.free[i]) # h.free[i + 1]
Shared(h, U) ==
  /\ U \subseteq DOMAIN h.size
  /\ \A i \in 1 .. Len(h.free) : h.free[i] \notin U
  /\ \A a \in DOMAIN h.size \ U :
       (\A i \in 1 .. Len(h.free) : h.free[i] # a) => a + Hdr = GM!End
\* ... and no two free blocks touch, but for some places of the list.
Arena(h, U, loose) ==
  /\ Laid(h) /\ Ranked(h) /\ Shared(h, U)
  /\ \A i \in Nat \ loose : Gap(h, i)

LEMMA LaidFacts ==
  ASSUME NEW h, Laid(h)
  PROVE  /\ h \in Heaps /\ h.next \in Nat /\ h.free \in Seq(Nat) /\ h.size \in Sizings
         /\ h = [next |-> h.next, free |-> h.free, size |-> h.size]
         /\ DOMAIN h.size \subseteq Nat
         /\ \A a \in DOMAIN h.size : h.size[a] \in Nat
         /\ \A a \in DOMAIN h.size : GM!BlockEnd(h, a) \in Nat
         /\ \A a \in DOMAIN h.size : GM!BlockEnd(h, a) > a
<1>1. h \in Heaps
  BY DEF Laid
<1>2. /\ h.next \in Nat /\ h.free \in Seq(Nat) /\ h.size \in Sizings
      /\ h = [next |-> h.next, free |-> h.free, size |-> h.size]
  BY <1>1 DEF Heaps
<1>3. DOMAIN h.size \subseteq Nat /\ \A a \in DOMAIN h.size : h.size[a] \in Nat
  BY <1>2, SizingFacts
<1> QED
  BY <1>1, <1>2, <1>3, ArenaBounds DEF GM!BlockEnd

\* What a change of the heap leaves to the blocks in use.
Spared(h, k, U) == \A a \in U : a \in DOMAIN h.size /\ a \in DOMAIN k.size /\ k.size[a] = h.size[a]

LEMMA HeapFacts ==
  ASSUME NEW h \in Heaps
  PROVE  /\ h.next \in Nat /\ h.free \in Seq(Nat) /\ h.size \in Sizings
         /\ h = [next |-> h.next, free |-> h.free, size |-> h.size]
BY DEF Heaps

IsResized(h, place, n, k) ==
  /\ k \in Heaps /\ k.next = h.next /\ k.free = h.free
  /\ DOMAIN k.size = DOMAIN h.size \cup {place}
  /\ \A a \in DOMAIN k.size : k.size[a] = IF a = place THEN n ELSE h.size[a]

LEMMA ResizedIs ==
  ASSUME NEW h, NEW place, NEW n, h \in Heaps, place \in Nat, n \in Nat
  PROVE  IsResized(h, place, n, GM!Resized(h, place, n))
<1> DEFINE f == [a \in DOMAIN h.size \cup {place} |-> IF a = place THEN n ELSE h.size[a]]
<1>1. f \in Sizings
  <2>1. DOMAIN h.size \subseteq Nat /\ \A a \in DOMAIN h.size : h.size[a] \in Nat
    BY SizingFacts, HeapFacts
  <2>2. f \in [DOMAIN h.size \cup {place} -> Nat]
    BY <2>1
  <2> QED
    BY <2>1, <2>2 DEF Sizings
<1>2. GM!Resized(h, place, n) = [h EXCEPT !.size = f]
  BY DEF GM!Resized
<1> HIDE DEF f
<1>3. GM!Resized(h, place, n) = [next |-> h.next, free |-> h.free, size |-> f]
  BY <1>2 DEF Heaps
<1>4. GM!Resized(h, place, n) \in Heaps
  BY <1>1, <1>3 DEF Heaps
<1> QED
  BY <1>3, <1>4 DEF f, IsResized

IsUnheaded(h, place, k) ==
  /\ k \in Heaps /\ k.next = h.next /\ k.free = h.free
  /\ DOMAIN k.size = DOMAIN h.size \ {place}
  /\ \A a \in DOMAIN k.size : k.size[a] = h.size[a]

LEMMA UnheadedIs ==
  ASSUME NEW h, NEW place, h \in Heaps, place \in Nat
  PROVE  IsUnheaded(h, place, GM!Unheaded(h, place))
<1> DEFINE f == [a \in DOMAIN h.size \ {place} |-> h.size[a]]
<1>1. f \in Sizings
  <2>1. DOMAIN h.size \subseteq Nat /\ \A a \in DOMAIN h.size : h.size[a] \in Nat
    BY SizingFacts, HeapFacts
  <2>2. f \in [DOMAIN h.size \ {place} -> Nat]
    BY <2>1
  <2> QED
    BY <2>1, <2>2 DEF Sizings
<1>2. GM!Unheaded(h, place) = [h EXCEPT !.size = f]
  BY DEF GM!Unheaded
<1> HIDE DEF f
<1>3. GM!Unheaded(h, place) = [next |-> h.next, free |-> h.free, size |-> f]
  BY <1>2 DEF Heaps
<1>4. GM!Unheaded(h, place) \in Heaps
  BY <1>1, <1>3 DEF Heaps
<1> QED
  BY <1>3, <1>4 DEF f, IsUnheaded

LEMMA FreeAt ==
  ASSUME NEW h \in Heaps, NEW s \in Seq(Nat)
  PROVE  LET k == [h EXCEPT !.free = s]
         IN  k \in Heaps /\ k.next = h.next /\ k.free = s /\ k.size = h.size
BY DEF Heaps

\* A block taken out of the arena.
Granted(h, k, U, a, n) == Arena(k, U \cup {a}, {}) /\ Spared(h, k, U) /\ k.size[a] = n

\* A block found in the list, of which the rest stays in it.
SplitAt(h, k, i, a, tail, n, rest) ==
  /\ Len(k.free) = Len(h.free) /\ k.free[i] = tail
  /\ \A j \in 1 .. Len(h.free) : j # i => k.free[j] = h.free[j]
  /\ k.next = h.next /\ DOMAIN k.size = DOMAIN h.size \cup {tail}
  /\ \A b \in DOMAIN k.size :
       k.size[b] = IF b = a THEN n ELSE IF b = tail THEN rest ELSE h.size[b]
IsSplit(h, k, i, a, tail, n, rest) ==
  /\ i \in 1 .. Len(h.free) /\ {a, tail, n, rest} \subseteq Nat /\ k \in Heaps
  /\ a = h.free[i] /\ tail = a + Hdr + n /\ h.size[a] = n + Hdr + rest
  /\ SplitAt(h, k, i, a, tail, n, rest)

LEMMA SplitKeeps ==
  ASSUME NEW h, NEW U, NEW i, NEW n, NEW a, NEW tail, NEW rest, NEW k,
         Arena(h, U, {}), IsSplit(h, k, i, a, tail, n, rest)
  PROVE  Granted(h, k, U, a, n)
<1> SUFFICES ASSUME i \in 1 .. Len(h.free), n \in Nat, a \in Nat, tail \in Nat, rest \in Nat,
                    k \in Heaps, a = h.free[i], tail = a + Hdr + n, h.size[a] = n + Hdr + rest,
                    SplitAt(h, k, i, a, tail, n, rest)
             PROVE  Granted(h, k, U, a, n)
  BY DEF IsSplit
<1>1. /\ h \in Heaps /\ a \in DOMAIN h.size /\ h.next \in Nat /\ DOMAIN h.size \subseteq Nat
      /\ \A b \in DOMAIN h.size : h.size[b] \in Nat /\ GM!BlockEnd(h, b) \in Nat /\ GM!BlockEnd(h, b) > b
  <2>1. Laid(h) /\ Ranked(h)
    BY DEF Arena
  <2>2. a \in DOMAIN h.size
    BY <2>1 DEF Ranked
  <2> QED
    BY <2>1, <2>2, LaidFacts
<1>2. a < tail /\ tail + Hdr + rest = GM!BlockEnd(h, a) /\ tail < GM!BlockEnd(h, a)
  <2>1. GM!BlockEnd(h, a) = a + Hdr + (n + Hdr + rest)
    BY DEF GM!BlockEnd
  <2> QED
    BY ONLY <2>1, ArenaBounds, tail = a + Hdr + n, a \in Nat, n \in Nat, rest \in Nat
<1>3. \A b \in DOMAIN h.size : a < b => GM!BlockEnd(h, a) <= b
  BY <1>1 DEF Arena, Laid
<1>4. \A b \in DOMAIN h.size : b < a => GM!BlockEnd(h, b) <= a
  BY <1>1 DEF Arena, Laid
<1>5. tail \notin DOMAIN h.size
  BY <1>1, <1>2, <1>3
<1>6. /\ GM!BlockEnd(k, a) = tail /\ GM!BlockEnd(k, tail) = GM!BlockEnd(h, a)
      /\ \A b \in DOMAIN h.size : b # a => GM!BlockEnd(k, b) = GM!BlockEnd(h, b)
  BY <1>1, <1>2, <1>5 DEF GM!BlockEnd, SplitAt
<1>7. Laid(k)
  <2>1. \A b \in DOMAIN h.size :
          /\ GM!Base <= b /\ GM!BlockEnd(h, b) <= h.next
          /\ GM!BlockEnd(h, b) \in DOMAIN h.size \cup {h.next}
    BY DEF Arena, Laid
  <2>2. ASSUME NEW b \in DOMAIN k.size
        PROVE  /\ GM!Base <= b /\ GM!BlockEnd(k, b) <= k.next
               /\ GM!BlockEnd(k, b) \in DOMAIN k.size \cup {k.next}
    <3>0. k.next = h.next /\ DOMAIN k.size = DOMAIN h.size \cup {tail}
      BY DEF SplitAt
    <3>1. CASE b = tail
      <4>1. GM!Base <= a
        BY <1>1, <2>1
      <4>2. GM!Base <= tail
        BY ONLY <1>2, <4>1, ArenaBounds, a \in Nat, tail \in Nat
      <4> QED
        BY <1>1, <1>6, <2>1, <3>0, <3>1, <4>2
    <3>2. CASE b = a
      <4>1. tail <= h.next
        BY ONLY <1>1, <1>2, <2>1, tail \in Nat
      <4> QED
        BY <1>1, <1>6, <2>1, <3>0, <3>2, <4>1
    <3>3. CASE b # a /\ b # tail
      BY <1>1, <1>6, <2>1, <3>0, <3>3
    <3> QED
      BY <3>1, <3>2, <3>3
  <2>3. ASSUME NEW b \in DOMAIN k.size, NEW c \in DOMAIN k.size, b < c
        PROVE  GM!BlockEnd(k, b) <= c
    <3>0. DOMAIN k.size = DOMAIN h.size \cup {tail}
      BY DEF SplitAt
    <3>1. CASE b \in DOMAIN h.size /\ c \in DOMAIN h.size
      <4>1. GM!BlockEnd(h, b) <= c
        BY <2>3, <3>1 DEF Arena, Laid
      <4>2. CASE b = a
        BY ONLY <1>1, <1>2, <1>6, <3>1, <4>1, <4>2, tail \in Nat
      <4> QED
        BY <1>6, <3>1, <4>1, <4>2
    <3>2. CASE b = tail /\ c # tail
      BY <1>1, <1>2, <1>3, <1>6, <2>3, <3>0, <3>2
    <3>3. CASE c = tail /\ b # tail
      <4>1. b \in DOMAIN h.size /\ ~(a < b)
        BY <1>1, <1>2, <1>3, <2>3, <3>0, <3>3
      <4>2. b = a \/ b < a
        BY <1>1, <4>1
      <4>3. CASE b < a
        <5>1. GM!BlockEnd(k, b) = GM!BlockEnd(h, b) /\ GM!BlockEnd(h, b) <= a
          BY <1>1, <1>4, <1>6, <4>1, <4>3
        <5> QED
          BY ONLY <1>1, <1>2, <3>3, <4>1, <5>1, tail \in Nat, a \in Nat
      <4> QED
        BY <1>6, <3>3, <4>2, <4>3
    <3> QED
      BY <1>1, <2>3, <3>0, <3>1, <3>2, <3>3
  <2> QED
    BY <2>2, <2>3 DEF Arena, Laid, SplitAt
<1>8. \A j \in 1 .. Len(h.free) : j # i => h.free[j] # a /\ h.free[j] \in DOMAIN h.size
  BY DEF Arena, Ranked
<1>9. Ranked(k)
  <2>1. \A j \in 1 .. Len(h.free) : k.free[j] \in DOMAIN k.size
    BY <1>1, <1>8 DEF SplitAt
  <2>2. ASSUME NEW j \in 1 .. Len(h.free), NEW m \in 1 .. Len(h.free), j < m PROVE k.free[j] < k.free[m]
    <3>0. k.free[i] = tail /\ \A l \in 1 .. Len(h.free) : l # i => k.free[l] = h.free[l]
      BY DEF SplitAt
    <3>1. h.free[j] < h.free[m] /\ h.free[j] \in DOMAIN h.size /\ h.free[m] \in DOMAIN h.size
      BY <2>2 DEF Arena, Ranked
    <3>2. CASE j = i
      <4>1. k.free[j] = tail /\ k.free[m] = h.free[m] /\ a < h.free[m]
        BY <2>2, <3>0, <3>1, <3>2
      <4>2. GM!BlockEnd(h, a) <= h.free[m]
        BY <1>3, <3>1, <4>1
      <4> QED
        <5>1. h.free[m] \in Nat /\ GM!BlockEnd(h, a) \in Nat
          BY ONLY <1>1, <3>1
        <5> QED
          BY ONLY <1>2, <4>1, <4>2, <5>1, tail \in Nat
    <3>3. CASE m = i
      <4>1. k.free[m] = tail /\ k.free[j] = h.free[j] /\ h.free[j] < a
        BY <2>2, <3>0, <3>1, <3>3
      <4> QED
        <5>1. h.free[j] \in Nat
          BY ONLY <1>1, <3>1
        <5> QED
          BY ONLY <1>2, <4>1, <5>1, tail \in Nat, a \in Nat
    <3> QED
      BY <3>0, <3>1, <3>2, <3>3
  <2> QED
    BY <2>1, <2>2 DEF Ranked, SplitAt
<1>10. Shared(k, U \cup {a})
  <2>1. \A b \in U : b \in DOMAIN h.size /\ b # a /\ \A j \in 1 .. Len(h.free) : h.free[j] # b
    BY DEF Arena, Shared
  <2>2. ASSUME NEW j \in 1 .. Len(h.free) PROVE k.free[j] \notin U \cup {a}
    BY <1>2, <1>5, <1>8, <2>1 DEF SplitAt
  <2>3. ASSUME NEW b \in DOMAIN k.size \ (U \cup {a}), \A j \in 1 .. Len(h.free) : k.free[j] # b
        PROVE  b + Hdr = GM!End
    <3>1. b \in DOMAIN h.size \ U
      BY <2>3 DEF SplitAt
    <3>2. \A j \in 1 .. Len(h.free) : h.free[j] # b
      BY <2>3 DEF SplitAt
    <3> QED
      BY <3>1, <3>2 DEF Arena, Shared
  <2> QED
    BY <1>1, <2>1, <2>2, <2>3 DEF Shared, SplitAt
<1>11. ASSUME NEW j \in Nat PROVE Gap(k, j)
  <2> SUFFICES ASSUME j \in 1 .. Len(h.free), j + 1 \in 1 .. Len(h.free)
               PROVE  GM!BlockEnd(k, k.free[j]) # k.free[j + 1]
    BY DEF Gap, SplitAt
  <2>0. k.free[i] = tail /\ \A l \in 1 .. Len(h.free) : l # i => k.free[l] = h.free[l]
    BY DEF SplitAt
  <2>1. GM!BlockEnd(h, h.free[j]) # h.free[j + 1]
    BY DEF Arena, Gap
  <2>2. CASE j = i
    BY <1>6, <2>0, <2>1, <2>2
  <2>3. CASE j + 1 = i
    <3>1. h.free[j] < a /\ h.free[j] \in DOMAIN h.size /\ k.free[j] = h.free[j] /\ k.free[j + 1] = tail
      BY <1>8, <2>0, <2>3 DEF Arena, Ranked
    <3>2. GM!BlockEnd(k, h.free[j]) = GM!BlockEnd(h, h.free[j]) /\ GM!BlockEnd(h, h.free[j]) <= a
      BY <1>1, <1>4, <1>6, <3>1
    <3> QED
      BY ONLY <1>1, <1>2, <3>1, <3>2, tail \in Nat, a \in Nat
  <2>4. CASE j # i /\ j + 1 # i
    BY <1>6, <1>8, <2>0, <2>1, <2>4
  <2> QED
    BY <2>2, <2>3, <2>4
<1>12. Spared(h, k, U) /\ k.size[a] = n
  BY <1>1, <1>5, <1>8 DEF Spared, Arena, Shared, SplitAt
<1> QED
  BY <1>7, <1>9, <1>10, <1>11, <1>12 DEF Arena, Granted

\* A block found in the list that is handed out whole.
LEMMA TakenKeeps ==
  ASSUME NEW h, NEW U, Arena(h, U, {}), NEW i \in 1 .. Len(h.free), NEW k \in Heaps,
         NEW a, a = h.free[i], k.next = h.next, k.size = h.size,
         k.free = GM!RemoveAt(h.free, i)
  PROVE  Granted(h, k, U, a, h.size[a])
<1>1. Laid(h) /\ Ranked(h) /\ Shared(h, U)
  BY DEF Arena
<1>0. h.free \in Seq(Nat) /\ Len(h.free) \in Nat
  <2>1. h.free \in Seq(Nat)
    BY <1>1, LaidFacts
  <2> QED
    BY <2>1
<1>2. /\ DOMAIN h.size \subseteq Nat
      /\ \A b \in DOMAIN h.size : GM!BlockEnd(h, b) \in Nat /\ GM!BlockEnd(h, b) > b
  BY <1>1, LaidFacts
<1>3. a \in DOMAIN h.size
  BY <1>1 DEF Ranked
<1>4. Len(h.free) \in Nat /\ i \in Nat
  BY <1>0
<1>5. /\ Len(k.free) = Len(h.free) - 1
      /\ \A j \in 1 .. Len(k.free) : k.free[j] = IF j < i THEN h.free[j] ELSE h.free[j + 1]
  <2>1. /\ Len(GM!RemoveAt(h.free, i)) = Len(h.free) - 1
        /\ \A j \in 1 .. Len(h.free) - 1 :
             GM!RemoveAt(h.free, i)[j] = IF j < i THEN h.free[j] ELSE h.free[j + 1]
    BY ONLY <1>0, i \in 1 .. Len(h.free), Without
  <2> QED
    BY <2>1
<1>6. \A b : GM!BlockEnd(k, b) = GM!BlockEnd(h, b)
  BY DEF GM!BlockEnd
<1>7. Laid(k)
  BY <1>1, <1>6 DEF Laid
<1>8. Ranked(k)
  <2>1. \A j \in 1 .. Len(k.free) : k.free[j] \in DOMAIN k.size
    BY <1>1, <1>4, <1>5 DEF Ranked
  <2>2. \A j, m \in 1 .. Len(k.free) : j < m => k.free[j] < k.free[m]
    BY <1>1, <1>4, <1>5 DEF Ranked
  <2> QED
    BY <2>1, <2>2 DEF Ranked
<1>9. \A j \in 1 .. Len(h.free) : j # i => h.free[j] # a
  BY <1>1, <1>2 DEF Ranked
<1>10. Shared(k, U \cup {a})
  <2>1. ASSUME NEW j \in 1 .. Len(k.free) PROVE k.free[j] \notin U \cup {a}
    <3>1. PICK m \in 1 .. Len(h.free) : m # i /\ k.free[j] = h.free[m]
      <4>1. CASE j < i
        BY <1>4, <1>5, <4>1
      <4>2. CASE ~(j < i)
        <5>1. j + 1 \in 1 .. Len(h.free) /\ j + 1 # i
          BY <1>4, <1>5, <4>2
        <5> QED
          BY <1>5, <4>2, <5>1
      <4> QED
        BY <4>1, <4>2
    <3> QED
      BY <1>1, <1>9, <3>1 DEF Shared
  <2>2. ASSUME NEW b \in DOMAIN k.size \ (U \cup {a}), \A j \in 1 .. Len(k.free) : k.free[j] # b
        PROVE  b + Hdr = GM!End
    <3>1. ASSUME NEW j \in 1 .. Len(h.free) PROVE h.free[j] # b
      <4>1. CASE j < i
        BY <1>4, <1>5, <2>2, <4>1
      <4>2. CASE j = i
        BY <2>2, <4>2
      <4>3. CASE j > i
        <5>1. j - 1 \in 1 .. Len(k.free) /\ ~(j - 1 < i) /\ (j - 1) + 1 = j
          BY <1>4, <1>5, <4>3
        <5> QED
          BY <1>5, <2>2, <5>1
      <4> QED
        BY <1>4, <4>1, <4>2, <4>3
    <3> QED
      BY <1>1, <2>2, <3>1 DEF Shared
  <2> QED
    BY <1>1, <1>3, <2>1, <2>2 DEF Shared
<1>11. ASSUME NEW j \in Nat PROVE Gap(k, j)
  <2> SUFFICES ASSUME j \in 1 .. Len(k.free), j + 1 \in 1 .. Len(k.free)
               PROVE  GM!BlockEnd(k, k.free[j]) # k.free[j + 1]
    BY DEF Gap
  <2>1. CASE j + 1 < i
    <3>1. /\ j \in 1 .. Len(h.free) /\ j + 1 \in 1 .. Len(h.free)
          /\ k.free[j] = h.free[j] /\ k.free[j + 1] = h.free[j + 1]
      BY <1>4, <1>5, <2>1
    <3>2. GM!BlockEnd(h, h.free[j]) # h.free[j + 1]
      BY <3>1 DEF Arena, Gap
    <3> QED
      BY <1>6, <3>1, <3>2
  <2>2. CASE j >= i
    <3>1. j + 1 \in 1 .. Len(h.free) /\ j + 2 \in 1 .. Len(h.free) /\ (j + 1) + 1 = j + 2
      BY <1>4, <1>5
    <3>2. GM!BlockEnd(h, h.free[j + 1]) # h.free[j + 2]
      BY <3>1 DEF Arena, Gap
    <3> QED
      BY <1>4, <1>5, <1>6, <2>2, <3>1, <3>2
  <2>3. CASE j + 1 = i
    <3>1. k.free[j] = h.free[j] /\ k.free[j + 1] = h.free[j + 2] /\ j + 2 \in 1 .. Len(h.free)
      BY <1>4, <1>5, <2>3
    <3>2. /\ h.free[j] \in DOMAIN h.size /\ h.free[j + 2] \in DOMAIN h.size
          /\ h.free[j] < a /\ a < h.free[j + 2]
      BY <1>1, <1>4, <2>3, <3>1 DEF Ranked
    <3>3. GM!BlockEnd(h, h.free[j]) <= a
      BY <1>1, <1>3, <3>2 DEF Laid
    <3>4. a \in Nat /\ h.free[j + 2] \in Nat /\ GM!BlockEnd(h, h.free[j]) \in Nat
      BY <1>2, <1>3, <3>2
    <3> QED
      BY <1>6, <3>1, <3>2, <3>3, <3>4
  <2> QED
    BY <1>4, <2>1, <2>2, <2>3
<1> QED
  BY <1>1, <1>7, <1>8, <1>10, <1>11 DEF Arena, Granted, Spared, Shared

\* A block at the end of what has been handed out.
Extends(h, k, n) ==
  /\ k.next = h.next + Hdr + n /\ k.free = h.free
  /\ DOMAIN k.size = DOMAIN h.size \cup {h.next}
  /\ \A b \in DOMAIN k.size : k.size[b] = IF b = h.next THEN n ELSE h.size[b]

LEMMA ExtendedKeeps ==
  ASSUME NEW h, NEW U, Arena(h, U, {}), NEW n \in Nat, NEW k \in Heaps, Extends(h, k, n),
         h.next + Hdr + n <= GM!End
  PROVE  Granted(h, k, U, h.next, n)
<1>1. Laid(h) /\ Ranked(h) /\ Shared(h, U)
  BY DEF Arena
<1>0. h.free \in Seq(Nat) /\ Len(h.free) \in Nat
  <2>1. h.free \in Seq(Nat)
    BY <1>1, LaidFacts
  <2> QED
    BY <2>1
<1>2. /\ DOMAIN h.size \subseteq Nat /\ h.next \in Nat
      /\ \A b \in DOMAIN h.size : GM!BlockEnd(h, b) \in Nat /\ GM!BlockEnd(h, b) > b
  BY <1>1, LaidFacts
<1>3. h.next \notin DOMAIN h.size /\ \A b \in DOMAIN h.size : b < h.next
  BY <1>1, <1>2 DEF Laid
<1>4. /\ \A b \in DOMAIN h.size : GM!BlockEnd(k, b) = GM!BlockEnd(h, b)
      /\ GM!BlockEnd(k, h.next) = k.next /\ k.next \in Nat /\ h.next < k.next
      /\ DOMAIN k.size = DOMAIN h.size \cup {h.next} /\ k.free = h.free
  <2>1. \A b \in DOMAIN h.size : k.size[b] = h.size[b]
    BY <1>3 DEF Extends
  <2>2. k.size[h.next] = n /\ DOMAIN k.size = DOMAIN h.size \cup {h.next} /\ k.free = h.free
    BY DEF Extends
  <2>3. k.next = h.next + Hdr + n /\ k.next \in Nat /\ h.next < k.next
    BY ONLY <1>2, Extends(h, k, n), n \in Nat, ArenaBounds DEF Extends
  <2> QED
    BY <2>1, <2>2, <2>3 DEF GM!BlockEnd
<1>5. k.next <= GM!End /\ GM!Base <= k.next
  BY <1>1, <1>2, <1>4, ArenaBounds DEF Extends, Laid
<1>6. Laid(k)
  <2>1. ASSUME NEW b \in DOMAIN k.size
        PROVE  /\ GM!Base <= b /\ GM!BlockEnd(k, b) <= k.next
               /\ GM!BlockEnd(k, b) \in DOMAIN k.size \cup {k.next}
    <3>1. CASE b = h.next
      BY <1>1, <1>4, <3>1 DEF Laid
    <3>2. CASE b \in DOMAIN h.size
      <4>1. /\ GM!Base <= b /\ GM!BlockEnd(h, b) <= h.next
            /\ GM!BlockEnd(h, b) \in DOMAIN h.size \cup {h.next}
        BY <1>1, <3>2 DEF Laid
      <4> QED
        BY <1>2, <1>4, <3>2, <4>1
    <3> QED
      BY <1>4, <3>1, <3>2
  <2>2. ASSUME NEW b \in DOMAIN k.size, NEW c \in DOMAIN k.size, b < c
        PROVE  GM!BlockEnd(k, b) <= c
    <3>1. b \in DOMAIN h.size
      BY <1>2, <1>3, <1>4, <2>2
    <3> QED
      BY <1>1, <1>2, <1>4, <2>2, <3>1 DEF Laid
  <2>3. GM!Base \in DOMAIN k.size
    BY <1>1, <1>4 DEF Laid
  <2> QED
    BY <1>5, <2>1, <2>2, <2>3 DEF Laid
<1>7. Ranked(k)
  BY <1>1, <1>4 DEF Ranked
<1>8. Shared(k, U \cup {h.next})
  BY <1>1, <1>3, <1>4 DEF Shared, Ranked
<1>9. \A j \in Nat : Gap(k, j)
  BY <1>1, <1>4 DEF Arena, Gap, Ranked
<1>10. Spared(h, k, U) /\ k.size[h.next] = n
  BY <1>1, <1>3, <1>4 DEF Spared, Shared, Extends
<1> QED
  BY <1>6, <1>7, <1>8, <1>9, <1>10 DEF Arena, Granted

Kept(h, k, U, loose) == Arena(k, U, loose) /\ Spared(h, k, U)

\* A block that is given back, in its place among the free ones.
LEMMA ListedKeeps ==
  ASSUME NEW h, NEW U, Arena(h, U, {}), NEW a \in U, NEW b \in 0 .. Len(h.free),
         \A j \in 1 .. Len(h.free) : IF j <= b THEN h.free[j] < a ELSE a < h.free[j],
         NEW k \in Heaps, k.next = h.next, k.size = h.size,
         k.free = GM!InsertAt(h.free, b + 1, a)
  PROVE  Kept(h, k, U \ {a}, {b, b + 1})
<1>1. Laid(h) /\ Ranked(h) /\ Shared(h, U)
  BY DEF Arena
<1>0. h.free \in Seq(Nat) /\ Len(h.free) \in Nat
  <2>1. h.free \in Seq(Nat)
    BY <1>1, LaidFacts
  <2> QED
    BY <2>1
<1>2. /\ DOMAIN h.size \subseteq Nat /\ a \in DOMAIN h.size /\ a \in Nat
  BY <1>1, LaidFacts DEF Shared
<1>4. Len(h.free) \in Nat /\ b \in Nat
  BY <1>0
<1>5. /\ Len(k.free) = Len(h.free) + 1
      /\ \A j \in 1 .. Len(k.free) :
           k.free[j] = IF j < b + 1 THEN h.free[j] ELSE IF j = b + 1 THEN a ELSE h.free[j - 1]
  <2>1. IsInserted(h.free, b, a, GM!InsertAt(h.free, b + 1, a))
    BY <1>0, <1>2, Inserted
  <2> QED
    BY <2>1 DEF IsInserted
<1>6. \A c : GM!BlockEnd(k, c) = GM!BlockEnd(h, c)
  BY DEF GM!BlockEnd
<1>7. Laid(k)
  BY <1>1, <1>6 DEF Laid
<1>8. \A j \in 1 .. Len(k.free) : \/ j = b + 1 /\ k.free[j] = a
                                  \/ j <= b /\ j \in 1 .. Len(h.free) /\ k.free[j] = h.free[j]
                                  \/ j > b + 1 /\ j - 1 \in 1 .. Len(h.free) /\ k.free[j] = h.free[j - 1]
  BY <1>4, <1>5
<1>9. Ranked(k)
  <2>1. \A j \in 1 .. Len(k.free) : k.free[j] \in DOMAIN k.size
    BY <1>1, <1>2, <1>8 DEF Ranked
  <2>2. ASSUME NEW j \in 1 .. Len(k.free), NEW m \in 1 .. Len(k.free), j < m
        PROVE  k.free[j] < k.free[m]
    <3>1. CASE j = b + 1
      BY <1>4, <1>8, <2>2, <3>1
    <3>2. CASE m = b + 1
      BY <1>4, <1>8, <2>2, <3>2
    <3>3. CASE j # b + 1 /\ m # b + 1
      <4> DEFINE x == IF j <= b THEN j ELSE j - 1
                 y == IF m <= b THEN m ELSE m - 1
      <4>1. x \in 1 .. Len(h.free) /\ k.free[j] = h.free[x]
        BY <1>4, <1>8, <3>3
      <4>2. y \in 1 .. Len(h.free) /\ k.free[m] = h.free[y]
        BY <1>4, <1>8, <3>3
      <4>3. x < y
        BY <1>4, <2>2, <3>3
      <4> HIDE DEF x, y
      <4> QED
        BY <1>1, <4>1, <4>2, <4>3 DEF Ranked
    <3> QED
      BY <3>1, <3>2, <3>3
  <2> QED
    BY <2>1, <2>2 DEF Ranked
<1>10. Shared(k, U \ {a})
  <2>1. ASSUME NEW j \in 1 .. Len(k.free) PROVE k.free[j] \notin U \ {a}
    BY <1>1, <1>8 DEF Shared
  <2>2. ASSUME NEW c \in DOMAIN k.size \ (U \ {a}), \A j \in 1 .. Len(k.free) : k.free[j] # c
        PROVE  c + Hdr = GM!End
    <3>1. c # a
      <4>1. b + 1 \in 1 .. Len(k.free)
        BY <1>4, <1>5
      <4> QED
        BY <1>8, <2>2, <4>1
    <3>2. ASSUME NEW j \in 1 .. Len(h.free) PROVE h.free[j] # c
      <4>1. CASE j <= b
        BY <1>4, <1>5, <2>2, <4>1
      <4>2. CASE j > b
        <5>1. j + 1 \in 1 .. Len(k.free) /\ ~(j + 1 < b + 1) /\ j + 1 # b + 1 /\ (j + 1) - 1 = j
          BY <1>4, <1>5, <4>2
        <5> QED
          BY <1>5, <2>2, <5>1
      <4> QED
        BY <1>4, <4>1, <4>2
    <3> QED
      BY <1>1, <2>2, <3>1, <3>2 DEF Shared
  <2> QED
    BY <1>1, <2>1, <2>2 DEF Shared
<1>11. ASSUME NEW j \in Nat \ {b, b + 1} PROVE Gap(k, j)
  <2> SUFFICES ASSUME j \in 1 .. Len(k.free), j + 1 \in 1 .. Len(k.free)
               PROVE  GM!BlockEnd(k, k.free[j]) # k.free[j + 1]
    BY DEF Gap
  <2>1. CASE j < b
    BY <1>4, <1>5, <1>6, <2>1 DEF Arena, Gap
  <2>2. CASE j > b + 1
    <3>1. j - 1 \in 1 .. Len(h.free) /\ j \in 1 .. Len(h.free) /\ (j - 1) + 1 = j /\ (j + 1) - 1 = j
      BY <1>4, <1>5, <2>2
    <3>2. GM!BlockEnd(h, h.free[j - 1]) # h.free[j]
      BY <3>1 DEF Arena, Gap
    <3>3. k.free[j] = h.free[j - 1] /\ k.free[j + 1] = h.free[j]
      BY <1>4, <1>5, <2>2, <3>1
    <3> QED
      BY <1>6, <3>2, <3>3
  <2> QED
    BY <1>4, <2>1, <2>2
<1> QED
  BY <1>1, <1>7, <1>9, <1>10, <1>11 DEF Arena, Spared, Shared, Kept

\* Two free blocks become one.
Merges(h, k, i, a, b) ==
  /\ k.next = h.next /\ k.free = GM!RemoveAt(h.free, i + 1)
  /\ DOMAIN k.size = DOMAIN h.size \ {b}
  /\ \A c \in DOMAIN k.size : k.size[c] = IF c = a THEN h.size[a] + Hdr + h.size[b] ELSE h.size[c]

LEMMA MergedKeeps ==
  ASSUME NEW h, NEW U, NEW loose \in SUBSET Nat, Arena(h, U, loose), NEW i \in 1 .. Len(h.free),
         i + 1 \in 1 .. Len(h.free), loose \subseteq {i - 1, i}, NEW a, NEW b,
         a = h.free[i], b = h.free[i + 1], GM!BlockEnd(h, a) = b,
         NEW k, k \in Heaps, Merges(h, k, i, a, b)
  PROVE  Kept(h, k, U, loose \ {i})
<1>1. Laid(h) /\ Ranked(h) /\ Shared(h, U)
  BY DEF Arena
<1>0. h.free \in Seq(Nat) /\ Len(h.free) \in Nat
  <2>1. h.free \in Seq(Nat)
    BY <1>1, LaidFacts
  <2> QED
    BY <2>1
<1>2. /\ DOMAIN h.size \subseteq Nat /\ h.next \in Nat
      /\ \A c \in DOMAIN h.size :
           h.size[c] \in Nat /\ GM!BlockEnd(h, c) \in Nat /\ GM!BlockEnd(h, c) > c
  BY <1>1, LaidFacts
<1>3. a \in DOMAIN h.size /\ b \in DOMAIN h.size /\ a \in Nat /\ b \in Nat /\ a < b
  <2>1. i < i + 1
    OBVIOUS
  <2> QED
    BY <1>1, <1>2, <2>1 DEF Ranked
<1>4. Len(h.free) \in Nat /\ i \in Nat
  BY <1>0
<1>5. /\ Len(k.free) = Len(h.free) - 1
      /\ \A j \in 1 .. Len(k.free) : k.free[j] = IF j < i + 1 THEN h.free[j] ELSE h.free[j + 1]
  <2>1. /\ Len(GM!RemoveAt(h.free, i + 1)) = Len(h.free) - 1
        /\ \A j \in 1 .. Len(h.free) - 1 :
             GM!RemoveAt(h.free, i + 1)[j] = IF j < i + 1 THEN h.free[j] ELSE h.free[j + 1]
    BY ONLY <1>0, i + 1 \in 1 .. Len(h.free), Without
  <2> QED
    BY <2>1 DEF Merges
<1>6. /\ \A c \in DOMAIN k.size : c # a => GM!BlockEnd(k, c) = GM!BlockEnd(h, c)
      /\ GM!BlockEnd(k, a) = GM!BlockEnd(h, b)
      /\ k.next = h.next /\ DOMAIN k.size = DOMAIN h.size \ {b}
  <2>1. k.next = h.next /\ DOMAIN k.size = DOMAIN h.size \ {b} /\ a \in DOMAIN k.size
    BY <1>3 DEF Merges
  <2>2. k.size[a] = h.size[a] + Hdr + h.size[b]
    BY <2>1 DEF Merges
  <2>3. GM!BlockEnd(k, a) = GM!BlockEnd(h, b)
    <3>1. b = a + Hdr + h.size[a] /\ h.size[a] \in Nat /\ h.size[b] \in Nat
      BY <1>2, <1>3 DEF GM!BlockEnd
    <3>2. a + Hdr + k.size[a] = b + Hdr + h.size[b]
      BY ONLY <1>3, <2>2, <3>1, ArenaBounds
    <3> QED
      BY <3>2 DEF GM!BlockEnd
  <2>4. ASSUME NEW c \in DOMAIN k.size, c # a PROVE k.size[c] = h.size[c]
    BY <2>4 DEF Merges
  <2> QED
    BY <2>1, <2>3, <2>4 DEF GM!BlockEnd
<1>7. \A c \in DOMAIN h.size : c # a => GM!BlockEnd(h, c) # b
  <2> SUFFICES ASSUME NEW c \in DOMAIN h.size, c # a, GM!BlockEnd(h, c) = b PROVE FALSE
    OBVIOUS
  <2>1. c < a \/ a < c
    BY <1>2, <1>3
  <2>2. c < a => b <= a
    BY <1>1, <1>3 DEF Laid
  <2>3. a < c => b <= c
    BY <1>1, <1>3 DEF Laid
  <2> QED
    BY <1>2, <1>3, <2>1, <2>2, <2>3
<1>8. Laid(k)
  <2>1. ASSUME NEW c \in DOMAIN k.size
        PROVE  /\ GM!Base <= c /\ GM!BlockEnd(k, c) <= k.next
               /\ GM!BlockEnd(k, c) \in DOMAIN k.size \cup {k.next}
    <3>1. CASE c = a
      <4>1. GM!BlockEnd(h, b) # b
        BY <1>2, <1>3
      <4>2. /\ GM!Base <= a /\ GM!BlockEnd(h, b) <= h.next
            /\ GM!BlockEnd(h, b) \in DOMAIN h.size \cup {h.next}
        BY <1>1, <1>3 DEF Laid
      <4> QED
        BY <1>6, <3>1, <4>1, <4>2
    <3>2. CASE c # a
      <4>1. /\ c \in DOMAIN h.size /\ GM!Base <= c /\ GM!BlockEnd(h, c) <= h.next
            /\ GM!BlockEnd(h, c) \in DOMAIN h.size \cup {h.next}
        BY <1>1, <1>6 DEF Laid
      <4> QED
        BY <1>6, <1>7, <3>2, <4>1
    <3> QED
      BY <3>1, <3>2
  <2>2. ASSUME NEW c \in DOMAIN k.size, NEW d \in DOMAIN k.size, c < d
        PROVE  GM!BlockEnd(k, c) <= d
    <3>1. CASE c # a
      BY <1>1, <1>6, <2>2, <3>1 DEF Laid
    <3>2. CASE c = a
      <4>1. b <= d /\ d # b /\ d \in DOMAIN h.size
        BY <1>1, <1>6, <2>2, <3>2 DEF Laid
      <4>2. b < d
        BY <1>2, <1>3, <4>1
      <4> QED
        BY <1>1, <1>3, <1>6, <3>2, <4>1, <4>2 DEF Laid
    <3> QED
      BY <3>1, <3>2
  <2>3. k.next = GM!Base \/ GM!Base \in DOMAIN k.size
    <3>1. GM!Base # b
      <4>1. GM!Base <= a
        BY <1>1, <1>3 DEF Laid
      <4> QED
        BY <1>3, <4>1, ArenaBounds
    <3> QED
      BY <1>1, <1>6, <3>1 DEF Laid
  <2> QED
    BY <1>1, <1>6, <2>1, <2>2, <2>3 DEF Laid
<1>9. ASSUME NEW j \in 1 .. Len(h.free), j # i + 1 PROVE h.free[j] # b
  <2>1. PICK m \in 1 .. Len(h.free) : m = i + 1
    OBVIOUS
  <2>2. (j < m => h.free[j] < h.free[m]) /\ (m < j => h.free[m] < h.free[j])
    BY <1>1 DEF Ranked
  <2>3. h.free[m] = b /\ h.free[j] \in Nat /\ (j < m \/ m < j)
    <3>1. h.free[j] \in DOMAIN h.size
      BY <1>1 DEF Ranked
    <3> QED
      BY <1>2, <1>4, <1>9, <2>1, <3>1
  <2> QED
    BY <1>3, <2>2, <2>3
<1>10. ASSUME NEW j \in 1 .. Len(k.free)
       PROVE  \E m \in 1 .. Len(h.free) :
                m # i + 1 /\ k.free[j] = h.free[m] /\ m = IF j <= i THEN j ELSE j + 1
  <2>1. CASE j <= i
    BY <1>4, <1>5, <2>1
  <2>2. CASE ~(j <= i)
    <3>1. j + 1 \in 1 .. Len(h.free) /\ j + 1 # i + 1 /\ ~(j < i + 1)
      BY <1>4, <1>5, <2>2
    <3> QED
      BY <1>5, <2>2, <3>1
  <2> QED
    BY <2>1, <2>2
<1>11. Ranked(k)
  <2>1. \A j \in 1 .. Len(k.free) : k.free[j] \in DOMAIN k.size
    BY <1>1, <1>6, <1>9, <1>10 DEF Ranked
  <2>2. ASSUME NEW j \in 1 .. Len(k.free), NEW m \in 1 .. Len(k.free), j < m
        PROVE  k.free[j] < k.free[m]
    <3>1. PICK x \in 1 .. Len(h.free) : k.free[j] = h.free[x] /\ x = IF j <= i THEN j ELSE j + 1
      BY <1>10
    <3>2. PICK y \in 1 .. Len(h.free) : k.free[m] = h.free[y] /\ y = IF m <= i THEN m ELSE m + 1
      BY <1>10
    <3>3. x < y
      BY <1>4, <2>2, <3>1, <3>2
    <3> QED
      BY <1>1, <3>1, <3>2, <3>3 DEF Ranked
  <2> QED
    BY <2>1, <2>2 DEF Ranked
<1>12. Shared(k, U)
  <2>1. U \subseteq DOMAIN k.size
    BY <1>1, <1>6 DEF Shared
  <2>2. \A j \in 1 .. Len(k.free) : k.free[j] \notin U
    BY <1>1, <1>10 DEF Shared
  <2>3. ASSUME NEW c \in DOMAIN k.size \ U, \A j \in 1 .. Len(k.free) : k.free[j] # c
        PROVE  c + Hdr = GM!End
    <3>1. ASSUME NEW j \in 1 .. Len(h.free) PROVE h.free[j] # c
      <4>1. CASE j <= i
        <5>1. j \in 1 .. Len(k.free) /\ k.free[j] = h.free[j]
          BY <1>4, <1>5, <4>1
        <5> QED
          BY <2>3, <5>1
      <4>2. CASE j = i + 1
        BY <1>6, <4>2
      <4>3. CASE j > i + 1
        <5>1. j - 1 \in 1 .. Len(k.free) /\ ~(j - 1 < i + 1) /\ (j - 1) + 1 = j
          BY <1>4, <1>5, <4>3
        <5>2. k.free[j - 1] = h.free[j]
          BY <1>5, <5>1
        <5> QED
          BY <2>3, <5>1, <5>2
      <4> QED
        BY <1>4, <4>1, <4>2, <4>3
    <3> QED
      BY <1>1, <1>6, <2>3, <3>1 DEF Shared
  <2> QED
    BY <2>1, <2>2, <2>3 DEF Shared
<1>13. ASSUME NEW j \in Nat \ (loose \ {i}) PROVE Gap(k, j)
  <2> SUFFICES ASSUME j \in 1 .. Len(k.free), j + 1 \in 1 .. Len(k.free)
               PROVE  GM!BlockEnd(k, k.free[j]) # k.free[j + 1]
    BY DEF Gap
  <2>1. CASE j < i
    <3>1. /\ j \in 1 .. Len(h.free) /\ j + 1 \in 1 .. Len(h.free)
          /\ k.free[j] = h.free[j] /\ k.free[j + 1] = h.free[j + 1]
      BY <1>4, <1>5, <2>1
    <3>2. j \notin loose
      BY <2>1
    <3>3. GM!BlockEnd(h, h.free[j]) # h.free[j + 1]
      BY <3>1, <3>2 DEF Arena, Gap
    <3>4. h.free[j] # a /\ h.free[j] # b /\ h.free[j] \in DOMAIN h.size
      <4>1. j < i /\ j < i + 1
        BY <1>4, <2>1
      <4>2. h.free[j] < a /\ h.free[j] < b /\ h.free[j] \in DOMAIN h.size
        BY <1>1, <3>1, <4>1 DEF Ranked
      <4> QED
        BY <1>2, <1>3, <4>2
    <3> QED
      BY <1>6, <3>1, <3>3, <3>4
  <2>2. CASE j = i
    <3>1. /\ k.free[j] = a /\ k.free[j + 1] = h.free[i + 2] /\ i + 2 \in 1 .. Len(h.free)
          /\ (i + 1) + 1 = i + 2 /\ i + 1 \in Nat /\ i + 1 \notin loose
      BY <1>4, <1>5, <2>2
    <3>2. GM!BlockEnd(h, h.free[i + 1]) # h.free[i + 2]
      BY <3>1 DEF Arena, Gap
    <3> QED
      BY <1>6, <3>1, <3>2
  <2>3. CASE j > i
    <3>1. /\ j + 1 \in 1 .. Len(h.free) /\ j + 2 \in 1 .. Len(h.free) /\ (j + 1) + 1 = j + 2
          /\ k.free[j] = h.free[j + 1] /\ k.free[j + 1] = h.free[j + 2] /\ j + 1 \notin loose
      <4>1. /\ j + 1 \in 1 .. Len(h.free) /\ j + 2 \in 1 .. Len(h.free) /\ (j + 1) + 1 = j + 2
            /\ ~(j < i + 1) /\ ~(j + 1 < i + 1) /\ j + 1 # i /\ j + 1 # i - 1
        BY <1>4, <1>5, <2>3
      <4>2. k.free[j] = h.free[j + 1] /\ k.free[j + 1] = h.free[(j + 1) + 1]
        BY <1>5, <4>1
      <4> QED
        BY <4>1, <4>2
    <3>2. GM!BlockEnd(h, h.free[j + 1]) # h.free[j + 2]
      BY <3>1 DEF Arena, Gap
    <3>3. h.free[j + 1] # a /\ h.free[j + 1] # b /\ h.free[j + 1] \in DOMAIN h.size
      <4>1. j + 1 > i /\ j + 1 > i + 1
        BY <2>3
      <4> QED
        <5>1. a < h.free[j + 1] /\ b < h.free[j + 1] /\ h.free[j + 1] \in DOMAIN h.size
          BY <1>1, <3>1, <4>1 DEF Ranked
        <5> QED
          BY <1>2, <1>3, <5>1
    <3> QED
      BY <1>6, <3>1, <3>2, <3>3
  <2> QED
    BY <1>4, <2>1, <2>2, <2>3
<1>14. Spared(h, k, U)
  <2>1. ASSUME NEW c \in U PROVE c \in DOMAIN h.size /\ c # a /\ c # b
    BY <1>1 DEF Shared
  <2> QED
    BY <1>6, <2>1 DEF Spared, Merges
<1> QED
  BY <1>8, <1>11, <1>12, <1>13, <1>14 DEF Arena, Kept

-----------------------------------------------------------------------------
(* What arena_alloc answers.                                               *)

LEMMA FreeFacts ==
  ASSUME NEW h, NEW U, NEW loose, Arena(h, U, loose)
  PROVE  /\ h \in Heaps /\ h.free \in Seq(Nat) /\ h.next \in Nat \ {0}
         /\ h.next \notin DOMAIN h.size /\ U \subseteq DOMAIN h.size
         /\ \A i \in 1 .. Len(h.free) :
              h.free[i] \in Nat \ {0} /\ h.free[i] \in DOMAIN h.size /\ h.free[i] \notin U
<1>1. Laid(h) /\ Ranked(h) /\ Shared(h, U)
  BY DEF Arena
<1>2. h \in Heaps /\ h.free \in Seq(Nat) /\ h.next \in Nat /\ DOMAIN h.size \subseteq Nat
  BY <1>1, LaidFacts
<1>3. \A a \in DOMAIN h.size : GM!BlockEnd(h, a) \in Nat /\ GM!BlockEnd(h, a) > a
  BY <1>1, LaidFacts
<1>4. h.next \notin DOMAIN h.size
  BY <1>1, <1>2, <1>3 DEF Laid
<1>5. h.next # 0 /\ \A a \in DOMAIN h.size : a # 0
  <2>1. h.next >= GM!Base /\ \A a \in DOMAIN h.size : a >= GM!Base
    BY <1>1 DEF Laid
  <2> QED
    BY <1>2, <2>1, ArenaBounds
<1> QED
  BY <1>1, <1>2, <1>4, <1>5 DEF Ranked, Shared

\* What arena_alloc answers: nothing, or a block that was not in use, as big as
\* was asked for, in an arena still tiled.
Refused(h, found) == found.at = 0 /\ found.heap = h
Answered(h, U, n, found) ==
  /\ found.at \in Nat \ ({0} \cup U) /\ Arena(found.heap, U \cup {found.at}, {})
  /\ Spared(h, found.heap, U) /\ found.heap.size[found.at] >= n

IsReplaced(s, i, e, r) ==
  /\ r \in Seq(Nat) /\ Len(r) = Len(s) /\ r[i] = e
  /\ \A j \in 1 .. Len(s) : j # i => r[j] = s[j]

LEMMA Replaced ==
  ASSUME NEW s, NEW i, NEW e, s \in Seq(Nat), i \in 1 .. Len(s), e \in Nat
  PROVE  IsReplaced(s, i, e, [s EXCEPT ![i] = e])
BY DEF IsReplaced

LEMMA SplitGives ==
  ASSUME NEW h, NEW U, Arena(h, U, {}), NEW i \in 1 .. Len(h.free), NEW n \in Nat,
         h.size[h.free[i]] >= n, h.size[h.free[i]] - n - Hdr >= Split, NEW k,
         k = GM!Resized(GM!Resized([h EXCEPT !.free[i] = h.free[i] + Hdr + n], h.free[i] + Hdr + n,
                                   h.size[h.free[i]] - n - Hdr), h.free[i], n)
  PROVE  Answered(h, U, n, [at |-> h.free[i], heap |-> k])
<1>1. PICK a : a = h.free[i]
  OBVIOUS
<1>2. /\ h \in Heaps /\ h.free \in Seq(Nat) /\ a \in Nat /\ a # 0 /\ a \in DOMAIN h.size /\ a \notin U
  BY <1>1, FreeFacts
<1>3. PICK z \in Nat : z = h.size[a]
  BY <1>2, HeapFacts, SizingFacts
<1>4. PICK rest \in Nat : rest = z - n - Hdr
  <2>1. z - n - Hdr >= Split
    BY ONLY <1>1, <1>3, h.size[h.free[i]] - n - Hdr >= Split
  <2>2. Hdr \in Nat /\ Split \in Nat
    BY ArenaBounds
  <2> QED
    BY ONLY <2>1, <2>2, z \in Nat, n \in Nat
<1>5. PICK tail \in Nat : tail = a + Hdr + n
  <2>1. a \in Nat /\ Hdr \in Nat
    BY <1>2, ArenaBounds
  <2> QED
    BY ONLY <2>1, n \in Nat
<1>6. h.size[a] = n + Hdr + rest
  <2>1. Hdr \in Nat
    BY ArenaBounds
  <2>2. z = n + Hdr + rest
    BY ONLY <1>4, <2>1, z \in Nat, n \in Nat
  <2> QED
    BY ONLY <1>3, <2>2
<1>7. PICK s : s = [h.free EXCEPT ![i] = tail]
  OBVIOUS
<1>8. PICK p : p = [h EXCEPT !.free = s]
  OBVIOUS
<1>9. PICK q : q = GM!Resized(p, tail, rest)
  OBVIOUS
<1>10. k = GM!Resized(q, a, n)
  <2>1. [h EXCEPT !.free[i] = tail] = [h EXCEPT !.free = s]
    BY <1>7
  <2> QED
    BY ONLY <1>1, <1>3, <1>4, <1>5, <1>8, <1>9, <2>1, Zenon,
            k = GM!Resized(GM!Resized([h EXCEPT !.free[i] = h.free[i] + Hdr + n], h.free[i] + Hdr + n,
                                      h.size[h.free[i]] - n - Hdr), h.free[i], n)
<1>11. IsReplaced(h.free, i, tail, s)
  BY <1>2, <1>7, Replaced
<1>12. p \in Heaps /\ p.next = h.next /\ p.free = s /\ p.size = h.size
  <2>1. s \in Seq(Nat)
    BY <1>11 DEF IsReplaced
  <2> QED
    BY <1>2, <1>8, <2>1, FreeAt
<1>13. IsResized(p, tail, rest, q)
  BY <1>9, <1>12, ResizedIs
<1>14. IsResized(q, a, n, k)
  <2>1. q \in Heaps
    BY Zenon, <1>13 DEF IsResized
  <2> QED
    BY <1>2, <1>10, <2>1, ResizedIs
<1>15. k \in Heaps /\ k.next = h.next /\ k.free = s /\ DOMAIN k.size = DOMAIN h.size \cup {tail}
  BY Zenon, <1>2, <1>12, <1>13, <1>14 DEF IsResized
<1>16. SplitAt(h, k, i, a, tail, n, rest)
  <2>1. \A b \in DOMAIN k.size :
          /\ k.size[b] = IF b = a THEN n ELSE q.size[b]
          /\ b # a => b \in DOMAIN q.size
    BY Zenon, <1>14 DEF IsResized
  <2>2. \A b \in DOMAIN q.size : q.size[b] = IF b = tail THEN rest ELSE h.size[b]
    BY <1>12, <1>13 DEF IsResized
  <2>3. \A b \in DOMAIN k.size :
          k.size[b] = IF b = a THEN n ELSE IF b = tail THEN rest ELSE h.size[b]
    BY ONLY Zenon, <2>1, <2>2
  <2> QED
    BY Zenon, <1>11, <1>15, <2>3 DEF SplitAt, IsReplaced
<1>17. Granted(h, k, U, a, n)
  <2>1. IsSplit(h, k, i, a, tail, n, rest)
    BY <1>1, <1>2, <1>5, <1>6, <1>15, <1>16 DEF IsSplit
  <2> QED
    BY <2>1, SplitKeeps
<1> QED
  BY <1>1, <1>2, <1>17 DEF Answered, Granted

LEMMA TakenGives ==
  ASSUME NEW h, NEW U, Arena(h, U, {}), NEW i \in 1 .. Len(h.free), NEW n \in Nat,
         h.size[h.free[i]] >= n, NEW k, k = [h EXCEPT !.free = GM!RemoveAt(@, i)]
  PROVE  Answered(h, U, n, [at |-> h.free[i], heap |-> k])
<1>2. /\ h \in Heaps /\ h.free \in Seq(Nat) /\ h.free[i] \in Nat \ {0} /\ h.free[i] \notin U
  BY FreeFacts
<1>3. GM!RemoveAt(h.free, i) \in Seq(Nat)
  BY ONLY <1>2, i \in 1 .. Len(h.free), Without
<1>4. k \in Heaps /\ k.next = h.next /\ k.free = GM!RemoveAt(h.free, i) /\ k.size = h.size
  BY <1>2, <1>3, FreeAt
<1>5. Granted(h, k, U, h.free[i], h.size[h.free[i]])
  BY <1>4, TakenKeeps
<1> QED
  BY <1>2, <1>5 DEF Answered, Granted

LEMMA ExtendedGives ==
  ASSUME NEW h, NEW U, Arena(h, U, {}), NEW n \in Nat, h.next + Hdr + n <= GM!End,
         NEW k, k = [GM!Resized(h, h.next, n) EXCEPT !.next = h.next + Hdr + n]
  PROVE  Answered(h, U, n, [at |-> h.next, heap |-> k])
<1>2. /\ h \in Heaps /\ h.next \in Nat \ {0} /\ h.next \notin U
  BY FreeFacts
<1>3. PICK q : q = GM!Resized(h, h.next, n)
  OBVIOUS
<1>33. IsResized(h, h.next, n, q)
  BY <1>2, <1>3, ResizedIs
<1>4. h.next + Hdr + n \in Nat
  BY <1>2, ArenaBounds
<1>5. k = [q EXCEPT !.next = h.next + Hdr + n]
  BY <1>3
<1>6. k \in Heaps /\ k.next = h.next + Hdr + n /\ k.free = q.free /\ k.size = q.size
  BY <1>4, <1>5, <1>33 DEF Heaps, IsResized
<1>7. Extends(h, k, n)
  BY <1>33, <1>6 DEF Extends, IsResized
<1>8. Granted(h, k, U, h.next, n)
  BY <1>6, <1>7, ExtendedKeeps
<1> QED
  <2>1. k.size[h.next] >= n
    BY <1>8 DEF Granted
  <2> QED
    BY <1>2, <1>8, <2>1 DEF Answered, Granted

LEMMA AllocatedGives ==
  ASSUME NEW h, NEW U, Arena(h, U, {}), NEW n \in Nat
  PROVE  Refused(h, GM!Allocated(h, n)) \/ Answered(h, U, n, GM!Allocated(h, n))
<1>1. PICK m \in Nat : m = GM!Rounded(n) /\ m >= n
  BY RoundedUp
<1>2. /\ h \in Heaps /\ h.free \in Seq(Nat) /\ h.next \in Nat
      /\ \A i \in 1 .. Len(h.free) : h.free[i] \in DOMAIN h.size
  BY FreeFacts
<1> DEFINE fits == {i \in DOMAIN h.free : h.size[h.free[i]] >= m}
           first == CHOOSE j \in fits : \A k \in fits : j <= k
           tail == h.free[first] + Hdr + m
           rest == h.size[h.free[first]] - m - Hdr
           found == GM!Allocated(h, n)
<1>3. ASSUME NEW x, Answered(h, U, m, x) PROVE Answered(h, U, n, x)
  <2>1. x.heap.size[x.at] \in Nat /\ x.heap.size[x.at] >= m
    <3>1. Arena(x.heap, U \cup {x.at}, {}) /\ x.heap.size[x.at] >= m
      BY <1>3 DEF Answered
    <3>2. x.heap \in Heaps /\ x.at \in DOMAIN x.heap.size
      BY <3>1, FreeFacts
    <3> QED
      BY <3>1, <3>2, HeapFacts, SizingFacts
  <2>2. x.heap.size[x.at] >= n
    BY ONLY <1>1, <2>1, n \in Nat
  <2> QED
    BY <1>3, <2>2 DEF Answered
<1>4. CASE fits # {}
  <2>1. first \in fits
    <3>1. fits \in SUBSET Nat
      BY <1>2
    <3> HIDE DEF fits
    <3>2. \E j \in fits : \A k \in fits : j <= k
      BY <1>4, <3>1, FirstPlace
    <3> QED
      BY <3>2
  <2>2. first \in 1 .. Len(h.free) /\ h.size[h.free[first]] >= m
    BY <1>2, <2>1
  <2>3. CASE rest >= Split
    <3>1. found = [at |-> h.free[first],
                 heap |-> GM!Resized(GM!Resized([h EXCEPT !.free[first] = tail], tail, rest),
                                     h.free[first], m)]
      BY <1>1, <1>4, <2>3, Zenon DEF GM!Allocated
    <3> HIDE DEF first, fits
    <3>2. Answered(h, U, m, found)
      BY <2>2, <2>3, <3>1, SplitGives
    <3> QED
      BY <1>3, <3>2
  <2>4. CASE ~(rest >= Split)
    <3>1. found = [at |-> h.free[first], heap |-> [h EXCEPT !.free = GM!RemoveAt(@, first)]]
      BY <1>1, <1>4, <2>4, Zenon DEF GM!Allocated
    <3> HIDE DEF first, fits
    <3>2. Answered(h, U, m, found)
      BY <2>2, <3>1, TakenGives
    <3> QED
      BY <1>3, <3>2
  <2> QED
    BY <2>3, <2>4
<1>5. CASE fits = {} /\ h.next + Hdr + m <= GM!End
  <2>1. found = [at |-> h.next, heap |-> [GM!Resized(h, h.next, m) EXCEPT !.next = h.next + Hdr + m]]
    BY <1>1, <1>5, Zenon DEF GM!Allocated
  <2>2. Answered(h, U, m, found)
    BY <1>5, <2>1, ExtendedGives
  <2> QED
    BY <1>3, <2>2
<1>6. CASE fits = {} /\ ~(h.next + Hdr + m <= GM!End)
  <2>1. found = [at |-> 0, heap |-> h]
    BY <1>1, <1>6, Zenon DEF GM!Allocated
  <2> QED
    BY <2>1 DEF Refused
<1> QED
  BY <1>4, <1>5, <1>6

-----------------------------------------------------------------------------
(* What arena_free leaves: the block joined to its neighbours.              *)

Joins(h, i) ==
  i \in 1 .. Len(h.free) /\ i + 1 \in 1 .. Len(h.free) /\ GM!BlockEnd(h, h.free[i]) = h.free[i + 1]

LEMMA MergedIs ==
  ASSUME NEW h, NEW i, h \in Heaps, Joins(h, i), NEW a, NEW b, a = h.free[i], b = h.free[i + 1],
         {a, b} \subseteq DOMAIN h.size, a # b
  PROVE  GM!Joined(h, i) \in Heaps /\ Merges(h, GM!Joined(h, i), i, a, b)
<1>1. /\ h.free \in Seq(Nat) /\ Len(h.free) \in Nat /\ {a, b} \subseteq Nat
      /\ h.size[a] \in Nat /\ h.size[b] \in Nat
  <2>1. h.free \in Seq(Nat)
    BY HeapFacts
  <2>2. {a, b} \subseteq Nat /\ h.size[a] \in Nat /\ h.size[b] \in Nat
    BY HeapFacts, SizingFacts
  <2> QED
    BY <2>1, <2>2
<1>2. i \in 1 .. Len(h.free) /\ i + 1 \in 1 .. Len(h.free) /\ DOMAIN h.free = 1 .. Len(h.free)
  BY <1>1 DEF Joins
<1>3. PICK s : s = GM!RemoveAt(h.free, i + 1)
  OBVIOUS
<1>4. PICK n : n = h.size[a] + Hdr + h.size[b]
  OBVIOUS
<1>5. PICK p : p = [h EXCEPT !.free = s]
  OBVIOUS
<1>6. PICK q : q = GM!Resized(p, a, n)
  OBVIOUS
<1>7. GM!Joined(h, i) = GM!Unheaded(q, b)
  <2>1. i \in DOMAIN h.free /\ i + 1 \in DOMAIN h.free /\ GM!BlockEnd(h, h.free[i]) = h.free[i + 1]
    BY <1>2 DEF Joins
  <2>2. GM!Joined(h, i) = GM!Unheaded(GM!Resized([h EXCEPT !.free = GM!RemoveAt(@, i + 1)],
             h.free[i], h.size[h.free[i]] + Hdr + h.size[h.free[i + 1]]), h.free[i + 1])
    BY <2>1, Zenon DEF GM!Joined
  <2>3. [h EXCEPT !.free = GM!RemoveAt(@, i + 1)] = p
    BY <1>3, <1>5
  <2> QED
    BY <1>4, <1>6, <2>2, <2>3
<1>8. s \in Seq(Nat)
  BY ONLY <1>1, <1>2, <1>3, Without
<1>9. n \in Nat
  BY ONLY <1>1, <1>4, ArenaBounds
<1>10. p \in Heaps /\ p.next = h.next /\ p.free = s /\ p.size = h.size
  BY <1>5, <1>8, FreeAt
<1>11. IsResized(p, a, n, q)
  BY <1>1, <1>6, <1>9, <1>10, ResizedIs
<1>12. q \in Heaps
  BY <1>11 DEF IsResized
<1>13. IsUnheaded(q, b, GM!Joined(h, i))
  BY <1>1, <1>7, <1>12, UnheadedIs
<1>14. PICK k : k = GM!Joined(h, i)
  OBVIOUS
<1>15. k \in Heaps /\ k.next = h.next /\ k.free = s /\ DOMAIN k.size = DOMAIN h.size \ {b}
  BY <1>10, <1>11, <1>13, <1>14 DEF IsResized, IsUnheaded
<1>16. ASSUME NEW c \in DOMAIN k.size PROVE k.size[c] = IF c = a THEN n ELSE h.size[c]
  <2>1. k.size[c] = q.size[c] /\ c \in DOMAIN q.size
    BY <1>13, <1>14, <1>16 DEF IsUnheaded
  <2> QED
    BY <1>10, <1>11, <2>1 DEF IsResized
<1>17. Merges(h, k, i, a, b)
  BY <1>3, <1>4, <1>15, <1>16 DEF Merges
<1> QED
  BY <1>14, <1>15, <1>17

LEMMA JoinedKeeps ==
  ASSUME NEW h, NEW U, NEW loose, NEW i, Arena(h, U, loose), i \in Nat, loose \subseteq Nat,
         loose \subseteq {i - 1, i}
  PROVE  Kept(h, GM!Joined(h, i), U, loose \ {i})
<1>1. /\ h \in Heaps /\ h.free \in Seq(Nat) /\ Laid(h) /\ Ranked(h)
  BY FreeFacts DEF Arena
<1>2. CASE Joins(h, i)
  <2>1. PICK a : a = h.free[i]
    OBVIOUS
  <2>2. PICK b : b = h.free[i + 1]
    OBVIOUS
  <2>3. i \in 1 .. Len(h.free) /\ i + 1 \in 1 .. Len(h.free) /\ GM!BlockEnd(h, a) = b
    BY <1>2, <2>1, <2>2 DEF Joins
  <2>4. {a, b} \subseteq DOMAIN h.size /\ a # b
    <3>1. a \in DOMAIN h.size /\ b \in DOMAIN h.size
      BY <1>1, <2>1, <2>2, <2>3 DEF Ranked
    <3>2. a # b
      BY <1>1, <2>3, <3>1, LaidFacts
    <3> QED
      BY <3>1, <3>2
  <2>5. PICK k : k = GM!Joined(h, i)
    OBVIOUS
  <2>6. k \in Heaps /\ Merges(h, k, i, a, b)
    BY <1>1, <1>2, <2>1, <2>2, <2>4, <2>5, MergedIs
  <2>7. Kept(h, k, U, loose \ {i})
    BY <2>1, <2>2, <2>3, <2>6, MergedKeeps
  <2> QED
    BY <2>5, <2>7
<1>3. CASE ~Joins(h, i)
  <2>1. GM!Joined(h, i) = h
    <3>1. DOMAIN h.free = 1 .. Len(h.free)
      BY <1>1
    <3> QED
      BY <1>3, <3>1, Zenon DEF GM!Joined, Joins
  <2>2. Gap(h, i)
    BY <1>3 DEF Gap, Joins
  <2>3. \A j \in Nat \ (loose \ {i}) : Gap(h, j)
    BY <2>2 DEF Arena
  <2>4. Spared(h, h, U)
    BY DEF Arena, Shared, Spared
  <2>5. Kept(h, h, U, loose \ {i})
    BY <2>3, <2>4 DEF Arena, Kept
  <2> QED
    BY <2>1, <2>5
<1> QED
  BY <1>2, <1>3

LEMMA CountedTo ==
  ASSUME NEW b \in Nat
  PROVE  GM!Cardinality(1 .. b) = b
<1>1. Cardinality(1 .. b) = b
  BY FS_Interval
<1>2. GM!Cardinality(1 .. b) = Cardinality(1 .. b)
  BY DEF GM!Cardinality, Cardinality
<1> QED
  BY <1>1, <1>2

\* Where a block in use belongs in the list of the free ones.
Before(h, a) == {i \in DOMAIN h.free : h.free[i] < a}
LEMMA ItsPlace ==
  ASSUME NEW h, NEW U, Arena(h, U, {}), NEW a \in U
  PROVE  \E b \in 0 .. Len(h.free) :
           /\ GM!Cardinality(Before(h, a)) = b
           /\ \A j \in 1 .. Len(h.free) : IF j <= b THEN h.free[j] < a ELSE a < h.free[j]
<1>1. /\ h.free \in Seq(Nat) /\ a \in Nat
      /\ \A i \in 1 .. Len(h.free) : h.free[i] \in Nat /\ h.free[i] # a
  <2>1. Laid(h) /\ Shared(h, U)
    BY DEF Arena
  <2>2. a \in Nat
    BY <2>1, LaidFacts DEF Shared
  <2> QED
    BY <2>2, FreeFacts
<1>2. Len(h.free) \in Nat /\ DOMAIN h.free = 1 .. Len(h.free)
  BY <1>1
<1>3. \A i, j \in 1 .. Len(h.free) : i < j => h.free[i] < h.free[j]
  BY DEF Arena, Ranked
<1> DEFINE T == {c \in 0 .. Len(h.free) : \A j \in 1 .. Len(h.free) : j > c => a < h.free[j]}
<1>4. PICK b \in T : \A c \in T : b <= c
  <2>1. Len(h.free) \in T
    BY <1>2
  <2>2. T \in SUBSET Nat /\ T # {}
    BY <1>2, <2>1
  <2> HIDE DEF T
  <2> QED
    BY <2>2, FirstPlace
<1>5. b \in 0 .. Len(h.free) /\ b \in Nat /\ \A j \in 1 .. Len(h.free) : j > b => a < h.free[j]
  BY <1>4
<1>6. ASSUME b # 0 PROVE b \in 1 .. Len(h.free) /\ h.free[b] < a
  <2>1. b - 1 \in 0 .. Len(h.free) /\ ~(b <= b - 1) /\ b \in 1 .. Len(h.free)
    BY <1>2, <1>5, <1>6
  <2>2. b - 1 \notin T
    BY <1>4, <2>1
  <2>3. PICK j \in 1 .. Len(h.free) : j > b - 1 /\ ~(a < h.free[j])
    BY <2>1, <2>2
  <2>4. ~(j > b)
    BY <1>5, <2>3
  <2>5. j = b
    BY <1>5, <2>3, <2>4
  <2> QED
    BY <1>1, <2>1, <2>3, <2>5
<1>7. ASSUME NEW j \in 1 .. Len(h.free), j <= b PROVE h.free[j] < a
  <2>1. b # 0 /\ (j = b \/ j < b)
    BY <1>5, <1>7
  <2>2. b \in 1 .. Len(h.free) /\ h.free[b] < a
    BY <1>6, <2>1
  <2>3. j < b => h.free[j] < h.free[b]
    BY <1>3, <2>2
  <2> QED
    BY <1>1, <2>1, <2>2, <2>3
<1>8. Before(h, a) = 1 .. b
  <2>1. ASSUME NEW j \in Before(h, a) PROVE j \in 1 .. b
    <3>1. j \in 1 .. Len(h.free) /\ h.free[j] < a
      BY <1>2, <2>1 DEF Before
    <3>2. ~(a < h.free[j])
      BY <1>1, <3>1
    <3>3. ~(j > b)
      BY <1>5, <3>1, <3>2
    <3> QED
      BY <1>5, <3>1, <3>3
  <2>2. ASSUME NEW j \in 1 .. b PROVE j \in Before(h, a)
    <3>1. j \in 1 .. Len(h.free) /\ j <= b
      BY <1>2, <1>5, <2>2
    <3> QED
      BY <1>2, <1>7, <3>1 DEF Before
  <2> QED
    BY <2>1, <2>2
<1>9. GM!Cardinality(Before(h, a)) = b
  BY <1>5, <1>8, CountedTo
<1> QED
  BY <1>5, <1>7, <1>9

LEMMA ReleasedKeeps ==
  ASSUME NEW h, NEW U, Arena(h, U, {}), NEW a, a \in U
  PROVE  Kept(h, GM!Released(h, a), U \ {a}, {})
<1>1. PICK b \in 0 .. Len(h.free) :
        /\ GM!Cardinality(Before(h, a)) = b
        /\ \A j \in 1 .. Len(h.free) : IF j <= b THEN h.free[j] < a ELSE a < h.free[j]
  BY ItsPlace
<1>2. PICK k : k = [h EXCEPT !.free = GM!InsertAt(@, b + 1, a)]
  OBVIOUS
<1>3. PICK p : p = GM!Joined(k, b + 1)
  OBVIOUS
<1>4. PICK q : q = GM!Joined(p, b)
  OBVIOUS
<1>5. GM!Released(h, a) = q
  <2>1. GM!Cardinality({i \in DOMAIN h.free : h.free[i] < a}) = b
    BY <1>1 DEF Before
  <2> QED
    BY <1>2, <1>3, <1>4, <2>1, Zenon DEF GM!Released
<1>6. h \in Heaps /\ h.free \in Seq(Nat) /\ a \in Nat
  <2>1. Laid(h) /\ Shared(h, U)
    BY DEF Arena
  <2> QED
    BY <2>1, LaidFacts DEF Shared
<1>7. k \in Heaps /\ k.next = h.next /\ k.size = h.size /\ k.free = GM!InsertAt(h.free, b + 1, a)
  <2>1. GM!InsertAt(h.free, b + 1, a) \in Seq(Nat)
    BY <1>6, Inserted DEF IsInserted
  <2> QED
    BY <1>2, <1>6, <2>1, FreeAt
<1>8. Kept(h, k, U \ {a}, {b, b + 1})
  BY <1>1, <1>7, ListedKeeps
<1>9. b \in Nat /\ b + 1 \in Nat /\ (b + 1) - 1 = b
  <2>1. Len(h.free) \in Nat
    BY <1>6
  <2> QED
    BY <2>1
<1>10. Kept(k, p, U \ {a}, {b, b + 1} \ {b + 1})
  BY <1>3, <1>8, <1>9, JoinedKeeps DEF Kept
<1>11. {b, b + 1} \ {b + 1} = {b}
  BY <1>9
<1>12. Kept(k, p, U \ {a}, {b})
  BY <1>10, <1>11
<1>13. Kept(p, q, U \ {a}, {b} \ {b})
  BY <1>4, <1>9, <1>12, JoinedKeeps DEF Kept
<1>14. {b} \ {b} = {}
  OBVIOUS
<1>15. Kept(p, q, U \ {a}, {})
  BY <1>13, <1>14
<1>16. Spared(h, q, U \ {a})
  BY <1>8, <1>12, <1>15 DEF Kept, Spared
<1> QED
  BY <1>5, <1>15, <1>16 DEF Kept

LEMMA FreedKeeps ==
  ASSUME NEW h, NEW U, Arena(h, U, {}), NEW a, a \in U
  PROVE  Kept(h, GM!Freed(h, a), U \ {a}, {})
<1>1. Laid(h) /\ Ranked(h) /\ Shared(h, U)
  BY DEF Arena
<1>2. a \in DOMAIN h.size /\ a \in Nat /\ GM!Base <= a /\ GM!BlockEnd(h, a) <= GM!End /\ h.size[a] \in Nat
  <2>1. h.next \in Nat /\ h.next <= GM!End
    BY <1>1, LaidFacts DEF Laid
  <2>2. a \in DOMAIN h.size /\ a \in Nat /\ GM!BlockEnd(h, a) \in Nat /\ h.size[a] \in Nat
    BY <1>1, LaidFacts DEF Shared
  <2>3. GM!Base <= a /\ GM!BlockEnd(h, a) <= h.next
    BY <1>1, <2>2 DEF Laid
  <2> QED
    BY <2>1, <2>2, <2>3, ArenaBounds
<1>3. a # 0
  BY <1>2, ArenaBounds
<1>4. CASE a + Hdr >= GM!End
  <2>1. a + Hdr = GM!End
    BY <1>2, <1>4, ArenaBounds DEF GM!BlockEnd
  <2>2. Shared(h, U \ {a})
    BY <1>1, <2>1 DEF Shared
  <2>3. Arena(h, U \ {a}, {}) /\ Spared(h, h, U \ {a})
    BY <1>1, <2>2 DEF Arena, Spared, Shared
  <2>4. GM!Freed(h, a) = h
    BY <1>4 DEF GM!Freed
  <2> QED
    BY <2>3, <2>4 DEF Kept
<1>5. CASE ~(a + Hdr >= GM!End)
  <2>1. GM!Freed(h, a) = GM!Released(h, a)
    BY <1>3, <1>5 DEF GM!Freed
  <2> QED
    BY <2>1, ReleasedKeeps
<1> QED
  BY <1>4, <1>5

-----------------------------------------------------------------------------
(* The invariant of the guest's threads, and the steps on the maps.         *)

Holding == [at : Nat, need : Nat]
Stages == {"out", "engine", "in", "leaving", "growing", "mapping", "unmapping"}
GuestTypes ==
  /\ held \in [Threads -> SUBSET Holding] /\ stack \in [Threads -> Nat]
  /\ growing \in [Threads -> Holding] /\ moving \in [Threads -> SUBSET Views]
  /\ pc \in [Threads -> Stages] /\ engines \subseteq Threads
  /\ regions \subseteq Views \cup {GM!Block}
  /\ mapped \in [Threads -> SUBSET (Views \cup {GM!Block})]
  /\ views \subseteq Views /\ maps \subseteq views /\ gone \in {"no", "stack", "map"}

\* Each block in use has one owner, who has it under one name: a block its guest
\* code holds, its stack, or the block it is growing out of.
Owns(t, a) ==
  \/ \E b \in held[t] : b.at = a
  \/ a = stack[t] /\ a # 0
  \/ a = growing[t].at /\ a # 0
OneOwner ==
  /\ \A t, u \in Threads : \A a \in Nat : Owns(t, a) /\ Owns(u, a) => t = u
  /\ \A t \in Threads : \A b \in held[t] :
       /\ b.at # 0 /\ b.at # stack[t] /\ b.at # growing[t].at
       /\ \A c \in held[t] : b.at = c.at => b = c
  /\ \A t \in Threads : stack[t] # 0 => stack[t] # growing[t].at
BigEnough == \A t \in Threads : \A b \in held[t] : heap.size[b.at] >= b.need
\* A thread has a stack once it is in the guest, and grows a block in one step.
InTurn ==
  \A t \in Threads :
    /\ pc[t] \in {"out", "engine"} => stack[t] = 0
    /\ pc[t] # "growing" => growing[t].at = 0
BlocksInv == Arena(heap, GM!Used, {}) /\ OneOwner /\ BigEnough /\ InTurn

\* The view a thread is mapping or unmapping is there, is no region, and is no
\* other thread's.
MovesApart ==
  /\ \A t \in Threads :
       IF pc[t] \in {"mapping", "unmapping"}
       THEN \E v \in views : moving[t] = {v} /\ v \notin regions
       ELSE moving[t] = {}
  /\ \A t, u \in Threads : t # u => moving[t] \cap moving[u] = {}
MapsInv == MovesApart /\ GM!EnginesAgree
GuestInv == GuestTypes /\ BlocksInv /\ MapsInv

LEMMA UsedIs == \A a : a \in GM!Used <=> \E t \in Threads : Owns(t, a)
BY DEF GM!Used, Owns

mapVars == << moving, regions, engines, mapped, views, maps, gone >>
MovesOn(t) == pc' = [pc EXCEPT ![t] = pc'[t]] /\ pc'[t] \in Stages

\* Steps that only take and give back blocks.
LEMMA MapsKept ==
  ASSUME GuestInv, NEW t \in Threads, MovesOn(t), UNCHANGED << moving, regions, engines, mapped, views, maps >>,
         gone' \in {"no", "stack"}, pc[t] \notin {"mapping", "unmapping"}, pc'[t] \notin {"mapping", "unmapping"}
  PROVE  MapsInv'
<1> USE DEF GuestInv
<1>1. \A u \in Threads : u # t => pc'[u] = pc[u]
  BY DEF GuestTypes, MovesOn
<1>2. MovesApart'
  BY <1>1 DEF MapsInv, MovesApart
<1>3. GM!EnginesAgree'
  BY DEF MapsInv, GM!EnginesAgree
<1> QED
  BY <1>2, <1>3 DEF MapsInv

\* Steps that only map and unmap.
LEMMA BlocksKept ==
  ASSUME GuestInv, NEW t \in Threads, MovesOn(t), UNCHANGED << heap, held, stack, growing >>,
         pc'[t] \in {"out", "engine"} => stack[t] = 0, pc[t] # "growing"
  PROVE  BlocksInv'
<1> USE DEF GuestInv
<1>1. \A u \in Threads : u # t => pc'[u] = pc[u]
  BY DEF GuestTypes, MovesOn
<1>2. GM!Used' = GM!Used
  BY DEF GM!Used
<1>3. \A u \in Threads, a \in Nat : Owns(u, a)' = Owns(u, a)
  BY DEF Owns
<1>4. Arena(heap, GM!Used, {})'
  BY <1>2 DEF BlocksInv
<1>5. OneOwner' /\ BigEnough'
  BY <1>3 DEF BlocksInv, OneOwner, BigEnough
<1>6. InTurn'
  BY <1>1 DEF BlocksInv, InTurn
<1> QED
  BY <1>4, <1>5, <1>6 DEF BlocksInv

LEMMA GuestInit == GM!Init => GuestInv
<1> SUFFICES ASSUME GM!Init PROVE GuestInv
  OBVIOUS
<1> USE GuestAssumption DEF GM!Init
<1>1. GuestTypes
  BY DEF GuestTypes, Holding, Stages
<1>2. GM!Used = {}
  BY UsedIs DEF Owns
<1>3. OneOwner /\ BigEnough /\ InTurn
  BY DEF OneOwner, BigEnough, InTurn, Owns
<1>4. MapsInv
  BY DEF MapsInv, MovesApart, GM!EnginesAgree
<1>5. heap \in Heaps
  <2>1. <<>> \in Sizings
    <3>1. <<>> \in [{} -> Nat] /\ {} \in SUBSET Nat
      OBVIOUS
    <3> QED
      BY <3>1 DEF Sizings
  <2> QED
    BY <2>1, ArenaBounds DEF Heaps
<1>6. heap.next = GM!Base /\ Len(heap.free) = 0 /\ DOMAIN heap.size = {}
  OBVIOUS
<1>7. Laid(heap)
  <2>1. GM!Base <= GM!End
    BY DEF GM!Base, GM!End
  <2> QED
    BY <1>5, <1>6, <2>1, ArenaBounds DEF Laid
<1>8. Arena(heap, {}, {})
  BY <1>6, <1>7 DEF Arena, Ranked, Shared, Gap
<1> QED
  BY <1>1, <1>2, <1>3, <1>4, <1>8 DEF GuestInv, BlocksInv

LEMMA MapSteps ==
  ASSUME GuestInv, NEW t \in Threads,
         GM!NewEngine(t) \/ GM!CloseEngine(t) \/ GM!MapView(t) \/ GM!AddRegion(t)
         \/ GM!Unmap(t) \/ GM!UnmapView(t)
  PROVE  GuestInv'
<1> USE DEF GuestInv
<1>0. UNCHANGED << heap, held, stack, growing >>
  BY Zenon DEF GM!NewEngine, GM!CloseEngine, GM!MapView, GM!AddRegion, GM!Unmap, GM!UnmapView
<1>1. CASE GM!NewEngine(t)
  <2>1. /\ pc[t] = "out" /\ pc' = [pc EXCEPT ![t] = "engine"] /\ gone = "no"
        /\ mapped' = [mapped EXCEPT ![t] = regions] /\ engines' = engines \cup {t}
        /\ UNCHANGED << regions, views, maps, gone, moving >>
    BY <1>1 DEF GM!NewEngine, GM!To
  <2>2. MovesOn(t) /\ pc'[t] = "engine" /\ stack[t] = 0
    BY <2>1 DEF MovesOn, GuestTypes, Stages, BlocksInv, InTurn
  <2>3. BlocksInv'
    BY <1>0, <2>1, <2>2, BlocksKept
  <2>4. GuestTypes'
    BY <1>0, <2>1 DEF GuestTypes, Stages
  <2>5. MovesApart'
    BY <2>1 DEF MapsInv, MovesApart, GuestTypes
  <2>6. GM!EnginesAgree'
    BY <2>1 DEF MapsInv, GuestTypes, GM!EnginesAgree
  <2> QED
    BY <2>3, <2>4, <2>5, <2>6 DEF MapsInv
<1>2. CASE GM!CloseEngine(t)
  <2>1. /\ pc[t] = "in" /\ pc' = [pc EXCEPT ![t] = "leaving"] /\ gone = "no"
        /\ mapped' = [mapped EXCEPT ![t] = {}] /\ engines' = engines \ {t}
        /\ UNCHANGED << regions, views, maps, gone, moving >>
    BY <1>2 DEF GM!CloseEngine, GM!To
  <2>2. MovesOn(t) /\ pc'[t] = "leaving"
    BY <2>1 DEF MovesOn, GuestTypes, Stages
  <2>3. BlocksInv'
    BY <1>0, <2>1, <2>2, BlocksKept
  <2>4. GuestTypes'
    BY <1>0, <2>1 DEF GuestTypes, Stages
  <2>5. MovesApart'
    BY <2>1 DEF MapsInv, MovesApart, GuestTypes
  <2>6. GM!EnginesAgree'
    BY <2>1 DEF MapsInv, GuestTypes, GM!EnginesAgree
  <2> QED
    BY <2>3, <2>4, <2>5, <2>6 DEF MapsInv
<1>3. CASE GM!MapView(t)
  <2>1. PICK v \in Views \ views :
           /\ pc[t] = "in" /\ pc' = [pc EXCEPT ![t] = "mapping"] /\ gone = "no"
           /\ moving' = [moving EXCEPT ![t] = {v}] /\ views' = views \cup {v}
           /\ maps' \in {maps, maps \cup {v}}
           /\ UNCHANGED << regions, engines, mapped, gone >>
    BY <1>3, Zenon DEF GM!MapView, GM!To
  <2>2. MovesOn(t) /\ pc'[t] = "mapping"
    BY <2>1 DEF MovesOn, GuestTypes, Stages
  <2>3. BlocksInv'
    BY <1>0, <2>1, <2>2, BlocksKept
  <2>4. GuestTypes'
    BY <1>0, <2>1 DEF GuestTypes, Stages
  <2>5. v \notin regions
    BY <2>1, GuestAssumption DEF MapsInv, GM!EnginesAgree
  <2>6. \A u \in Threads : moving[u] \subseteq views
    BY DEF MapsInv, MovesApart
  <2>7. /\ moving'[t] = {v} /\ pc'[t] = "mapping"
        /\ \A u \in Threads : u # t => moving'[u] = moving[u] /\ pc'[u] = pc[u]
    BY <2>1 DEF GuestTypes
  <2>8. MovesApart'
    BY <2>1, <2>5, <2>6, <2>7 DEF MapsInv, MovesApart
  <2>9. GM!EnginesAgree'
    BY <2>1 DEF MapsInv, GM!EnginesAgree
  <2> QED
    BY <2>3, <2>4, <2>8, <2>9 DEF MapsInv
<1>4. CASE GM!AddRegion(t)
  <2>1. /\ pc[t] = "mapping" /\ pc' = [pc EXCEPT ![t] = "in"] /\ gone = "no"
        /\ moving' = [moving EXCEPT ![t] = {}] /\ regions' = regions \cup moving[t]
        /\ mapped' = [e \in Threads |-> IF e \in engines THEN mapped[e] \cup moving[t] ELSE mapped[e]]
        /\ gone' = IF \E e \in engines : moving[t] \subseteq mapped[e] THEN "map" ELSE gone
        /\ UNCHANGED << engines, views, maps >>
    BY <1>4, Zenon DEF GM!AddRegion, GM!To, GM!InEveryEngine
  <2>2. MovesOn(t) /\ pc'[t] = "in"
    BY <2>1 DEF MovesOn, GuestTypes, Stages
  <2>3. BlocksInv'
    BY <1>0, <2>1, <2>2, BlocksKept
  <2>4. GuestTypes'
    BY <1>0, <2>1 DEF GuestTypes, Stages
  <2>5. PICK v \in views : moving[t] = {v} /\ v \notin regions
    BY <2>1 DEF MapsInv, MovesApart
  <2>6. gone' = "no"
    BY <2>1, <2>5 DEF MapsInv, GM!EnginesAgree
  <2>7. /\ moving'[t] = {} /\ pc'[t] = "in"
        /\ \A u \in Threads : u # t => moving'[u] = moving[u] /\ pc'[u] = pc[u] /\ v \notin moving[u]
    BY <2>1, <2>5 DEF GuestTypes, MapsInv, MovesApart
  <2>8. MovesApart'
    BY <2>1, <2>5, <2>7 DEF MapsInv, MovesApart
  <2>9. GM!EnginesAgree'
    BY <2>1, <2>5, <2>6 DEF MapsInv, GM!EnginesAgree, GuestTypes
  <2> QED
    BY <2>3, <2>4, <2>8, <2>9 DEF MapsInv
<1>5. CASE GM!Unmap(t)
  <2>1. PICK v \in maps \cap regions :
        /\ pc[t] = "in" /\ pc' = [pc EXCEPT ![t] = "unmapping"] /\ gone = "no"
        /\ moving' = [moving EXCEPT ![t] = {v}] /\ regions' = regions \ {v}
        /\ mapped' = [e \in Threads |-> IF e \in engines THEN mapped[e] \ {v} ELSE mapped[e]]
        /\ UNCHANGED << engines, views, maps, gone >>
    BY <1>5, Zenon DEF GM!Unmap, GM!To, GM!InEveryEngine
  <2>2. MovesOn(t) /\ pc'[t] = "unmapping"
    BY <2>1 DEF MovesOn, GuestTypes, Stages
  <2>3. BlocksInv'
    BY <1>0, <2>1, <2>2, BlocksKept
  <2>4. GuestTypes'
    BY <1>0, <2>1 DEF GuestTypes, Stages
  <2>7. /\ moving'[t] = {v} /\ pc'[t] = "unmapping" /\ v \in views
        /\ \A u \in Threads : u # t => moving'[u] = moving[u] /\ pc'[u] = pc[u] /\ v \notin moving[u]
    BY <2>1 DEF GuestTypes, MapsInv, MovesApart
  <2>8. MovesApart'
    BY <2>1, <2>7 DEF MapsInv, MovesApart
  <2>9. GM!EnginesAgree'
    BY <2>1 DEF MapsInv, GM!EnginesAgree, GuestTypes
  <2> QED
    BY <2>3, <2>4, <2>8, <2>9 DEF MapsInv
<1>6. CASE GM!UnmapView(t)
  <2>1. /\ pc[t] = "unmapping" /\ pc' = [pc EXCEPT ![t] = "in"] /\ gone = "no"
        /\ moving' = [moving EXCEPT ![t] = {}] /\ views' = views \ moving[t] /\ maps' = maps \ moving[t]
        /\ UNCHANGED << regions, engines, mapped, gone >>
    BY <1>6, Zenon DEF GM!UnmapView, GM!To
  <2>2. MovesOn(t) /\ pc'[t] = "in"
    BY <2>1 DEF MovesOn, GuestTypes, Stages
  <2>3. BlocksInv'
    BY <1>0, <2>1, <2>2, BlocksKept
  <2>4. GuestTypes'
    BY <1>0, <2>1 DEF GuestTypes, Stages
  <2>5. PICK v \in views : moving[t] = {v} /\ v \notin regions
    BY <2>1 DEF MapsInv, MovesApart
  <2>7. /\ moving'[t] = {} /\ pc'[t] = "in"
        /\ \A u \in Threads : u # t => moving'[u] = moving[u] /\ pc'[u] = pc[u] /\ v \notin moving[u]
    BY <2>1, <2>5 DEF GuestTypes, MapsInv, MovesApart
  <2>8. MovesApart'
    BY <2>1, <2>5, <2>7 DEF MapsInv, MovesApart
  <2>9. GM!EnginesAgree'
    BY <2>1, <2>5 DEF MapsInv, GM!EnginesAgree
  <2> QED
    BY <2>3, <2>4, <2>8, <2>9 DEF MapsInv
<1> QED
  BY <1>1, <1>2, <1>3, <1>4, <1>5, <1>6

-----------------------------------------------------------------------------
(* The steps that take a block or a stack, or give one back.               *)

\* One thread's blocks gain one, or lose one; nobody else's change.
Gained(t, a) == \A u \in Threads : \A c : Owns(u, c)' <=> Owns(u, c) \/ (u = t /\ c = a)
Dropped(a) == \A u \in Threads : \A c : Owns(u, c)' <=> Owns(u, c) /\ c # a
Alone == \A t, u \in Threads : \A a \in Nat : Owns(t, a) /\ Owns(u, a) => t = u

LEMMA UsedThen == \A a : a \in GM!Used' <=> \E t \in Threads : Owns(t, a)'
BY DEF GM!Used, Owns

LEMMA Gains ==
  ASSUME GuestInv, NEW t \in Threads, NEW n, n \in Nat, NEW found, found = GM!Allocated(heap, n),
         found.at # 0, heap' = found.heap
  PROVE  /\ found.at \in Nat \ {0} /\ found.at \notin GM!Used
         /\ Spared(heap, heap', GM!Used) /\ heap'.size[found.at] >= n
         /\ Gained(t, found.at) => Arena(heap, GM!Used, {})' /\ Alone'
<1>1. Arena(heap, GM!Used, {})
  BY DEF GuestInv, BlocksInv
<1>2. Answered(heap, GM!Used, n, found)
  BY <1>1, AllocatedGives DEF Refused
<1>3. /\ found.at \in Nat \ {0} /\ found.at \notin GM!Used
      /\ Arena(heap', GM!Used \cup {found.at}, {})
      /\ Spared(heap, heap', GM!Used) /\ heap'.size[found.at] >= n
  BY <1>2 DEF Answered
<1>4. ASSUME Gained(t, found.at) PROVE Arena(heap, GM!Used, {})' /\ Alone'
  <2>1. GM!Used' = GM!Used \cup {found.at}
    BY <1>4, UsedIs, UsedThen DEF Gained
  <2>2. Alone
    BY DEF GuestInv, BlocksInv, OneOwner, Alone
  <2>3. \A u \in Threads : ~Owns(u, found.at)
    BY <1>3, UsedIs
  <2>4. Alone'
    BY <1>4, <2>2, <2>3 DEF Gained, Alone
  <2> QED
    BY <1>3, <2>1, <2>4
<1> QED
  BY <1>3, <1>4

LEMMA Drops ==
  ASSUME GuestInv, NEW t \in Threads, NEW a, Owns(t, a), heap' = GM!Freed(heap, a), Dropped(a)
  PROVE  /\ Arena(heap, GM!Used, {})' /\ Alone'
         /\ Spared(heap, heap', GM!Used \ {a})
<1>1. Arena(heap, GM!Used, {})
  BY DEF GuestInv, BlocksInv
<1>2. a \in GM!Used
  BY UsedIs
<1>3. Kept(heap, heap', GM!Used \ {a}, {})
  BY <1>1, <1>2, FreedKeeps
<1>4. GM!Used' = GM!Used \ {a}
  BY UsedIs, UsedThen DEF Dropped
<1>5. Alone'
  BY DEF GuestInv, BlocksInv, OneOwner, Alone, Dropped
<1> QED
  BY <1>3, <1>4, <1>5 DEF Kept

LEMMA StillBig ==
  ASSUME GuestInv, NEW S, Spared(heap, heap', S), NEW u \in Threads, NEW b \in held[u], b.at \in S
  PROVE  heap'.size[b.at] >= b.need
BY DEF GuestInv, BlocksInv, BigEnough, Spared

\* What a step that takes or gives back blocks leaves: the owners apart, each
\* of its thread's blocks under one name, and nothing of another thread's moved.
LEMMA BlocksMove ==
  ASSUME GuestInv, GuestTypes', NEW t \in Threads, MovesOn(t),
         Arena(heap, GM!Used, {})', Alone',
         \A u \in Threads : u # t => held'[u] = held[u] /\ stack'[u] = stack[u] /\ growing'[u] = growing[u],
         \A b \in held'[t] :
           /\ b.at # 0 /\ b.at # stack'[t] /\ b.at # growing'[t].at
           /\ \A c \in held'[t] : b.at = c.at => b = c,
         stack'[t] # 0 => stack'[t] # growing'[t].at,
         pc'[t] \in {"out", "engine"} => stack'[t] = 0, pc'[t] # "growing" => growing'[t].at = 0,
         BigEnough', UNCHANGED mapVars \/ UNCHANGED << moving, regions, engines, mapped, views, maps >>,
         gone' \in {"no", "stack"},
         pc[t] \notin {"mapping", "unmapping"}, pc'[t] \notin {"mapping", "unmapping"}
  PROVE  GuestInv'
<1>1. MapsInv'
  BY MapsKept DEF mapVars
<1>2. \A u \in Threads : u # t => pc'[u] = pc[u]
  BY DEF GuestInv, GuestTypes, MovesOn
<1>3. InTurn'
  BY <1>2 DEF GuestInv, BlocksInv, InTurn
<1>4. OneOwner'
  <2>1. \A u \in Threads : u # t =>
          /\ \A b \in held'[u] :
               /\ b.at # 0 /\ b.at # stack'[u] /\ b.at # growing'[u].at
               /\ \A c \in held'[u] : b.at = c.at => b = c
          /\ stack'[u] # 0 => stack'[u] # growing'[u].at
    BY DEF GuestInv, BlocksInv, OneOwner
  <2> QED
    BY <2>1 DEF OneOwner, Alone
<1> QED
  BY <1>1, <1>3, <1>4 DEF GuestInv, BlocksInv

LEMMA StackTaken == ASSUME GuestInv, NEW t \in Threads, GM!NewStack(t) PROVE GuestInv'
<1> DEFINE found == GM!Allocated(heap, StackSize)
<1>1. /\ pc[t] = "engine" /\ pc' = [pc EXCEPT ![t] = "in"] /\ gone = "no"
      /\ heap' = found.heap /\ stack' = [stack EXCEPT ![t] = found.at]
      /\ gone' = IF found.at = 0 THEN "stack" ELSE gone
      /\ UNCHANGED << held, growing, regions, engines, mapped, views, maps, moving >>
  BY Zenon DEF GM!NewStack, GM!To
<1>2. stack[t] = 0 /\ growing[t].at = 0 /\ MovesOn(t) /\ pc'[t] = "in"
  BY <1>1 DEF GuestInv, BlocksInv, InTurn, MovesOn, GuestTypes, Stages
<1>3. Arena(heap, GM!Used, {})
  BY DEF GuestInv, BlocksInv
<1>4. Refused(heap, found) \/ found.at # 0
  BY <1>3, AllocatedGives, ArenaBounds DEF Answered
<1>5. \A b \in held[t] : b.at # 0 /\ \A c \in held[t] : b.at = c.at => b = c
  BY DEF GuestInv, BlocksInv, OneOwner
<1> HIDE DEF found
<1>6. CASE found.at # 0
  <2>1. /\ found.at \in Nat \ {0} /\ found.at \notin GM!Used
        /\ Spared(heap, heap', GM!Used)
        /\ Gained(t, found.at) => Arena(heap, GM!Used, {})' /\ Alone'
    BY <1>1, <1>6, ArenaBounds, Gains DEF found
  <2>2. Gained(t, found.at)
    BY <1>1, <1>2, <2>1 DEF Gained, Owns, GuestInv, GuestTypes
  <2>3. GuestTypes'
    BY <1>1, <2>1 DEF GuestInv, GuestTypes, Stages
  <2>4. \A u \in Threads : \A b \in held[u] : b.at \in GM!Used
    BY UsedIs DEF Owns
  <2>5. BigEnough'
    BY <1>1, <2>1, <2>4, StillBig DEF BigEnough
  <2>6. /\ \A u \in Threads : u # t => stack'[u] = stack[u]
        /\ stack'[t] = found.at
    BY <1>1 DEF GuestInv, GuestTypes
  <2> QED
    BY <1>1, <1>2, <1>5, <2>1, <2>2, <2>3, <2>4, <2>5, <2>6, BlocksMove
<1>7. CASE Refused(heap, found)
  <2>1. heap' = heap /\ stack' = stack /\ gone' = "stack"
    BY <1>1, <1>2, <1>7 DEF Refused, GuestInv, GuestTypes
  <2>2. GuestTypes'
    BY <1>1, <2>1 DEF GuestInv, GuestTypes, Stages
  <2>3. BlocksInv'
    BY <1>1, <1>2, <2>1, BlocksKept
  <2>4. MapsInv'
    BY <1>1, <1>2, <2>1, MapsKept
  <2> QED
    BY <2>2, <2>3, <2>4 DEF GuestInv
<1> QED
  BY <1>4, <1>6, <1>7

LEMMA StackGivenBack == ASSUME GuestInv, NEW t \in Threads, GM!FreeStack(t) PROVE GuestInv'
<1>1. /\ pc[t] = "leaving" /\ pc' = [pc EXCEPT ![t] = "out"] /\ gone = "no"
      /\ heap' = GM!Freed(heap, stack[t]) /\ stack' = [stack EXCEPT ![t] = 0]
      /\ UNCHANGED << held, growing, regions, engines, mapped, views, maps, moving, gone >>
  BY Zenon DEF GM!FreeStack, GM!To
<1>2. growing[t].at = 0 /\ MovesOn(t) /\ pc'[t] = "out"
  BY <1>1 DEF GuestInv, BlocksInv, InTurn, MovesOn, GuestTypes, Stages
<1>3. GuestTypes'
  BY <1>1 DEF GuestInv, GuestTypes, Stages
<1>4. \A b \in held[t] : /\ b.at # 0 /\ b.at # stack[t]
                         /\ \A c \in held[t] : b.at = c.at => b = c
  BY DEF GuestInv, BlocksInv, OneOwner
<1>5. /\ \A u \in Threads : u # t => stack'[u] = stack[u]
      /\ stack'[t] = 0
  BY <1>1 DEF GuestInv, GuestTypes
<1>6. CASE stack[t] # 0
  <2>1. Owns(t, stack[t]) /\ stack[t] \in Nat
    BY <1>6 DEF Owns, GuestInv, GuestTypes
  <2>2. \A u \in Threads : u # t => ~Owns(u, stack[t])
    BY <2>1 DEF GuestInv, BlocksInv, OneOwner
  <2>3. Dropped(stack[t])
    <3>1. ASSUME NEW u \in Threads, NEW c PROVE Owns(u, c)' <=> Owns(u, c) /\ c # stack[t]
      <4>1. CASE u = t
        BY <1>1, <1>2, <1>4, <1>5, <4>1 DEF Owns
      <4>2. CASE u # t
        <5>1. Owns(u, c)' <=> Owns(u, c)
          BY <1>1, <1>5, <4>2 DEF Owns
        <5> QED
          BY <2>2, <4>2, <5>1
      <4> QED
        BY <4>1, <4>2
    <3> QED
      BY <3>1 DEF Dropped
  <2>4. Arena(heap, GM!Used, {})' /\ Alone' /\ Spared(heap, heap', GM!Used \ {stack[t]})
    BY <1>1, <2>1, <2>3, Drops
  <2>5. \A u \in Threads : \A b \in held[u] : b.at \in GM!Used \ {stack[t]}
    <3>1. \A u \in Threads : \A b \in held[u] : Owns(u, b.at)
      BY DEF Owns
    <3> QED
      BY <1>4, <2>2, <3>1, UsedIs
  <2>6. BigEnough'
    BY <1>1, <2>4, <2>5, StillBig DEF BigEnough
  <2> QED
    BY <1>1, <1>2, <1>3, <1>4, <1>5, <2>4, <2>6, BlocksMove
<1>7. CASE stack[t] = 0
  <2>1. heap' = heap /\ stack' = stack
    BY <1>1, <1>7 DEF GM!Freed, GuestInv, GuestTypes
  <2>3. BlocksInv'
    BY <1>1, <1>2, <1>7, <2>1, BlocksKept
  <2>4. MapsInv'
    BY <1>1, <1>2, MapsKept
  <2> QED
    BY <1>3, <2>3, <2>4 DEF GuestInv
<1> QED
  BY <1>6, <1>7

-----------------------------------------------------------------------------
(* The steps that grow a block.                                            *)

LEMMA HeldFacts ==
  ASSUME GuestInv, NEW t \in Threads
  PROVE  /\ \A b \in held[t] :
              /\ b \in Holding /\ b.at # 0 /\ b.at # stack[t] /\ b.at # growing[t].at
              /\ Owns(t, b.at)
              /\ \A c \in held[t] : b.at = c.at => b = c
              /\ heap.size[b.at] >= b.need
         /\ \A u \in Threads : \A b \in held[u] : b.at \in GM!Used
         /\ \A u \in Threads : u # t => \A a \in Nat : Owns(t, a) => ~Owns(u, a)
         /\ stack[t] # 0 => stack[t] # growing[t].at
         /\ stack[t] # 0 => Owns(t, stack[t])
<1>1. \A u \in Threads : \A b \in held[u] : Owns(u, b.at)
  BY DEF Owns
<1>2. \A b \in held[t] : b \in Holding
  BY DEF GuestInv, GuestTypes
<1>3. stack[t] # 0 => Owns(t, stack[t])
  BY DEF Owns
<1> QED
  BY <1>1, <1>2, <1>3, UsedIs DEF GuestInv, BlocksInv, OneOwner, BigEnough

\* A new block among those a thread holds, in the place of another or beside them.
Adding(S, a, n) == S \cup {[at |-> a, need |-> n]}
LEMMA HeldAdded ==
  ASSUME NEW S, NEW a, NEW n
  PROVE  /\ \A b \in Adding(S, a, n) : b \in S \/ (b.at = a /\ b.need = n)
         /\ \E b \in Adding(S, a, n) : b.at = a
         /\ S \subseteq Adding(S, a, n)
         /\ a \in Nat /\ n \in Nat /\ S \subseteq Holding => Adding(S, a, n) \subseteq Holding
         /\ \A b, c \in Adding(S, a, n) : (b \notin S /\ c \notin S) => b = c
<1> DEFINE e == [at |-> a, need |-> n]
<1>1. /\ e.at = a /\ e.need = n /\ (a \in Nat /\ n \in Nat => e \in Holding)
  BY DEF Holding
<1>2. \A b : b \in Adding(S, a, n) <=> b \in S \/ b = e
  BY DEF Adding
<1> HIDE DEF e
<1>3. PICK T : T = Adding(S, a, n)
  OBVIOUS
<1>4. \A b : b \in T <=> b \in S \/ b = e
  BY <1>2, <1>3
<1>5. /\ \A b \in T : b \in S \/ (b.at = a /\ b.need = n)
      /\ \E b \in T : b.at = a
      /\ S \subseteq T
  <2>1. e \in T
    BY <1>4
  <2>2. \A b \in T : b \in S \/ (b.at = a /\ b.need = n)
    BY <1>1, <1>4
  <2>3. S \subseteq T
    BY <1>4
  <2> QED
    BY <1>1, <2>1, <2>2, <2>3
<1>6. a \in Nat /\ n \in Nat /\ S \subseteq Holding => T \subseteq Holding
  BY <1>1, <1>4
<1>7. \A b, c \in T : (b \notin S /\ c \notin S) => b = c
  BY <1>4
<1> QED
  BY <1>3, <1>5, <1>6, <1>7

LEMMA BlockTaken == ASSUME GuestInv, NEW t \in Threads, GM!Malloc(t) PROVE GuestInv'
<1>1. PICK n \in Needs :
        LET found == GM!Allocated(heap, n)
        IN  /\ pc[t] = "in" /\ pc' = [pc EXCEPT ![t] = "in"] /\ gone = "no"
            /\ found.at # 0 /\ heap' = found.heap
            /\ held' = [held EXCEPT ![t] = @ \cup {[at |-> found.at, need |-> n]}]
            /\ UNCHANGED << stack, growing, regions, engines, mapped, views, maps, gone, moving >>
  BY Zenon DEF GM!Malloc, GM!To
<1> DEFINE found == GM!Allocated(heap, n)
<1>2. /\ pc[t] = "in" /\ pc' = [pc EXCEPT ![t] = "in"] /\ gone = "no"
      /\ found.at # 0 /\ heap' = found.heap /\ held' = [held EXCEPT ![t] = Adding(held[t], found.at, n)]
      /\ UNCHANGED << stack, growing, regions, engines, mapped, views, maps, gone, moving >>
  BY <1>1 DEF Adding
<1>3. n \in Nat
  BY ArenaBounds
<1>4. /\ found.at \in Nat \ {0} /\ found.at \notin GM!Used
      /\ Spared(heap, heap', GM!Used) /\ heap'.size[found.at] >= n
      /\ Gained(t, found.at) => Arena(heap, GM!Used, {})' /\ Alone'
  BY <1>2, <1>3, Gains
<1>5. PICK a : a = found.at
  OBVIOUS
<1> HIDE DEF found
<1>6. growing[t].at = 0 /\ MovesOn(t) /\ pc'[t] = "in"
  BY <1>2 DEF GuestInv, BlocksInv, InTurn, MovesOn, GuestTypes, Stages
<1>7. /\ held'[t] = Adding(held[t], a, n) /\ held[t] \subseteq Holding
      /\ \A u \in Threads : u # t => held'[u] = held[u]
      /\ held' \in [Threads -> SUBSET Holding]
  BY <1>2, <1>3, <1>4, <1>5, HeldAdded DEF GuestInv, GuestTypes
<1>8. GuestTypes'
  BY <1>2, <1>7 DEF GuestInv, GuestTypes, Stages
<1>9. ASSUME NEW u \in Threads, NEW c PROVE Owns(u, c)' <=> Owns(u, c) \/ (u = t /\ c = a)
  <2>1. CASE u = t
    <3>1. (\E b \in held'[t] : b.at = c) <=> (\E b \in held[t] : b.at = c) \/ c = a
      BY <1>7, HeldAdded
    <3> QED
      BY <1>2, <2>1, <3>1 DEF Owns
  <2>2. CASE u # t
    BY <1>2, <1>7, <2>2 DEF Owns
  <2> QED
    BY <2>1, <2>2
<1>10. Arena(heap, GM!Used, {})' /\ Alone'
  BY <1>4, <1>5, <1>9 DEF Gained
<1>11. a # 0 /\ a # stack[t] /\ \A b \in held[t] : b.at # a
  <2>1. a \in Nat \ {0} /\ a \notin GM!Used
    BY <1>4, <1>5
  <2> QED
    BY <2>1, HeldFacts, UsedIs
<1>12. \A b \in held'[t] :
         /\ b.at # 0 /\ b.at # stack'[t] /\ b.at # growing'[t].at
         /\ \A c \in held'[t] : b.at = c.at => b = c
  BY <1>2, <1>6, <1>7, <1>11, HeldFacts, HeldAdded
<1>13. BigEnough'
  <2>1. ASSUME NEW u \in Threads, NEW b \in held[u] PROVE heap'.size[b.at] >= b.need
    BY <1>4, HeldFacts, StillBig
  <2>2. ASSUME NEW b \in held'[t], b \notin held[t] PROVE heap'.size[b.at] >= b.need
    BY <1>4, <1>5, <1>7, <2>2, HeldAdded
  <2>3. ASSUME NEW u \in Threads, NEW b \in held'[u] PROVE heap'.size[b.at] >= b.need
    BY <1>7, <2>1, <2>2
  <2> QED
    BY <2>3 DEF BigEnough
<1> QED
  BY <1>2, <1>6, <1>7, <1>8, <1>10, <1>12, <1>13, BlocksMove

LEMMA BlockGivenBack == ASSUME GuestInv, NEW t \in Threads, GM!Free(t) PROVE GuestInv'
<1>1. PICK b \in held[t] :
        /\ pc[t] = "in" /\ pc' = [pc EXCEPT ![t] = "in"] /\ gone = "no"
        /\ heap' = GM!Freed(heap, b.at) /\ held' = [held EXCEPT ![t] = @ \ {b}]
        /\ UNCHANGED << stack, growing, regions, engines, mapped, views, maps, gone, moving >>
  BY Zenon DEF GM!Free, GM!To
<1>2. growing[t].at = 0 /\ MovesOn(t) /\ pc'[t] = "in"
  BY <1>1 DEF GuestInv, BlocksInv, InTurn, MovesOn, GuestTypes, Stages
<1>3. /\ held'[t] = held[t] \ {b} /\ \A u \in Threads : u # t => held'[u] = held[u]
      /\ held' \in [Threads -> SUBSET Holding]
  BY <1>1 DEF GuestInv, GuestTypes
<1>4. GuestTypes'
  BY <1>1, <1>3 DEF GuestInv, GuestTypes, Stages
<1>5. Owns(t, b.at) /\ b.at \in Nat /\ b.at # 0 /\ b.at # stack[t]
  BY HeldFacts DEF Holding
<1>6. \A u \in Threads : u # t => ~Owns(u, b.at)
  BY <1>5, HeldFacts
<1>7. Dropped(b.at)
  <2>1. ASSUME NEW u \in Threads, NEW c PROVE Owns(u, c)' <=> Owns(u, c) /\ c # b.at
    <3>1. CASE u = t
      <4>1. (\E d \in held'[t] : d.at = c) <=> (\E d \in held[t] : d.at = c) /\ c # b.at
        BY <1>3, HeldFacts
      <4> QED
        BY <1>1, <1>2, <1>5, <3>1, <4>1 DEF Owns
    <3>2. CASE u # t
      <4>1. Owns(u, c)' <=> Owns(u, c)
        BY <1>1, <1>3, <3>2 DEF Owns
      <4> QED
        BY <1>6, <3>2, <4>1
    <3> QED
      BY <3>1, <3>2
  <2> QED
    BY <2>1 DEF Dropped
<1>8. Arena(heap, GM!Used, {})' /\ Alone' /\ Spared(heap, heap', GM!Used \ {b.at})
  BY <1>1, <1>5, <1>7, Drops
<1>9. \A c \in held'[t] :
        /\ c.at # 0 /\ c.at # stack'[t] /\ c.at # growing'[t].at
        /\ \A d \in held'[t] : c.at = d.at => c = d
  BY <1>1, <1>2, <1>3, HeldFacts
<1>10. BigEnough'
  <2>1. ASSUME NEW u \in Threads, NEW c \in held'[u] PROVE heap'.size[c.at] >= c.need
    <3>1. c \in held[u]
      BY <1>3, <2>1
    <3>2. c.at # b.at
      BY <1>3, <1>6, <2>1, <3>1, HeldFacts
    <3>3. c.at \in GM!Used \ {b.at}
      BY <3>1, <3>2, HeldFacts
    <3> QED
      BY <1>8, <3>1, <3>3, StillBig
  <2> QED
    BY <2>1 DEF BigEnough
<1> QED
  BY <1>1, <1>2, <1>3, <1>4, <1>8, <1>9, <1>10, BlocksMove

LEMMA BlockGrown == ASSUME GuestInv, NEW t \in Threads, GM!Grown(t) PROVE GuestInv'
<1>1. /\ pc[t] = "growing" /\ pc' = [pc EXCEPT ![t] = "in"] /\ gone = "no"
      /\ heap' = GM!Freed(heap, growing[t].at)
      /\ growing' = [growing EXCEPT ![t] = [at |-> 0, need |-> 0]]
      /\ UNCHANGED << held, stack, regions, engines, mapped, views, maps, gone, moving >>
  BY Zenon DEF GM!Grown, GM!To
<1>2. MovesOn(t) /\ pc'[t] = "in"
  BY <1>1 DEF GuestInv, MovesOn, GuestTypes, Stages
<1>3. PICK a : a = growing[t].at
  OBVIOUS
<1>4. /\ growing'[t].at = 0 /\ \A u \in Threads : u # t => growing'[u] = growing[u]
      /\ growing' \in [Threads -> Holding] /\ a \in Nat
  BY <1>1, <1>3 DEF GuestInv, GuestTypes, Holding
<1>5. GuestTypes'
  BY <1>1, <1>4 DEF GuestInv, GuestTypes, Stages
<1>6. \A c \in held'[t] :
        /\ c.at # 0 /\ c.at # stack'[t] /\ c.at # growing'[t].at
        /\ \A d \in held'[t] : c.at = d.at => c = d
  BY <1>1, <1>4, HeldFacts
<1>7. CASE a # 0
  <2>1. Owns(t, a)
    BY <1>3, <1>7 DEF Owns
  <2>2. \A u \in Threads : u # t => ~Owns(u, a)
    BY <1>4, <2>1, HeldFacts
  <2>3. Dropped(a)
    <3>1. ASSUME NEW u \in Threads, NEW c PROVE Owns(u, c)' <=> Owns(u, c) /\ c # a
      <4>1. CASE u = t
        BY <1>1, <1>3, <1>4, <1>7, <4>1, HeldFacts DEF Owns
      <4>2. CASE u # t
        <5>1. Owns(u, c)' <=> Owns(u, c)
          BY <1>1, <1>4, <4>2 DEF Owns
        <5> QED
          BY <2>2, <4>2, <5>1
      <4> QED
        BY <4>1, <4>2
    <3> QED
      BY <3>1 DEF Dropped
  <2>4. Arena(heap, GM!Used, {})' /\ Alone' /\ Spared(heap, heap', GM!Used \ {a})
    BY <1>1, <1>3, <2>1, <2>3, Drops
  <2>5. BigEnough'
    <3>1. ASSUME NEW u \in Threads, NEW c \in held[u] PROVE heap'.size[c.at] >= c.need
      <4>1. c.at # a
        BY <1>3, <2>2, HeldFacts
      <4> QED
        BY <2>4, <4>1, HeldFacts, StillBig
    <3> QED
      BY <1>1, <3>1 DEF BigEnough
  <2> QED
    BY <1>1, <1>2, <1>4, <1>5, <1>6, <2>4, <2>5, BlocksMove
<1>8. CASE a = 0
  <2>1. heap' = heap
    BY <1>1, <1>3, <1>8 DEF GM!Freed
  <2>2. \A u \in Threads : \A c : Owns(u, c)' <=> Owns(u, c)
    BY <1>1, <1>3, <1>4, <1>8 DEF Owns
  <2>3. GM!Used' = GM!Used
    BY <2>2, UsedIs, UsedThen
  <2>4. Arena(heap, GM!Used, {})' /\ Alone'
    BY <2>1, <2>2, <2>3 DEF GuestInv, BlocksInv, OneOwner, Alone
  <2>5. BigEnough'
    BY <1>1, <2>1 DEF GuestInv, BlocksInv, BigEnough
  <2> QED
    BY <1>1, <1>2, <1>4, <1>5, <1>6, <2>4, <2>5, BlocksMove
<1> QED
  BY <1>7, <1>8

LEMMA BlockStays ==
  ASSUME GuestInv, NEW t \in Threads, NEW b \in held[t], NEW n \in Needs, heap.size[b.at] >= n,
         held' = [held EXCEPT ![t] = (@ \ {b}) \cup {[b EXCEPT !.need = n]}],
         UNCHANGED << heap, growing, pc, moving, stack, regions, engines, mapped, views, maps, gone >>,
         gone = "no", pc[t] = "in"
  PROVE  GuestInv'
<1>1. [b EXCEPT !.need = n] = [at |-> b.at, need |-> n]
  BY HeldFacts DEF Holding
<1>2. n \in Nat /\ b.at \in Nat
  BY HeldFacts, ArenaBounds DEF Holding
<1>3. /\ held'[t] = Adding(held[t] \ {b}, b.at, n) /\ held[t] \subseteq Holding
      /\ \A u \in Threads : u # t => held'[u] = held[u]
      /\ held' \in [Threads -> SUBSET Holding]
  <2>1. held' = [held EXCEPT ![t] = Adding(held[t] \ {b}, b.at, n)]
    BY <1>1 DEF Adding
  <2>2. held[t] \subseteq Holding /\ held \in [Threads -> SUBSET Holding]
    BY DEF GuestInv, GuestTypes
  <2>3. Adding(held[t] \ {b}, b.at, n) \subseteq Holding
    BY <1>2, <2>2, HeldAdded
  <2> QED
    BY <2>1, <2>2, <2>3
<1>4. GuestTypes'
  BY <1>3 DEF GuestInv, GuestTypes
<1>5. ASSUME NEW u \in Threads, NEW c PROVE Owns(u, c)' <=> Owns(u, c)
  <2>1. CASE u = t
    <3>1. (\E d \in held'[t] : d.at = c) <=> (\E d \in held[t] : d.at = c)
      BY <1>3, HeldAdded
    <3> QED
      BY <2>1, <3>1 DEF Owns
  <2>2. CASE u # t
    BY <1>3, <2>2 DEF Owns
  <2> QED
    BY <2>1, <2>2
<1>6. Arena(heap, GM!Used, {})' /\ Alone'
  <2>1. GM!Used' = GM!Used
    BY <1>5, UsedIs, UsedThen
  <2> QED
    BY <1>5, <2>1 DEF GuestInv, BlocksInv, OneOwner, Alone
<1>7. \A c \in held'[t] :
        /\ c.at # 0 /\ c.at # stack'[t] /\ c.at # growing'[t].at
        /\ \A d \in held'[t] : c.at = d.at => c = d
  BY <1>3, HeldFacts, HeldAdded
<1>8. BigEnough'
  BY <1>3, HeldFacts, HeldAdded DEF BigEnough
<1>9. MovesOn(t) /\ pc'[t] = "in" /\ growing'[t].at = 0
  BY DEF GuestInv, BlocksInv, InTurn, MovesOn, GuestTypes, Stages
<1>10. stack'[t] # 0 => stack'[t] # growing'[t].at
  BY <1>9
<1> QED
  BY <1>3, <1>4, <1>6, <1>7, <1>8, <1>9, <1>10, BlocksMove DEF mapVars

LEMMA BlockReplaced ==
  ASSUME GuestInv, NEW t \in Threads, NEW b \in held[t], NEW n \in Needs, NEW found,
         found = GM!Allocated(heap, n), found.at # 0, heap' = found.heap,
         held' = [held EXCEPT ![t] = (@ \ {b}) \cup {[at |-> found.at, need |-> n]}],
         growing' = [growing EXCEPT ![t] = b], pc' = [pc EXCEPT ![t] = "growing"],
         UNCHANGED << moving, stack, regions, engines, mapped, views, maps, gone >>,
         gone = "no", pc[t] = "in"
  PROVE  GuestInv'
<1>1. PICK a : a = found.at
  OBVIOUS
<1>2. n \in Nat /\ b \in Holding /\ b.at \in Nat /\ b.at # 0 /\ b.at # stack[t] /\ Owns(t, b.at)
  BY HeldFacts, ArenaBounds DEF Holding
<1>3. /\ a \in Nat \ {0} /\ a \notin GM!Used
      /\ Spared(heap, heap', GM!Used) /\ heap'.size[a] >= n
      /\ Gained(t, a) => Arena(heap, GM!Used, {})' /\ Alone'
  BY <1>1, <1>2, Gains
<1>4. /\ held'[t] = Adding(held[t] \ {b}, a, n) /\ held[t] \subseteq Holding
      /\ \A u \in Threads : u # t => held'[u] = held[u]
      /\ held' \in [Threads -> SUBSET Holding]
  <2>1. held' = [held EXCEPT ![t] = Adding(held[t] \ {b}, a, n)]
    BY <1>1 DEF Adding
  <2>2. held[t] \subseteq Holding /\ held \in [Threads -> SUBSET Holding]
    BY DEF GuestInv, GuestTypes
  <2>3. Adding(held[t] \ {b}, a, n) \subseteq Holding
    BY <1>2, <1>3, <2>2, HeldAdded
  <2> QED
    BY <2>1, <2>2, <2>3
<1>5. /\ growing[t].at = 0 /\ growing'[t] = b /\ \A u \in Threads : u # t => growing'[u] = growing[u]
      /\ growing' \in [Threads -> Holding] /\ MovesOn(t) /\ pc'[t] = "growing"
  BY <1>2 DEF GuestInv, BlocksInv, InTurn, MovesOn, GuestTypes, Stages
<1>6. GuestTypes'
  BY <1>4, <1>5 DEF GuestInv, GuestTypes, Stages
<1>7. ASSUME NEW u \in Threads, NEW c PROVE Owns(u, c)' <=> Owns(u, c) \/ (u = t /\ c = a)
  <2>1. CASE u = t
    <3>1. (\E d \in held'[t] : d.at = c) \/ c = b.at <=> (\E d \in held[t] : d.at = c) \/ c = a
      BY <1>4, HeldAdded
    <3> QED
      BY <1>2, <1>5, <2>1, <3>1 DEF Owns
  <2>2. CASE u # t
    BY <1>4, <1>5, <2>2 DEF Owns
  <2> QED
    BY <2>1, <2>2
<1>8. Arena(heap, GM!Used, {})' /\ Alone'
  BY <1>3, <1>7 DEF Gained
<1>9. a # 0 /\ a # stack[t] /\ a # b.at /\ \A c \in held[t] : c.at # a
  BY <1>2, <1>3, HeldFacts, UsedIs
<1>10. \A c \in held'[t] :
         /\ c.at # 0 /\ c.at # stack'[t] /\ c.at # growing'[t].at
         /\ \A d \in held'[t] : c.at = d.at => c = d
  BY <1>4, <1>5, <1>9, HeldFacts, HeldAdded
<1>11. BigEnough'
  <2>1. ASSUME NEW u \in Threads, NEW c \in held[u] PROVE heap'.size[c.at] >= c.need
    BY <1>3, HeldFacts, StillBig
  <2>2. ASSUME NEW c \in held'[t], c \notin held[t] PROVE heap'.size[c.at] >= c.need
    BY <1>3, <1>4, <2>2, HeldAdded
  <2>3. ASSUME NEW u \in Threads, NEW c \in held'[u] PROVE heap'.size[c.at] >= c.need
    BY <1>4, <2>1, <2>2
  <2> QED
    BY <2>3 DEF BigEnough
<1>12. stack'[t] # 0 => stack'[t] # growing'[t].at
  BY <1>2, <1>5
<1> QED
  BY <1>4, <1>5, <1>6, <1>8, <1>10, <1>11, <1>12, BlocksMove

LEMMA BlockReallocated == ASSUME GuestInv, NEW t \in Threads, GM!Realloc(t) PROVE GuestInv'
<1>1. PICK b \in held[t], n \in Needs :
        LET found == GM!Allocated(heap, n)
            stay == heap.size[b.at] >= n
        IN  /\ gone = "no" /\ pc[t] = "in"
            /\ IF stay
               THEN /\ held' = [held EXCEPT ![t] = (@ \ {b}) \cup {[b EXCEPT !.need = n]}]
                    /\ UNCHANGED << heap, growing, pc, moving >>
               ELSE /\ found.at # 0
                    /\ heap' = found.heap
                    /\ held' = [held EXCEPT ![t] = (@ \ {b}) \cup {[at |-> found.at, need |-> n]}]
                    /\ growing' = [growing EXCEPT ![t] = b]
                    /\ pc' = [pc EXCEPT ![t] = "growing"]
            /\ UNCHANGED << stack, regions, engines, mapped, views, maps, gone, moving >>
  BY Zenon DEF GM!Realloc
<1>2. CASE heap.size[b.at] >= n
  BY <1>1, <1>2, BlockStays
<1>3. CASE ~(heap.size[b.at] >= n)
  BY <1>1, <1>3, BlockReplaced
<1> QED
  BY <1>2, <1>3

-----------------------------------------------------------------------------
(* Together.                                                               *)

LEMMA GuestStep == GuestInv /\ [GM!Next]_guestVars => GuestInv'
<1> SUFFICES ASSUME GuestInv, [GM!Next]_guestVars PROVE GuestInv'
  OBVIOUS
<1>1. CASE UNCHANGED guestVars
  <2>1. GM!Used' = GM!Used
    BY <1>1 DEF guestVars, GM!Used
  <2>2. GuestTypes' /\ MapsInv'
    BY <1>1 DEF guestVars, GuestInv, GuestTypes, MapsInv, MovesApart, GM!EnginesAgree
  <2>3. \A t \in Threads : \A a : Owns(t, a)' = Owns(t, a)
    BY <1>1 DEF guestVars, Owns
  <2>4. BlocksInv'
    BY <1>1, <2>1, <2>3 DEF guestVars, GuestInv, BlocksInv, OneOwner, BigEnough, InTurn
  <2> QED
    BY <2>2, <2>4 DEF GuestInv
<1>2. CASE GM!Next
  <2>1. PICK t \in Threads : GM!Step(t)
    BY <1>2 DEF GM!Next
  <2>2. CASE GM!NewEngine(t) \/ GM!CloseEngine(t) \/ GM!MapView(t) \/ GM!AddRegion(t)
             \/ GM!Unmap(t) \/ GM!UnmapView(t)
    BY <2>2, MapSteps
  <2>3. CASE GM!NewStack(t)
    BY <2>3, StackTaken
  <2>4. CASE GM!FreeStack(t)
    BY <2>4, StackGivenBack
  <2>5. CASE GM!Malloc(t)
    BY <2>5, BlockTaken
  <2>6. CASE GM!Free(t)
    BY <2>6, BlockGivenBack
  <2>7. CASE GM!Realloc(t)
    BY <2>7, BlockReallocated
  <2>8. CASE GM!Grown(t)
    BY <2>8, BlockGrown
  <2> QED
    BY <2>1, <2>2, <2>3, <2>4, <2>5, <2>6, <2>7, <2>8, Zenon DEF GM!Step
<1> QED
  BY <1>1, <1>2

\* The free list names as many blocks as it is long.
LEMMA WaitingCounted ==
  ASSUME NEW h, NEW U, Arena(h, U, {})
  PROVE  GM!Cardinality(GM!ToSet(h.free)) = Len(h.free)
<1>1. /\ h.free \in Seq(Nat) /\ Laid(h) /\ Ranked(h)
      /\ \A i \in 1 .. Len(h.free) : h.free[i] \in Nat
  BY FreeFacts DEF Arena
<1>2. Len(h.free) \in Nat /\ DOMAIN h.free = 1 .. Len(h.free)
  BY <1>1
<1>3. ASSUME NEW i \in 1 .. Len(h.free), NEW j \in 1 .. Len(h.free), i # j PROVE h.free[i] # h.free[j]
  <2>1. (i < j => h.free[i] < h.free[j]) /\ (j < i => h.free[j] < h.free[i])
    BY <1>1 DEF Ranked
  <2> QED
    BY <1>1, <1>3, <2>1
<1> DEFINE S == {h.free[i] : i \in 1 .. Len(h.free)}
           f == [i \in 1 .. Len(h.free) |-> h.free[i]]
<1>4. GM!ToSet(h.free) = S
  BY <1>2 DEF GM!ToSet
<1>5. f \in Bijection(1 .. Len(h.free), S)
  <2>1. f \in [1 .. Len(h.free) -> S]
    OBVIOUS
  <2>2. \A i, j \in 1 .. Len(h.free) : f[i] = f[j] => i = j
    BY <1>3
  <2>3. \A s \in S : \E i \in 1 .. Len(h.free) : f[i] = s
    OBVIOUS
  <2> QED
    BY <2>1, <2>2, <2>3 DEF Bijection, Injection, Surjection, IsInjective
<1> HIDE DEF S, f
<1>6. Cardinality(S) = Len(h.free)
  BY <1>2, <1>5, FS_CountingElements DEF ExistsBijection
<1>7. GM!Cardinality(S) = Cardinality(S)
  BY DEF GM!Cardinality, Cardinality
<1> QED
  BY <1>4, <1>6, <1>7

\* Guest memory is sound for every set of threads, size of the arena, header and
\* remainder, and every order of the calls: the blocks tile the arena and free
\* neighbours are one block, no two holders share a block nor have less of it than
\* they asked for, and every registered emulator maps the recorded regions and
\* no other, each of them still there on the host (arena_alloc, arena_release,
\* sh_uc_realloc, uc_map_extern, uc_unmap_extern).
THEOREM GuestMemoryHolds == GM!Init /\ [][GM!Next]_guestVars => []GM!GuestMemorySound
<1>1. GuestInv => GM!GuestMemorySound
  <2> SUFFICES ASSUME GuestInv PROVE GM!GuestMemorySound
    OBVIOUS
  <2>0. /\ Arena(heap, GM!Used, {}) /\ Laid(heap) /\ Ranked(heap) /\ Shared(heap, GM!Used)
        /\ heap.free \in Seq(Nat)
    <3>1. Arena(heap, GM!Used, {})
      BY DEF GuestInv, BlocksInv
    <3> QED
      BY <3>1, FreeFacts DEF Arena
  <2>1. \A a : a \in GM!Waiting <=> \E i \in 1 .. Len(heap.free) : heap.free[i] = a
    <3>1. DOMAIN heap.free = 1 .. Len(heap.free)
      BY <2>0
    <3> QED
      BY <3>1 DEF GM!Waiting, GM!ToSet
  <2>2. /\ GM!Used \cup GM!Waiting \subseteq DOMAIN heap.size
        /\ GM!Used \cap GM!Waiting = {}
        /\ \A a \in DOMAIN heap.size \ (GM!Used \cup GM!Waiting) : a + Hdr = GM!End
    BY <2>0, <2>1 DEF Shared, Ranked
  <2>3. GM!Cardinality(GM!Waiting) = Len(heap.free)
    BY <2>0, WaitingCounted DEF GM!Waiting
  <2>4. /\ \A a \in DOMAIN heap.size : GM!BlockEnd(heap, a) \in DOMAIN heap.size \cup {heap.next}
        /\ heap.next = GM!Base \/ GM!Base \in DOMAIN heap.size
        /\ \A a, b \in DOMAIN heap.size : a < b => GM!BlockEnd(heap, a) <= b
    BY <2>0 DEF Laid
  <2>5. ASSUME NEW a \in GM!Waiting PROVE GM!BlockEnd(heap, a) \notin GM!Waiting
    <3> SUFFICES ASSUME GM!BlockEnd(heap, a) \in GM!Waiting PROVE FALSE
      OBVIOUS
    <3>1. PICK i \in 1 .. Len(heap.free) : heap.free[i] = a
      BY <2>1
    <3>2. PICK j \in 1 .. Len(heap.free) : heap.free[j] = GM!BlockEnd(heap, a)
      BY <2>1
    <3>3. a \in DOMAIN heap.size /\ heap.free[j] \in DOMAIN heap.size
      BY <2>0, <3>1 DEF Ranked
    <3>4. /\ a \in Nat /\ GM!BlockEnd(heap, a) \in Nat /\ GM!BlockEnd(heap, a) > a
          /\ \A m \in 1 .. Len(heap.free) : heap.free[m] \in Nat
      <4>1. \A m \in 1 .. Len(heap.free) : heap.free[m] \in DOMAIN heap.size
        BY <2>0 DEF Ranked
      <4> QED
        BY <2>0, <3>3, <4>1, LaidFacts
    <3>5. i < j
      <4>1. j < i => heap.free[j] < heap.free[i]
        BY <2>0 DEF Ranked
      <4> QED
        BY <3>1, <3>2, <3>4, <4>1
    <3>6. Len(heap.free) \in Nat
      BY <2>0
    <3>7. PICK m \in 1 .. Len(heap.free) : m = i + 1
      BY ONLY <3>5, <3>6, i \in 1 .. Len(heap.free), j \in 1 .. Len(heap.free)
    <3>8. heap.free[m] # GM!BlockEnd(heap, a)
      BY <2>0, <3>1, <3>7 DEF Arena, Gap
    <3>9. i < m /\ (m = j \/ m < j)
      BY ONLY <3>5, <3>6, <3>7, i \in 1 .. Len(heap.free), j \in 1 .. Len(heap.free)
    <3>10. a < heap.free[m] /\ heap.free[m] < heap.free[j] /\ heap.free[m] \in DOMAIN heap.size
      BY <2>0, <3>1, <3>2, <3>8, <3>9 DEF Ranked
    <3>11. GM!BlockEnd(heap, a) <= heap.free[m]
      BY <2>0, <3>3, <3>10 DEF Laid
    <3> QED
      BY <3>2, <3>4, <3>10, <3>11
  <2>6. GM!ArenaTiled
    BY <2>2, <2>3, <2>4, <2>5, Zenon DEF GM!ArenaTiled
  <2>7. GM!BlocksAreTheirs
    <3>1. \A t \in Threads : \A b \in held[t] : b.at \in Nat /\ Owns(t, b.at) /\ b.at # stack[t]
      BY HeldFacts DEF Holding
    <3>2. \A t \in Threads : stack[t] # 0 => stack[t] \in Nat /\ Owns(t, stack[t])
      BY DEF Owns, GuestInv, GuestTypes
    <3>3. \A t, u \in Threads : \A a \in Nat : Owns(t, a) /\ Owns(u, a) => t = u
      BY DEF GuestInv, BlocksInv, OneOwner
    <3>4. \A t \in Threads : \A b \in held[t] : heap.size[b.at] >= b.need
      BY HeldFacts
    <3> QED
      BY <3>1, <3>2, <3>3, <3>4 DEF GM!BlocksAreTheirs
  <2> QED
    BY <2>6, <2>7 DEF GM!GuestMemorySound, GuestInv, MapsInv
<1> QED
  BY <1>1, GuestInit, GuestStep, PTL

\* The memory both sides share is sound, whichever of the two calls on it.
THEOREM SharedMemoryHolds ==
  /\ PM!Init /\ [][PM!Next]_platVars
  /\ GM!Init /\ [][GM!Next]_guestVars
  => []MemorySound
BY HostMemoryReached, GuestMemoryHolds, PTL DEF MemorySound
=============================================================================
