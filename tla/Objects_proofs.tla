--------------------------- MODULE Objects_proofs ---------------------------
(***************************************************************************)
(* What the reference counts and the graveyard of CoreFoundation guarantee  *)
(* for every number of threads and objects and every size of the ring: one  *)
(* inductive invariant, which relates the counts, the references, the tasks *)
(* the threads have still to do and the ring.                              *)
(***************************************************************************)
EXTENDS StandIns, FiniteSetTheorems, SequenceTheorems, WellFoundedInduction, TLAPS

-----------------------------------------------------------------------------
(* The objects of CoreFoundation and the graveyard (CoreFoundation).       *)

Tasks == {k \in [what : {"drop", "turn", "bury", "free"}, id : 0 .. MaxObjects, at : 0 .. (Grave - 1)] :
            k.what # "drop" => k.id \in CF!Ids}
ObjectTypes ==
  /\ st \in [CF!Ids -> {"none", "live", "retired", "evicted", "freed"}]
  /\ rc \in [CF!Ids -> Nat]
  /\ slots \in [CF!Ids -> Seq(0 .. MaxObjects)]
  /\ grave \in [0 .. (Grave - 1) -> 0 .. MaxObjects] /\ grave_i \in Nat
  /\ owned \in [Threads -> [CF!Ids -> Nat]]
  /\ todo \in [Threads -> Seq(Tasks)] /\ turn \in [CF!Ids -> Nat]

\* The count of an object is that of its references, and while it has any it is
\* alive.
Counted ==
  \A o \in CF!Ids :
    /\ IsFiniteSet(CF!References(o)) /\ rc[o] = Cardinality(CF!References(o))
    /\ st[o] = "live" <=> rc[o] # 0

\* One that was let go of is in one place: the ring, where its turn put it, or a
\* task that will put it there or free it.
Job(s, n) == s[Len(s) - n]
Jobs(s) == 0 .. (Len(s) - 1)
Placed ==
  \A o \in CF!Ids : IF st[o] \in {"retired", "evicted"} THEN \E x : CF!Places(o) = {x}
                    ELSE CF!Places(o) = {}
Fits(k) ==
  /\ k.what \in {"turn", "bury"} => st[k.id] = "retired"
  /\ k.what = "free" => st[k.id] = "evicted"
  /\ k.what = "bury" => k.at = turn[k.id] % Grave
Underway == \A t \in Threads : \A n \in Jobs(todo[t]) : Fits(Job(todo[t], n))
Ringed ==
  \A i \in 0 .. (Grave - 1) : grave[i] # 0 => st[grave[i]] = "retired" /\ turn[grave[i]] % Grave = i

\* An evicted object has given its children back.
Emptied == \A o \in CF!Ids : slots[o] # << >> => st[o] \in {"live", "retired"}

ObjectInv ==
  ObjectTypes /\ Counted /\ Placed /\ Underway /\ Ringed /\ Emptied /\ hurried = {}

LEMMA ObjectBounds == Grave \in Nat \ {0} /\ MaxObjects \in Nat
BY ObjectsAssumption

LEMMA ObjectIds == CF!Ids \subseteq 0 .. MaxObjects /\ 0 \notin CF!Ids /\ CF!Ids \subseteq Nat
                   /\ \A o \in 0 .. MaxObjects : o # 0 => o \in CF!Ids
BY ObjectBounds DEF CF!Ids

-----------------------------------------------------------------------------
(* A thread's tasks, from the last.                                        *)

LEMMA WaitsAre ==
  ASSUME NEW s \in Seq(Tasks), NEW kinds, NEW o
  PROVE  \A n : n \in CF!Waits(s, kinds, o)
                <=> n \in Jobs(s) /\ Job(s, n).what \in kinds /\ Job(s, n).id = o
<1>1. Len(s) \in Nat /\ DOMAIN s = 1 .. Len(s)
  OBVIOUS
<1>2. \A i \in 1 .. Len(s) : Len(s) - i \in Jobs(s) /\ Len(s) - (Len(s) - i) = i
  BY <1>1 DEF Jobs
<1>3. \A n \in Jobs(s) : Len(s) - n \in 1 .. Len(s) /\ Len(s) - (Len(s) - n) = n
  BY <1>1 DEF Jobs
<1>4. ASSUME NEW n, n \in CF!Waits(s, kinds, o)
      PROVE  n \in Jobs(s) /\ Job(s, n).what \in kinds /\ Job(s, n).id = o
  <2>1. PICK i \in 1 .. Len(s) : s[i].what \in kinds /\ s[i].id = o /\ n = Len(s) - i
    BY <1>1, <1>4 DEF CF!Waits
  <2> QED
    BY <1>2, <2>1 DEF Job
<1>5. ASSUME NEW n \in Jobs(s), Job(s, n).what \in kinds, Job(s, n).id = o
      PROVE  n \in CF!Waits(s, kinds, o)
  <2>1. PICK i \in 1 .. Len(s) : i = Len(s) - n /\ n = Len(s) - i
    BY <1>3
  <2>2. s[i].what \in kinds /\ s[i].id = o
    BY <1>5, <2>1 DEF Job
  <2> QED
    BY <1>1, <2>1, <2>2 DEF CF!Waits
<1> QED
  BY <1>4, <1>5

\* What is left once the first task is done and others are put before the rest.
Continues(s, more, r) ==
  /\ r \in Seq(Tasks) /\ Len(s) - 1 \in Nat /\ Len(r) = Len(s) - 1 + Len(more)
  /\ \A n \in 0 .. (Len(s) - 2) : Job(r, n) = Job(s, n)
  /\ \A n \in (Len(s) - 1) .. (Len(r) - 1) : Job(r, n) = more[Len(more) - (n - (Len(s) - 1))]
  /\ Head(s) = Job(s, Len(s) - 1) /\ Head(s) \in Tasks

LEMMA TasksContinue ==
  ASSUME NEW s \in Seq(Tasks), s # << >>, NEW more \in Seq(Tasks)
  PROVE  Continues(s, more, more \o Tail(s))
<1>1. PICK d \in Nat : Len(s) = d + 1
  <2>1. Len(s) \in Nat \ {0}
    BY EmptySeq
  <2> QED
    BY <2>1
<1>2. PICK w \in Seq(Tasks) : w = Tail(s)
  BY HeadTailProperties
<1>3. Len(w) = d /\ \A i \in 1 .. d : w[i] = s[i + 1]
  BY <1>1, <1>2, HeadTailProperties
<1>4. PICK r \in Seq(Tasks) : r = more \o w
  BY ConcatProperties
<1>5. PICK m \in Nat : m = Len(more)
  OBVIOUS
<1>6. Len(r) = m + d /\ \A i \in 1 .. (m + d) : r[i] = IF i <= m THEN more[i] ELSE w[i - m]
  BY Zenon, <1>3, <1>4, <1>5, ConcatProperties
<1>7. ASSUME NEW n \in 0 .. (d - 1) PROVE Job(r, n) = Job(s, n)
  <2>1. Len(r) - n \in 1 .. (m + d) /\ ~(Len(r) - n <= m) /\ (Len(r) - n) - m = d - n
    BY <1>6
  <2>2. r[Len(r) - n] = w[d - n]
    BY <1>6, <2>1
  <2>3. d - n \in 1 .. d /\ (d - n) + 1 = Len(s) - n
    BY <1>1
  <2> QED
    BY <1>3, <2>2, <2>3 DEF Job
<1>8. ASSUME NEW n \in d .. (Len(r) - 1) PROVE Job(r, n) = more[m - (n - d)]
  <2>1. Len(r) - n \in 1 .. (m + d) /\ Len(r) - n <= m /\ Len(r) - n = m - (n - d)
    BY <1>6
  <2> QED
    BY <1>6, <2>1 DEF Job
<1>9. Head(s) = Job(s, d) /\ Head(s) \in Tasks
  <2>1. Head(s) = s[1] /\ Len(s) - d = 1
    BY <1>1
  <2> QED
    BY <2>1, HeadTailProperties DEF Job
<1> QED
  <2>1. Len(s) - 1 = d /\ Len(s) - 2 = d - 1
    BY <1>1
  <2> QED
    <3>1. \A n \in 0 .. (Len(s) - 2) : Job(r, n) = Job(s, n)
      BY <1>7, <2>1
    <3>2. \A n \in (Len(s) - 1) .. (Len(r) - 1) : Job(r, n) = more[Len(more) - (n - (Len(s) - 1))]
      BY <1>5, <1>8, <2>1
    <3>3. Len(r) = Len(s) - 1 + Len(more) /\ Head(s) = Job(s, Len(s) - 1) /\ Head(s) \in Tasks
      BY <1>5, <1>6, <1>9, <2>1
    <3>4. r = more \o Tail(s) /\ Len(s) - 1 \in Nat
      BY <1>2, <1>4, <2>1
    <3> QED
      BY <3>1, <3>2, <3>3, <3>4 DEF Continues

-----------------------------------------------------------------------------
(* The references to an object, and how a step changes them.               *)

LEMMA OwnedAre ==
  ASSUME NEW o
  PROVE  /\ \A x : x \in CF!Owned(o) <=>
              \E u \in Threads : \E n \in 1 .. owned[u][o] : x = << "thread", u, n >>
         /\ \A x : x \in CF!Owned(o)' <=>
              \E u \in Threads : \E n \in 1 .. owned'[u][o] : x = << "thread", u, n >>
BY DEF CF!Owned

LEMMA SlottedAre ==
  ASSUME NEW o
  PROVE  /\ \A x : x \in CF!Slotted(o) <=>
              \E d \in CF!Ids : \E i \in DOMAIN slots[d] : slots[d][i] = o /\ x = << "slot", d, i >>
         /\ \A x : x \in CF!Slotted(o)' <=>
              \E d \in CF!Ids : \E i \in DOMAIN slots'[d] : slots'[d][i] = o /\ x = << "slot", d, i >>
BY DEF CF!Slotted

LEMMA DroppingAre ==
  ASSUME NEW o
  PROVE  /\ \A x : x \in CF!Dropping(o) <=>
              \E u \in Threads : \E n \in CF!Waits(todo[u], {"drop"}, o) : x = << "drop", u, n >>
         /\ \A x : x \in CF!Dropping(o)' <=>
              \E u \in Threads : \E n \in CF!Waits(todo'[u], {"drop"}, o) : x = << "drop", u, n >>
BY DEF CF!Dropping

Left == {"turn", "bury", "free"}
LEMMA PlacesAre ==
  ASSUME NEW o
  PROVE  /\ \A x : x \in CF!Places(o) <=>
              \/ \E j \in DOMAIN grave : grave[j] = o /\ x = << "grave", 0, j >>
              \/ \E u \in Threads : \E n \in CF!Waits(todo[u], Left, o) : x = << "task", u, n >>
         /\ \A x : x \in CF!Places(o)' <=>
              \/ \E j \in DOMAIN grave' : grave'[j] = o /\ x = << "grave", 0, j >>
              \/ \E u \in Threads : \E n \in CF!Waits(todo'[u], Left, o) : x = << "task", u, n >>
BY DEF CF!Places, Left

LEMMA ReferencesAre ==
  ASSUME NEW o
  PROVE  /\ CF!References(o) = CF!Owned(o) \cup CF!Slotted(o) \cup CF!Dropping(o)
         /\ CF!References(o)' = CF!Owned(o)' \cup CF!Slotted(o)' \cup CF!Dropping(o)'
BY DEF CF!References

\* The three kinds of reference are told apart by their first part.
LEMMA ThreeKinds ==
  ASSUME NEW o
  PROVE  /\ \A x : x \in CF!Owned(o) => x[1] = "thread"
         /\ \A x : x \in CF!Slotted(o) => x[1] = "slot"
         /\ \A x : x \in CF!Dropping(o) => x[1] = "drop"
<1>1. \A x : x \in CF!Owned(o) => x[1] = "thread"
  BY OwnedAre
<1>2. \A x : x \in CF!Slotted(o) => x[1] = "slot"
  BY SlottedAre
<1>3. \A x : x \in CF!Dropping(o) => x[1] = "drop"
  BY DroppingAre
<1> QED
  BY <1>1, <1>2, <1>3

\* An object somebody refers to is alive.
LEMMA ReferredLives ==
  ASSUME ObjectInv, NEW o \in CF!Ids
  PROVE  /\ rc[o] \in Nat /\ rc[o] = Cardinality(CF!References(o)) /\ IsFiniteSet(CF!References(o))
         /\ CF!References(o) # {} <=> rc[o] # 0
         /\ CF!References(o) # {} <=> st[o] = "live"
<1>1. rc[o] \in Nat /\ IsFiniteSet(CF!References(o)) /\ rc[o] = Cardinality(CF!References(o))
  BY DEF ObjectInv, ObjectTypes, Counted
<1>2. CF!References(o) # {} <=> rc[o] # 0
  BY <1>1, FS_EmptySet
<1> QED
  BY <1>1, <1>2 DEF ObjectInv, Counted

LEMMA OneMore ==
  ASSUME NEW R, IsFiniteSet(R), NEW x, x \notin R, NEW Q, Q = R \cup {x}
  PROVE  IsFiniteSet(Q) /\ Cardinality(Q) = Cardinality(R) + 1
BY FS_AddElement

LEMMA OneLess ==
  ASSUME NEW R, IsFiniteSet(R), NEW x, x \in R, NEW Q, Q = R \ {x}
  PROVE  IsFiniteSet(Q) /\ Cardinality(Q) = Cardinality(R) - 1
BY FS_RemoveElement

LEMMA OneForOne ==
  ASSUME NEW R, IsFiniteSet(R), NEW x, x \in R, NEW y, y \notin R, NEW Q, Q = (R \ {x}) \cup {y}
  PROVE  IsFiniteSet(Q) /\ Cardinality(Q) = Cardinality(R)
<1>1. IsFiniteSet(R \ {x}) /\ Cardinality(R \ {x}) = Cardinality(R) - 1 /\ y \notin R \ {x}
  BY FS_RemoveElement
<1>2. IsFiniteSet(Q) /\ Cardinality(Q) = (Cardinality(R) - 1) + 1
  BY <1>1, FS_AddElement
<1>3. Cardinality(R) \in Nat
  BY FS_CardinalityType
<1> QED
  BY <1>2, <1>3

\* Two sets of the same things under other names are as many.
LEMMA AsMany ==
  ASSUME NEW J, IsFiniteSet(J), NEW A, NEW F \in [J -> A],
         \A i, j \in J : F[i] = F[j] => i = j, \A a \in A : \E i \in J : F[i] = a
  PROVE  IsFiniteSet(A) /\ Cardinality(A) = Cardinality(J)
<1>1. F \in Injection(J, A)
  BY DEF Injection, IsInjective
<1>2. F \in Surjection(J, A)
  BY DEF Surjection
<1>3. ExistsBijection(J, A)
  BY <1>1, <1>2 DEF ExistsBijection, Bijection
<1> QED
  BY <1>3, FS_Bijection

\* A thread's references to one object become n.
OwnsThen(t, a, n) ==
  /\ t \in Threads /\ a \in CF!Ids /\ n \in Nat
  /\ owned' = [owned EXCEPT ![t] = [@ EXCEPT ![a] = n]]

OwnsMore(t, o, n) ==
  << "thread", t, n >> \notin CF!Owned(o) /\ CF!Owned(o)' = CF!Owned(o) \cup {<< "thread", t, n >>}
OwnsLess(t, o, n) ==
  << "thread", t, n >> \in CF!Owned(o) /\ CF!Owned(o)' = CF!Owned(o) \ {<< "thread", t, n >>}

LEMMA OwnedThen ==
  ASSUME ObjectTypes, NEW t, NEW a, NEW n, OwnsThen(t, a, n), NEW o \in CF!Ids
  PROVE  /\ owned' \in [Threads -> [CF!Ids -> Nat]]
         /\ o # a => CF!Owned(o)' = CF!Owned(o)
         /\ o = a /\ n = owned[t][a] + 1 => OwnsMore(t, o, n)
         /\ o = a /\ n + 1 = owned[t][a] => OwnsLess(t, o, n + 1)
<1>1. owned \in [Threads -> [CF!Ids -> Nat]]
  BY DEF ObjectTypes
<1>2. /\ owned' \in [Threads -> [CF!Ids -> Nat]]
      /\ \A u \in Threads : owned'[u][o] = IF u = t /\ o = a THEN n ELSE owned[u][o]
  BY <1>1 DEF OwnsThen
<1>3. ASSUME o # a PROVE CF!Owned(o)' = CF!Owned(o)
  <2>1. \A x : x \in CF!Owned(o)' <=> x \in CF!Owned(o)
    BY <1>2, <1>3, OwnedAre
  <2> QED
    BY <2>1
<1>4. ASSUME o = a, n = owned[t][a] + 1
      PROVE  OwnsMore(t, o, n)
  <2>1. owned[t][o] \in Nat /\ owned'[t][o] = n
    BY <1>1, <1>2, <1>4 DEF OwnsThen
  <2>2. 1 .. n = (1 .. owned[t][o]) \cup {n} /\ n \notin 1 .. owned[t][o]
    BY <1>4, <2>1
  <2>3. << "thread", t, n >> \notin CF!Owned(o)
    <3>1. ASSUME << "thread", t, n >> \in CF!Owned(o) PROVE FALSE
      <4>1. PICK u \in Threads, m \in Nat :
              m \in 1 .. owned[u][o] /\ << "thread", t, n >> = << "thread", u, m >>
        BY <3>1, OwnedAre
      <4> QED
        BY <2>2, <4>1
    <3> QED
      BY <3>1
  <2>4. ASSUME NEW x, x \in CF!Owned(o)' PROVE x \in CF!Owned(o) \cup {<< "thread", t, n >>}
    <3>1. PICK u \in Threads, m \in Nat : m \in 1 .. owned'[u][o] /\ x = << "thread", u, m >>
      BY <2>4, OwnedAre
    <3>2. CASE u = t /\ m = n
      BY <3>1, <3>2
    <3>3. CASE u # t \/ m # n
      <4>1. m \in 1 .. owned[u][o]
        BY <1>2, <1>4, <2>1, <2>2, <3>1, <3>3
      <4> QED
        BY <3>1, <4>1, OwnedAre
    <3> QED
      BY <3>2, <3>3
  <2>5. ASSUME NEW x, x \in CF!Owned(o) \cup {<< "thread", t, n >>} PROVE x \in CF!Owned(o)'
    <3>1. CASE x = << "thread", t, n >>
      <4>1. n \in 1 .. owned'[t][o] /\ t \in Threads
        BY <2>1, <2>2 DEF OwnsThen
      <4> QED
        BY <3>1, <4>1, OwnedAre
    <3>2. CASE x \in CF!Owned(o)
      <4>1. PICK u \in Threads, m \in Nat : m \in 1 .. owned[u][o] /\ x = << "thread", u, m >>
        BY <3>2, OwnedAre
      <4>2. m \in 1 .. owned'[u][o]
        BY <1>2, <1>4, <2>1, <2>2, <4>1
      <4> QED
        BY <4>1, <4>2, OwnedAre
    <3> QED
      BY <2>5, <3>1, <3>2
  <2>6. CF!Owned(o)' = CF!Owned(o) \cup {<< "thread", t, n >>}
    BY <2>4, <2>5
  <2> QED
    BY <2>3, <2>6 DEF OwnsMore
<1>5. ASSUME o = a, n + 1 = owned[t][a]
      PROVE  OwnsLess(t, o, n + 1)
  <2>1. n \in Nat /\ t \in Threads /\ owned[t][o] = n + 1 /\ owned'[t][o] = n
    BY <1>2, <1>5 DEF OwnsThen
  <2>2. 1 .. (n + 1) = (1 .. n) \cup {n + 1} /\ n + 1 \notin 1 .. n
    BY <2>1
  <2>3. << "thread", t, n + 1 >> \in CF!Owned(o)
    BY <2>1, <2>2, OwnedAre
  <2>4. ASSUME NEW x, x \in CF!Owned(o)' PROVE x \in CF!Owned(o) /\ x # << "thread", t, n + 1 >>
    <3>1. PICK u \in Threads, m \in Nat : m \in 1 .. owned'[u][o] /\ x = << "thread", u, m >>
      BY <2>4, OwnedAre
    <3>2. m \in 1 .. owned[u][o] /\ ~(u = t /\ m = n + 1)
      BY <1>2, <1>5, <2>1, <2>2, <3>1
    <3> QED
      BY <3>1, <3>2, OwnedAre
  <2>5. ASSUME NEW x, x \in CF!Owned(o), x # << "thread", t, n + 1 >> PROVE x \in CF!Owned(o)'
    <3>1. PICK u \in Threads, m \in Nat : m \in 1 .. owned[u][o] /\ x = << "thread", u, m >>
      BY <2>5, OwnedAre
    <3>2. ~(u = t /\ m = n + 1)
      BY <2>5, <3>1
    <3>3. m \in 1 .. owned'[u][o]
      BY <1>2, <1>5, <2>1, <2>2, <3>1, <3>2
    <3> QED
      BY <3>1, <3>3, OwnedAre
  <2> QED
    BY <2>3, <2>4, <2>5 DEF OwnsLess
<1> QED
  BY <1>2, <1>3, <1>4, <1>5

\* The slots of one container become s.
At(o, s) == {j \in DOMAIN s : s[j] = o}
SlotPlaces(a, J) == {<< "slot", a, i >> : i \in J}

Refilled(o, a, I, J) ==
  /\ slots' \in [CF!Ids -> Seq(0 .. MaxObjects)]
  /\ CF!Slotted(o)' = (CF!Slotted(o) \ SlotPlaces(a, I)) \cup SlotPlaces(a, J)
  /\ SlotPlaces(a, I) \subseteq CF!Slotted(o)
  /\ \A i : i \notin I => << "slot", a, i >> \notin CF!Slotted(o)

LEMMA SlottedThen ==
  ASSUME ObjectTypes, NEW a \in CF!Ids, NEW s \in Seq(0 .. MaxObjects), NEW o \in CF!Ids,
         slots' = [slots EXCEPT ![a] = s]
  PROVE  Refilled(o, a, At(o, slots[a]), At(o, s))
<1>1. slots \in [CF!Ids -> Seq(0 .. MaxObjects)]
  BY DEF ObjectTypes
<1>2. /\ slots' \in [CF!Ids -> Seq(0 .. MaxObjects)] /\ slots'[a] = s
      /\ \A d \in CF!Ids : d # a => slots'[d] = slots[d]
  BY <1>1
<1>3. \A x : x \in SlotPlaces(a, At(o, s)) <=> \E i \in DOMAIN s : s[i] = o /\ x = << "slot", a, i >>
  BY DEF SlotPlaces, At
<1>4. \A x : x \in SlotPlaces(a, At(o, slots[a]))
             <=> \E i \in DOMAIN slots[a] : slots[a][i] = o /\ x = << "slot", a, i >>
  BY DEF SlotPlaces, At
<1>5. SlotPlaces(a, At(o, slots[a])) \subseteq CF!Slotted(o)
  BY <1>4, SlottedAre
<1>6. ASSUME NEW x, x \in CF!Slotted(o)'
      PROVE  x \in (CF!Slotted(o) \ SlotPlaces(a, At(o, slots[a]))) \cup SlotPlaces(a, At(o, s))
  <2>1. PICK d \in CF!Ids : \E i \in DOMAIN slots'[d] : slots'[d][i] = o /\ x = << "slot", d, i >>
    BY <1>6, SlottedAre
  <2>2. CASE d = a
    BY <1>2, <1>3, <2>1, <2>2
  <2>3. CASE d # a
    <3>1. \E i \in DOMAIN slots[d] : slots[d][i] = o /\ x = << "slot", d, i >>
      BY <1>2, <2>1, <2>3
    <3>2. x \in CF!Slotted(o)
      BY <3>1, SlottedAre
    <3>3. x \notin SlotPlaces(a, At(o, slots[a]))
      BY <1>4, <2>3, <3>1
    <3> QED
      BY <3>2, <3>3
  <2> QED
    BY <2>2, <2>3
<1>7. ASSUME NEW x, x \in (CF!Slotted(o) \ SlotPlaces(a, At(o, slots[a]))) \cup SlotPlaces(a, At(o, s))
      PROVE  x \in CF!Slotted(o)'
  <2>1. CASE x \in SlotPlaces(a, At(o, s))
    BY <1>2, <1>3, <2>1, SlottedAre
  <2>2. CASE x \in CF!Slotted(o) /\ x \notin SlotPlaces(a, At(o, slots[a]))
    <3>1. PICK d \in CF!Ids : \E i \in DOMAIN slots[d] : slots[d][i] = o /\ x = << "slot", d, i >>
      BY <2>2, SlottedAre
    <3>2. d # a
      BY <1>4, <2>2, <3>1
    <3>3. \E i \in DOMAIN slots'[d] : slots'[d][i] = o /\ x = << "slot", d, i >>
      BY <1>2, <3>1, <3>2
    <3> QED
      BY <3>3, SlottedAre
  <2> QED
    BY <1>7, <2>1, <2>2
<1>8. CF!Slotted(o)' = (CF!Slotted(o) \ SlotPlaces(a, At(o, slots[a]))) \cup SlotPlaces(a, At(o, s))
  BY <1>6, <1>7
<1>9. ASSUME NEW i, i \notin At(o, slots[a]) PROVE << "slot", a, i >> \notin CF!Slotted(o)
  <2>1. ASSUME << "slot", a, i >> \in CF!Slotted(o) PROVE FALSE
    <3>1. PICK d \in CF!Ids :
            \E j \in DOMAIN slots[d] : slots[d][j] = o /\ << "slot", a, i >> = << "slot", d, j >>
      BY <2>1, SlottedAre
    <3>2. PICK j \in DOMAIN slots[d] : slots[d][j] = o /\ << "slot", a, i >> = << "slot", d, j >>
      BY <3>1
    <3>3. d = a /\ j = i
      BY <3>2
    <3> QED
      BY <1>9, <3>2, <3>3 DEF At
  <2> QED
    BY <2>1
<1> QED
  BY <1>2, <1>5, <1>8, <1>9 DEF Refilled

LEMMA AtMost ==
  ASSUME NEW s \in Seq(0 .. MaxObjects), NEW o
  PROVE  /\ IsFiniteSet(At(o, s)) /\ CF!Occurs(o, s) = Cardinality(At(o, s))
         /\ At(o, s) \subseteq 1 .. Len(s)
<1>1. DOMAIN s = 1 .. Len(s) /\ Len(s) \in Nat
  OBVIOUS
<1>2. IsFiniteSet(1 .. Len(s))
  BY <1>1, FS_Interval
<1>3. At(o, s) \subseteq 1 .. Len(s)
  BY <1>1 DEF At
<1>4. CF!Occurs(o, s) = Cardinality(At(o, s))
  BY DEF CF!Occurs, At, CF!Cardinality, Cardinality
<1> QED
  BY <1>2, <1>3, <1>4, FS_Subset

LEMMA SlotsAsMany ==
  ASSUME NEW a, NEW J, IsFiniteSet(J)
  PROVE  IsFiniteSet(SlotPlaces(a, J)) /\ Cardinality(SlotPlaces(a, J)) = Cardinality(J)
<1>1. PICK F : F = [i \in J |-> << "slot", a, i >>]
  OBVIOUS
<1>2. F \in [J -> SlotPlaces(a, J)]
  BY <1>1 DEF SlotPlaces
<1>3. \A i, j \in J : F[i] = F[j] => i = j
  BY <1>1
<1>4. \A x \in SlotPlaces(a, J) : \E i \in J : F[i] = x
  BY <1>1 DEF SlotPlaces
<1> QED
  BY <1>2, <1>3, <1>4, AsMany

\* A new container holds what it is filled with.
LEMMA SlottedMore ==
  ASSUME ObjectTypes, NEW a \in CF!Ids, NEW s \in Seq(0 .. MaxObjects), NEW o \in CF!Ids,
         slots' = [slots EXCEPT ![a] = s], slots[a] = << >>
  PROVE  /\ CF!Slotted(o)' = CF!Slotted(o) \cup SlotPlaces(a, At(o, s))
         /\ CF!Slotted(o) \cap SlotPlaces(a, At(o, s)) = {}
         /\ o \notin {s[i] : i \in DOMAIN s} => CF!Slotted(o)' = CF!Slotted(o)
<1>1. At(o, slots[a]) = {} /\ SlotPlaces(a, {}) = {}
  BY DEF At, SlotPlaces
<1>2. Refilled(o, a, {}, At(o, s))
  BY <1>1, SlottedThen
<1>3. CF!Slotted(o) \cap SlotPlaces(a, At(o, s)) = {}
  BY <1>2 DEF Refilled, SlotPlaces
<1>4. CF!Slotted(o)' = CF!Slotted(o) \cup SlotPlaces(a, At(o, s))
  BY <1>1, <1>2 DEF Refilled
<1>5. ASSUME o \notin {s[i] : i \in DOMAIN s} PROVE CF!Slotted(o)' = CF!Slotted(o)
  <2>1. At(o, s) = {}
    BY <1>5 DEF At
  <2> QED
    BY <1>1, <1>4, <2>1
<1> QED
  BY <1>3, <1>4, <1>5

\* One more is put after what it holds.
HoldsMore(o, x) == x \notin CF!Slotted(o) /\ CF!Slotted(o)' = CF!Slotted(o) \cup {x}
HoldsAsMany(o) == CF!Slotted(o)' = CF!Slotted(o)
LEMMA SlottedAppended ==
  ASSUME ObjectTypes, NEW a \in CF!Ids, NEW v \in CF!Ids, NEW o \in CF!Ids,
         slots' = [slots EXCEPT ![a] = Append(@, v)]
  PROVE  /\ slots' \in [CF!Ids -> Seq(0 .. MaxObjects)]
         /\ o # v => HoldsAsMany(o)
         /\ o = v => HoldsMore(o, << "slot", a, Len(slots[a]) + 1 >>)
<1>1. slots[a] \in Seq(0 .. MaxObjects) /\ v \in 0 .. MaxObjects
  BY ObjectIds DEF ObjectTypes
<1>2. PICK s \in Seq(0 .. MaxObjects) : s = Append(slots[a], v)
  BY <1>1, AppendProperties
<1>3. PICK n \in Nat : n = Len(slots[a])
  BY <1>1
<1>4. /\ DOMAIN slots[a] = 1 .. n /\ DOMAIN s = 1 .. (n + 1) /\ s[n + 1] = v
      /\ \A i \in 1 .. n : s[i] = slots[a][i]
  BY <1>1, <1>2, <1>3
<1>5. slots' = [slots EXCEPT ![a] = s]
  BY <1>2 DEF ObjectTypes
<1>6. At(o, slots[a]) \subseteq 1 .. n /\ n + 1 \notin At(o, slots[a])
  BY <1>4 DEF At
<1>7. At(o, s) = IF o = v THEN At(o, slots[a]) \cup {n + 1} ELSE At(o, slots[a])
  BY <1>4 DEF At
<1>8. PICK I, J : I = At(o, slots[a]) /\ J = At(o, s)
  OBVIOUS
<1>9. Refilled(o, a, I, J)
  BY <1>5, <1>8, SlottedThen
<1>10. o # v => HoldsAsMany(o)
  BY <1>7, <1>8, <1>9 DEF Refilled, HoldsAsMany
<1>11. ASSUME o = v PROVE HoldsMore(o, << "slot", a, n + 1 >>)
  <2>1. J = I \cup {n + 1} /\ n + 1 \notin I
    BY <1>6, <1>7, <1>8, <1>11
  <2>2. SlotPlaces(a, J) = SlotPlaces(a, I) \cup {<< "slot", a, n + 1 >>}
    BY <2>1 DEF SlotPlaces
  <2> QED
    BY <1>9, <2>1, <2>2 DEF Refilled, HoldsMore
<1> QED
  BY <1>3, <1>9, <1>10, <1>11 DEF Refilled

-----------------------------------------------------------------------------
(* The tasks on an object, and how a step changes them.                    *)

Among(s, kinds, o) == {j \in DOMAIN s : s[j].what \in kinds /\ s[j].id = o}

LEMMA WaitsThen ==
  ASSUME NEW s \in Seq(Tasks), s # << >>, NEW more \in Seq(Tasks), NEW kinds, NEW o,
         NEW d, d = Len(s) - 1
  PROVE  /\ d \in Nat
         /\ \A n : n \in CF!Waits(more \o Tail(s), kinds, o)
              <=> \/ n \in CF!Waits(s, kinds, o) /\ n # d
                  \/ \E j \in Among(more, kinds, o) : n = d + Len(more) - j
         /\ d \in CF!Waits(s, kinds, o) <=> Head(s).what \in kinds /\ Head(s).id = o
         /\ \A n \in CF!Waits(s, kinds, o) : n \in 0 .. d
<1>1. PICK r : r = more \o Tail(s)
  OBVIOUS
<1>2. Continues(s, more, r)
  BY <1>1, TasksContinue
<1>3. /\ r \in Seq(Tasks) /\ d \in Nat /\ Len(s) = d + 1
      /\ \A n \in 0 .. (d - 1) : Job(r, n) = Job(s, n)
      /\ Head(s) = Job(s, d)
  <2>1. Len(s) - 2 = d - 1 /\ Len(s) = d + 1
    BY <1>2 DEF Continues
  <2> QED
    BY <1>2, <2>1 DEF Continues
<1>4. PICK m \in Nat : m = Len(more) /\ DOMAIN more = 1 .. m
  OBVIOUS
<1>5. Len(r) = d + m /\ \A n \in d .. (d + m - 1) : Job(r, n) = more[m - (n - d)]
  BY <1>2, <1>4 DEF Continues
<1>6. \A n : n \in CF!Waits(r, kinds, o)
             <=> n \in 0 .. (d + m - 1) /\ Job(r, n).what \in kinds /\ Job(r, n).id = o
  BY <1>3, <1>5, WaitsAre DEF Jobs
<1>7. \A n : n \in CF!Waits(s, kinds, o)
             <=> n \in 0 .. d /\ Job(s, n).what \in kinds /\ Job(s, n).id = o
  <2>1. Len(s) - 1 = d
    BY <1>3
  <2> QED
    BY <2>1, WaitsAre DEF Jobs
<1>8. ASSUME NEW n, n \in CF!Waits(r, kinds, o)
      PROVE  \/ n \in CF!Waits(s, kinds, o) /\ n # d
             \/ \E j \in Among(more, kinds, o) : n = d + m - j
  <2>1. n \in 0 .. (d + m - 1) /\ Job(r, n).what \in kinds /\ Job(r, n).id = o
    BY <1>6, <1>8
  <2>2. CASE n < d
    <3>1. n \in 0 .. (d - 1) /\ n \in 0 .. d /\ n # d
      BY <1>3, <2>1, <2>2
    <3> QED
      BY <1>3, <1>7, <2>1, <3>1
  <2>3. CASE ~(n < d)
    <3>1. n \in d .. (d + m - 1) /\ m - (n - d) \in 1 .. m /\ n = d + m - (m - (n - d))
      BY <1>3, <2>1, <2>3
    <3>2. m - (n - d) \in Among(more, kinds, o)
      BY <1>4, <1>5, <2>1, <3>1 DEF Among
    <3> QED
      BY <3>1, <3>2
  <2> QED
    BY <2>2, <2>3
<1>9. ASSUME NEW n, n \in CF!Waits(s, kinds, o), n # d PROVE n \in CF!Waits(r, kinds, o)
  <2>1. n \in 0 .. d /\ Job(s, n).what \in kinds /\ Job(s, n).id = o
    BY <1>7, <1>9
  <2>2. n \in 0 .. (d - 1) /\ n \in 0 .. (d + m - 1)
    BY <1>3, <1>9, <2>1
  <2> QED
    BY <1>3, <1>6, <2>1, <2>2
<1>10. ASSUME NEW j \in Among(more, kinds, o), NEW n, n = d + m - j PROVE n \in CF!Waits(r, kinds, o)
  <2>1. j \in 1 .. m /\ more[j].what \in kinds /\ more[j].id = o
    BY <1>4 DEF Among
  <2>2. n \in d .. (d + m - 1) /\ n \in 0 .. (d + m - 1) /\ m - (n - d) = j
    BY <1>3, <1>10, <2>1
  <2> QED
    BY <1>5, <1>6, <2>1, <2>2
<1>11. d \in 0 .. d
  BY <1>3
<1> QED
  BY <1>1, <1>3, <1>4, <1>7, <1>8, <1>9, <1>10, <1>11

Chores(tag, kinds, o) == UNION {{<< tag, u, n >> : n \in CF!Waits(todo[u], kinds, o)} : u \in Threads}
Graves(o) == {<< "grave", 0, j >> : j \in {i \in DOMAIN grave : grave[i] = o}}

LEMMA ChoresAre ==
  ASSUME NEW o
  PROVE  /\ CF!Dropping(o) = Chores("drop", {"drop"}, o)
         /\ CF!Dropping(o)' = Chores("drop", {"drop"}, o)'
         /\ CF!Places(o) = Graves(o) \cup Chores("task", Left, o)
         /\ CF!Places(o)' = Graves(o)' \cup Chores("task", Left, o)'
BY DEF Chores, Graves, Left, CF!Dropping, CF!Places

\* What becomes of the tasks on an object when a thread goes on to others.
Added(tag, t, d, more, kinds, o) ==
  {<< tag, t, d + Len(more) - j >> : j \in Among(more, kinds, o)}
Goes(t, d, more) ==
  /\ t \in Threads /\ todo[t] # << >> /\ d = Len(todo[t]) - 1 /\ more \in Seq(Tasks)
  /\ todo' = [todo EXCEPT ![t] = more \o Tail(@)]
GoneOn(tag, t, d, more, kinds, o) ==
  /\ todo' \in [Threads -> Seq(Tasks)]
  /\ Chores(tag, kinds, o)' =
       (Chores(tag, kinds, o) \ {<< tag, t, d >>}) \cup Added(tag, t, d, more, kinds, o)
  /\ << tag, t, d >> \in Chores(tag, kinds, o)
       <=> Head(todo[t]).what \in kinds /\ Head(todo[t]).id = o
  /\ \A n : << tag, t, n >> \in Chores(tag, kinds, o) => n \in 0 .. d

LEMMA ChoresThen ==
  ASSUME ObjectTypes, NEW t, NEW d, NEW more, Goes(t, d, more), NEW tag, NEW kinds, NEW o
  PROVE  GoneOn(tag, t, d, more, kinds, o)
<1>1. /\ t \in Threads /\ todo[t] \in Seq(Tasks) /\ todo[t] # << >> /\ d = Len(todo[t]) - 1
      /\ more \in Seq(Tasks) /\ todo \in [Threads -> Seq(Tasks)]
  BY DEF Goes, ObjectTypes
<1>2. PICK s \in Seq(Tasks) : s = todo[t] /\ s # << >> /\ d = Len(s) - 1
  BY <1>1
<1>3. PICK r : r = more \o Tail(s)
  OBVIOUS
<1>4. r \in Seq(Tasks)
  BY <1>1, <1>2, <1>3, HeadTailProperties, ConcatProperties
<1>5. todo' = [todo EXCEPT ![t] = r] /\ todo' \in [Threads -> Seq(Tasks)]
  BY <1>1, <1>2, <1>3, <1>4 DEF Goes
<1>6. todo'[t] = r /\ \A u \in Threads : u # t => todo'[u] = todo[u]
  BY <1>1, <1>5
<1>7. /\ d \in Nat
      /\ \A n : n \in CF!Waits(r, kinds, o)
           <=> \/ n \in CF!Waits(s, kinds, o) /\ n # d
               \/ \E j \in Among(more, kinds, o) : n = d + Len(more) - j
      /\ d \in CF!Waits(s, kinds, o) <=> Head(s).what \in kinds /\ Head(s).id = o
      /\ \A n \in CF!Waits(s, kinds, o) : n \in 0 .. d
  BY <1>1, <1>2, <1>3, WaitsThen
<1>8. \A x : x \in Chores(tag, kinds, o) <=>
         \E u \in Threads : \E n \in CF!Waits(todo[u], kinds, o) : x = << tag, u, n >>
  BY DEF Chores
<1>9. \A x : x \in Chores(tag, kinds, o)' <=>
         \E u \in Threads : \E n \in CF!Waits(todo'[u], kinds, o) : x = << tag, u, n >>
  BY DEF Chores
<1>10. \A n : << tag, t, n >> \in Chores(tag, kinds, o) <=> n \in CF!Waits(s, kinds, o)
  BY <1>1, <1>2, <1>8
<1>11. ASSUME NEW x, x \in Chores(tag, kinds, o)'
       PROVE  x \in (Chores(tag, kinds, o) \ {<< tag, t, d >>}) \cup Added(tag, t, d, more, kinds, o)
  <2>1. PICK u \in Threads : \E n \in CF!Waits(todo'[u], kinds, o) : x = << tag, u, n >>
    BY <1>9, <1>11
  <2>2. PICK n : n \in CF!Waits(todo'[u], kinds, o) /\ x = << tag, u, n >>
    BY <2>1
  <2>3. CASE u # t
    <3>1. x \in Chores(tag, kinds, o) /\ x # << tag, t, d >>
      BY <1>6, <1>8, <2>2, <2>3
    <3> QED
      BY <3>1
  <2>4. CASE u = t /\ n \in CF!Waits(s, kinds, o) /\ n # d
    <3>1. x \in Chores(tag, kinds, o) /\ x # << tag, t, d >>
      BY <1>10, <2>2, <2>4
    <3> QED
      BY <3>1
  <2>5. CASE u = t /\ \E j \in Among(more, kinds, o) : n = d + Len(more) - j
    <3>1. x \in Added(tag, t, d, more, kinds, o)
      BY <2>2, <2>5 DEF Added
    <3> QED
      BY <3>1
  <2> QED
    BY <1>6, <1>7, <2>2, <2>3, <2>4, <2>5
<1>12. ASSUME NEW x, x \in Chores(tag, kinds, o), x # << tag, t, d >>
       PROVE  x \in Chores(tag, kinds, o)'
  <2>1. PICK u \in Threads : \E n \in CF!Waits(todo[u], kinds, o) : x = << tag, u, n >>
    BY <1>8, <1>12
  <2>2. PICK n : n \in CF!Waits(todo[u], kinds, o) /\ x = << tag, u, n >>
    BY <2>1
  <2>3. n \in CF!Waits(todo'[u], kinds, o)
    BY <1>2, <1>6, <1>7, <1>12, <2>2
  <2> QED
    BY <1>9, <2>2, <2>3
<1>13. ASSUME NEW x, x \in Added(tag, t, d, more, kinds, o) PROVE x \in Chores(tag, kinds, o)'
  <2>1. PICK j \in Among(more, kinds, o) : x = << tag, t, d + Len(more) - j >>
    BY <1>13 DEF Added
  <2>2. d + Len(more) - j \in CF!Waits(todo'[t], kinds, o)
    BY <1>6, <1>7
  <2> QED
    BY <1>1, <1>9, <2>1, <2>2
<1>14. Chores(tag, kinds, o)' =
         (Chores(tag, kinds, o) \ {<< tag, t, d >>}) \cup Added(tag, t, d, more, kinds, o)
  BY <1>11, <1>12, <1>13
<1>15. << tag, t, d >> \in Chores(tag, kinds, o)
         <=> Head(todo[t]).what \in kinds /\ Head(todo[t]).id = o
  BY <1>2, <1>7, <1>10
<1>16. \A n : << tag, t, n >> \in Chores(tag, kinds, o) => n \in 0 .. d
  BY <1>7, <1>10
<1> QED
  BY <1>5, <1>14, <1>15, <1>16 DEF GoneOn

\* The tasks a thread has then are those it had but the first, and those put
\* before them.
LEMMA JobsThen ==
  ASSUME ObjectTypes, NEW t, NEW d, NEW more, Goes(t, d, more), NEW u \in Threads,
         NEW n \in Jobs(todo'[u])
  PROVE  \/ n \in Jobs(todo[u]) /\ (u # t \/ n # d) /\ Job(todo'[u], n) = Job(todo[u], n)
         \/ u = t /\ \E j \in DOMAIN more : Job(todo'[u], n) = more[j]
<1>1. /\ t \in Threads /\ todo[t] \in Seq(Tasks) /\ todo[t] # << >> /\ d = Len(todo[t]) - 1
      /\ more \in Seq(Tasks) /\ todo \in [Threads -> Seq(Tasks)]
  BY DEF Goes, ObjectTypes
<1>2. CASE u # t
  <2>1. todo'[u] = todo[u]
    BY <1>1, <1>2 DEF Goes
  <2> QED
    BY <1>2, <2>1
<1>3. CASE u = t
  <2>1. PICK s \in Seq(Tasks) : s = todo[t] /\ s # << >> /\ d = Len(s) - 1
    BY <1>1
  <2>2. PICK r : r = more \o Tail(s)
    OBVIOUS
  <2>3. todo'[t] = r
    BY <1>1, <2>1, <2>2 DEF Goes
  <2>4. Continues(s, more, r)
    BY <1>1, <2>1, <2>2, TasksContinue
  <2>5. PICK m \in Nat : m = Len(more) /\ DOMAIN more = 1 .. m
    BY <1>1
  <2>6. /\ d \in Nat /\ Len(r) = d + m /\ Len(s) = d + 1
        /\ \A i \in 0 .. (d - 1) : Job(r, i) = Job(s, i)
        /\ \A i \in d .. (d + m - 1) : Job(r, i) = more[m - (i - d)]
    <3>1. Len(s) - 2 = d - 1 /\ Len(s) = d + 1
      BY <2>1, <2>4 DEF Continues
    <3> QED
      BY <2>1, <2>4, <2>5, <3>1 DEF Continues
  <2>7. n \in 0 .. (d + m - 1)
    BY <1>3, <2>3, <2>6 DEF Jobs
  <2>8. CASE n < d
    <3>1. n \in 0 .. (d - 1) /\ n \in 0 .. (Len(s) - 1) /\ n # d
      BY <2>6, <2>7, <2>8
    <3> QED
      BY <1>3, <2>1, <2>3, <2>6, <3>1 DEF Jobs
  <2>9. CASE ~(n < d)
    <3>1. n \in d .. (d + m - 1) /\ m - (n - d) \in 1 .. m
      BY <2>6, <2>7, <2>9
    <3> QED
      BY <1>3, <2>3, <2>5, <2>6, <3>1
  <2> QED
    BY <2>8, <2>9
<1> QED
  BY <1>2, <1>3

LEMMA JobIsTask ==
  ASSUME ObjectInv, NEW u \in Threads, NEW n \in Jobs(todo[u])
  PROVE  Job(todo[u], n) \in Tasks
<1>1. todo[u] \in Seq(Tasks)
  BY DEF ObjectInv, ObjectTypes
<1>2. Len(todo[u]) \in Nat /\ Len(todo[u]) - n \in 1 .. Len(todo[u])
  BY <1>1 DEF Jobs
<1> QED
  BY <1>1, <1>2, ElementOfSeq DEF Job

\* An object with a task, or in the ring, is nowhere else.
LEMMA OnlyPlace ==
  ASSUME ObjectInv, NEW o \in CF!Ids
  PROVE  /\ \A x, y : x \in CF!Places(o) /\ y \in CF!Places(o) => x = y
         /\ CF!Places(o) # {} <=> st[o] \in {"retired", "evicted"}
         /\ \A u \in Threads : \A n \in Jobs(todo[u]) :
              Job(todo[u], n).what # "drop" /\ Job(todo[u], n).id = o
                => << "task", u, n >> \in CF!Places(o)
         /\ \A j \in 0 .. (Grave - 1) : grave[j] = o => << "grave", 0, j >> \in CF!Places(o)
<1>1. /\ \A x, y : x \in CF!Places(o) /\ y \in CF!Places(o) => x = y
      /\ CF!Places(o) # {} <=> st[o] \in {"retired", "evicted"}
  BY DEF ObjectInv, Placed
<1>2. ASSUME NEW u \in Threads, NEW n \in Jobs(todo[u]), Job(todo[u], n).what # "drop",
             Job(todo[u], n).id = o
      PROVE  << "task", u, n >> \in CF!Places(o)
  <2>1. todo[u] \in Seq(Tasks)
    BY DEF ObjectInv, ObjectTypes
  <2>2. Job(todo[u], n) \in Tasks
    BY JobIsTask
  <2>3. Job(todo[u], n).what \in Left
    BY <1>2, <2>2 DEF Tasks, Left
  <2>4. n \in CF!Waits(todo[u], Left, o)
    BY <1>2, <2>1, <2>3, WaitsAre
  <2> QED
    BY <2>4, PlacesAre
<1>3. \A j \in 0 .. (Grave - 1) : grave[j] = o => << "grave", 0, j >> \in CF!Places(o)
  BY PlacesAre DEF ObjectInv, ObjectTypes
<1> QED
  BY <1>1, <1>2, <1>3

\* A step that moves nothing to or from the graveyard leaves it in order.
LEMMA StaysInPlace ==
  ASSUME ObjectInv, UNCHANGED << todo, grave, turn >>,
         \A o \in CF!Ids : st'[o] = st[o] \/ (st[o] = "none" /\ st'[o] = "live")
  PROVE  Placed' /\ Underway' /\ Ringed'
<1>1. \A o \in CF!Ids : CF!Places(o)' = CF!Places(o)
  BY DEF CF!Places, CF!Waits
<1>2. Placed'
  BY <1>1 DEF ObjectInv, Placed
<1>3. Underway'
  <2>1. ASSUME NEW u \in Threads, NEW n \in Jobs(todo[u]) PROVE Fits(Job(todo[u], n))'
    <3>1. PICK k : k = Job(todo[u], n)
      OBVIOUS
    <3>2. k \in Tasks /\ Fits(k)
      BY <3>1, JobIsTask DEF ObjectInv, Underway
    <3>3. k.what # "drop" => k.id \in CF!Ids
      BY <3>2 DEF Tasks
    <3>4. Fits(k)'
      BY <3>2, <3>3 DEF Fits
    <3> QED
      BY <3>1, <3>4 DEF Fits, Job
  <2> QED
    BY <2>1 DEF Underway, Job, Jobs
<1>4. Ringed'
  <2>1. \A i \in 0 .. (Grave - 1) : grave[i] \in 0 .. MaxObjects
    BY DEF ObjectInv, ObjectTypes
  <2> QED
    BY <2>1, ObjectIds DEF ObjectInv, Ringed
<1> QED
  BY <1>2, <1>3, <1>4

-----------------------------------------------------------------------------
(* Creating and keeping.                                                   *)

\* A set of ids has a first.
LEMMA FirstId ==
  ASSUME NEW S \in SUBSET Nat, S # {}
  PROVE  \E i \in S : \A j \in S : i <= j
<1>1. PICK i \in S : \A j \in S : ~ (<<j, i>> \in OpToRel(<, Nat))
  BY NatLessThanWellFounded, WFMin
<1>2. ASSUME NEW j \in S PROVE i <= j
  <2>1. j < i => << j, i >> \in OpToRel(<, Nat)
    BY DEF OpToRel
  <2>2. ~ (j < i)
    BY <1>1, <2>1, Zenon
  <2> QED
    BY <2>2
<1> QED
  BY <1>2

\* What is made is new, its maker's, and holds what it was made of.
Makes(a, t, s) ==
  /\ a \in CF!Ids /\ st[a] = "none" /\ st' = [st EXCEPT ![a] = "live"]
  /\ rc' = [[o \in CF!Ids |-> rc[o] + CF!Occurs(o, s)] EXCEPT ![a] = 1]
  /\ slots' = [slots EXCEPT ![a] = s]
  /\ owned' = [owned EXCEPT ![t] = [@ EXCEPT ![a] = 1]]
  /\ UNCHANGED << grave, grave_i, todo, turn, hurried >>

LEMMA MakesNew ==
  ASSUME ObjectInv, NEW t \in Threads, NEW k, NEW s, CF!Make(t, k, s)
  PROVE  \E a : Makes(a, t, s)
<1>1. PICK a : a = CHOOSE i \in CF!Ids : st[i] = "none" /\ \A j \in CF!Ids : j < i => st[j] # "none"
  OBVIOUS
<1>2. /\ \E i \in CF!Ids : st[i] = "none"
      /\ st' = [st EXCEPT ![a] = "live"]
      /\ rc' = [CF!Retained(s) EXCEPT ![a] = 1]
      /\ slots' = [slots EXCEPT ![a] = s]
      /\ owned' = [owned EXCEPT ![t][a] = 1]
      /\ UNCHANGED << grave, grave_i, todo, turn, hurried >>
  BY <1>1, Zenon DEF CF!Make
<1>3. PICK i \in CF!Ids : st[i] = "none" /\ \A j \in CF!Ids : j < i => st[j] # "none"
  <2>1. PICK S : S = {i \in CF!Ids : st[i] = "none"}
    OBVIOUS
  <2>2. S \in SUBSET Nat /\ S # {}
    BY <1>2, <2>1, ObjectIds
  <2>3. PICK i \in S : \A j \in S : i <= j
    BY <2>2, FirstId
  <2>4. \A j \in CF!Ids : j < i => st[j] # "none"
    <3>1. ASSUME NEW j \in CF!Ids, j < i, st[j] = "none" PROVE FALSE
      <4>1. j \in S /\ j \in Nat /\ i \in Nat
        BY <2>1, <2>2, <2>3, <3>1
      <4>2. i <= j
        BY <2>3, <4>1
      <4> QED
        BY <3>1, <4>1, <4>2
    <3> QED
      BY <3>1
  <2> QED
    BY <2>1, <2>3, <2>4
<1>4. a \in CF!Ids /\ st[a] = "none"
  BY <1>1, <1>3, Zenon
<1>5. CF!Retained(s) = [o \in CF!Ids |-> rc[o] + CF!Occurs(o, s)]
  BY DEF CF!Retained
<1> QED
  BY <1>2, <1>4, <1>5 DEF Makes

LEMMA MakingKeeps ==
  ASSUME ObjectInv, NEW t \in Threads, NEW a, NEW s \in Seq(0 .. MaxObjects), Makes(a, t, s),
         \A i \in DOMAIN s : s[i] \in CF!Ids => st[s[i]] = "live"
  PROVE  ObjectInv'
<1>1. ObjectTypes /\ Counted /\ a \in CF!Ids
  BY DEF ObjectInv, Makes
<1>2. CF!References(a) = {} /\ slots[a] = << >> /\ owned[t][a] = 0 /\ rc[a] = 0
  <2>1. st[a] # "live" /\ st[a] \notin {"live", "retired"}
    BY DEF Makes
  <2>2. CF!References(a) = {} /\ slots[a] = << >> /\ rc[a] = 0
    BY <1>1, <2>1, ReferredLives DEF ObjectInv, Emptied
  <2>3. CF!Owned(a) = {}
    BY <2>2, ReferencesAre
  <2>4. ~(1 \in 1 .. owned[t][a])
    <3>1. 1 \in 1 .. owned[t][a] => << "thread", t, 1 >> \in CF!Owned(a)
      BY OwnedAre
    <3> QED
      BY <2>3, <3>1
  <2>5. owned[t][a] \in Nat
    BY <1>1 DEF ObjectTypes
  <2> QED
    BY <2>2, <2>4, <2>5
<1>3. OwnsThen(t, a, 1)
  BY <1>1 DEF Makes, OwnsThen
<1>4. ASSUME NEW o \in CF!Ids
      PROVE  /\ rc'[o] \in Nat /\ IsFiniteSet(CF!References(o)') /\ rc'[o] = Cardinality(CF!References(o)')
             /\ st'[o] = "live" <=> rc'[o] # 0
  <2>1. /\ IsFiniteSet(CF!References(o)) /\ rc[o] = Cardinality(CF!References(o)) /\ rc[o] \in Nat
        /\ st[o] = "live" <=> rc[o] # 0
    BY <1>1 DEF Counted, ObjectTypes
  <2>2. CF!Dropping(o)' = CF!Dropping(o)
    BY DEF CF!Dropping, CF!Waits, Makes
  <2>3. /\ CF!Slotted(o)' = CF!Slotted(o) \cup SlotPlaces(a, At(o, s))
        /\ CF!Slotted(o) \cap SlotPlaces(a, At(o, s)) = {}
        /\ o \notin {s[i] : i \in DOMAIN s} => CF!Slotted(o)' = CF!Slotted(o)
    BY <1>1, <1>2, SlottedMore DEF Makes
  <2>4. CASE o = a
    <3>1. CF!Slotted(a)' = CF!Slotted(a)
      <4>1. a \notin {s[i] : i \in DOMAIN s}
        BY DEF Makes
      <4> QED
        BY <2>3, <2>4, <4>1
    <3>2. OwnsMore(t, a, 1)
      <4>1. 1 = owned[t][a] + 1
        BY <1>2
      <4> QED
        BY <1>1, <1>3, <4>1, OwnedThen
    <3>3. CF!References(a)' = CF!References(a) \cup {<< "thread", t, 1 >>}
      BY <2>2, <2>4, <3>1, <3>2, ReferencesAre DEF OwnsMore
    <3>4. CF!References(a)' = {<< "thread", t, 1 >>}
      BY <1>2, <3>3
    <3>5. IsFiniteSet(CF!References(a)') /\ Cardinality(CF!References(a)') = 1
      BY <3>4, FS_Singleton
    <3>6. rc'[a] = 1 /\ st'[a] = "live"
      BY <1>1 DEF Makes, ObjectTypes
    <3> QED
      BY <2>4, <3>5, <3>6
  <2>5. CASE o # a
    <3>1. CF!Owned(o)' = CF!Owned(o)
      BY <1>1, <1>3, <2>5, OwnedThen
    <3>2. CF!References(o)' = CF!References(o) \cup SlotPlaces(a, At(o, s))
      BY <2>2, <2>3, <3>1, ReferencesAre
    <3>3. CF!References(o) \cap SlotPlaces(a, At(o, s)) = {}
      <4>1. \A x \in SlotPlaces(a, At(o, s)) : x[1] = "slot"
        BY DEF SlotPlaces
      <4> QED
        BY <2>3, <4>1, ReferencesAre, ThreeKinds
    <3>4. PICK n \in Nat : /\ n = Cardinality(At(o, s)) /\ n = CF!Occurs(o, s)
                           /\ IsFiniteSet(SlotPlaces(a, At(o, s))) /\ n = Cardinality(SlotPlaces(a, At(o, s)))
      BY AtMost, SlotsAsMany, FS_CardinalityType
    <3>5. IsFiniteSet(CF!References(o)') /\ Cardinality(CF!References(o)') = rc[o] + n
      <4>1. Cardinality({}) = 0
        BY FS_EmptySet
      <4>2. /\ IsFiniteSet(CF!References(o)')
            /\ Cardinality(CF!References(o)') = Cardinality(CF!References(o)) + n - 0
        BY <2>1, <3>2, <3>3, <3>4, <4>1, FS_Union
      <4> QED
        BY <2>1, <3>4, <4>2
    <3>6. rc'[o] = rc[o] + n /\ st'[o] = st[o]
      BY <1>1, <2>5, <3>4 DEF Makes, ObjectTypes
    <3>7. n # 0 => st[o] = "live"
      <4>1. n # 0 => At(o, s) # {}
        BY <3>4, FS_EmptySet
      <4> QED
        BY <4>1 DEF At
    <3> QED
      BY <2>1, <3>4, <3>5, <3>6, <3>7
  <2> QED
    BY <2>4, <2>5
<1>5. Counted'
  BY <1>4 DEF Counted
<1>6. ObjectTypes'
  <2>1. rc' \in [CF!Ids -> Nat]
    BY <1>1, <1>4 DEF Makes, ObjectTypes
  <2>2. owned' \in [Threads -> [CF!Ids -> Nat]]
    BY <1>1, <1>3, OwnedThen
  <2>3. slots' \in [CF!Ids -> Seq(0 .. MaxObjects)] /\ st' \in [CF!Ids -> {"none", "live", "retired", "evicted", "freed"}]
    BY <1>1 DEF Makes, ObjectTypes
  <2> QED
    BY <1>1, <2>1, <2>2, <2>3 DEF Makes, ObjectTypes
<1>7. \A o \in CF!Ids : st'[o] = st[o] \/ (st[o] = "none" /\ st'[o] = "live")
  BY <1>1 DEF Makes, ObjectTypes
<1>8. Placed' /\ Underway' /\ Ringed'
  BY <1>7, StaysInPlace DEF Makes
<1>9. Emptied'
  <2>1. slots \in [CF!Ids -> Seq(0 .. MaxObjects)] /\ st'[a] = "live"
    BY <1>1 DEF Makes, ObjectTypes
  <2> QED
    BY <1>7, <2>1 DEF ObjectInv, Emptied, Makes
<1> QED
  BY <1>5, <1>6, <1>8, <1>9 DEF ObjectInv, Makes

LEMMA NothingRetained ==
  ASSUME NEW o \in CF!Ids, NEW v \in CF!Ids
  PROVE  CF!Occurs(o, << v >>) = IF o = v THEN 1 ELSE 0
<1>1. << v >> \in Seq(0 .. MaxObjects) /\ DOMAIN << v >> = {1} /\ << v >>[1] = v
  BY ObjectIds
<1>2. At(o, << v >>) = IF o = v THEN {1} ELSE {}
  BY <1>1 DEF At
<1>3. Cardinality({1}) = 1 /\ Cardinality({}) = 0
  BY FS_EmptySet, FS_Singleton
<1>4. CF!Occurs(o, << v >>) = Cardinality(At(o, << v >>))
  BY <1>1, AtMost
<1> QED
  BY <1>2, <1>3, <1>4

\* What an owned container holds, and what a thread owns, is alive.
LEMMA OwnedLive ==
  ASSUME ObjectInv, NEW t \in Threads, NEW o, CF!Owns(t, o)
  PROVE  /\ o \in CF!Ids /\ st[o] = "live" /\ owned[t][o] \in Nat \ {0}
         /\ slots[o] \in Seq(0 .. MaxObjects)
<1>1. o \in CF!Ids /\ owned[t][o] > 0 /\ owned[t][o] \in Nat /\ slots[o] \in Seq(0 .. MaxObjects)
  BY DEF CF!Owns, ObjectInv, ObjectTypes
<1>2. << "thread", t, 1 >> \in CF!Owned(o)
  <2>1. 1 \in 1 .. owned[t][o]
    BY <1>1
  <2> QED
    BY <2>1, OwnedAre
<1>3. CF!References(o) # {}
  BY <1>2, ReferencesAre
<1> QED
  BY <1>1, <1>3, ReferredLives

LEMMA SlottedLive ==
  ASSUME ObjectInv, NEW d \in CF!Ids, NEW i \in DOMAIN slots[d], slots[d][i] \in CF!Ids
  PROVE  st[slots[d][i]] = "live"
<1>1. << "slot", d, i >> \in CF!Slotted(slots[d][i])
  BY SlottedAre
<1>2. CF!References(slots[d][i]) # {}
  BY <1>1, ReferencesAre
<1> QED
  BY <1>2, ReferredLives

LEMMA AppendKeeps ==
  ASSUME ObjectInv, NEW t \in Threads, NEW a, NEW v, CF!AppendValue(t, a, v)
  PROVE  ObjectInv'
<1>1. CF!Owns(t, a) /\ CF!Owns(t, v) /\ slots' = [slots EXCEPT ![a] = Append(@, v)]
      /\ rc' = CF!Retained(<< v >>) /\ UNCHANGED << st, grave, grave_i, owned, todo, turn, hurried >>
  BY DEF CF!AppendValue
<1>2. /\ ObjectTypes /\ Counted
      /\ a \in CF!Ids /\ st[a] = "live" /\ v \in CF!Ids /\ st[v] = "live"
  BY <1>1, OwnedLive DEF ObjectInv
<1>3. ASSUME NEW o \in CF!Ids
      PROVE  /\ rc'[o] \in Nat /\ IsFiniteSet(CF!References(o)') /\ rc'[o] = Cardinality(CF!References(o)')
             /\ st'[o] = "live" <=> rc'[o] # 0
  <2>1. /\ IsFiniteSet(CF!References(o)) /\ rc[o] = Cardinality(CF!References(o)) /\ rc[o] \in Nat
        /\ st[o] = "live" <=> rc[o] # 0
    BY <1>2 DEF Counted, ObjectTypes
  <2>2. CF!Dropping(o)' = CF!Dropping(o) /\ CF!Owned(o)' = CF!Owned(o)
    BY <1>1 DEF CF!Dropping, CF!Waits, CF!Owned
  <2>3. rc'[o] = rc[o] + CF!Occurs(o, << v >>)
    BY <1>1 DEF CF!Retained
  <2>4. CASE o # v
    <3>1. CF!Slotted(o)' = CF!Slotted(o)
      BY <1>1, <1>2, <2>4, SlottedAppended DEF HoldsAsMany
    <3>2. CF!References(o)' = CF!References(o)
      BY <2>2, <3>1, ReferencesAre
    <3>3. rc'[o] = rc[o]
      BY <1>2, <2>1, <2>3, <2>4, NothingRetained
    <3> QED
      BY <1>1, <2>1, <3>2, <3>3
  <2>5. CASE o = v
    <3>1. PICK x : x = << "slot", a, Len(slots[a]) + 1 >>
      OBVIOUS
    <3>2. HoldsMore(o, x) /\ x[1] = "slot"
      BY <1>1, <1>2, <2>5, <3>1, SlottedAppended
    <3>3. x \notin CF!References(o) /\ CF!References(o)' = CF!References(o) \cup {x}
      BY <2>2, <3>2, ReferencesAre, ThreeKinds DEF HoldsMore
    <3>4. IsFiniteSet(CF!References(o)') /\ Cardinality(CF!References(o)') = rc[o] + 1
      BY <2>1, <3>3, OneMore
    <3>5. rc'[o] = rc[o] + 1
      BY <1>2, <2>1, <2>3, <2>5, NothingRetained
    <3> QED
      BY <1>1, <1>2, <2>1, <2>5, <3>4, <3>5
  <2> QED
    BY <2>4, <2>5
<1>4. Counted'
  BY <1>3 DEF Counted
<1>5. ObjectTypes'
  <2>1. rc' \in [CF!Ids -> Nat]
    BY <1>1, <1>3 DEF CF!Retained
  <2>2. slots' \in [CF!Ids -> Seq(0 .. MaxObjects)]
    BY <1>1, <1>2, SlottedAppended
  <2> QED
    BY <1>1, <1>2, <2>1, <2>2 DEF ObjectTypes
<1>6. Placed' /\ Underway' /\ Ringed'
  BY <1>1, StaysInPlace
<1>7. Emptied'
  BY <1>1, <1>2 DEF ObjectInv, ObjectTypes, Emptied
<1> QED
  BY <1>1, <1>4, <1>5, <1>6, <1>7 DEF ObjectInv

LEMMA RetainKeeps ==
  ASSUME ObjectInv, NEW t \in Threads, NEW v \in CF!Ids, CF!Retain(t, v)
  PROVE  ObjectInv'
<1>1. CF!Owns(t, v) \/ v \in CF!Lent(t)
  BY DEF CF!Retain
<1>2. /\ rc' = CF!Retained(<< v >>) /\ owned' = [owned EXCEPT ![t][v] = @ + 1]
      /\ UNCHANGED << st, slots, grave, grave_i, todo, turn, hurried >>
  BY DEF CF!Retain
<1>3. ObjectTypes /\ Counted /\ st[v] = "live"
  <2>1. CASE CF!Owns(t, v)
    BY <2>1, OwnedLive DEF ObjectInv
  <2>2. CASE v \in CF!Lent(t)
    <3>1. PICK d \in CF!Ids : v \in CF!Range(slots[d])
      BY <2>2 DEF CF!Lent
    <3>2. PICK i \in DOMAIN slots[d] : slots[d][i] = v
      BY <3>1 DEF CF!Range
    <3> QED
      BY <3>2, SlottedLive DEF ObjectInv
  <2> QED
    BY <1>1, <2>1, <2>2
<1>4. PICK n \in Nat : n = owned[t][v] + 1
  BY <1>3 DEF ObjectTypes
<1>5. OwnsThen(t, v, n)
  BY <1>2, <1>3, <1>4 DEF OwnsThen, ObjectTypes
<1>6. ASSUME NEW o \in CF!Ids
      PROVE  /\ rc'[o] \in Nat /\ IsFiniteSet(CF!References(o)') /\ rc'[o] = Cardinality(CF!References(o)')
             /\ st'[o] = "live" <=> rc'[o] # 0
  <2>1. /\ IsFiniteSet(CF!References(o)) /\ rc[o] = Cardinality(CF!References(o)) /\ rc[o] \in Nat
        /\ st[o] = "live" <=> rc[o] # 0
    BY <1>3 DEF Counted, ObjectTypes
  <2>2. CF!Dropping(o)' = CF!Dropping(o) /\ CF!Slotted(o)' = CF!Slotted(o)
    BY <1>2 DEF CF!Dropping, CF!Waits, CF!Slotted
  <2>3. rc'[o] = rc[o] + CF!Occurs(o, << v >>)
    BY <1>2 DEF CF!Retained
  <2>4. CASE o # v
    <3>1. CF!Owned(o)' = CF!Owned(o)
      BY <1>3, <1>5, <2>4, OwnedThen
    <3>2. CF!References(o)' = CF!References(o)
      BY <2>2, <3>1, ReferencesAre
    <3>3. rc'[o] = rc[o]
      BY <2>1, <2>3, <2>4, NothingRetained
    <3> QED
      BY <1>2, <2>1, <3>2, <3>3
  <2>5. CASE o = v
    <3>1. OwnsMore(t, o, n)
      BY <1>3, <1>4, <1>5, <2>5, OwnedThen
    <3>2. PICK x : x = << "thread", t, n >>
      OBVIOUS
    <3>6. x[1] = "thread"
      BY <3>2
    <3>3. x \notin CF!References(o) /\ CF!References(o)' = CF!References(o) \cup {x}
      BY <2>2, <3>1, <3>2, <3>6, ReferencesAre, ThreeKinds DEF OwnsMore
    <3>4. IsFiniteSet(CF!References(o)') /\ Cardinality(CF!References(o)') = rc[o] + 1
      BY <2>1, <3>3, OneMore
    <3>5. rc'[o] = rc[o] + 1
      BY <2>1, <2>3, <2>5, NothingRetained
    <3> QED
      BY <1>2, <1>3, <2>1, <2>5, <3>4, <3>5
  <2> QED
    BY <2>4, <2>5
<1>7. Counted'
  BY <1>6 DEF Counted
<1>8. ObjectTypes'
  <2>1. rc' \in [CF!Ids -> Nat]
    BY <1>2, <1>6 DEF CF!Retained
  <2>2. owned' \in [Threads -> [CF!Ids -> Nat]]
    BY <1>3, <1>5, OwnedThen
  <2> QED
    BY <1>2, <1>3, <2>1, <2>2 DEF ObjectTypes
<1>9. Placed' /\ Underway' /\ Ringed'
  BY <1>2, StaysInPlace
<1>10. Emptied'
  BY <1>2 DEF ObjectInv, Emptied
<1> QED
  BY <1>2, <1>7, <1>8, <1>9, <1>10 DEF ObjectInv

LEMMA CreateKeeps ==
  ASSUME ObjectInv, NEW t \in Threads,
         \/ CF!CreateString(t) \/ CF!CreateData(t) \/ CF!CreateDictionary(t)
         \/ CF!CreateArray(t) \/ CF!CreateCopy(t)
  PROVE  ObjectInv'
<1>1. ASSUME NEW k, NEW s \in Seq(0 .. MaxObjects), CF!Make(t, k, s),
             \A i \in DOMAIN s : s[i] \in CF!Ids => st[s[i]] = "live"
      PROVE  ObjectInv'
  BY <1>1, MakesNew, MakingKeeps
<1>2. ASSUME NEW k, CF!Make(t, k, << >>) PROVE ObjectInv'
  <2>1. << >> \in Seq(0 .. MaxObjects) /\ DOMAIN << >> = {}
    OBVIOUS
  <2> QED
    BY <1>1, <1>2, <2>1
<1>3. CASE CF!CreateString(t) \/ CF!CreateData(t)
  BY <1>2, <1>3 DEF CF!CreateString, CF!CreateData
<1>4. CASE CF!CreateDictionary(t)
  <2>1. PICK v \in CF!Ids : CF!Owns(t, v) /\ CF!Make(t, "dict", << 0, v >>)
    BY <1>4 DEF CF!CreateDictionary, CF!Foreign
  <2>2. PICK s : s = << 0, v >>
    OBVIOUS
  <2>3. s \in Seq(0 .. MaxObjects) /\ DOMAIN s = {1, 2} /\ s[1] = 0 /\ s[2] = v
    BY <2>2, ObjectIds, ObjectBounds
  <2>4. \A i \in DOMAIN s : s[i] \in CF!Ids => st[s[i]] = "live"
    BY <2>1, <2>3, ObjectIds, OwnedLive
  <2> QED
    BY <1>1, <2>1, <2>2, <2>3, <2>4
<1>5. CASE CF!CreateArray(t)
  <2>1. CASE CF!Make(t, "array", << >>)
    BY <1>2, <2>1
  <2>2. CASE \E v \in CF!Ids : CF!Owns(t, v) /\ CF!Make(t, "array", << v >>)
    <3>1. PICK v \in CF!Ids : CF!Owns(t, v) /\ CF!Make(t, "array", << v >>)
      BY <2>2
    <3>2. << v >> \in Seq(0 .. MaxObjects) /\ DOMAIN << v >> = {1} /\ << v >>[1] = v
      BY ObjectIds
    <3>3. \A i \in DOMAIN << v >> : << v >>[i] \in CF!Ids => st[<< v >>[i]] = "live"
      BY <3>1, <3>2, OwnedLive
    <3> QED
      BY <1>1, <3>1, <3>2, <3>3
  <2> QED
    BY <1>5, <2>1, <2>2 DEF CF!CreateArray
<1>6. CASE CF!CreateCopy(t)
  <2>1. PICK d \in CF!Ids : CF!Owns(t, d) /\ CF!Make(t, "dict", slots[d])
    BY <1>6 DEF CF!CreateCopy
  <2>2. slots[d] \in Seq(0 .. MaxObjects)
    BY <2>1, OwnedLive
  <2>3. \A i \in DOMAIN slots[d] : slots[d][i] \in CF!Ids => st[slots[d][i]] = "live"
    BY SlottedLive
  <2> QED
    BY <1>1, <2>1, <2>2, <2>3
<1> QED
  BY <1>3, <1>4, <1>5, <1>6

-----------------------------------------------------------------------------
(* Letting go.                                                             *)

\* A task put aside, done or begun fits where nothing else is done with its
\* object.
Untouched(t, d) ==
  \A q \in CF!Ids :
    \/ st'[q] = st[q] /\ turn'[q] = turn[q]
    \/ \A u \in Threads : \A n \in Jobs(todo[u]) :
         u # t \/ n # d => Job(todo[u], n).what = "drop" \/ Job(todo[u], n).id # q

LEMMA UnderwayThen ==
  ASSUME ObjectInv, NEW t, NEW d, NEW more, Goes(t, d, more), Untouched(t, d),
         \A j \in DOMAIN more : Fits(more[j])'
  PROVE  Underway'
<1>1. ASSUME NEW u \in Threads, NEW n \in Jobs(todo'[u]), NEW k, k = Job(todo'[u], n) PROVE Fits(k)'
  <2>1. CASE n \in Jobs(todo[u]) /\ (u # t \/ n # d) /\ k = Job(todo[u], n)
    <3>1. k \in Tasks /\ Fits(k)
      BY <2>1, JobIsTask DEF ObjectInv, Underway
    <3>2. CASE k.what = "drop"
      BY <3>2 DEF Fits
    <3>3. CASE k.what # "drop"
      <4>1. k.id \in CF!Ids
        BY <3>1, <3>3 DEF Tasks
      <4>2. st'[k.id] = st[k.id] /\ turn'[k.id] = turn[k.id]
        BY <2>1, <3>3, <4>1 DEF Untouched
      <4> QED
        BY <3>1, <4>2 DEF Fits
    <3> QED
      BY <3>2, <3>3
  <2>2. CASE \E j \in DOMAIN more : k = more[j]
    <3>1. PICK j \in DOMAIN more : k = more[j]
      BY <2>2
    <3>2. Fits(more[j])'
      OBVIOUS
    <3> QED
      BY <3>1, <3>2 DEF Fits
  <2> QED
    BY <1>1, <2>1, <2>2, JobsThen DEF ObjectInv
<1>2. ASSUME NEW u \in Threads, NEW n \in Jobs(todo'[u]) PROVE Fits(Job(todo[u], n))'
  <2>1. PICK k : k = Job(todo'[u], n)
    OBVIOUS
  <2>2. Fits(k)'
    BY <1>1, <2>1
  <2> QED
    BY <2>1, <2>2 DEF Fits, Job
<1> QED
  BY <1>2 DEF Underway, Job, Jobs

\* A release is begun.
Begun(tag, t, k, kinds, o) ==
  /\ k.what \in kinds /\ k.id = o =>
       /\ << tag, t, 0 >> \notin Chores(tag, kinds, o)
       /\ Chores(tag, kinds, o)' = Chores(tag, kinds, o) \cup {<< tag, t, 0 >>}
  /\ ~(k.what \in kinds /\ k.id = o) => Chores(tag, kinds, o)' = Chores(tag, kinds, o)

LEMMA ChoresBegin ==
  ASSUME ObjectTypes, NEW t \in Threads, todo[t] = << >>, NEW k \in Tasks,
         todo' = [todo EXCEPT ![t] = << k >>], NEW tag, NEW kinds, NEW o
  PROVE  Begun(tag, t, k, kinds, o)
<1>1. todo \in [Threads -> Seq(Tasks)] /\ << >> \in Seq(Tasks) /\ << k >> \in Seq(Tasks)
  BY DEF ObjectTypes
<1>2. todo'[t] = << k >> /\ \A u \in Threads : u # t => todo'[u] = todo[u]
  BY <1>1
<1>3. CF!Waits(<< >>, kinds, o) = {}
  <2>1. Jobs(<< >>) = {}
    BY DEF Jobs
  <2> QED
    BY <1>1, <2>1, WaitsAre
<1>4. \A n : n \in CF!Waits(<< k >>, kinds, o) <=> n = 0 /\ k.what \in kinds /\ k.id = o
  <2>1. PICK s \in Seq(Tasks) : s = << k >>
    BY <1>1
  <2>2. \A n : n \in Jobs(s) <=> n = 0
    BY <2>1 DEF Jobs
  <2>3. Job(s, 0) = k
    BY <2>1 DEF Job
  <2>4. \A n : n \in CF!Waits(s, kinds, o) <=> n \in Jobs(s) /\ Job(s, n).what \in kinds /\ Job(s, n).id = o
    BY WaitsAre
  <2>5. \A n : n \in CF!Waits(s, kinds, o) <=> n = 0 /\ k.what \in kinds /\ k.id = o
    BY <2>2, <2>3, <2>4
  <2> QED
    BY <2>1, <2>5
<1>5. \A x : x \in Chores(tag, kinds, o) <=>
         \E u \in Threads : \E n \in CF!Waits(todo[u], kinds, o) : x = << tag, u, n >>
  BY DEF Chores
<1>6. \A x : x \in Chores(tag, kinds, o)' <=>
         \E u \in Threads : \E n \in CF!Waits(todo'[u], kinds, o) : x = << tag, u, n >>
  BY DEF Chores
<1>7. << tag, t, 0 >> \notin Chores(tag, kinds, o)
  BY <1>3, <1>5
<1>8. ASSUME ~(k.what \in kinds /\ k.id = o)
      PROVE  Chores(tag, kinds, o)' = Chores(tag, kinds, o)
  <2>1. \A u \in Threads : CF!Waits(todo'[u], kinds, o) = CF!Waits(todo[u], kinds, o)
    BY <1>2, <1>3, <1>4, <1>8
  <2>2. \A x : x \in Chores(tag, kinds, o)' <=> x \in Chores(tag, kinds, o)
    BY <1>5, <1>6, <2>1
  <2> QED
    BY <2>2
<1>9. ASSUME k.what \in kinds, k.id = o
      PROVE  Chores(tag, kinds, o)' = Chores(tag, kinds, o) \cup {<< tag, t, 0 >>}
  <2>1. \A u \in Threads : u # t => CF!Waits(todo'[u], kinds, o) = CF!Waits(todo[u], kinds, o)
    BY <1>2
  <2>2. \A n : n \in CF!Waits(todo'[t], kinds, o) <=> n = 0
    BY <1>2, <1>4, <1>9
  <2>3. \A n : n \notin CF!Waits(todo[t], kinds, o)
    BY <1>3
  <2>4. \A x : x \in Chores(tag, kinds, o)' <=> x \in Chores(tag, kinds, o) \/ x = << tag, t, 0 >>
    BY <1>5, <1>6, <2>1, <2>2, <2>3
  <2> QED
    BY <2>4
<1> QED
  BY <1>7, <1>8, <1>9 DEF Begun

LEMMA LetGoKeeps ==
  ASSUME ObjectInv, NEW t \in Threads, NEW v \in CF!Ids, CF!Release(t, v)
  PROVE  ObjectInv'
<1>1. PICK k : k = CF!Task("drop", v, 0)
  OBVIOUS
<1>2. k = [what |-> "drop", id |-> v, at |-> 0] /\ k \in Tasks
  BY <1>1, ObjectBounds, ObjectIds DEF CF!Task, Tasks
<1>3. /\ todo[t] = << >> /\ CF!Owns(t, v)
      /\ owned' = [owned EXCEPT ![t][v] = @ - 1] /\ todo' = [todo EXCEPT ![t] = << k >>]
      /\ UNCHANGED << st, rc, slots, grave, grave_i, turn, hurried >>
  BY <1>1 DEF CF!Release, CF!Runs
<1>4. ObjectTypes /\ Counted /\ st[v] = "live" /\ owned[t][v] \in Nat \ {0}
  BY <1>3, OwnedLive DEF ObjectInv
<1>5. PICK n \in Nat : n + 1 = owned[t][v] /\ n = owned[t][v] - 1
  BY <1>4
<1>6. OwnsThen(t, v, n)
  BY <1>3, <1>4, <1>5 DEF OwnsThen, ObjectTypes
<1>7. ASSUME NEW o \in CF!Ids
      PROVE  /\ rc'[o] \in Nat /\ IsFiniteSet(CF!References(o)') /\ rc'[o] = Cardinality(CF!References(o)')
             /\ st'[o] = "live" <=> rc'[o] # 0
  <2>1. /\ IsFiniteSet(CF!References(o)) /\ rc[o] = Cardinality(CF!References(o)) /\ rc[o] \in Nat
        /\ st[o] = "live" <=> rc[o] # 0
    BY <1>4 DEF Counted, ObjectTypes
  <2>2. CF!Slotted(o)' = CF!Slotted(o) /\ rc'[o] = rc[o] /\ st'[o] = st[o]
    BY <1>3 DEF CF!Slotted
  <2>3. Begun("drop", t, k, {"drop"}, o)
    BY <1>2, <1>3, <1>4, ChoresBegin
  <2>4. CASE o # v
    <3>1. CF!Owned(o)' = CF!Owned(o)
      BY <1>4, <1>6, <2>4, OwnedThen
    <3>2. CF!Dropping(o)' = CF!Dropping(o)
      BY <1>2, <2>3, <2>4, ChoresAre DEF Begun
    <3>3. CF!References(o)' = CF!References(o)
      BY <2>2, <3>1, <3>2, ReferencesAre
    <3> QED
      BY <2>1, <2>2, <3>3
  <2>5. CASE o = v
    <3>1. OwnsLess(t, o, n + 1)
      BY <1>4, <1>5, <1>6, <2>5, OwnedThen
    <3>2. PICK x, y : x = << "thread", t, n + 1 >> /\ y = << "drop", t, 0 >>
      OBVIOUS
    <3>3. x[1] = "thread" /\ y[1] = "drop"
      BY <3>2
    <3>4. y \notin CF!Dropping(o) /\ CF!Dropping(o)' = CF!Dropping(o) \cup {y}
      BY <1>2, <2>3, <2>5, <3>2, ChoresAre DEF Begun
    <3>5. x \in CF!Owned(o) /\ CF!Owned(o)' = CF!Owned(o) \ {x}
      BY <3>1, <3>2 DEF OwnsLess
    <3>6. /\ x \in CF!References(o) /\ y \notin CF!References(o)
          /\ CF!References(o)' = (CF!References(o) \ {x}) \cup {y}
      BY <2>2, <3>3, <3>4, <3>5, ReferencesAre, ThreeKinds
    <3>7. IsFiniteSet(CF!References(o)') /\ Cardinality(CF!References(o)') = rc[o]
      BY <2>1, <3>6, OneForOne
    <3> QED
      BY <2>1, <2>2, <3>7
  <2> QED
    BY <2>4, <2>5
<1>8. Counted'
  BY <1>7 DEF Counted
<1>9. ObjectTypes'
  <2>1. owned' \in [Threads -> [CF!Ids -> Nat]]
    BY <1>4, <1>6, OwnedThen
  <2>2. todo' \in [Threads -> Seq(Tasks)]
    BY <1>2, <1>3, <1>4 DEF ObjectTypes
  <2> QED
    BY <1>3, <1>4, <2>1, <2>2 DEF ObjectTypes
<1>10. Placed'
  <2>1. ASSUME NEW o \in CF!Ids PROVE CF!Places(o)' = CF!Places(o)
    <3>1. Begun("task", t, k, Left, o)
      BY <1>2, <1>3, <1>4, ChoresBegin
    <3>2. k.what \notin Left
      BY <1>2 DEF Left
    <3>3. Graves(o)' = Graves(o)
      BY <1>3 DEF Graves
    <3> QED
      BY <3>1, <3>2, <3>3, ChoresAre DEF Begun
  <2> QED
    BY <1>3, <2>1 DEF ObjectInv, Placed
<1>11. Underway'
  <2>1. ASSUME NEW u \in Threads, NEW m \in Jobs(todo'[u]) PROVE Fits(Job(todo[u], m))'
    <3>1. CASE u = t
      <4>1. todo'[u] = << k >>
        BY <1>3, <1>4, <3>1 DEF ObjectTypes
      <4>2. Job(todo'[u], m) = k
        BY <4>1 DEF Jobs, Job
      <4> QED
        BY <1>2, <4>2 DEF Fits, Job
    <3>2. CASE u # t
      <4>1. todo'[u] = todo[u]
        BY <1>3, <3>2
      <4>2. Fits(Job(todo[u], m))
        BY <4>1 DEF ObjectInv, Underway
      <4> QED
        BY <1>3, <4>1, <4>2 DEF Fits, Job
    <3> QED
      BY <3>1, <3>2
  <2> QED
    BY <2>1 DEF Underway, Job, Jobs
<1>12. Ringed' /\ Emptied'
  BY <1>3 DEF ObjectInv, Ringed, Emptied
<1> QED
  BY <1>3, <1>8, <1>9, <1>10, <1>11, <1>12 DEF ObjectInv

LEMMA GoesFacts ==
  ASSUME ObjectInv, NEW t, NEW d, NEW more, Goes(t, d, more)
  PROVE  /\ ObjectTypes /\ t \in Threads /\ d \in Nat /\ d \in Jobs(todo[t])
         /\ Head(todo[t]) \in Tasks /\ Head(todo[t]) = Job(todo[t], d) /\ Fits(Head(todo[t]))
         /\ Head(todo[t]).id \in 0 .. MaxObjects
         /\ Head(todo[t]).what # "drop" => Head(todo[t]).id \in CF!Ids
<1>1. todo[t] \in Seq(Tasks) /\ todo[t] # << >> /\ t \in Threads /\ d = Len(todo[t]) - 1
      /\ << >> \in Seq(Tasks)
  BY DEF Goes, ObjectInv, ObjectTypes
<1>2. Continues(todo[t], << >>, << >> \o Tail(todo[t]))
  BY <1>1, TasksContinue
<1>3. d \in Nat /\ d \in Jobs(todo[t]) /\ Head(todo[t]) = Job(todo[t], d) /\ Head(todo[t]) \in Tasks
  BY <1>1, <1>2 DEF Continues, Jobs
<1>4. Fits(Head(todo[t]))
  BY <1>1, <1>3 DEF ObjectInv, Underway
<1>5. Head(todo[t]).id \in 0 .. MaxObjects /\ Head(todo[t]).what # "drop" => Head(todo[t]).id \in CF!Ids
  BY <1>3 DEF Tasks
<1>6. Head(todo[t]).id \in 0 .. MaxObjects
  BY <1>3 DEF Tasks
<1> QED
  BY <1>1, <1>3, <1>4, <1>5, <1>6 DEF ObjectInv

LEMMA AddedNone ==
  ASSUME NEW tag, NEW t, NEW d, NEW kinds, NEW o
  PROVE  Among(<< >>, kinds, o) = {} /\ Added(tag, t, d, << >>, kinds, o) = {}
<1>1. Among(<< >>, kinds, o) = {}
  BY DEF Among
<1> QED
  BY <1>1 DEF Added

LEMMA AddedOne ==
  ASSUME NEW tag, NEW t, NEW d \in Nat, NEW k \in Tasks, NEW kinds, NEW o
  PROVE  /\ ~(k.what \in kinds /\ k.id = o) => Among(<< k >>, kinds, o) = {}
         /\ ~(k.what \in kinds /\ k.id = o) => Added(tag, t, d, << k >>, kinds, o) = {}
         /\ k.what \in kinds /\ k.id = o => Added(tag, t, d, << k >>, kinds, o) = {<< tag, t, d >>}
<1>5. << k >> \in Seq(Tasks)
  OBVIOUS
<1>0. PICK s \in Seq(Tasks) : s = << k >>
  BY <1>5
<1>1. Len(s) = 1 /\ DOMAIN s = {1} /\ s[1] = k
  BY <1>0
<1>2. Among(s, kinds, o) = IF k.what \in kinds /\ k.id = o THEN {1} ELSE {}
  BY <1>1 DEF Among
<1>3. d + 1 - 1 = d
  OBVIOUS
<1>4. Added(tag, t, d, s, kinds, o) = IF k.what \in kinds /\ k.id = o THEN {<< tag, t, d >>} ELSE {}
  BY <1>1, <1>2, <1>3 DEF Added
<1> QED
  BY <1>0, <1>2, <1>4

\* What a step that adds no release does to the references of an object, and what
\* one that leaves the ring alone does to where it is.
DropsGoOn(t, d, o) ==
  /\ CF!Dropping(o)' = CF!Dropping(o) \ {<< "drop", t, d >>}
  /\ << "drop", t, d >> \in CF!Dropping(o) <=> Head(todo[t]).what = "drop" /\ Head(todo[t]).id = o

LEMMA DroppingThen ==
  ASSUME ObjectInv, NEW t, NEW d, NEW more, Goes(t, d, more), NEW o, Among(more, {"drop"}, o) = {}
  PROVE  DropsGoOn(t, d, o)
<1>1. GoneOn("drop", t, d, more, {"drop"}, o)
  BY ChoresThen DEF ObjectInv
<1>2. Added("drop", t, d, more, {"drop"}, o) = {}
  BY DEF Added
<1>3. Head(todo[t]).what \in {"drop"} <=> Head(todo[t]).what = "drop"
  OBVIOUS
<1>4. CF!Dropping(o) = Chores("drop", {"drop"}, o) /\ CF!Dropping(o)' = Chores("drop", {"drop"}, o)'
  BY ChoresAre
<1> QED
  BY <1>1, <1>2, <1>3, <1>4 DEF GoneOn, DropsGoOn

PlaceGoesOn(t, d, more, o) ==
  /\ CF!Places(o)' = (CF!Places(o) \ {<< "task", t, d >>}) \cup Added("task", t, d, more, Left, o)
  /\ << "task", t, d >> \in CF!Places(o) <=> Head(todo[t]).what # "drop" /\ Head(todo[t]).id = o

LEMMA PlacesThen ==
  ASSUME ObjectInv, NEW t, NEW d, NEW more, Goes(t, d, more), NEW o, grave' = grave
  PROVE  PlaceGoesOn(t, d, more, o)
<1>1. GoneOn("task", t, d, more, Left, o)
  BY ChoresThen DEF ObjectInv
<1>2. Graves(o)' = Graves(o) /\ << "task", t, d >> \notin Graves(o)
  BY DEF Graves
<1>3. Head(todo[t]).what \in Left <=> Head(todo[t]).what # "drop"
  BY GoesFacts DEF Tasks, Left
<1>4. /\ CF!Places(o) = Graves(o) \cup Chores("task", Left, o)
      /\ CF!Places(o)' = Graves(o)' \cup Chores("task", Left, o)'
  BY ChoresAre
<1> QED
  BY <1>1, <1>2, <1>3, <1>4 DEF GoneOn, PlaceGoesOn

LEMMA TypesGoOn ==
  ASSUME ObjectInv, NEW t, NEW d, NEW more, Goes(t, d, more)
  PROVE  todo' \in [Threads -> Seq(Tasks)]
<1>1. GoneOn("task", t, d, more, Left, 0)
  BY ChoresThen DEF ObjectInv
<1> QED
  BY <1>1 DEF GoneOn

\* A reference is given up: the count goes down by one, and the last retires.
LEMMA DecrementKeeps ==
  ASSUME ObjectInv, NEW t \in Threads, CF!Decrement(t)
  PROVE  ObjectInv'
<1>1. PICK o : o = Head(todo[t]).id
  OBVIOUS
<1>2. PICK d : d = Len(todo[t]) - 1
  OBVIOUS
<1>3. /\ todo[t] # << >> /\ Head(todo[t]).what = "drop"
      /\ UNCHANGED << slots, grave, grave_i, owned, turn, hurried >>
  BY DEF CF!Decrement, CF!Doing
<1>4. \/ /\ o = 0 /\ CF!Then(t, << >>) /\ UNCHANGED << st, rc >>
      \/ /\ o # 0 /\ rc' = [rc EXCEPT ![o] = @ - 1] /\ rc[o] > 1 /\ CF!Then(t, << >>)
         /\ UNCHANGED st
      \/ /\ o # 0 /\ rc' = [rc EXCEPT ![o] = @ - 1] /\ ~(rc[o] > 1)
         /\ CF!Then(t, << CF!Task("turn", o, 0) >>) /\ st' = [st EXCEPT ![o] = "retired"]
  BY <1>1 DEF CF!Decrement, CF!Ours, CF!Foreign
<1>5. << >> \in Seq(Tasks) /\ ObjectTypes /\ Counted
  BY DEF ObjectInv
<1>6. CF!Then(t, << >>) => Goes(t, d, << >>)
  BY <1>2, <1>3, <1>5 DEF Goes, CF!Then
<1>7. ASSUME NEW more, Goes(t, d, more), NEW q \in CF!Ids, Among(more, {"drop"}, q) = {}
      PROVE  /\ o # q => CF!References(q)' = CF!References(q)
             /\ o = q => /\ rc[o] \in Nat \ {0} /\ IsFiniteSet(CF!References(o)')
                         /\ Cardinality(CF!References(o)') = rc[o] - 1
  <2>1. DropsGoOn(t, d, q)
    BY <1>7, DroppingThen
  <2>2. CF!Owned(q)' = CF!Owned(q) /\ CF!Slotted(q)' = CF!Slotted(q)
    BY <1>3 DEF CF!Owned, CF!Slotted
  <2>3. CASE o # q
    <3>1. CF!Dropping(q)' = CF!Dropping(q)
      BY <1>1, <2>1, <2>3 DEF DropsGoOn
    <3> QED
      BY <2>2, <2>3, <3>1, ReferencesAre
  <2>4. CASE o = q
    <3>1. PICK x : x = << "drop", t, d >>
      OBVIOUS
    <3>2. x \in CF!Dropping(q) /\ CF!Dropping(q)' = CF!Dropping(q) \ {x} /\ x[1] = "drop"
      BY <1>1, <1>3, <2>1, <2>4, <3>1 DEF DropsGoOn
    <3>3. x \in CF!References(q) /\ CF!References(q)' = CF!References(q) \ {x}
      BY <2>2, <3>2, ReferencesAre, ThreeKinds
    <3>4. rc[q] \in Nat /\ rc[q] # 0 /\ rc[q] = Cardinality(CF!References(q)) /\ IsFiniteSet(CF!References(q))
      BY <3>3, ReferredLives
    <3> QED
      BY <2>4, <3>3, <3>4, OneLess
  <2> QED
    BY <2>3, <2>4
<1>8. \A q \in CF!Ids :
        /\ IsFiniteSet(CF!References(q)) /\ rc[q] = Cardinality(CF!References(q)) /\ rc[q] \in Nat
        /\ st[q] = "live" <=> rc[q] # 0
  BY <1>5 DEF Counted, ObjectTypes
<1>9. CASE CF!Then(t, << >>) /\ UNCHANGED st /\ (o # 0 => rc' = [rc EXCEPT ![o] = @ - 1] /\ rc[o] > 1)
           /\ (o = 0 => rc' = rc)
  <2>1. Goes(t, d, << >>)
    BY <1>6, <1>9
  <2>2. \A q : Among(<< >>, {"drop"}, q) = {} /\ Added("task", t, d, << >>, Left, q) = {}
    BY AddedNone
  <2>3. o \in 0 .. MaxObjects
    BY <1>1, <2>1, GoesFacts
  <2>4. ASSUME NEW q \in CF!Ids
        PROVE  /\ rc'[q] \in Nat /\ IsFiniteSet(CF!References(q)')
               /\ rc'[q] = Cardinality(CF!References(q)')
               /\ st'[q] = "live" <=> rc'[q] # 0
    <3>1. CASE o # q
      <4>1. CF!References(q)' = CF!References(q) /\ rc'[q] = rc[q] /\ st'[q] = st[q]
        BY <1>5, <1>7, <1>9, <2>1, <2>2, <3>1 DEF ObjectTypes
      <4> QED
        BY <1>8, <4>1
    <3>2. CASE o = q
      <4>1. o # 0 /\ rc'[q] = rc[q] - 1 /\ rc[q] > 1 /\ st'[q] = st[q]
        BY <1>5, <1>9, <3>2, ObjectIds DEF ObjectTypes
      <4>2. IsFiniteSet(CF!References(q)') /\ Cardinality(CF!References(q)') = rc[q] - 1
        BY <1>7, <2>1, <2>2, <3>2
      <4>3. rc[q] \in Nat /\ (st[q] = "live" <=> rc[q] # 0)
        BY <1>8
      <4> QED
        BY <4>1, <4>2, <4>3
    <3> QED
      BY <3>1, <3>2
  <2>5. Counted' /\ rc' \in [CF!Ids -> Nat]
    <3>1. Counted'
      BY <2>4 DEF Counted
    <3>2. DOMAIN rc' = CF!Ids /\ rc' = [q \in CF!Ids |-> rc'[q]]
      BY <1>5, <1>9 DEF ObjectTypes
    <3> QED
      BY <2>4, <3>1, <3>2
  <2>6. ObjectTypes'
    BY <1>3, <1>5, <1>9, <2>1, <2>5, TypesGoOn DEF ObjectTypes
  <2>7. Placed'
    <3>1. ASSUME NEW q \in CF!Ids PROVE CF!Places(q)' = CF!Places(q)
      <4>1. PlaceGoesOn(t, d, << >>, q)
        BY <1>3, <2>1, PlacesThen
      <4> QED
        BY <1>3, <2>2, <4>1 DEF PlaceGoesOn
    <3> QED
      BY <1>9, <3>1 DEF ObjectInv, Placed
  <2>8. Underway'
    <3>1. Untouched(t, d)
      BY <1>3, <1>9 DEF Untouched
    <3> QED
      BY <2>1, <3>1, UnderwayThen
  <2>9. Ringed' /\ Emptied'
    BY <1>3, <1>9 DEF ObjectInv, Ringed, Emptied
  <2> QED
    BY <1>3, <2>5, <2>6, <2>7, <2>8, <2>9 DEF ObjectInv
<1>10. CASE /\ o # 0 /\ rc' = [rc EXCEPT ![o] = @ - 1] /\ ~(rc[o] > 1)
            /\ CF!Then(t, << CF!Task("turn", o, 0) >>) /\ st' = [st EXCEPT ![o] = "retired"]
  <2>1. PICK k : k = CF!Task("turn", o, 0)
    OBVIOUS
  <2>3. o \in CF!Ids
    <3>1. todo[t] \in Seq(Tasks)
      BY <1>5 DEF ObjectTypes
    <3>2. Head(todo[t]) \in Tasks
      BY <1>3, <3>1, HeadTailProperties
    <3> QED
      BY <1>1, <1>10, <3>2, ObjectIds DEF Tasks
  <2>4. k = [what |-> "turn", id |-> o, at |-> 0] /\ k \in Tasks
    BY <2>1, <2>3, ObjectBounds, ObjectIds DEF CF!Task, Tasks
  <2>5. << k >> \in Seq(Tasks) /\ DOMAIN << k >> = {1} /\ << k >>[1] = k
    BY <2>4
  <2>6. Goes(t, d, << k >>)
    BY <1>2, <1>3, <1>10, <2>1, <2>5 DEF Goes, CF!Then
  <2>7. d \in Nat
    BY <2>6, GoesFacts
  <2>8. \A q : Among(<< k >>, {"drop"}, q) = {}
    BY <2>4, <2>7, AddedOne
  <2>9. /\ rc[o] = 1 /\ rc'[o] = 0 /\ st[o] = "live" /\ st'[o] = "retired"
        /\ IsFiniteSet(CF!References(o)') /\ Cardinality(CF!References(o)') = 0
    <3>1. rc[o] \in Nat \ {0} /\ IsFiniteSet(CF!References(o)')
          /\ Cardinality(CF!References(o)') = rc[o] - 1
      BY <1>7, <2>3, <2>6, <2>8
    <3>2. rc[o] = 1
      BY <1>10, <3>1
    <3> QED
      BY <1>5, <1>8, <1>10, <2>3, <3>1, <3>2 DEF ObjectTypes
  <2>10. ASSUME NEW q \in CF!Ids
         PROVE  /\ rc'[q] \in Nat /\ IsFiniteSet(CF!References(q)')
                /\ rc'[q] = Cardinality(CF!References(q)')
                /\ st'[q] = "live" <=> rc'[q] # 0
    <3>1. CASE o # q
      <4>1. CF!References(q)' = CF!References(q) /\ rc'[q] = rc[q] /\ st'[q] = st[q]
        BY <1>5, <1>7, <1>10, <2>6, <2>8, <3>1 DEF ObjectTypes
      <4> QED
        BY <1>8, <4>1
    <3>2. CASE o = q
      BY <2>9, <3>2
    <3> QED
      BY <3>1, <3>2
  <2>11. Counted' /\ rc' \in [CF!Ids -> Nat]
    <3>1. Counted'
      BY <2>10 DEF Counted
    <3>2. DOMAIN rc' = CF!Ids /\ rc' = [q \in CF!Ids |-> rc'[q]]
      BY <1>5, <1>10 DEF ObjectTypes
    <3> QED
      BY <2>10, <3>1, <3>2
  <2>12. ObjectTypes'
    <3>1. st' \in [CF!Ids -> {"none", "live", "retired", "evicted", "freed"}]
      BY <1>5, <1>10 DEF ObjectTypes
    <3> QED
      BY <1>3, <1>5, <2>6, <2>11, <3>1, TypesGoOn DEF ObjectTypes
  <2>13. CF!Places(o) = {}
    BY <2>3, <2>9, OnlyPlace
  <2>14. Placed'
    <3>1. ASSUME NEW q \in CF!Ids
          PROVE  IF st'[q] \in {"retired", "evicted"} THEN \E x : CF!Places(q)' = {x}
                 ELSE CF!Places(q)' = {}
      <4>1. PlaceGoesOn(t, d, << k >>, q)
        BY <1>3, <2>6, PlacesThen
      <4>2. CASE q = o
        <5>1. Added("task", t, d, << k >>, Left, q) = {<< "task", t, d >>}
          BY <2>4, <2>7, <4>2, AddedOne DEF Left
        <5>2. CF!Places(q)' = {<< "task", t, d >>}
          BY <2>13, <4>1, <4>2, <5>1 DEF PlaceGoesOn
        <5> QED
          BY <2>9, <4>2, <5>2
      <4>3. CASE q # o
        <5>1. Added("task", t, d, << k >>, Left, q) = {}
          BY <2>4, <2>7, <4>3, AddedOne
        <5>2. CF!Places(q)' = CF!Places(q) /\ st'[q] = st[q]
          BY <1>3, <1>5, <1>10, <4>1, <4>3, <5>1 DEF PlaceGoesOn, ObjectTypes
        <5> QED
          BY <5>2 DEF ObjectInv, Placed
      <4> QED
        BY <4>2, <4>3
    <3> QED
      BY <3>1 DEF Placed
  <2>15. Underway'
    <3>1. Untouched(t, d)
      <4>1. \A u \in Threads : \A n \in Jobs(todo[u]) : Job(todo[u], n).what = "drop" \/ Job(todo[u], n).id # o
        BY <2>3, <2>13, OnlyPlace
      <4>2. \A q \in CF!Ids : q # o => st'[q] = st[q] /\ turn'[q] = turn[q]
        BY <1>3, <1>5, <1>10 DEF ObjectTypes
      <4> QED
        BY <4>1, <4>2 DEF Untouched
    <3>2. Fits(k)'
      BY <2>4, <2>9 DEF Fits
    <3>3. \A j \in DOMAIN << k >> : Fits(<< k >>[j])'
      BY <2>5, <3>2
    <3> QED
      BY <2>6, <3>1, <3>3, UnderwayThen
  <2>16. Ringed'
    <3>1. \A i \in 0 .. (Grave - 1) : grave[i] # o
      BY <2>3, <2>13, OnlyPlace
    <3>2. \A i \in 0 .. (Grave - 1) : grave[i] \in 0 .. MaxObjects
      BY <1>5 DEF ObjectTypes
    <3> QED
      BY <1>3, <1>5, <1>10, <3>1, <3>2, ObjectIds DEF ObjectInv, Ringed, ObjectTypes
  <2>17. Emptied'
    BY <1>3, <1>5, <1>10, <2>3 DEF ObjectInv, Emptied, ObjectTypes
  <2> QED
    BY <1>3, <2>11, <2>12, <2>14, <2>15, <2>16, <2>17 DEF ObjectInv
<1> QED
  BY <1>4, <1>9, <1>10

-----------------------------------------------------------------------------
(* Burying: the ring, and what it evicts.                                  *)

\* What a thread is putting in the ring or freeing is nowhere else.
InHand(t, d, o) ==
  /\ o \in CF!Ids /\ CF!Places(o) = {<< "task", t, d >>}
  /\ \A u \in Threads : \A n \in Jobs(todo[u]) :
       u # t \/ n # d => Job(todo[u], n).what = "drop" \/ Job(todo[u], n).id # o
  /\ \A i \in 0 .. (Grave - 1) : grave[i] # o

LEMMA HeadInHand ==
  ASSUME ObjectInv, NEW t, NEW d, NEW more, Goes(t, d, more), NEW o, o = Head(todo[t]).id,
         Head(todo[t]).what # "drop"
  PROVE  InHand(t, d, o)
<1>1. PICK x : x = << "task", t, d >>
  OBVIOUS
<1>2. o \in CF!Ids /\ t \in Threads /\ d \in Jobs(todo[t]) /\ Head(todo[t]) = Job(todo[t], d)
  BY GoesFacts
<1>3. x \in CF!Places(o)
  BY <1>1, <1>2, OnlyPlace
<1>4. CF!Places(o) = {x}
  BY <1>2, <1>3, OnlyPlace
<1>5. ASSUME NEW u \in Threads, NEW n \in Jobs(todo[u]), u # t \/ n # d,
             Job(todo[u], n).what # "drop", Job(todo[u], n).id = o
      PROVE  FALSE
  <2>1. << "task", u, n >> \in CF!Places(o)
    BY <1>2, <1>5, OnlyPlace
  <2>2. << "task", u, n >> = << "task", t, d >>
    BY <1>1, <1>4, <2>1
  <2> QED
    BY <1>5, <2>2
<1>6. ASSUME NEW i \in 0 .. (Grave - 1), grave[i] = o PROVE FALSE
  <2>1. << "grave", 0, i >> \in CF!Places(o)
    BY <1>2, <1>6, OnlyPlace
  <2>2. << "grave", 0, i >> = << "task", t, d >>
    BY <1>1, <1>4, <2>1
  <2> QED
    BY <2>2
<1> QED
  BY <1>1, <1>2, <1>4, <1>5, <1>6 DEF InHand

LEMMA NothingDropped ==
  ASSUME ObjectInv, NEW t, NEW d, NEW more, Goes(t, d, more), Head(todo[t]).what # "drop",
         UNCHANGED << owned, slots >>, NEW o, Among(more, {"drop"}, o) = {}
  PROVE  CF!References(o)' = CF!References(o)
<1>1. DropsGoOn(t, d, o)
  BY DroppingThen
<1>2. CF!Dropping(o)' = CF!Dropping(o)
  BY <1>1 DEF DropsGoOn
<1>3. CF!Owned(o)' = CF!Owned(o) /\ CF!Slotted(o)' = CF!Slotted(o)
  BY DEF CF!Owned, CF!Slotted
<1> QED
  BY <1>2, <1>3, ReferencesAre

LEMMA TurnKeeps ==
  ASSUME ObjectInv, NEW t \in Threads, CF!TakeTurn(t)
  PROVE  ObjectInv'
<1>1. PICK o : o = Head(todo[t]).id
  OBVIOUS
<1>2. PICK d : d = Len(todo[t]) - 1
  OBVIOUS
<1>3. PICK k : k = CF!Task("bury", o, (grave_i + 1) % Grave)
  OBVIOUS
<1>4. /\ todo[t] # << >> /\ Head(todo[t]).what = "turn" /\ CF!Then(t, << k >>)
      /\ grave_i' = grave_i + 1 /\ turn' = [turn EXCEPT ![o] = grave_i + 1]
      /\ UNCHANGED << st, rc, slots, grave, owned, hurried >>
  BY <1>1, <1>3 DEF CF!TakeTurn, CF!Doing
<1>5. ObjectTypes /\ grave_i \in Nat /\ o \in CF!Ids
  <2>1. ObjectTypes /\ grave_i \in Nat /\ todo[t] \in Seq(Tasks)
    BY DEF ObjectInv, ObjectTypes
  <2>2. Head(todo[t]) \in Tasks
    BY <1>4, <2>1, HeadTailProperties
  <2> QED
    BY <1>1, <1>4, <2>1, <2>2 DEF Tasks
<1>6. k = [what |-> "bury", id |-> o, at |-> (grave_i + 1) % Grave] /\ k \in Tasks
  <2>1. (grave_i + 1) % Grave \in 0 .. (Grave - 1)
    BY <1>5, ObjectBounds
  <2> QED
    BY <1>3, <1>5, <2>1, ObjectIds DEF CF!Task, Tasks
<1>7. << k >> \in Seq(Tasks) /\ DOMAIN << k >> = {1} /\ << k >>[1] = k
  BY <1>6
<1>8. Goes(t, d, << k >>)
  BY <1>2, <1>4, <1>7 DEF Goes, CF!Then
<1>9. d \in Nat /\ InHand(t, d, o) /\ Fits(Head(todo[t]))
  BY <1>1, <1>4, <1>8, GoesFacts, HeadInHand
<1>10. \A q : Among(<< k >>, {"drop"}, q) = {}
  BY <1>6, <1>9, AddedOne
<1>11. ObjectTypes'
  <2>1. turn' \in [CF!Ids -> Nat] /\ grave_i' \in Nat
    BY <1>4, <1>5 DEF ObjectTypes
  <2> QED
    BY <1>4, <1>5, <1>8, <2>1, TypesGoOn DEF ObjectTypes
<1>12. Counted'
  <2>1. \A q \in CF!Ids : CF!References(q)' = CF!References(q)
    BY <1>4, <1>8, <1>10, NothingDropped
  <2> QED
    BY <1>4, <2>1 DEF ObjectInv, Counted
<1>13. Placed'
  <2>1. ASSUME NEW q \in CF!Ids PROVE CF!Places(q)' = CF!Places(q)
    <3>1. PlaceGoesOn(t, d, << k >>, q)
      BY <1>4, <1>8, PlacesThen
    <3>2. CASE q = o
      <4>1. Added("task", t, d, << k >>, Left, q) = {<< "task", t, d >>}
        BY <1>6, <1>9, <3>2, AddedOne DEF Left
      <4> QED
        BY <1>9, <3>1, <3>2, <4>1 DEF PlaceGoesOn, InHand
    <3>3. CASE q # o
      <4>1. Added("task", t, d, << k >>, Left, q) = {}
        <5>1. ~(k.what \in Left /\ k.id = q) /\ d \in Nat /\ k \in Tasks
          BY <1>6, <1>9, <3>3
        <5> QED
          BY <5>1, AddedOne
      <4> QED
        BY <1>1, <3>1, <3>3, <4>1 DEF PlaceGoesOn
    <3> QED
      BY <3>2, <3>3
  <2> QED
    BY <1>4, <2>1 DEF ObjectInv, Placed
<1>14. Underway'
  <2>1. Untouched(t, d)
    <3>1. \A q \in CF!Ids : q # o => st'[q] = st[q] /\ turn'[q] = turn[q]
      BY <1>4, <1>5 DEF ObjectTypes
    <3> QED
      BY <1>9, <3>1 DEF Untouched, InHand
  <2>2. Fits(k)'
    <3>1. st[o] = "retired"
      BY <1>1, <1>4, <1>9 DEF Fits
    <3>2. turn'[o] = grave_i + 1
      BY <1>4, <1>5 DEF ObjectTypes
    <3> QED
      BY <1>4, <1>6, <3>1, <3>2 DEF Fits
  <2>3. \A j \in DOMAIN << k >> : Fits(<< k >>[j])'
    BY <1>7, <2>2
  <2> QED
    BY <1>8, <2>1, <2>3, UnderwayThen
<1>15. Ringed'
  <2>1. \A i \in 0 .. (Grave - 1) : grave[i] # o /\ grave[i] \in 0 .. MaxObjects
    BY <1>5, <1>9 DEF InHand, ObjectTypes
  <2>2. \A i \in 0 .. (Grave - 1) : grave[i] # 0 => turn'[grave[i]] = turn[grave[i]]
    BY <1>4, <1>5, <2>1, ObjectIds DEF ObjectTypes
  <2> QED
    BY <1>4, <2>2 DEF ObjectInv, Ringed
<1>16. Emptied'
  BY <1>4 DEF ObjectInv, Emptied
<1> QED
  BY <1>4, <1>11, <1>12, <1>13, <1>14, <1>15, <1>16 DEF ObjectInv

LEMMA FreeKeeps ==
  ASSUME ObjectInv, NEW t \in Threads, CF!Free(t)
  PROVE  ObjectInv'
<1>1. PICK o : o = Head(todo[t]).id
  OBVIOUS
<1>2. PICK d : d = Len(todo[t]) - 1
  OBVIOUS
<1>3. /\ todo[t] # << >> /\ Head(todo[t]).what = "free" /\ CF!Then(t, << >>)
      /\ st' = [st EXCEPT ![o] = "freed"]
      /\ UNCHANGED << rc, slots, grave, grave_i, owned, turn, hurried >>
  BY <1>1 DEF CF!Free, CF!Doing
<1>4. ObjectTypes /\ << >> \in Seq(Tasks)
  BY DEF ObjectInv
<1>5. Goes(t, d, << >>)
  BY <1>2, <1>3, <1>4 DEF Goes, CF!Then
<1>6. \A q : Among(<< >>, {"drop"}, q) = {} /\ Added("task", t, d, << >>, Left, q) = {}
  BY AddedNone
<1>7. InHand(t, d, o) /\ Fits(Head(todo[t]))
  BY <1>1, <1>3, <1>5, GoesFacts, HeadInHand
<1>8. o \in CF!Ids /\ st[o] = "evicted" /\ st'[o] = "freed"
      /\ \A q \in CF!Ids : q # o => st'[q] = st[q]
  BY <1>1, <1>3, <1>4, <1>7 DEF Fits, InHand, ObjectTypes
<1>9. ObjectTypes'
  <2>1. st' \in [CF!Ids -> {"none", "live", "retired", "evicted", "freed"}]
    BY <1>3, <1>4 DEF ObjectTypes
  <2> QED
    BY <1>3, <1>4, <1>5, <2>1, TypesGoOn DEF ObjectTypes
<1>10. Counted'
  <2>1. \A q \in CF!Ids : CF!References(q)' = CF!References(q)
    BY <1>3, <1>5, <1>6, NothingDropped
  <2>2. \A q \in CF!Ids : st'[q] = "live" <=> st[q] = "live"
    BY <1>8
  <2> QED
    BY <1>3, <2>1, <2>2 DEF ObjectInv, Counted
<1>11. Placed'
  <2>1. ASSUME NEW q \in CF!Ids
        PROVE  IF st'[q] \in {"retired", "evicted"} THEN \E x : CF!Places(q)' = {x}
               ELSE CF!Places(q)' = {}
    <3>1. PlaceGoesOn(t, d, << >>, q)
      BY <1>3, <1>5, PlacesThen
    <3>2. CASE q = o
      BY <1>6, <1>7, <1>8, <3>1, <3>2 DEF PlaceGoesOn, InHand
    <3>3. CASE q # o
      <4>1. CF!Places(q)' = CF!Places(q)
        BY <1>1, <1>6, <3>1, <3>3 DEF PlaceGoesOn
      <4> QED
        BY <1>8, <3>3, <4>1 DEF ObjectInv, Placed
    <3> QED
      BY <3>2, <3>3
  <2> QED
    BY <2>1 DEF Placed
<1>12. Underway'
  <2>1. Untouched(t, d)
    BY <1>3, <1>7, <1>8 DEF Untouched, InHand
  <2>2. \A j \in DOMAIN << >> : Fits(<< >>[j])'
    OBVIOUS
  <2> QED
    BY <1>5, <2>1, <2>2, UnderwayThen
<1>13. Ringed'
  <2>1. \A i \in 0 .. (Grave - 1) : grave[i] # o /\ grave[i] \in 0 .. MaxObjects
    BY <1>4, <1>7 DEF InHand, ObjectTypes
  <2>2. \A i \in 0 .. (Grave - 1) : grave[i] # 0 => st'[grave[i]] = st[grave[i]]
    BY <1>8, <2>1, ObjectIds
  <2> QED
    BY <1>3, <2>2 DEF ObjectInv, Ringed
<1>14. Emptied'
  BY <1>3, <1>8 DEF ObjectInv, Emptied
<1> QED
  BY <1>3, <1>9, <1>10, <1>11, <1>12, <1>13, <1>14 DEF ObjectInv

\* Two turns that fall on one place of the ring are a whole ring apart.
LEMMA WholeRing ==
  ASSUME NEW m \in Nat, NEW n \in Nat, NEW g \in Nat \ {0}, m % g = n % g
  PROVE  m - n \notin 1 .. (g - 1)
<1>1. PICK p \in Nat : p = m \div g
  OBVIOUS
<1>2. PICK q \in Nat : q = n \div g
  OBVIOUS
<1>3. m = g * p + (m % g) /\ n = g * q + (n % g)
  BY <1>1, <1>2
<1>4. PICK k \in Int : k = p - q
  OBVIOUS
<1>5. m - n = g * k
  <2>1. m - n = g * p - g * q
    BY <1>3
  <2>2. g * p - g * q = g * (p - q)
    OBVIOUS
  <2> QED
    BY <1>4, <2>1, <2>2
<1>6. CASE k >= 1
  <2>1. g * k >= g
    BY <1>6
  <2> QED
    BY <1>5, <2>1
<1>7. CASE k <= 0
  <2>1. g * k <= 0
    BY <1>7
  <2> QED
    BY <1>5, <2>1
<1> QED
  BY <1>4, <1>6, <1>7

LEMMA OneAfterAnother ==
  ASSUME NEW S, NEW u \in Seq(S), NEW w \in Seq(S)
  PROVE  /\ u \o w \in Seq(S) /\ Len(u \o w) = Len(u) + Len(w)
         /\ \A j \in 1 .. Len(u) + Len(w) :
              (u \o w)[j] = IF j <= Len(u) THEN u[j] ELSE w[j - Len(u)]
OBVIOUS

\* What an evicted container gives back: its children, then itself.
Returns(s, b, more) ==
  /\ more \in Seq(Tasks) /\ Len(more) = Len(s) + 1 /\ Len(s) \in Nat
  /\ \A j \in 1 .. Len(s) : more[j].what = "drop" /\ more[j].id = s[j]
  /\ more[Len(s) + 1].what = "free" /\ more[Len(s) + 1].id = b

LEMMA GivenBackIs ==
  ASSUME NEW b \in CF!Ids, slots[b] \in Seq(0 .. MaxObjects), NEW more, more = CF!GivenBack(b)
  PROVE  Returns(slots[b], b, more)
<1>1. PICK s \in Seq(0 .. MaxObjects) : s = slots[b]
  OBVIOUS
<1>2. PICK n \in Nat : n = Len(s) /\ DOMAIN s = 1 .. n
  BY <1>1
<1>3. PICK u : u = [i \in 1 .. n |-> CF!Task("drop", s[i], 0)]
  OBVIOUS
<1>4. PICK w : w = << CF!Task("free", b, 0) >>
  OBVIOUS
<1>5. more = u \o w
  BY <1>1, <1>2, <1>3, <1>4 DEF CF!GivenBack
<1>6. /\ u \in Seq(Tasks) /\ Len(u) = n
      /\ \A j \in 1 .. n : u[j].what = "drop" /\ u[j].id = s[j]
  <2>1. \A i \in 1 .. n : CF!Task("drop", s[i], 0) \in Tasks
    <3>1. \A i \in 1 .. n : s[i] \in 0 .. MaxObjects
      BY <1>2, ElementOfSeq
    <3>2. 0 \in 0 .. (Grave - 1)
      BY ObjectBounds
    <3> QED
      BY <3>1, <3>2 DEF CF!Task, Tasks
  <2>2. u \in [1 .. n -> Tasks]
    BY <1>3, <2>1
  <2>3. u \in Seq(Tasks) /\ Len(u) = n
    BY <1>2, <2>2
  <2>4. \A j \in 1 .. n : u[j].what = "drop" /\ u[j].id = s[j]
    BY <1>3 DEF CF!Task
  <2> QED
    BY <2>3, <2>4
<1>7. w \in Seq(Tasks) /\ Len(w) = 1 /\ w[1].what = "free" /\ w[1].id = b
  <2>1. CF!Task("free", b, 0) \in Tasks
    BY ObjectBounds, ObjectIds DEF CF!Task, Tasks
  <2>2. w \in Seq(Tasks)
    BY <1>4, <2>1
  <2>3. Len(w) = 1 /\ w[1].what = "free" /\ w[1].id = b
    BY <1>4 DEF CF!Task
  <2> QED
    BY <2>2, <2>3
<1>8. /\ u \o w \in Seq(Tasks) /\ Len(u \o w) = n + 1
      /\ \A i \in 1 .. (n + 1) : (u \o w)[i] = IF i <= n THEN u[i] ELSE w[i - n]
  <2>1. u \in Seq(Tasks) /\ w \in Seq(Tasks) /\ Len(u) = n /\ Len(w) = 1
    BY <1>6, <1>7
  <2>2. /\ u \o w \in Seq(Tasks) /\ Len(u \o w) = Len(u) + Len(w)
        /\ \A j \in 1 .. Len(u) + Len(w) :
             (u \o w)[j] = IF j <= Len(u) THEN u[j] ELSE w[j - Len(u)]
    BY ONLY <2>1, OneAfterAnother
  <2> QED
    BY <2>1, <2>2
<1>9. \A j \in 1 .. n : j \in 1 .. (n + 1) /\ j <= n
  OBVIOUS
<1>10. n + 1 \in 1 .. (n + 1) /\ ~(n + 1 <= n) /\ (n + 1) - n = 1
  OBVIOUS
<1>11. \A j \in 1 .. n : (u \o w)[j] = u[j]
  BY <1>8, <1>9
<1>12. (u \o w)[n + 1] = w[1]
  BY <1>8, <1>10
<1> QED
  BY <1>1, <1>2, <1>5, <1>6, <1>7, <1>8, <1>11, <1>12 DEF Returns

\* The references of a container that is evicted become releases, one for one.
ToDrop(t, m, J) == {<< "drop", t, m - j >> : j \in J}
Dropped(s, b, more, t, d, q) ==
  /\ Added("drop", t, d, more, {"drop"}, q) = ToDrop(t, d + Len(more), At(q, s))
  /\ q = b => Added("task", t, d, more, Left, q) = {<< "task", t, d >>}
  /\ q # b => Added("task", t, d, more, Left, q) = {}

LEMMA ReturnsDrop ==
  ASSUME NEW s \in Seq(0 .. MaxObjects), NEW b, NEW more, Returns(s, b, more), NEW t, NEW d \in Nat, NEW q
  PROVE  Dropped(s, b, more, t, d, q)
<1>1. PICK n \in Nat : n = Len(s) /\ DOMAIN s = 1 .. n
  OBVIOUS
<1>2. /\ more \in Seq(Tasks) /\ Len(more) = n + 1 /\ DOMAIN more = 1 .. (n + 1)
      /\ \A j \in 1 .. n : more[j].what = "drop" /\ more[j].id = s[j]
      /\ more[n + 1].what = "free" /\ more[n + 1].id = b
  <2>1. /\ more \in Seq(Tasks) /\ Len(more) = n + 1
        /\ \A j \in 1 .. n : more[j].what = "drop" /\ more[j].id = s[j]
        /\ more[n + 1].what = "free" /\ more[n + 1].id = b
    BY <1>1 DEF Returns
  <2> QED
    BY <2>1
<1>3. \A j \in 1 .. (n + 1) : j \in 1 .. n \/ j = n + 1
  OBVIOUS
<1>4. \A j \in 1 .. n : j \in 1 .. (n + 1)
  OBVIOUS
<1>5. n + 1 \in 1 .. (n + 1) /\ n + 1 \notin 1 .. n
  OBVIOUS
<1>6. Among(more, {"drop"}, q) = At(q, s)
  BY <1>1, <1>2, <1>3, <1>4 DEF Among, At
<1>7. Among(more, Left, q) = IF q = b THEN {n + 1} ELSE {}
  BY <1>2, <1>3, <1>5 DEF Among, Left
<1>8. d + Len(more) = d + n + 1 /\ d + (n + 1) - (n + 1) = d /\ d + Len(more) = d + (n + 1)
  BY <1>2
<1>9. Added("drop", t, d, more, {"drop"}, q) = ToDrop(t, d + Len(more), At(q, s))
  <2>1. Added("drop", t, d, more, {"drop"}, q) = {<< "drop", t, d + Len(more) - j >> : j \in At(q, s)}
    BY <1>6 DEF Added
  <2>2. PICK J : J = At(q, s)
    OBVIOUS
  <2>3. PICK l \in Nat : l = Len(more)
    BY <1>2
  <2>4. \A j \in J : j \in Nat
    BY <1>1, <2>2 DEF At
  <2>5. \A j \in J : (d + l) - j = d + l - j
    BY <2>4
  <2>6. ToDrop(t, d + l, J) = {<< "drop", t, (d + l) - j >> : j \in J}
    BY DEF ToDrop
  <2>7. {<< "drop", t, (d + l) - j >> : j \in J} = {<< "drop", t, d + l - j >> : j \in J}
    BY ONLY <2>5
  <2>8. Added("drop", t, d, more, {"drop"}, q) = {<< "drop", t, d + l - j >> : j \in J}
    BY <2>1, <2>2, <2>3
  <2> QED
    BY ONLY <2>2, <2>3, <2>6, <2>7, <2>8
<1>10. Added("task", t, d, more, Left, q) = IF q = b THEN {<< "task", t, d >>} ELSE {}
  BY <1>7, <1>8 DEF Added
<1> QED
  BY <1>9, <1>10 DEF Dropped

LEMMA ReturnsAsMany ==
  ASSUME NEW t, NEW m \in Nat, NEW J \in SUBSET Nat, IsFiniteSet(J), NEW B, B = ToDrop(t, m, J)
  PROVE  IsFiniteSet(B) /\ Cardinality(B) = Cardinality(J)
<1>0. B = {<< "drop", t, m - j >> : j \in J}
  BY DEF ToDrop
<1>1. PICK F : F = [i \in J |-> << "drop", t, m - i >>]
  OBVIOUS
<1>2. F \in [J -> B]
  BY <1>0, <1>1
<1>3. \A i, j \in J : F[i] = F[j] => i = j
  <2>1. ASSUME NEW i \in J, NEW j \in J, F[i] = F[j] PROVE i = j
    <3>1. m - i = m - j
      BY <1>1, <2>1
    <3>2. i \in Nat /\ j \in Nat
      OBVIOUS
    <3> QED
      BY <3>1, <3>2
  <2> QED
    BY <2>1
<1>4. \A x \in B : \E i \in J : F[i] = x
  BY <1>0, <1>1
<1> QED
  BY <1>2, <1>3, <1>4, AsMany

LEMMA Exchanged ==
  ASSUME NEW R, IsFiniteSet(R), NEW A, A \subseteq R, IsFiniteSet(A), NEW B, IsFiniteSet(B),
         Cardinality(A) = Cardinality(B), B \cap R = {}, NEW Q, Q = (R \ A) \cup B
  PROVE  IsFiniteSet(Q) /\ Cardinality(Q) = Cardinality(R)
<1>1. R \cap A = A /\ (R \ A) \cap B = {}
  OBVIOUS
<1>2. IsFiniteSet(R \ A) /\ Cardinality(R \ A) = Cardinality(R) - Cardinality(A)
  BY <1>1, FS_Difference
<1>3. IsFiniteSet(Q) /\ Cardinality(Q) = Cardinality(R \ A) + Cardinality(B) - Cardinality({})
  BY <1>1, <1>2, FS_Union
<1>4. Cardinality(R) \in Nat /\ Cardinality(A) \in Nat /\ Cardinality({}) = 0
  BY FS_CardinalityType, FS_EmptySet
<1> QED
  BY <1>2, <1>3, <1>4

\* What is put in the ring takes the place of nothing, or of one that is evicted.
Buries(t, d, o, a) ==
  /\ todo[t] # << >> /\ d = Len(todo[t]) - 1
  /\ o = Head(todo[t]).id /\ a = Head(todo[t]).at /\ Head(todo[t]).what = "bury"
  /\ grave' = [grave EXCEPT ![a] = o]
  /\ UNCHANGED << rc, grave_i, owned, turn >>

\* The ring once o is in it.
GravesThen(a, o) ==
  /\ Graves(o)' = {<< "grave", 0, a >>}
  /\ \A q : q # o /\ q # grave[a] => Graves(q)' = Graves(q)
  /\ \A q : q # o /\ q = grave[a] => Graves(q)' = Graves(q) \ {<< "grave", 0, a >>}

LEMMA GravesBuried ==
  ASSUME grave \in [0 .. (Grave - 1) -> 0 .. MaxObjects], NEW a \in 0 .. (Grave - 1), NEW o,
         grave' = [grave EXCEPT ![a] = o], \A i \in 0 .. (Grave - 1) : grave[i] # o
  PROVE  GravesThen(a, o)
<1>1. /\ DOMAIN grave = 0 .. (Grave - 1) /\ DOMAIN grave' = 0 .. (Grave - 1)
      /\ \A i \in 0 .. (Grave - 1) : grave'[i] = IF i = a THEN o ELSE grave[i]
  OBVIOUS
<1>2. \A q, x : x \in Graves(q) <=> \E i \in 0 .. (Grave - 1) : grave[i] = q /\ x = << "grave", 0, i >>
  BY <1>1 DEF Graves
<1>3. \A q, x : x \in Graves(q)' <=> \E i \in 0 .. (Grave - 1) : grave'[i] = q /\ x = << "grave", 0, i >>
  BY <1>1 DEF Graves
<1>4. \A x : x \in Graves(o)' <=> x = << "grave", 0, a >>
  BY <1>1, <1>3
<1>5. ASSUME NEW q, q # o, q # grave[a] PROVE Graves(q)' = Graves(q)
  <2>1. \A x : x \in Graves(q)' <=> x \in Graves(q)
    BY <1>1, <1>2, <1>3, <1>5
  <2> QED
    BY <2>1
<1>6. ASSUME NEW q, q = grave[a], q # o PROVE Graves(q)' = Graves(q) \ {<< "grave", 0, a >>}
  <2>1. ASSUME NEW x PROVE x \in Graves(q)' <=> x \in Graves(q) /\ x # << "grave", 0, a >>
    <3>1. ASSUME x \in Graves(q)' PROVE x \in Graves(q) /\ x # << "grave", 0, a >>
      <4>1. PICK i \in 0 .. (Grave - 1) : grave'[i] = q /\ x = << "grave", 0, i >>
        BY <1>3, <3>1
      <4>2. i # a /\ grave[i] = q
        BY <1>1, <1>6, <4>1
      <4>3. x # << "grave", 0, a >>
        BY <4>1, <4>2
      <4> QED
        BY <1>2, <4>1, <4>2, <4>3
    <3>2. ASSUME x \in Graves(q), x # << "grave", 0, a >> PROVE x \in Graves(q)'
      <4>1. PICK i \in 0 .. (Grave - 1) : grave[i] = q /\ x = << "grave", 0, i >>
        BY <1>2, <3>2
      <4>2. grave'[i] = q
        BY <1>1, <3>2, <4>1
      <4> QED
        BY <1>3, <4>1, <4>2
    <3> QED
      BY <3>1, <3>2
  <2> QED
    BY <2>1
<1> QED
  BY <1>4, <1>5, <1>6 DEF GravesThen

LEMMA BuriesFacts ==
  ASSUME ObjectInv, NEW t \in Threads, NEW d, NEW o, NEW a, Buries(t, d, o, a), NEW more,
         Goes(t, d, more)
  PROVE  /\ d \in Nat /\ InHand(t, d, o) /\ a \in 0 .. (Grave - 1) /\ st[o] = "retired"
         /\ turn[o] % Grave = a /\ grave[a] \in 0 .. MaxObjects
         /\ GravesThen(a, o) /\ \A q : Graves(q) \subseteq CF!Places(q)
         /\ grave' \in [0 .. (Grave - 1) -> 0 .. MaxObjects]
<1>1. /\ ObjectTypes /\ d \in Nat /\ Head(todo[t]) \in Tasks /\ Fits(Head(todo[t]))
      /\ Head(todo[t]).what = "bury" /\ o = Head(todo[t]).id /\ a = Head(todo[t]).at
  BY GoesFacts DEF Buries
<1>2. a \in 0 .. (Grave - 1) /\ st[o] = "retired" /\ turn[o] % Grave = a
  BY <1>1 DEF Tasks, Fits
<1>3. InHand(t, d, o)
  BY <1>1, HeadInHand
<1>4. grave \in [0 .. (Grave - 1) -> 0 .. MaxObjects] /\ \A i \in 0 .. (Grave - 1) : grave[i] # o
  BY <1>1, <1>3 DEF ObjectTypes, InHand
<1>5. GravesThen(a, o)
  BY <1>2, <1>4, GravesBuried DEF Buries
<1>6. \A q : Graves(q) \subseteq CF!Places(q)
  BY ChoresAre
<1>7. grave' \in [0 .. (Grave - 1) -> 0 .. MaxObjects]
  BY <1>2, <1>3, <1>4, ObjectIds DEF Buries, InHand
<1> QED
  BY <1>1, <1>2, <1>3, <1>4, <1>5, <1>6, <1>7

\* Where each object is then: the buried in the ring, the evicted with its task.
ChoresGone(t, d, more, q) ==
  /\ Chores("task", Left, q)' =
       (Chores("task", Left, q) \ {<< "task", t, d >>}) \cup Added("task", t, d, more, Left, q)
  /\ << "task", t, d >> \in Chores("task", Left, q) <=> Head(todo[t]).id = q

LEMMA ChoresOf ==
  ASSUME ObjectInv, NEW t \in Threads, NEW d, NEW o, NEW a, Buries(t, d, o, a), NEW more,
         Goes(t, d, more), NEW q
  PROVE  ChoresGone(t, d, more, q)
<1>1. GoneOn("task", t, d, more, Left, q)
  BY ChoresThen DEF ObjectInv
<1>2. Head(todo[t]).what \in Left
  BY DEF Left, Buries
<1> QED
  BY <1>1, <1>2 DEF GoneOn, ChoresGone

LEMMA BuriedPlaces ==
  ASSUME ObjectInv, NEW t \in Threads, NEW d, NEW o, NEW a, Buries(t, d, o, a), NEW more,
         Goes(t, d, more), \A q : q # grave[a] => Added("task", t, d, more, Left, q) = {}
  PROVE  /\ CF!Places(o)' = {<< "grave", 0, a >>}
         /\ \A q : q # o /\ q # grave[a] => CF!Places(q)' = CF!Places(q)
<1>1. InHand(t, d, o) /\ GravesThen(a, o) /\ a \in 0 .. (Grave - 1)
  BY BuriesFacts
<1>2. \A q : /\ CF!Places(q) = Graves(q) \cup Chores("task", Left, q)
             /\ CF!Places(q)' = Graves(q)' \cup Chores("task", Left, q)'
  BY ChoresAre
<1>3. \A q : ChoresGone(t, d, more, q)
  BY ChoresOf
<1>4. o # grave[a] /\ CF!Places(o) = {<< "task", t, d >>}
  BY <1>1 DEF InHand
<1>5. CF!Places(o)' = {<< "grave", 0, a >>}
  <2>1. Chores("task", Left, o) \subseteq {<< "task", t, d >>}
    BY <1>2, <1>4
  <2>2. Chores("task", Left, o)' = {}
    BY <1>3, <1>4, <2>1 DEF ChoresGone
  <2> QED
    BY <1>1, <1>2, <2>2 DEF GravesThen
<1>6. ASSUME NEW q, q # o, q # grave[a] PROVE CF!Places(q)' = CF!Places(q)
  <2>1. ChoresGone(t, d, more, q) /\ Added("task", t, d, more, Left, q) = {} /\ Head(todo[t]).id # q
    BY <1>3, <1>6 DEF Buries
  <2>2. Chores("task", Left, q)' = Chores("task", Left, q)
    BY <2>1 DEF ChoresGone
  <2>3. Graves(q)' = Graves(q)
    BY <1>1, <1>6 DEF GravesThen
  <2> QED
    BY <1>2, <2>2, <2>3
<1> QED
  BY <1>5, <1>6

\* The ring's place was empty.
LEMMA FirstBurial ==
  ASSUME ObjectInv, NEW t \in Threads, NEW d, NEW o, NEW a, Buries(t, d, o, a), grave[a] = 0,
         CF!Then(t, << >>), UNCHANGED << st, slots, hurried >>
  PROVE  ObjectInv'
<1>1. Goes(t, d, << >>) /\ ObjectTypes
  <2>1. << >> \in Seq(Tasks) /\ ObjectTypes
    BY DEF ObjectInv
  <2> QED
    BY <2>1 DEF Buries, Goes, CF!Then
<1>2. /\ InHand(t, d, o) /\ a \in 0 .. (Grave - 1) /\ st[o] = "retired" /\ turn[o] % Grave = a
      /\ grave' \in [0 .. (Grave - 1) -> 0 .. MaxObjects]
  BY <1>1, BuriesFacts
<1>3. \A q : /\ Among(<< >>, {"drop"}, q) = {}
             /\ Added("task", t, d, << >>, Left, q) = {}
  BY AddedNone
<1>4. /\ CF!Places(o)' = {<< "grave", 0, a >>}
      /\ \A q : q # o /\ q # 0 => CF!Places(q)' = CF!Places(q)
  BY <1>1, <1>3, BuriedPlaces
<1>5. ObjectTypes'
  BY <1>1, <1>2, TypesGoOn DEF ObjectTypes, Buries
<1>6. Counted'
  <2>1. \A q \in CF!Ids : CF!References(q)' = CF!References(q)
    BY <1>1, <1>3, NothingDropped DEF Buries
  <2> QED
    BY <2>1 DEF ObjectInv, Counted, Buries
<1>7. Placed'
  <2>1. ASSUME NEW q \in CF!Ids
        PROVE  IF st'[q] \in {"retired", "evicted"} THEN \E x : CF!Places(q)' = {x}
               ELSE CF!Places(q)' = {}
    <3>1. CASE q = o
      BY <1>2, <1>4, <3>1
    <3>2. CASE q # o
      <4>1. CF!Places(q)' = CF!Places(q)
        BY <1>4, <3>2, ObjectIds
      <4> QED
        BY <4>1 DEF ObjectInv, Placed
    <3> QED
      BY <3>1, <3>2
  <2> QED
    BY <2>1 DEF Placed
<1>8. Underway'
  <2>1. Untouched(t, d)
    BY DEF Untouched, Buries
  <2>2. \A j \in DOMAIN << >> : Fits(<< >>[j])'
    OBVIOUS
  <2> QED
    BY <1>1, <2>1, <2>2, UnderwayThen
<1>9. Ringed'
  <2>1. \A i \in 0 .. (Grave - 1) : grave'[i] = IF i = a THEN o ELSE grave[i]
    BY <1>1, <1>2 DEF Buries, ObjectTypes
  <2> QED
    BY <1>2, <2>1 DEF ObjectInv, Ringed, Buries
<1>10. Emptied'
  BY DEF ObjectInv, Emptied
<1> QED
  BY <1>5, <1>6, <1>7, <1>8, <1>9, <1>10 DEF ObjectInv

\* It was another's, which is evicted and gives back what it held.
LEMMA EvictingBurial ==
  ASSUME ObjectInv, NEW t \in Threads, NEW d, NEW o, NEW a, Buries(t, d, o, a), NEW b, b = grave[a],
         b # 0, NEW more, more = CF!GivenBack(b), CF!Then(t, more),
         st' = [st EXCEPT ![b] = "evicted"], slots' = [slots EXCEPT ![b] = << >>],
         hurried' = IF turn[o] - turn[b] \in 1 .. (Grave - 1) THEN hurried \cup {b} ELSE hurried
  PROVE  ObjectInv'
<1>1. /\ ObjectTypes /\ Counted /\ Ringed /\ Emptied
      /\ grave \in [0 .. (Grave - 1) -> 0 .. MaxObjects]
  BY Zenon DEF ObjectInv, ObjectTypes
<1>2. a \in 0 .. (Grave - 1)
  <2>1. todo[t] \in Seq(Tasks) /\ todo[t] # << >>
    BY <1>1 DEF ObjectTypes, Buries
  <2>2. Head(todo[t]) \in Tasks
    BY <2>1, HeadTailProperties
  <2> QED
    BY <2>2 DEF Buries, Tasks
<1>3. b \in CF!Ids /\ st[b] = "retired" /\ turn[b] % Grave = a
  BY <1>1, <1>2, ObjectIds DEF Ringed
<1>4. PICK s \in Seq(0 .. MaxObjects) : s = slots[b]
  BY <1>1, <1>3 DEF ObjectTypes
<1>5. Returns(s, b, more)
  BY <1>3, <1>4, GivenBackIs
<1>6. Goes(t, d, more)
  BY Zenon, <1>5 DEF Buries, Goes, Returns, CF!Then
<1>7. /\ d \in Nat /\ InHand(t, d, o) /\ st[o] = "retired" /\ turn[o] % Grave = a
      /\ GravesThen(a, o) /\ grave' \in [0 .. (Grave - 1) -> 0 .. MaxObjects]
      /\ o \in CF!Ids /\ b # o
  <2>1. /\ d \in Nat /\ InHand(t, d, o) /\ st[o] = "retired" /\ turn[o] % Grave = a
        /\ GravesThen(a, o) /\ grave' \in [0 .. (Grave - 1) -> 0 .. MaxObjects]
    BY <1>6, BuriesFacts
  <2> QED
    BY <1>2, <2>1 DEF InHand
<1>8. /\ st'[b] = "evicted" /\ \A q \in CF!Ids : q # b => st'[q] = st[q]
      /\ st' \in [CF!Ids -> {"none", "live", "retired", "evicted", "freed"}]
  BY <1>1, <1>3 DEF ObjectTypes
<1>9. hurried' = hurried
  <2>1. turn[o] \in Nat /\ turn[b] \in Nat
    BY <1>1, <1>3, <1>7 DEF ObjectTypes
  <2>2. turn[o] - turn[b] \notin 1 .. (Grave - 1)
    BY <1>3, <1>7, <2>1, ObjectBounds, WholeRing
  <2> QED
    BY <2>2
<1>10. CF!Places(b) = {<< "grave", 0, a >>}
  <2>1. << "grave", 0, a >> \in CF!Places(b)
    BY <1>2, <1>3, OnlyPlace
  <2> QED
    BY <1>3, <2>1, OnlyPlace
<1>11. /\ \A q : Added("drop", t, d, more, {"drop"}, q) = ToDrop(t, d + Len(more), At(q, s))
       /\ Added("task", t, d, more, Left, b) = {<< "task", t, d >>}
       /\ \A q : q # b => Added("task", t, d, more, Left, q) = {}
  <2>1. ASSUME NEW q
        PROVE  Dropped(s, b, more, t, d, q)
    BY <1>5, <1>7, ReturnsDrop
  <2> QED
    BY <2>1 DEF Dropped
<1>12. /\ CF!Places(o)' = {<< "grave", 0, a >>}
       /\ \A q : q # o /\ q # b => CF!Places(q)' = CF!Places(q)
  BY <1>6, <1>11, BuriedPlaces
<1>13. CF!Places(b)' = {<< "task", t, d >>}
  <2>1. /\ CF!Places(b) = Graves(b) \cup Chores("task", Left, b)
        /\ CF!Places(b)' = Graves(b)' \cup Chores("task", Left, b)'
    BY ChoresAre
  <2>2. ChoresGone(t, d, more, b)
    BY <1>6, ChoresOf
  <2>3. Graves(b)' = Graves(b) \ {<< "grave", 0, a >>}
    BY <1>7 DEF GravesThen
  <2>4. << "task", t, d >> # << "grave", 0, a >>
    OBVIOUS
  <2>5. << "grave", 0, a >> \notin Chores("task", Left, b)
    BY DEF Chores
  <2>6. Graves(b)' = {}
    BY <1>10, <2>1, <2>3
  <2>7. Chores("task", Left, b) = {}
    BY <1>10, <2>1, <2>5
  <2>8. Chores("task", Left, b)' = {<< "task", t, d >>}
    BY <1>11, <2>2, <2>7 DEF ChoresGone
  <2> QED
    BY <2>1, <2>6, <2>8
<1>14. Placed'
  <2>1. ASSUME NEW q \in CF!Ids
        PROVE  IF st'[q] \in {"retired", "evicted"} THEN \E x : CF!Places(q)' = {x}
               ELSE CF!Places(q)' = {}
    <3>1. CASE q = o
      BY <1>7, <1>8, <1>12, <3>1
    <3>2. CASE q = b
      BY <1>8, <1>13, <3>2
    <3>3. CASE q # o /\ q # b
      BY <1>8, <1>12, <3>3 DEF ObjectInv, Placed
    <3> QED
      BY <3>1, <3>2, <3>3
  <2> QED
    BY <2>1 DEF Placed
<1>15. ObjectTypes'
  <2>1. slots' \in [CF!Ids -> Seq(0 .. MaxObjects)]
    <3>1. << >> \in Seq(0 .. MaxObjects)
      BY ONLY ObjectsAssumption
    <3> QED
      BY <1>1, <3>1 DEF ObjectTypes
  <2> QED
    BY Zenon, <1>1, <1>6, <1>7, <1>8, <2>1, TypesGoOn DEF ObjectTypes, Buries
<1>16. Counted'
  <2>1. ASSUME NEW q \in CF!Ids
        PROVE  IsFiniteSet(CF!References(q)') /\ Cardinality(CF!References(q)') = rc[q]
    <3>1. PICK J : J = At(q, s)
      OBVIOUS
    <3>2. J \subseteq 1 .. Len(s) /\ IsFiniteSet(J) /\ J \in SUBSET Nat
      <4>1. J \subseteq 1 .. Len(s) /\ IsFiniteSet(J)
        BY <3>1, AtMost
      <4> QED
        BY <4>1
    <3>3. PICK m \in Nat : m = d + Len(more) /\ m = d + Len(s) + 1
      <4>1. Len(more) = Len(s) + 1 /\ Len(s) \in Nat
        BY <1>5 DEF Returns
      <4> QED
        BY <1>7, <4>1
    <3>4. PICK B : B = ToDrop(t, m, J)
      OBVIOUS
    <3>5. PICK A : A = SlotPlaces(b, J)
      OBVIOUS
    <3>6. /\ IsFiniteSet(A) /\ IsFiniteSet(B) /\ Cardinality(A) = Cardinality(B)
      <4>1. IsFiniteSet(A) /\ Cardinality(A) = Cardinality(J)
        BY <3>2, <3>5, SlotsAsMany
      <4>2. IsFiniteSet(B) /\ Cardinality(B) = Cardinality(J)
        BY <3>2, <3>4, ReturnsAsMany
      <4> QED
        BY <4>1, <4>2
    <3>7. GoneOn("drop", t, d, more, {"drop"}, q)
      BY <1>1, <1>6, ChoresThen
    <3>8. CF!Dropping(q) = Chores("drop", {"drop"}, q) /\ CF!Dropping(q)' = Chores("drop", {"drop"}, q)'
      BY ChoresAre
    <3>9. CF!Dropping(q)' = CF!Dropping(q) \cup B
      <4>1. Added("drop", t, d, more, {"drop"}, q) = B
        BY <1>11, <3>1, <3>3, <3>4
      <4>2. << "drop", t, d >> \notin CF!Dropping(q)
        BY <3>7, <3>8 DEF GoneOn, Buries
      <4> QED
        BY <3>7, <3>8, <4>1, <4>2 DEF GoneOn
    <3>10. B \cap CF!Dropping(q) = {}
      <4>1. ASSUME NEW j \in J, << "drop", t, m - j >> \in CF!Dropping(q) PROVE FALSE
        <5>1. m - j \in 0 .. d
          BY <3>7, <3>8, <4>1 DEF GoneOn
        <5>2. j \in 1 .. Len(s) /\ Len(s) \in Nat
          BY <3>2
        <5> QED
          BY <1>7, <3>3, <5>1, <5>2
      <4> QED
        BY <3>4, <4>1 DEF ToDrop
    <3>11. CF!Slotted(q)' = CF!Slotted(q) \ A /\ A \subseteq CF!Slotted(q)
      <4>1. Refilled(q, b, At(q, slots[b]), At(q, << >>))
        <5>1. << >> \in Seq(0 .. MaxObjects)
          OBVIOUS
        <5> QED
          BY <1>1, <1>3, <5>1, SlottedThen
      <4>2. At(q, << >>) = {} /\ SlotPlaces(b, {}) = {} /\ At(q, slots[b]) = J
        BY <1>4, <3>1 DEF At, SlotPlaces
      <4> QED
        BY <3>5, <4>1, <4>2 DEF Refilled
    <3>12. CF!Owned(q)' = CF!Owned(q)
      BY DEF CF!Owned, Buries
    <3>13. /\ \A x \in A : x[1] = "slot"
           /\ \A x \in B : x[1] = "drop"
      BY <3>4, <3>5 DEF SlotPlaces, ToDrop
    <3>14. A \subseteq CF!References(q) /\ B \cap CF!References(q) = {}
      BY <3>10, <3>11, <3>13, ReferencesAre, ThreeKinds
    <3>15. CF!References(q)' = (CF!References(q) \ A) \cup B
      BY <3>9, <3>11, <3>12, <3>13, ReferencesAre, ThreeKinds
    <3>16. IsFiniteSet(CF!References(q)) /\ rc[q] = Cardinality(CF!References(q))
      BY <1>1 DEF Counted
    <3> QED
      BY <3>6, <3>14, <3>15, <3>16, Exchanged
  <2>2. \A q \in CF!Ids : st'[q] = "live" <=> st[q] = "live"
    BY <1>3, <1>8
  <2> QED
    BY <1>1, <2>1, <2>2 DEF Counted, Buries
<1>17. Underway'
  <2>1. Untouched(t, d)
    <3>1. ASSUME NEW u \in Threads, NEW n \in Jobs(todo[u]), Job(todo[u], n).what # "drop",
                 Job(todo[u], n).id = b
          PROVE  FALSE
      <4>1. << "task", u, n >> \in CF!Places(b)
        BY <1>3, <3>1, OnlyPlace
      <4> QED
        BY <1>10, <4>1
    <3> QED
      BY <1>8, <3>1 DEF Untouched, Buries
  <2>2. ASSUME NEW j \in DOMAIN more PROVE Fits(more[j])'
    <3>1. PICK n \in Nat : n = Len(s)
      OBVIOUS
    <3>2. /\ DOMAIN more = 1 .. (n + 1)
          /\ \A i \in 1 .. n : more[i].what = "drop"
          /\ more[n + 1].what = "free" /\ more[n + 1].id = b
      BY <1>5, <3>1 DEF Returns
    <3>3. j \in 1 .. n \/ j = n + 1
      BY <3>2
    <3>4. PICK k : k = more[j]
      OBVIOUS
    <3>5. k.what = "drop" \/ (k.what = "free" /\ k.id = b)
      BY <3>2, <3>3, <3>4
    <3>6. Fits(k)'
      BY <1>8, <3>5 DEF Fits
    <3> QED
      BY <3>4, <3>6
  <2> QED
    BY <1>6, <2>1, <2>2, UnderwayThen
<1>18. Ringed'
  <2>1. \A i \in 0 .. (Grave - 1) : grave'[i] = IF i = a THEN o ELSE grave[i]
    BY <1>1, <1>2 DEF Buries
  <2>2. ASSUME NEW i \in 0 .. (Grave - 1), i # a, grave[i] = b PROVE FALSE
    <3>1. << "grave", 0, i >> \in CF!Places(b)
      BY <1>3, <2>2, OnlyPlace
    <3> QED
      BY <1>10, <2>2, <3>1
  <2>3. ASSUME NEW i \in 0 .. (Grave - 1), grave'[i] # 0
        PROVE  st'[grave'[i]] = "retired" /\ turn'[grave'[i]] % Grave = i
    <3>1. turn' = turn
      BY DEF Buries
    <3>2. CASE i = a
      BY <1>7, <1>8, <2>1, <3>1, <3>2
    <3>3. CASE i # a
      <4>1. grave'[i] = grave[i] /\ grave[i] # b /\ grave[i] \in CF!Ids
        BY <1>1, <2>1, <2>2, <2>3, <3>3, ObjectIds
      <4> QED
        BY <1>1, <1>8, <2>3, <3>1, <4>1 DEF Ringed
    <3> QED
      BY <3>2, <3>3
  <2> QED
    BY <2>3 DEF Ringed
<1>19. Emptied'
  <2>1. ASSUME NEW q \in CF!Ids, slots'[q] # << >> PROVE st'[q] \in {"live", "retired"}
    <3>1. q # b /\ slots'[q] = slots[q]
      BY <1>1, <1>3, <2>1 DEF ObjectTypes
    <3> QED
      BY <1>1, <1>8, <2>1, <3>1 DEF Emptied
  <2> QED
    BY <2>1 DEF Emptied
<1> QED
  BY <1>9, <1>14, <1>15, <1>16, <1>17, <1>18, <1>19 DEF ObjectInv

LEMMA BuryKeeps ==
  ASSUME ObjectInv, NEW t \in Threads, CF!Bury(t)
  PROVE  ObjectInv'
<1>1. PICK o, a, d, b : /\ o = Head(todo[t]).id /\ a = Head(todo[t]).at
                        /\ d = Len(todo[t]) - 1 /\ b = grave[a]
  OBVIOUS
<1>2. /\ todo[t] # << >> /\ Head(todo[t]).what = "bury"
      /\ grave' = [grave EXCEPT ![a] = o]
      /\ CF!Then(t, IF b = 0 THEN << >> ELSE CF!GivenBack(b))
      /\ st' = IF b = 0 THEN st ELSE [st EXCEPT ![b] = "evicted"]
      /\ slots' = IF b = 0 THEN slots ELSE [slots EXCEPT ![b] = << >>]
      /\ hurried' = IF b # 0 /\ turn[o] - turn[b] \in 1 .. (Grave - 1)
                    THEN hurried \cup {b} ELSE hurried
      /\ UNCHANGED << rc, grave_i, owned, turn >>
  BY <1>1 DEF CF!Bury, CF!Doing
<1>3. Buries(t, d, o, a)
  BY <1>1, <1>2 DEF Buries
<1>4. CASE b = 0
  BY <1>1, <1>2, <1>3, <1>4, FirstBurial
<1>5. CASE b # 0
  <2>1. PICK more : more = CF!GivenBack(b)
    OBVIOUS
  <2> QED
    BY Zenon, <1>1, <1>2, <1>3, <1>5, <2>1, EvictingBurial
<1> QED
  BY <1>4, <1>5

-----------------------------------------------------------------------------
(* Together.                                                               *)

LEMMA ObjectInit == CF!Init => ObjectInv
<1> SUFFICES ASSUME CF!Init PROVE ObjectInv
  OBVIOUS
<1>1. ObjectTypes
  BY ObjectBounds DEF CF!Init, ObjectTypes
<1>2. \A t \in Threads : todo[t] = << >>
  BY DEF CF!Init
<1>3. \A kinds, o : CF!Waits(<< >>, kinds, o) = {}
  BY DEF CF!Waits
<1>4. ASSUME NEW o \in CF!Ids PROVE CF!References(o) = {} /\ CF!Places(o) = {}
  <2>1. CF!Dropping(o) = {}
    BY <1>2, <1>3, DroppingAre
  <2>2. CF!Owned(o) = {}
    <3>1. \A u \in Threads : owned[u][o] = 0
      BY DEF CF!Init
    <3>2. 1 .. 0 = {}
      OBVIOUS
    <3> QED
      BY <3>1, <3>2, OwnedAre
  <2>3. CF!Slotted(o) = {}
    <3>1. \A d \in CF!Ids : DOMAIN slots[d] = {}
      BY DEF CF!Init
    <3> QED
      BY <3>1, SlottedAre
  <2>4. CF!Places(o) = {}
    <3>1. \A j \in DOMAIN grave : grave[j] # o
      BY ObjectIds DEF CF!Init
    <3> QED
      BY <1>2, <1>3, <3>1, PlacesAre
  <2> QED
    BY <2>1, <2>2, <2>3, <2>4, ReferencesAre
<1>5. Counted
  BY <1>4, FS_EmptySet DEF CF!Init, Counted
<1>6. Placed
  BY <1>4 DEF CF!Init, Placed
<1>7. Underway
  BY <1>2 DEF Underway, Jobs
<1>8. Ringed /\ Emptied
  BY DEF CF!Init, Ringed, Emptied
<1> QED
  BY <1>1, <1>5, <1>6, <1>7, <1>8 DEF ObjectInv, CF!Init

LEMMA ObjectStep == ObjectInv /\ [CF!Next]_cfVars => ObjectInv'
<1> SUFFICES ASSUME ObjectInv, [CF!Next]_cfVars PROVE ObjectInv'
  OBVIOUS
<1>1. CASE UNCHANGED cfVars
  <2>1. UNCHANGED << st, rc, slots, grave, grave_i, owned, todo, turn, hurried >>
    BY <1>1 DEF cfVars
  <2>2. Placed' /\ Underway' /\ Ringed'
    BY <2>1, StaysInPlace
  <2>3. \A o : CF!References(o)' = CF!References(o)
    BY <2>1 DEF CF!References, CF!Owned, CF!Slotted, CF!Dropping, CF!Waits
  <2>4. Counted'
    BY <2>1, <2>3 DEF ObjectInv, Counted
  <2>5. ObjectTypes' /\ Emptied'
    BY <2>1 DEF ObjectInv, ObjectTypes, Emptied
  <2> QED
    BY <2>1, <2>2, <2>4, <2>5 DEF ObjectInv
<1>2. CASE CF!Next
  <2>1. PICK t \in Threads : CF!Step(t)
    BY <1>2 DEF CF!Next
  <2>2. CASE \/ CF!CreateString(t) \/ CF!CreateData(t) \/ CF!CreateDictionary(t)
             \/ CF!CreateArray(t) \/ CF!CreateCopy(t)
    BY <2>2, CreateKeeps
  <2>3. CASE \E a, v \in CF!Ids : CF!AppendValue(t, a, v)
    BY <2>3, AppendKeeps
  <2>4. CASE \E v \in CF!Ids : CF!Retain(t, v) \/ CF!Release(t, v)
    BY <2>4, RetainKeeps, LetGoKeeps
  <2>5. CASE CF!Decrement(t)
    BY <2>5, DecrementKeeps
  <2>6. CASE CF!TakeTurn(t)
    BY <2>6, TurnKeeps
  <2>7. CASE CF!Bury(t)
    BY <2>7, BuryKeeps
  <2>8. CASE CF!Free(t)
    BY <2>8, FreeKeeps
  <2> QED
    BY <2>1, <2>2, <2>3, <2>4, <2>5, <2>6, <2>7, <2>8 DEF CF!Step
<1> QED
  BY <1>1, <1>2 DEF cfVars, CF!vars

\* What the engine or a container still refers to is alive, its count that of its
\* references; what nobody refers to is readable until the ring has gone round,
\* and is then evicted and freed once, in one place: for every number of threads
\* and objects, every size of the ring and every order of their steps (CFRetain,
\* CFRelease, the containers and the graveyard).
THEOREM ObjectsStayHeld == CF!Init /\ [][CF!Next]_cfVars => []CF!ObjectsHeld
<1>1. ObjectInv => CF!ObjectsHeld
  <2> SUFFICES ASSUME ObjectInv PROVE CF!ObjectsHeld
    OBVIOUS
  <2>1. ASSUME NEW o \in CF!Ids
        PROVE  /\ st[o] \in {"live", "retired"} => rc[o] = CF!Cardinality(CF!References(o))
               /\ st[o] = "live" <=> CF!References(o) # {}
               /\ CF!Cardinality(CF!Places(o)) = IF st[o] \in {"retired", "evicted"} THEN 1 ELSE 0
    <3>1. \A S : CF!Cardinality(S) = Cardinality(S)
      BY DEF CF!Cardinality, Cardinality
    <3>2. rc[o] = Cardinality(CF!References(o))
      BY ReferredLives
    <3>3. st[o] = "live" <=> CF!References(o) # {}
      BY ReferredLives
    <3>4. IF st[o] \in {"retired", "evicted"} THEN \E x : CF!Places(o) = {x} ELSE CF!Places(o) = {}
      BY DEF ObjectInv, Placed
    <3>5. CASE st[o] \in {"retired", "evicted"}
      <4>1. PICK x : CF!Places(o) = {x}
        BY <3>4, <3>5
      <4>2. Cardinality(CF!Places(o)) = 1
        BY <4>1, FS_Singleton
      <4> QED
        BY <3>1, <3>2, <3>3, <3>5, <4>2
    <3>6. CASE st[o] \notin {"retired", "evicted"}
      <4>1. Cardinality(CF!Places(o)) = 0
        BY <3>4, <3>6, FS_EmptySet
      <4> QED
        BY <3>1, <3>2, <3>3, <3>6, <4>1
    <3> QED
      BY <3>5, <3>6
  <2> QED
    BY <2>1 DEF ObjectInv, CF!ObjectsHeld
<1> QED
  BY <1>1, ObjectInit, ObjectStep, PTL
=============================================================================
