--------------------------- MODULE StandIns_proofs ---------------------------
(***************************************************************************)
(* What the tables kept between calls, and the move of a generation's data, *)
(* guarantee for every number of entries: one inductive invariant each.     *)
(***************************************************************************)
EXTENDS StandIns, FiniteSetTheorems, SequenceTheorems, WellFoundedInduction, TLAPS

-----------------------------------------------------------------------------
(* The move of a generation's data (ProtectedMove).                        *)

Contents == {"none", "short", "old", "new"}
MoveTypes ==
  /\ source \in [Files -> Contents] /\ staging \in [Files -> Contents]
  /\ installed \in [Files -> Contents]
  /\ phase \in {"off", "copy", "swap", "failed", "drop"}

\* What was copied was there to copy, what goes on to be swapped is the whole of
\* it, and what is still to be deleted is in its place.
Copied ==
  /\ phase = "copy" => MV!Has(staging) \subseteq MV!Has(source)
  /\ phase = "swap" => staging = source
  /\ phase = "drop" => \A f \in MV!Has(source) : installed[f] = source[f]

MoveInv == MoveTypes /\ Copied

LEMMA MoveInit == MV!Init => MoveInv
BY DEF MV!Init, MV!All, MoveInv, MoveTypes, Copied, Contents

LEMMA MoveStep == MoveInv /\ [MV!Next]_moveVars => MoveInv'
<1> SUFFICES ASSUME MoveInv, [MV!Next]_moveVars PROVE MoveInv'
  OBVIOUS
<1> USE DEF MoveInv, MoveTypes, Copied, Contents, MV!Has
<1>1. CASE MV!Begin
  BY <1>1 DEF MV!Begin, MV!All
<1>2. CASE MV!Copy
  BY <1>2 DEF MV!Copy
<1>3. CASE MV!Verify
  <2>1. (\A f \in MV!Has(source) : MV!Alike(f)) => staging = source
    BY <1>3 DEF MV!Verify, MV!Alike
  <2> QED
    BY <1>3, <2>1 DEF MV!Verify
<1>4. CASE MV!DropLive
  BY <1>4 DEF MV!DropLive
<1>5. CASE MV!Rename
  BY <1>5 DEF MV!Rename, MV!All
<1>6. CASE MV!Fail
  BY <1>6 DEF MV!Fail
<1>7. CASE MV!Discard
  BY <1>7 DEF MV!Discard, MV!All
<1>8. CASE MV!DropSource
  BY <1>8 DEF MV!DropSource
<1>9. CASE MV!Done \/ MV!Kill
  BY <1>9 DEF MV!Done, MV!Kill
<1>10. CASE UNCHANGED moveVars
  BY <1>10 DEF moveVars
<1> QED
  BY <1>1, <1>2, <1>3, <1>4, <1>5, <1>6, <1>7, <1>8, <1>9, <1>10 DEF MV!Next

\* Whatever fails and wherever the process is killed and started again, a file of
\* the source goes only while the same is in its place, and what is in that place
\* only while all of the source is beside it, for every set of files and number
\* of kills (ProtectedStorage.move).
THEOREM MoveIsProven == MV!Init /\ [][MV!Next]_moveVars => OnlyProvenGoes
<1> DEFINE Proven == /\ \A f \in Files : source'[f] # source[f] => installed[f] = source[f]
                     /\ installed' # installed => \A f \in MV!Has(source) : MV!Alike(f)
<1>1. MoveInv /\ [MV!Next]_moveVars => [Proven]_moveVars
  <2> SUFFICES ASSUME MoveInv, MV!Next PROVE Proven
    BY DEF moveVars
  <2>1. CASE MV!DropLive \/ MV!Rename
    BY <2>1 DEF MV!DropLive, MV!Rename, MoveInv, Copied, MV!Alike
  <2>2. CASE MV!DropSource
    BY <2>2 DEF MV!DropSource, MoveInv, MoveTypes, Copied
  <2>3. CASE UNCHANGED << source, installed >>
    BY <2>3
  <2> QED
    BY <2>1, <2>2, <2>3 DEF MV!Next, MV!Begin, MV!Copy, MV!Verify, MV!Fail, MV!Discard, MV!Done,
       MV!Kill
<1>2. MV!Init /\ [][MV!Next]_moveVars => [][Proven]_moveVars
  BY <1>1, MoveInit, MoveStep, PTL
<1> QED
  BY <1>2 DEF OnlyProvenGoes, MV!OnlyProvenGoes, moveVars, MV!moveVars

-----------------------------------------------------------------------------
(* The handles of SQLite (SqlHandles).                                     *)

SqlTypes ==
  /\ box \in [Boxes -> Natives \cup {SQ!NoOne}] /\ live \in SUBSET Natives
  /\ stmtOf \in [Natives -> Natives \cup {SQ!NoOne}] /\ known \in SUBSET Boxes

\* Each box the guest knows holds an open handle of its own, and each open
\* handle is in one.
Boxed ==
  /\ \A b \in Boxes : box[b] # SQ!NoOne <=> b \in known
  /\ \A b \in known : box[b] \in live
  /\ \A n \in live : \E b \in known : box[b] = n
  /\ \A b, c \in known : box[b] = box[c] => b = c

\* A statement was prepared on an open database, not on another statement.
Prepared == \A n \in live : stmtOf[n] # SQ!NoOne =>
              stmtOf[n] \in live /\ stmtOf[stmtOf[n]] = SQ!NoOne

SqlInv == SqlTypes /\ Boxed /\ Prepared

LEMMA SqlInit == SQ!Init => SqlInv
BY DEF SQ!Init, SqlInv, SqlTypes, Boxed, Prepared

\* A handle the library opened gets a free box, or is given back.
LEMMA BoxedKeeps ==
  ASSUME SqlInv, NEW n \in Natives, NEW db \in Natives \cup {SQ!NoOne},
         db # SQ!NoOne => db \in live /\ stmtOf[db] = SQ!NoOne, SQ!Boxed(n, db)
  PROVE  SqlInv'
<1> USE SqlAssumption DEF SqlInv, SqlTypes, Boxed, Prepared
<1>1. CASE SQ!Free = {} /\ SQ!Fail("nomem")
  BY <1>1 DEF SQ!Fail
<1>2. ASSUME n \notin live, NEW b \in SQ!Free, box' = [box EXCEPT ![b] = n],
             known' = known \cup {b}, live' = live \cup {n},
             stmtOf' = [stmtOf EXCEPT ![n] = db]
      PROVE  SqlInv'
  <2>1. b \in Boxes /\ b \notin known
    BY <1>2 DEF SQ!Free
  <2>2. SqlTypes'
    BY <1>2, <2>1
  <2>3. Boxed'
    <3>1. \A c \in known : box'[c] = box[c]
      BY <1>2, <2>1
    <3>2. box'[b] = n /\ \A c \in known : box[c] # n
      BY <1>2, <2>1
    <3> QED
      BY <1>2, <2>1, <3>1, <3>2
  <2>4. Prepared'
    BY <1>2
  <2> QED
    BY <2>2, <2>3, <2>4
<1> QED
  BY <1>1, <1>2 DEF SQ!Boxed

\* A handle that is closed goes with its box, once no statement is left on it.
LEMMA UnboxedKeeps ==
  ASSUME SqlInv, NEW b \in known, SQ!Unboxed(b), live' = live \ {box[b]},
         \A n \in live : stmtOf[n] # box[b],
         stmtOf' = stmtOf \/ stmtOf' = [stmtOf EXCEPT ![box[b]] = SQ!NoOne]
  PROVE  SqlInv'
<1> USE SqlAssumption DEF SqlInv, SqlTypes, Boxed, Prepared, SQ!Unboxed
<1>1. SqlTypes'
  OBVIOUS
<1>2. Boxed'
  <2>1. \A c \in known : c # b => box'[c] = box[c] /\ box[c] # box[b]
    OBVIOUS
  <2>2. box'[b] = SQ!NoOne
    OBVIOUS
  <2> QED
    BY <2>1, <2>2
<1>3. Prepared'
  OBVIOUS
<1> QED
  BY <1>1, <1>2, <1>3

LEMMA SqlStep == SqlInv /\ [SQ!Next]_sqlVars => SqlInv'
<1> SUFFICES ASSUME SqlInv, [SQ!Next]_sqlVars PROVE SqlInv'
  OBVIOUS
<1> USE SqlAssumption
<1>1. ASSUME UNCHANGED << box, live, stmtOf, known >> PROVE SqlInv'
  BY <1>1 DEF SqlInv, SqlTypes, Boxed, Prepared
<1>2. CASE SQ!Open
  BY <1>1, <1>2, BoxedKeeps DEF SQ!Open, SQ!Fail
<1>3. ASSUME NEW d \in SQ!Databases, SQ!Prepare(d) PROVE SqlInv'
  <2>1. d \in known /\ box[d] \in live /\ stmtOf[box[d]] = SQ!NoOne
    BY DEF SQ!Databases, SqlInv, Boxed
  <2>2. box[d] \in Natives
    BY <2>1 DEF SqlInv, SqlTypes
  <2> QED
    BY <1>1, <1>3, <2>1, <2>2, BoxedKeeps DEF SQ!Prepare, SQ!Fail
<1>4. ASSUME NEW d \in SQ!Databases, SQ!Close(d) PROVE SqlInv'
  <2>1. d \in known
    BY DEF SQ!Databases
  <2>2. CASE \E n \in live : stmtOf[n] = box[d]
    BY <1>1, <1>4, <2>2 DEF SQ!Close, SQ!Fail
  <2>3. CASE \A n \in live : stmtOf[n] # box[d]
    BY <1>4, <2>1, <2>3, UnboxedKeeps DEF SQ!Close
  <2> QED
    BY <2>2, <2>3
<1>5. ASSUME NEW s \in SQ!Statements, SQ!Use(s) PROVE SqlInv'
  BY <1>1, <1>5 DEF SQ!Use
<1>6. ASSUME NEW s \in SQ!Statements, SQ!Finalize(s) PROVE SqlInv'
  <2>1. s \in known /\ box[s] \in live /\ stmtOf[box[s]] # SQ!NoOne
    BY DEF SQ!Statements, SQ!Databases, SqlInv, Boxed
  <2>2. \A n \in live : stmtOf[n] # box[s]
    BY <2>1 DEF SqlInv, SqlTypes, Prepared
  <2> QED
    BY <1>6, <2>1, <2>2, UnboxedKeeps DEF SQ!Finalize
<1>7. CASE UNCHANGED sqlVars
  BY <1>1, <1>7 DEF sqlVars
<1> QED
  BY <1>2, <1>3, <1>4, <1>5, <1>6, <1>7 DEF SQ!Next

\* There are as many boxes the guest knows as open handles: each holds one.
LEMMA OneBoxEach == SqlInv => Cardinality(known) = Cardinality(live)
<1> SUFFICES ASSUME SqlInv PROVE Cardinality(known) = Cardinality(live)
  OBVIOUS
<1> DEFINE holds == [b \in known |-> box[b]]
<1>1. IsFiniteSet(known)
  BY SqlAssumption, FS_Subset DEF SqlInv, SqlTypes
<1>2. holds \in Bijection(known, live)
  BY DEF SqlInv, Boxed, Bijection, Injection, Surjection, IsInjective
<1>3. \E f : f \in Bijection(known, live)
  BY <1>2
<1> QED
  BY <1>1, <1>3, FS_Bijection DEF ExistsBijection

\* The guest's boxes are exactly the library's open handles, one each, for every
\* number of either (sql_guest, sql_free_handle and their callers).
THEOREM HandlesStayBoxed == SQ!Init /\ [][SQ!Next]_sqlVars => []SQ!HandlesBoxed
<1>1. SqlInv => SQ!HandlesBoxed
  <2> SUFFICES ASSUME SqlInv PROVE SQ!HandlesBoxed
    OBVIOUS
  <2>1. {box[b] : b \in known} = live
    BY DEF SqlInv, Boxed
  <2>2. \A b \in Boxes : box[b] # SQ!NoOne <=> b \in known
    BY DEF SqlInv, Boxed
  <2>3. Cardinality(known) = Cardinality(live)
    BY OneBoxEach
  <2>4. \A n \in live : stmtOf[n] # SQ!NoOne => stmtOf[n] \in live
    BY DEF SqlInv, Prepared
  <2> QED
    BY <2>1, <2>2, <2>3, <2>4 DEF SQ!HandlesBoxed, SQ!Cardinality, Cardinality
<1> QED
  BY <1>1, SqlInit, SqlStep, PTL

-----------------------------------------------------------------------------
(* The compiled patterns (RegexTable).                                     *)

Progs == Patterns \cup {RT!NoProg}
Slots == [preg : Pregs \cup {RT!NoPreg}, prog : Progs, abbreviation : BOOLEAN]
TableTypes ==
  /\ progs \in Seq(Slots) /\ kept \in [Pregs -> Progs]
  /\ cap = 0 \/ cap \in FirstCap .. MaxProgs

\* A preg has one slot, with what was last compiled for it; it is without one
\* only once the table had no place left.
Slotted ==
  /\ \A i, j \in 1 .. Len(progs) :
       progs[i].preg = progs[j].preg /\ progs[i].preg \in Pregs => i = j
  /\ \A i \in 1 .. Len(progs) : progs[i].preg \in Pregs => progs[i].prog = kept[progs[i].preg]
  /\ \A p \in Pregs : kept[p] # RT!NoProg =>
       Len(progs) = MaxProgs \/ \E i \in 1 .. Len(progs) : progs[i].preg = p
  /\ Len(progs) <= cap

TableInv == TableTypes /\ Slotted

LEMMA TableInit == RT!Init => TableInv
<1> SUFFICES ASSUME RT!Init PROVE TableInv
  OBVIOUS
<1>1. progs = << >> /\ Len(progs) = 0
  BY DEF RT!Init
<1> QED
  BY <1>1 DEF RT!Init, TableInv, TableTypes, Slotted, Progs

\* The least of a set of places is one of them, and none is less.
LEMMA LeastIsOne ==
  ASSUME NEW S \in SUBSET Nat, S # {}
  PROVE  RT!Least(S) \in S /\ \A j \in S : RT!Least(S) <= j
<1>1. PICK i \in S : \A j \in S : ~ (<<j, i>> \in OpToRel(<, Nat))
  BY NatLessThanWellFounded, WFMin
<1>2. ASSUME NEW j \in S PROVE i <= j
  <2>1. j < i => << j, i >> \in OpToRel(<, Nat)
    BY DEF OpToRel
  <2>2. ~ (j < i)
    BY <1>1, <2>1, Zenon
  <2> QED
    BY <2>2
<1> QED
  BY <1>2 DEF RT!Least

\* A slot that is written anew: its preg is nowhere else, and the preg that had
\* it has been recompiled or freed.
LEMMA RewrittenKeeps ==
  ASSUME TableInv, NEW i \in 1 .. Len(progs), NEW s \in Slots, UNCHANGED cap,
         progs' = [progs EXCEPT ![i] = s], kept' \in [Pregs -> Progs],
         s.preg \in Pregs => /\ s.prog = kept'[s.preg]
                             /\ \A j \in 1 .. Len(progs) : progs[j].preg = s.preg => j = i,
         \A q \in Pregs : q # s.preg /\ q # progs[i].preg => kept'[q] = kept[q],
         progs[i].preg \in Pregs =>
           progs[i].preg = s.preg \/ kept'[progs[i].preg] = RT!NoProg
  PROVE  TableInv'
<1> USE DEF TableInv, TableTypes, Slotted
<1>1. /\ progs' \in Seq(Slots) /\ Len(progs') = Len(progs)
      /\ progs'[i] = s /\ \A j \in 1 .. Len(progs) : j # i => progs'[j] = progs[j]
  OBVIOUS
<1>2. TableTypes'
  BY <1>1
<1>3. ASSUME NEW j \in 1 .. Len(progs), NEW k \in 1 .. Len(progs),
             progs'[j].preg = progs'[k].preg, progs'[j].preg \in Pregs
      PROVE  j = k
  BY <1>1, <1>3
<1>4. ASSUME NEW j \in 1 .. Len(progs), progs'[j].preg \in Pregs
      PROVE  progs'[j].prog = kept'[progs'[j].preg]
  <2>1. CASE j = i
    BY <1>1, <1>4, <2>1
  <2>2. CASE j # i
    <3>1. progs'[j] = progs[j] /\ progs[j].preg # progs[i].preg /\ progs[j].preg # s.preg
      BY <1>1, <1>4, <2>2
    <3> QED
      BY <1>4, <3>1
  <2> QED
    BY <2>1, <2>2
<1>5. ASSUME NEW q \in Pregs, kept'[q] # RT!NoProg
      PROVE  Len(progs) = MaxProgs \/ \E j \in 1 .. Len(progs) : progs'[j].preg = q
  <2>1. CASE q = s.preg
    BY <1>1, <2>1
  <2>2. CASE q # s.preg
    <3>1. q # progs[i].preg /\ kept[q] # RT!NoProg
      BY <1>5, <2>2
    <3>2. Len(progs) = MaxProgs \/ \E j \in 1 .. Len(progs) : progs[j].preg = q
      BY <3>1
    <3> QED
      BY <1>1, <3>1, <3>2
  <2> QED
    BY <2>1, <2>2
<1> QED
  BY <1>1, <1>2, <1>3, <1>4, <1>5

\* A preg that had no slot gets one at the end; the first is forgotten only from
\* a full table.
LEMMA AddedKeeps ==
  ASSUME TableInv, NEW p \in Pregs, NEW s \in Slots, NEW d \in {0, 1}, d <= Len(progs),
         s.preg = p, \A j \in 1 .. Len(progs) : progs[j].preg # p,
         kept' = [kept EXCEPT ![p] = s.prog],
         progs' \in Seq(Slots), Len(progs') = Len(progs) - d + 1,
         \A j \in 1 .. Len(progs) - d : progs'[j] = progs[j + d],
         progs'[Len(progs) - d + 1] = s,
         d = 1 => Len(progs) = MaxProgs,
         cap' \in FirstCap .. MaxProgs, Len(progs') <= cap'
  PROVE  TableInv'
<1> USE DEF TableInv, TableTypes, Slotted
<1> DEFINE n == Len(progs) - d + 1
<1>0. n \in Nat \ {0} /\ s.prog \in Progs
  BY TableAssumption DEF Slots
<1>1. TableTypes'
  BY <1>0
<1>2. \A j \in 1 .. n : \/ j = n /\ progs'[j] = s
                        \/ j + d \in 1 .. Len(progs) /\ progs'[j] = progs[j + d]
  BY <1>0
<1> HIDE DEF n
<1>3. ASSUME NEW j \in 1 .. n, NEW k \in 1 .. n,
             progs'[j].preg = progs'[k].preg, progs'[j].preg \in Pregs
      PROVE  j = k
  <2>1. CASE progs'[j].preg = p
    <3>1. \A m \in 1 .. n : progs'[m].preg = p => m = n
      BY ONLY <1>2, \A i \in 1 .. Len(progs) : progs[i].preg # p
    <3> QED
      BY <1>3, <2>1, <3>1
  <2>2. CASE progs'[j].preg # p
    <3>1. /\ j + d \in 1 .. Len(progs) /\ progs'[j] = progs[j + d]
          /\ k + d \in 1 .. Len(progs) /\ progs'[k] = progs[k + d]
      BY <1>2, <1>3, <2>2
    <3>2. j + d = k + d
      BY <1>3, <3>1
    <3> QED
      BY <1>0, <3>2
  <2> QED
    BY <2>1, <2>2
<1>4. ASSUME NEW j \in 1 .. n, progs'[j].preg \in Pregs
      PROVE  progs'[j].prog = kept'[progs'[j].preg]
  <2>1. CASE progs'[j] = s
    <3>1. kept'[p] = s.prog
      OBVIOUS
    <3> QED
      BY ONLY <2>1, <3>1, s.preg = p
  <2>2. CASE progs'[j] # s
    <3>1. PICK k \in 1 .. Len(progs) : progs'[j] = progs[k]
      BY <1>2, <2>2
    <3>2. progs[k].preg \in Pregs /\ progs[k].prog = kept[progs[k].preg]
      BY <1>4, <3>1
    <3>3. progs[k].preg # p
      OBVIOUS
    <3>4. kept'[progs[k].preg] = kept[progs[k].preg]
      BY ONLY kept \in [Pregs -> Progs], kept' = [kept EXCEPT ![p] = s.prog], <3>2, <3>3
    <3> QED
      BY ONLY <3>1, <3>2, <3>4
  <2> QED
    BY <2>1, <2>2
<1>5. ASSUME NEW q \in Pregs, kept'[q] # RT!NoProg
      PROVE  n = MaxProgs \/ \E j \in 1 .. n : progs'[j].preg = q
  <2>1. CASE q = p
    BY <1>0, <1>2, <2>1 DEF n
  <2>2. CASE q # p /\ d = 1
    BY <2>2 DEF n
  <2>3. CASE q # p /\ d = 0
    <3>1. n = Len(progs) + 1 /\ kept[q] # RT!NoProg
      BY <1>5, <2>3 DEF n
    <3>2. CASE Len(progs) = MaxProgs
      BY <3>1, <3>2, TableAssumption DEF n
    <3>3. ASSUME NEW j \in 1 .. Len(progs), progs[j].preg = q PROVE progs'[j].preg = q
      BY <2>3, <3>3
    <3> QED
      BY <3>1, <3>2, <3>3
  <2> QED
    BY <2>1, <2>2, <2>3
<1> QED
  BY <1>1, <1>3, <1>4, <1>5 DEF n

\* The places of a preg.
LEMMA OwnPlaces ==
  ASSUME TableInv, NEW p
  PROVE  /\ RT!Own(p) = {i \in 1 .. Len(progs) : progs[i].preg = p}
         /\ RT!Own(p) # {} => RT!Least(RT!Own(p)) \in RT!Own(p)
<1>1. DOMAIN progs = 1 .. Len(progs) /\ Len(progs) \in Nat
  BY DEF TableInv, TableTypes
<1>2. RT!Own(p) = {i \in 1 .. Len(progs) : progs[i].preg = p}
  BY <1>1 DEF RT!Own
<1>3. RT!Own(p) \in SUBSET Nat
  BY <1>1, <1>2
<1> QED
  BY <1>2, <1>3, LeastIsOne

LEMMA CompiledKeeps ==
  ASSUME TableInv, NEW p \in Pregs, NEW prog \in Progs, RT!Regcomp(p, prog)
  PROVE  TableInv'
<1> DEFINE s == RT!Slot(p, prog)
<1>1. /\ s \in Slots /\ s.preg = p /\ s.prog = prog
      /\ kept' = [kept EXCEPT ![p] = prog] /\ kept \in [Pregs -> Progs]
  BY DEF RT!Slot, Slots, RT!Regcomp, TableInv, TableTypes
<1>2. kept' \in [Pregs -> Progs] /\ kept'[p] = prog /\ \A q \in Pregs : q # p => kept'[q] = kept[q]
  BY <1>1
<1>3. RT!NoPreg \notin Pregs
  BY TableAssumption
<1> HIDE DEF s
<1>4. ASSUME NEW i \in 1 .. Len(progs), progs' = [progs EXCEPT ![i] = s], UNCHANGED cap,
             progs[i].preg = p \/ (progs[i].preg = RT!NoPreg /\ RT!Own(p) = {})
      PROVE  TableInv'
  <2>1. \A j \in 1 .. Len(progs) : progs[j].preg = p => j = i
    BY <1>4, OwnPlaces DEF TableInv, Slotted
  <2>2. /\ progs[i].preg \in Pregs => progs[i].preg = s.preg
        /\ \A q \in Pregs : q # s.preg /\ q # progs[i].preg => kept'[q] = kept[q]
    BY <1>1, <1>2, <1>3, <1>4
  <2> QED
    BY <1>1, <1>2, <1>4, <2>1, <2>2, RewrittenKeeps
<1>5. CASE RT!Own(p) # {}
  <2>1. PICK i \in 1 .. Len(progs) : i = RT!Least(RT!Own(p)) /\ progs[i].preg = p
    BY <1>5, OwnPlaces
  <2>2. progs' = [progs EXCEPT ![i] = s] /\ UNCHANGED cap
    BY <1>5, <2>1 DEF RT!Regcomp, RT!SlotFor, s
  <2> QED
    BY <1>4, <2>1, <2>2
<1>6. CASE RT!Own(p) = {} /\ RT!Own(RT!NoPreg) # {}
  <2>1. PICK i \in 1 .. Len(progs) : i = RT!Least(RT!Own(RT!NoPreg)) /\ progs[i].preg = RT!NoPreg
    BY <1>6, OwnPlaces
  <2>2. progs' = [progs EXCEPT ![i] = s] /\ UNCHANGED cap
    BY <1>6, <2>1 DEF RT!Regcomp, RT!SlotFor, s
  <2> QED
    BY <1>4, <1>6, <2>1, <2>2
<1>7. CASE RT!Own(p) = {} /\ RT!Own(RT!NoPreg) = {}
  <2>1. PICK grown : /\ grown = IF Len(progs) = cap /\ cap < MaxProgs
                                  THEN (IF cap = 0 THEN FirstCap
                                        ELSE IF 2 * cap > MaxProgs THEN MaxProgs ELSE 2 * cap)
                                  ELSE cap
                     /\ cap' = grown
                     /\ progs' = (IF Len(progs) < grown THEN progs ELSE Tail(progs)) \o << s >>
    BY <1>7 DEF RT!Regcomp, RT!SlotFor, s
  <2>2. /\ Len(progs) \in Nat /\ Len(progs) <= cap /\ (cap = 0 \/ cap \in FirstCap .. MaxProgs)
        /\ progs \in Seq(Slots)
    BY DEF TableInv, TableTypes, Slotted
  <2>3. grown \in FirstCap .. MaxProgs /\ (~(Len(progs) < grown) => Len(progs) = MaxProgs /\ grown = MaxProgs)
    BY <2>1, <2>2, TableAssumption
  <2>4. \A j \in 1 .. Len(progs) : progs[j].preg # p
    BY <1>7, OwnPlaces
  <2>5. kept' = [kept EXCEPT ![p] = s.prog]
    BY <1>1
  <2>6. CASE Len(progs) < grown
    <3>1. progs' = progs \o << s >>
      BY <2>1, <2>6
    <3>2. /\ progs' \in Seq(Slots) /\ Len(progs') = Len(progs) - 0 + 1
          /\ \A j \in 1 .. Len(progs) - 0 : progs'[j] = progs[j + 0]
          /\ progs'[Len(progs) - 0 + 1] = s
      BY <1>1, <2>2, <3>1
    <3>3. Len(progs') <= cap' /\ cap' \in FirstCap .. MaxProgs
      BY <2>1, <2>2, <2>3, <2>6, <3>2, TableAssumption
    <3> QED
      <4>1. 0 \in {0, 1} /\ 0 <= Len(progs) /\ (0 = 1 => Len(progs) = MaxProgs)
        BY <2>2
      <4> QED
        BY ONLY TableInv, p \in Pregs, <1>1, <2>4, <2>5, <3>2, <3>3, <4>1, AddedKeeps
  <2>7. CASE ~(Len(progs) < grown)
    <3>1. progs' = Tail(progs) \o << s >> /\ Len(progs) = MaxProgs /\ grown = MaxProgs /\ Len(progs) >= 1
      <4>1. progs' = Tail(progs) \o << s >>
        BY <2>1, <2>7
      <4>2. Len(progs) = MaxProgs /\ grown = MaxProgs
        BY <2>3, <2>7
      <4> QED
        BY <4>1, <4>2, TableAssumption
    <3>2. /\ Tail(progs) \in Seq(Slots) /\ Len(Tail(progs)) = Len(progs) - 1
          /\ \A j \in 1 .. Len(progs) - 1 : Tail(progs)[j] = progs[j + 1]
      BY <2>2, <3>1
    <3>3. /\ progs' \in Seq(Slots) /\ Len(progs') = Len(progs) - 1 + 1
          /\ \A j \in 1 .. Len(progs) - 1 : progs'[j] = progs[j + 1]
          /\ progs'[Len(progs) - 1 + 1] = s
      BY <1>1, <2>2, <3>1, <3>2
    <3>4. Len(progs') <= cap' /\ cap' \in FirstCap .. MaxProgs
      BY <2>1, <2>2, <2>3, <3>1, <3>3, TableAssumption
    <3> QED
      <4>1. 1 \in {0, 1} /\ 1 <= Len(progs) /\ (1 = 1 => Len(progs) = MaxProgs)
        BY <2>2, <3>1
      <4> QED
        BY ONLY TableInv, p \in Pregs, <1>1, <2>4, <2>5, <3>3, <3>4, <4>1, AddedKeeps
  <2> QED
    BY <2>6, <2>7
<1> QED
  BY <1>5, <1>6, <1>7

LEMMA FreedKeeps ==
  ASSUME TableInv, NEW p \in Pregs, RT!Regfree(p)
  PROVE  TableInv'
<1>1. /\ kept' = [kept EXCEPT ![p] = RT!NoProg] /\ UNCHANGED cap
      /\ kept \in [Pregs -> Progs]
  BY DEF RT!Regfree, TableInv, TableTypes
<1>2. /\ kept' \in [Pregs -> Progs] /\ kept'[p] = RT!NoProg
      /\ \A q \in Pregs : q # p => kept'[q] = kept[q]
  BY <1>1 DEF Progs
<1>3. CASE RT!Own(p) = {}
  <2>1. progs' = progs /\ \A j \in 1 .. Len(progs) : progs[j].preg # p
    BY <1>3, OwnPlaces DEF RT!Regfree
  <2> QED
    BY <1>1, <1>2, <2>1 DEF TableInv, TableTypes, Slotted
<1>4. CASE RT!Own(p) # {}
  <2>1. PICK i \in 1 .. Len(progs) : i = RT!Least(RT!Own(p)) /\ progs[i].preg = p
    BY <1>4, OwnPlaces
  <2>2. progs' = [progs EXCEPT ![i] = RT!Spare]
    BY <1>4, <2>1 DEF RT!Regfree
  <2>3. RT!Spare \in Slots /\ RT!Spare.preg \notin Pregs
    BY TableAssumption DEF RT!Spare, RT!Slot, Slots, Progs
  <2> QED
    BY <1>1, <1>2, <2>1, <2>2, <2>3, RewrittenKeeps
<1> QED
  BY <1>3, <1>4

LEMMA TableStep == TableInv /\ [RT!Next]_tableVars => TableInv'
<1> SUFFICES ASSUME TableInv, [RT!Next]_tableVars PROVE TableInv'
  OBVIOUS
<1>1. ASSUME UNCHANGED << progs, cap, kept >> PROVE TableInv'
  BY <1>1 DEF TableInv, TableTypes, Slotted
<1>2. ASSUME NEW p \in Pregs, NEW prog \in Patterns \cup {RT!NoProg}, RT!Regcomp(p, prog)
      PROVE  TableInv'
  BY <1>2, CompiledKeeps DEF Progs
<1>3. ASSUME NEW p \in Pregs, RT!Regexec(p) PROVE TableInv'
  BY <1>1, <1>3 DEF RT!Regexec
<1>4. ASSUME NEW p \in Pregs, RT!Regfree(p) PROVE TableInv'
  BY <1>4, FreedKeeps
<1>5. CASE RT!SetAbbreviations
  BY <1>1, <1>5 DEF RT!SetAbbreviations
<1>6. CASE UNCHANGED tableVars
  BY <1>1, <1>6 DEF tableVars
<1> QED
  BY <1>2, <1>3, <1>4, <1>5, <1>6 DEF RT!Next

LEMMA TableCardinality == \A S : RT!Cardinality(S) = Cardinality(S)
BY DEF RT!Cardinality, Cardinality

\* A preg is answered from the pattern it was last compiled from, wherever the
\* table moved it, and none is forgotten while there is a place, for every number
\* of them (re_slot_for, regcomp, regexec and regfree).
THEOREM PatternsStayKept == RT!Init /\ [][RT!Next]_tableVars => []RT!PatternsKept
<1>1. TableInv => RT!PatternsKept
  <2> SUFFICES ASSUME TableInv PROVE RT!PatternsKept
    OBVIOUS
  <2>1. ASSUME NEW p \in Pregs PROVE RT!Cardinality(RT!Own(p)) <= 1
    <3>1. CASE RT!Own(p) = {}
      BY <3>1, FS_EmptySet, TableCardinality
    <3>2. CASE RT!Own(p) # {}
      <4>1. RT!Own(p) = {RT!Least(RT!Own(p))}
        BY <3>2, OwnPlaces DEF TableInv, Slotted
      <4>2. Cardinality({RT!Least(RT!Own(p))}) = 1
        BY FS_Singleton
      <4> QED
        BY <4>1, <4>2, TableCardinality
    <3> QED
      BY <3>1, <3>2
  <2>2. ASSUME NEW p \in RT!InUse PROVE progs[RT!Least(RT!Own(p))].prog = kept[p]
    BY OwnPlaces DEF RT!InUse, TableInv, Slotted
  <2>3. ASSUME NEW p \in Pregs, kept[p] # RT!NoProg, RT!Own(p) = {} PROVE Len(progs) = MaxProgs
    BY <2>3, OwnPlaces DEF TableInv, Slotted
  <2>4. Len(progs) <= cap /\ cap <= MaxProgs
    BY TableAssumption DEF TableInv, TableTypes, Slotted
  <2> QED
    BY <2>1, <2>2, <2>3, <2>4 DEF RT!PatternsKept
<1> QED
  BY <1>1, TableInit, TableStep, PTL

-----------------------------------------------------------------------------
(* The blocks the engine copies (Blocks).                                  *)

Captured == Blk \cup Var \cup {BL!NoOne, BL!Stack, BL!Helper}
BlockTypes ==
  /\ frame \in [open : BOOLEAN, to : Var \cup {BL!NoOne, BL!Stack}]
  /\ blkRc \in [Blk -> Nat] /\ blkHeld \in [Blk -> Nat]
  /\ captured \in [Blk -> Captured]
  /\ varRc \in [Var -> Int] /\ freed \in SUBSET Var

Capturing(c) == {b \in Blk : captured[b] = c}
Balanced == \A b \in Blk : blkRc[b] = blkHeld[b] + Cardinality(Capturing(b))

BlockInv == BlockTypes /\ Balanced

LEMMA BlockInit == BL!Init => BlockInv
<1> SUFFICES ASSUME BL!Init PROVE BlockInv
  OBVIOUS
<1>1. BlockTypes
  BY DEF BL!Init, BL!Closed, BlockTypes, Captured
<1>2. ASSUME NEW b \in Blk PROVE Capturing(b) = {}
  BY BlocksAssumption DEF BL!Init, Capturing
<1>3. Balanced
  BY <1>2, FS_EmptySet DEF BL!Init, Balanced
<1> QED
  BY <1>1, <1>3 DEF BlockInv

LEMMA CapturingFinite ==
  ASSUME NEW c
  PROVE  IsFiniteSet(Capturing(c)) /\ Cardinality(Capturing(c)) \in Nat
BY BlocksAssumption, FS_Subset, FS_CardinalityType DEF Capturing

\* How often a block is captured, when one takes or gives up what it captured.
LEMMA CapturingChanges ==
  ASSUME captured \in [Blk -> Captured], NEW b \in Blk, NEW c \in Blk,
         NEW w, captured' = [captured EXCEPT ![b] = w]
  PROVE  /\ captured[b] # c /\ w # c => Capturing(c)' = Capturing(c)
         /\ captured[b] # c /\ w = c =>
              Cardinality(Capturing(c)') = Cardinality(Capturing(c)) + 1
         /\ captured[b] = c /\ w # c =>
              Cardinality(Capturing(c)') = Cardinality(Capturing(c)) - 1
<1>1. ASSUME captured[b] # c, w # c PROVE Capturing(c)' = Capturing(c)
  BY <1>1 DEF Capturing
<1>2. ASSUME captured[b] # c, w = c
      PROVE  Cardinality(Capturing(c)') = Cardinality(Capturing(c)) + 1
  <2>1. Capturing(c)' = Capturing(c) \cup {b} /\ b \notin Capturing(c)
    BY <1>2 DEF Capturing
  <2> QED
    BY <2>1, CapturingFinite, FS_AddElement
<1>3. ASSUME captured[b] = c, w # c
      PROVE  Cardinality(Capturing(c)') = Cardinality(Capturing(c)) - 1
  <2>1. Capturing(c)' = Capturing(c) \ {b} /\ b \in Capturing(c)
    BY <1>3 DEF Capturing
  <2> QED
    BY <2>1, CapturingFinite, FS_RemoveElement
<1> QED
  BY <1>1, <1>2, <1>3

\* A helper's assignment of a block, and the disposal of one, move the count of
\* that block along.
LEMMA AssignKeeps ==
  ASSUME BlockInv, NEW b \in Blk, BL!AssignBlock(b)
  PROVE  BlockInv'
<1> USE DEF BlockInv, BlockTypes, Balanced
<1>1. /\ captured[b] = BL!Helper /\ UNCHANGED << frame, blkHeld, varRc, freed >>
      /\ captured[b] \notin Blk /\ BL!NoOne \notin Blk
  BY BlocksAssumption DEF BL!AssignBlock, BL!Captures
<1>2. ASSUME NEW c \in Blk, captured' = [captured EXCEPT ![b] = c],
             blkRc' = [blkRc EXCEPT ![c] = blkRc[c] + 1]
      PROVE  BlockInv'
  <2>1. BlockTypes'
    BY <1>1, <1>2 DEF Captured
  <2>2. ASSUME NEW d \in Blk
        PROVE  blkRc'[d] = blkHeld'[d] + Cardinality(Capturing(d)')
    <3>1. Cardinality(Capturing(d)) \in Nat /\ blkRc[d] \in Nat /\ blkHeld' = blkHeld
      BY <1>1, CapturingFinite
    <3>2. CASE d = c
      <4>1. Cardinality(Capturing(c)') = Cardinality(Capturing(c)) + 1
        BY <1>1, <1>2, CapturingChanges
      <4>2. blkRc'[d] = blkRc[d] + 1
        BY <1>2, <3>2
      <4> QED
        BY <3>1, <3>2, <4>1, <4>2
    <3>3. CASE d # c
      <4>1. Capturing(d)' = Capturing(d) /\ blkRc'[d] = blkRc[d]
        BY <1>1, <1>2, <3>3 DEF Capturing
      <4> QED
        BY <3>1, <4>1
    <3> QED
      BY <3>2, <3>3
  <2> QED
    BY <2>1, <2>2
<1>3. CASE captured' = [captured EXCEPT ![b] = BL!NoOne] /\ UNCHANGED blkRc
  <2>1. \A d \in Blk : Capturing(d)' = Capturing(d)
    BY <1>1, <1>3 DEF Capturing
  <2> QED
    BY <1>1, <1>3, <2>1 DEF Captured
<1>4. CASE \E c \in Blk : /\ blkHeld[c] > 0 /\ captured[c] # BL!Helper
                          /\ blkRc' = [blkRc EXCEPT ![c] = @ + 1]
                          /\ BL!Captures(b, c)
  BY <1>2, <1>4 DEF BL!Captures
<1>5. CASE \E c \in Blk : /\ BL!Free(c)
                          /\ blkRc' = [blkRc EXCEPT ![c] = 1]
                          /\ BL!Captures(b, c)
  <2>1. PICK c \in Blk : /\ BL!Free(c) /\ blkRc' = [blkRc EXCEPT ![c] = 1]
                         /\ captured' = [captured EXCEPT ![b] = c]
    BY <1>5 DEF BL!Captures
  <2>2. blkRc[c] + 1 = 1
    BY <2>1 DEF BL!Free
  <2> QED
    BY <1>2, <2>1, <2>2
<1> QED
  BY <1>3, <1>4, <1>5 DEF BL!AssignBlock, BL!Captures

LEMMA DisposeKeeps ==
  ASSUME BlockInv, NEW b \in Blk, BL!Dispose(b)
  PROVE  BlockInv'
<1> USE DEF BlockInv, BlockTypes, Balanced
<1>1. /\ captured' = [captured EXCEPT ![b] = BL!NoOne] /\ UNCHANGED << frame, blkHeld >>
      /\ BL!NoOne \notin Blk
  BY BlocksAssumption DEF BL!Dispose
<1>2. CASE captured[b] \in Blk
  <2> PICK c \in Blk : c = captured[b]
    BY <1>2
  <2>1. blkRc' = [blkRc EXCEPT ![c] = @ - 1] /\ UNCHANGED << varRc, freed >>
    BY <1>2 DEF BL!Dispose
  <2>2. Cardinality(Capturing(c)') = Cardinality(Capturing(c)) - 1
    BY <1>1, CapturingChanges
  <2>3. Cardinality(Capturing(c)') \in Nat
    <3>1. IsFiniteSet(Capturing(c)')
      BY BlocksAssumption, FS_Subset DEF Capturing
    <3> QED
      BY <3>1, FS_CardinalityType
  <2>4. blkRc'[c] = blkHeld'[c] + Cardinality(Capturing(c)') /\ blkRc'[c] \in Nat
    BY <1>1, <2>1, <2>2, <2>3, CapturingFinite
  <2>5. BlockTypes'
    BY <1>1, <2>1, <2>4 DEF Captured
  <2>6. ASSUME NEW d \in Blk, d # c
        PROVE  blkRc'[d] = blkHeld'[d] + Cardinality(Capturing(d)')
    <3>1. Capturing(d)' = Capturing(d) /\ blkRc'[d] = blkRc[d] /\ blkHeld'[d] = blkHeld[d]
      BY <1>1, <2>1, <2>6 DEF Capturing
    <3> QED
      BY <3>1
  <2> QED
    BY <2>4, <2>5, <2>6
<1>3. CASE captured[b] \notin Blk
  <2>1. BL!Disposed(captured[b]) /\ UNCHANGED blkRc
    BY <1>3 DEF BL!Dispose
  <2>2. BlockTypes'
    BY <1>1, <2>1 DEF BL!Disposed, Captured
  <2>3. \A d \in Blk : Capturing(d)' = Capturing(d)
    BY <1>1, <1>3 DEF Capturing
  <2> QED
    BY <1>1, <2>1, <2>2, <2>3
<1> QED
  BY <1>2, <1>3

LEMMA BlockStep == BlockInv /\ [BL!Next]_blockVars => BlockInv'
<1> SUFFICES ASSUME BlockInv, [BL!Next]_blockVars PROVE BlockInv'
  OBVIOUS
<1> USE DEF BlockInv, BlockTypes, Balanced
<1>1. CASE BL!Enter
  BY <1>1 DEF BL!Enter, Capturing
<1>2. CASE BL!Leave
  <2>1. BlockTypes' /\ UNCHANGED << blkRc, captured, blkHeld >>
    BY <1>2 DEF BL!Leave, BL!Closed, BL!Disposed
  <2> QED
    BY <2>1 DEF Capturing
<1>3. ASSUME NEW b \in Blk, BL!Copy(b) PROVE BlockInv'
  <2>1. /\ blkRc[b] = 0 /\ captured[b] = BL!NoOne
        /\ blkRc' = [blkRc EXCEPT ![b] = 1] /\ blkHeld' = [blkHeld EXCEPT ![b] = 1]
        /\ UNCHANGED << frame, varRc, freed >>
    BY <1>3 DEF BL!Copy, BL!Free
  <2>2. PICK x \in {BL!NoOne, BL!Helper} : captured' = [captured EXCEPT ![b] = x]
    BY <1>3 DEF BL!Copy
  <2>3. x \notin Blk /\ captured[b] \notin Blk
    BY <2>1, BlocksAssumption
  <2>4. BlockTypes'
    BY <2>1, <2>2 DEF Captured
  <2>5. \A d \in Blk : Capturing(d)' = Capturing(d)
    BY <2>2, <2>3 DEF Capturing
  <2>6. blkHeld[b] = 0 /\ Cardinality(Capturing(b)) = 0
    BY <2>1, CapturingFinite
  <2> QED
    BY <2>1, <2>4, <2>5, <2>6
<1>4. ASSUME NEW b \in Blk, BL!AssignByref(b) PROVE BlockInv'
  <2>1. UNCHANGED << blkRc, blkHeld, freed >> /\ captured[b] = BL!Helper
    BY <1>4 DEF BL!AssignByref, BL!Captures
  <2>2. PICK x \in Var \cup {BL!Stack} : captured' = [captured EXCEPT ![b] = x]
    BY <1>4 DEF BL!AssignByref, BL!Captures
  <2>3. x \notin Blk /\ captured[b] \notin Blk
    BY <2>1, BlocksAssumption
  <2>4. varRc' \in [Var -> Int] /\ frame' \in [open : BOOLEAN, to : Var \cup {BL!NoOne, BL!Stack}]
    BY <1>4 DEF BL!AssignByref
  <2>5. \A d \in Blk : Capturing(d)' = Capturing(d)
    BY <2>2, <2>3 DEF Capturing
  <2> QED
    BY <2>1, <2>2, <2>4, <2>5 DEF Captured
<1>5. ASSUME NEW b \in Blk, BL!AssignBlock(b) PROVE BlockInv'
  BY <1>5, AssignKeeps
<1>6. ASSUME NEW b \in Blk, BL!CopyAgain(b) PROVE BlockInv'
  <2>1. /\ blkRc' = [blkRc EXCEPT ![b] = @ + 1] /\ blkHeld' = [blkHeld EXCEPT ![b] = @ + 1]
        /\ UNCHANGED << frame, captured, varRc, freed >>
    BY <1>6 DEF BL!CopyAgain
  <2>2. \A d \in Blk : Capturing(d)' = Capturing(d) /\ Cardinality(Capturing(d)) \in Nat
    BY <2>1, CapturingFinite DEF Capturing
  <2> QED
    BY <2>1, <2>2
<1>7. ASSUME NEW b \in Blk, BL!Release(b) PROVE BlockInv'
  <2>1. /\ blkRc' = [blkRc EXCEPT ![b] = @ - 1] /\ blkHeld' = [blkHeld EXCEPT ![b] = @ - 1]
        /\ blkHeld[b] > 0 /\ UNCHANGED << frame, captured, varRc, freed >>
    BY <1>7 DEF BL!Release
  <2>2. \A d \in Blk : Capturing(d)' = Capturing(d) /\ Cardinality(Capturing(d)) \in Nat
    BY <2>1, CapturingFinite DEF Capturing
  <2> QED
    BY <2>1, <2>2
<1>8. ASSUME NEW b \in Blk, BL!Dispose(b) PROVE BlockInv'
  BY <1>8, DisposeKeeps
<1>9. CASE UNCHANGED blockVars
  BY <1>9 DEF blockVars, Capturing
<1> QED
  BY <1>1, <1>2, <1>3, <1>4, <1>5, <1>6, <1>7, <1>8, <1>9 DEF BL!Next

\* A heap block has a reference for every copy the engine holds of it and every
\* block that captured it, for every number of them, so that it is freed by the
\* last of these and no sooner (sh_Block_copy, sh_Block_release, and the object
\* helpers).  The variables that blocks capture are not spoken of.
THEOREM BlocksStayBalanced == BL!Init /\ [][BL!Next]_blockVars => []BL!BlocksBalance
<1>1. BlockInv => BL!BlocksBalance
  <2> SUFFICES ASSUME BlockInv PROVE BL!BlocksBalance
    OBVIOUS
  <2>1. \A S : BL!Cardinality(S) = Cardinality(S)
    BY DEF BL!Cardinality, Cardinality
  <2>2. ASSUME NEW b \in Blk PROVE BL!Captors(b) = Capturing(b)
    BY DEF BL!Captors, Capturing
  <2> QED
    BY <2>1, <2>2 DEF BlockInv, Balanced, BL!BlocksBalance
<1> QED
  BY <1>1, BlockInit, BlockStep, PTL

-----------------------------------------------------------------------------
(* The audio of an Android request (AndroidSpeech).                        *)

Frame == Nat \X Nat
Item  == [tag : Nat, frame : Frame]
AndroidTypes ==
  /\ pt_stop \in BOOLEAN /\ au_cancel \in BOOLEAN /\ settle_failed \in BOOLEAN
  /\ stopped \in BOOLEAN /\ defer_arm \in BOOLEAN /\ seen \in BOOLEAN
  /\ utt \in Nat /\ pull_pos \in Nat /\ req \in 0 .. MaxRequest
  /\ samples \in Seq(Frame) /\ pending \in Seq(Item) /\ busy \in Item
  /\ slices \in SUBSET (0 .. MaxSlice) /\ inflight \in Frame
  /\ ending \in {"no", "owed", "called"} /\ early \in SUBSET (0 .. MaxRequest)
  /\ syn \in {"idle", "started", "looked", "over", "cancelled", "settling", "retired"}
  /\ got \in [1 .. MaxRequest -> Seq(Frame)]
  /\ over \in [1 .. MaxRequest -> {"no", "cut", "all"}]

\* As long as the engine announces the end behind the last slice: the end of a
\* request nobody stopped is announced once and when nothing of it is left to
\* schedule, and between two requests nothing is left of either in the engine
\* or the pacer, whether the first ended, or was cut and has settled.
Announced == stopped \/ defer_arm
Quiet     == AN!AtRest /\ ending = "no"
Settling ==
  /\ syn = "settling" => slices = {}
  /\ au_cancel \/ syn = "settling" => pt_stop
  /\ req \notin early =>
       /\ Announced => ending = "no"
       /\ ~pt_stop /\ (Announced \/ ending = "called") => slices = {} /\ inflight = AN!NoCall
       /\ syn = "idle" => Quiet
       /\ ~pt_stop /\ syn = "looked" /\ seen => Quiet
       /\ ~pt_stop /\ syn = "over" => Quiet

\* Until the request in hand is stopped its slices are in order, from the first
\* collected to the last the engine has: in the buffer (where the kick gives way
\* to the first), in the pacer's hand, in its queue, in the call that brings one,
\* and still to be called for.
Playing   == syn \in {"started", "looked"}
Mine      == Playing /\ ~pt_stop /\ req \notin early
OnlyKick  == samples = << << req, 0 >> >>
Collected == IF samples = << >> THEN 0 ELSE IF OnlyKick THEN 1 ELSE Len(samples) + 1
Handed    == IF busy = AN!None THEN Collected ELSE Collected + 1
Made      == Handed + Len(pending)
Brought   == IF inflight = AN!NoCall THEN Made ELSE Made + 1
InOrder ==
  Mine =>
    /\ ~OnlyKick => /\ Len(samples) <= MaxSlice
                    /\ \A i \in 1 .. Len(samples) : samples[i] = << req, i >>
    /\ busy # AN!None => busy = [tag |-> utt, frame |-> << req, Collected >>]
    /\ \A i \in 1 .. Len(pending) :
         pending[i] = [tag |-> utt, frame |-> << req, Handed + i - 1 >>]
    /\ inflight # AN!NoCall => inflight = << req, Made >>
    /\ slices = Brought .. MaxSlice /\ Brought <= MaxSlice + 1
    /\ Len(got[req]) = pull_pos /\ pull_pos <= Len(samples) /\ (OnlyKick => pull_pos = 0)

\* What a client has of each request.
Told ==
  /\ \A r \in 1 .. MaxRequest :
       /\ r \notin early => /\ Len(got[r]) <= MaxSlice
                            /\ \A i \in 1 .. Len(got[r]) : got[r][i] = << r, i >>
                            /\ over[r] = "all" => Len(got[r]) = MaxSlice
       /\ r > req => got[r] = << >> /\ over[r] = "no"
  /\ Playing => req # 0 /\ over[req] = "no" /\ utt # 0

HeardInv == AndroidTypes /\ Settling /\ InOrder /\ Told

LEMMA Bounds == /\ MaxRequest \in Nat /\ MaxSlice \in Nat \ {0}
                /\ MaxPull \in Nat \ {0} /\ Lookbehind \in Nat \ {0}
BY AndroidAssumption

LEMMA HeardInit == AN!Init => HeardInv
<1> SUFFICES ASSUME AN!Init PROVE HeardInv
  OBVIOUS
<1> USE Bounds DEF AN!Init, AN!Fresh, AN!Requests, AN!None, AN!NoCall
<1>1. AndroidTypes
  <2>1. req \in 0 .. MaxRequest
    OBVIOUS
  <2>2. samples \in Seq(Frame) /\ pending \in Seq(Item) /\ busy \in Item /\ inflight \in Frame
    BY DEF Frame, Item
  <2>3. /\ got \in [1 .. MaxRequest -> Seq(Frame)]
        /\ over \in [1 .. MaxRequest -> {"no", "cut", "all"}]
    OBVIOUS
  <2> QED
    BY <2>1, <2>2, <2>3 DEF AndroidTypes
<1>2. Settling
  BY DEF Settling, Announced, Quiet, AN!AtRest, AN!pacer_idle, AN!Delivered
<1>3. InOrder
  BY DEF InOrder, Mine, Playing
<1>4. Told
  BY DEF Told, Playing
<1> QED
  BY <1>1, <1>2, <1>3, <1>4 DEF HeardInv

\* The slice the engine calls with next is one it has.
LEMMA LeastSlice ==
  ASSUME HeardInv, slices # {}, NEW k, k = (CHOOSE i \in slices : \A j \in slices : i <= j)
  PROVE  k \in slices /\ k \in Nat /\ \A j \in slices : k <= j
<1>1. slices \in SUBSET Nat
  BY Bounds DEF HeardInv, AndroidTypes
<1> QED
  BY <1>1, LeastIsOne DEF RT!Least

LEMMA TypesKept == HeardInv /\ [AN!Next]_androidVars => AndroidTypes'
<1> SUFFICES ASSUME HeardInv, [AN!Next]_androidVars PROVE AndroidTypes'
  OBVIOUS
<1> USE Bounds DEF HeardInv, AndroidTypes, AN!flagVars, AN!signalVars, AN!bufferVars, AN!pacerVars,
        AN!engineVars, AN!clientVars
<1>0. AN!None \in Item /\ AN!NoCall \in Frame
  BY DEF AN!None, AN!NoCall, Item, Frame
<1>1. CASE AN!SpeakStart
  <2>1. req' \in 0 .. MaxRequest /\ utt' \in Nat /\ early' \in SUBSET (0 .. MaxRequest)
    BY <1>1 DEF AN!SpeakStart
  <2>2. samples' \in Seq(Frame) /\ pull_pos' \in Nat /\ slices' \in SUBSET (0 .. MaxSlice)
    BY <1>1 DEF AN!SpeakStart
  <2> QED
    BY <1>1, <2>1, <2>2 DEF AN!SpeakStart
<1>2. CASE AN!EndCall \/ AN!Announce \/ AN!Stop
  <2>1. CASE AN!EndCall
    BY <2>1 DEF AN!EndCall
  <2>2. CASE AN!Announce
    BY <2>2 DEF AN!Announce
  <2>3. CASE AN!Stop
    BY <2>3 DEF AN!Stop
  <2> QED
    BY <1>2, <2>1, <2>2, <2>3
<1>3. CASE AN!Call
  <2>1. PICK k : k = (CHOOSE i \in slices : \A j \in slices : i <= j)
    OBVIOUS
  <2>2. k \in slices /\ k \in Nat
    BY <1>3, <2>1, LeastSlice DEF AN!Call
  <2>3. inflight' = << req, k >> /\ slices' = slices \ {k}
    BY <1>3, <2>1 DEF AN!Call
  <2>4. inflight' \in Frame
    BY <2>2, <2>3 DEF Frame
  <2> QED
    BY <1>3, <2>3, <2>4 DEF AN!Call
<1>4. CASE AN!Schedule
  <2>1. [tag |-> utt, frame |-> inflight] \in Item
    BY DEF Item
  <2>2. pending' \in Seq(Item)
    BY <1>4, <2>1 DEF AN!Schedule
  <2> QED
    BY <1>0, <1>4, <2>2 DEF AN!Schedule
<1>5. CASE AN!Take
  BY <1>5 DEF AN!Take
<1>6. CASE AN!Collect
  <2>1. busy.frame \in Frame
    BY DEF Item
  <2>2. AN!Placed \in Seq(Frame)
    BY <2>1 DEF AN!Placed
  <2> QED
    BY <1>0, <1>6, <2>2 DEF AN!Collect
<1>7. CASE AN!Pull
  BY <1>7 DEF AN!Pull, AN!render_complete, AN!pacer_idle
<1>8. CASE AN!Answer
  <2>1. req \in 1 .. MaxRequest
    BY <1>8 DEF AN!Answer, Told, Playing
  <2>2. AN!End \in Nat /\ AN!End <= Len(samples)
    BY DEF AN!End
  <2>3. AN!Given \in Seq(Frame)
    BY <2>2 DEF AN!Given
  <2>4. got' \in [1 .. MaxRequest -> Seq(Frame)] /\ pull_pos' \in Nat
    <3>1. CASE UNCHANGED << got, pull_pos >>
      BY <3>1
    <3>2. CASE /\ got' = [got EXCEPT ![req] = @ \o AN!Given]
               /\ pull_pos' = pull_pos + Len(AN!Given)
      <4>1. got[req] \o AN!Given \in Seq(Frame) /\ Len(AN!Given) \in Nat
        BY <2>1, <2>3
      <4> QED
        BY <2>1, <3>2, <4>1
    <3> QED
      BY <1>8, <3>1, <3>2 DEF AN!Answer
  <2> QED
    BY <1>8, <2>1, <2>4 DEF AN!Answer, AN!Over
<1>9. CASE AN!Decline \/ AN!Reuse
  BY <1>9 DEF AN!Decline, AN!Reuse, AN!Over
<1>10. CASE AN!Finish
  BY <1>10 DEF AN!Finish
<1>11. CASE AN!Settle
  BY <1>11 DEF AN!Settle, AN!Settled, AN!pacer_idle, AN!Delivered
<1>12. CASE AN!Retire
  <2>1. samples' \in Seq(Frame) /\ pending' \in Seq(Item) /\ busy' \in Item
    BY <1>0, <1>12 DEF AN!Retire
  <2> QED
    BY <1>0, <1>12, <2>1 DEF AN!Retire
<1>13. CASE UNCHANGED androidVars
  BY <1>13 DEF androidVars
<1> QED
  BY <1>1, <1>2, <1>3, <1>4, <1>5, <1>6, <1>7, <1>8, <1>9, <1>10, <1>11, <1>12, <1>13 DEF AN!Next

LEMMA SettlingKept == HeardInv /\ [AN!Next]_androidVars => Settling'
<1> SUFFICES ASSUME HeardInv, [AN!Next]_androidVars PROVE Settling'
  OBVIOUS
<1>0. AndroidTypes /\ Settling
  BY DEF HeardInv
<1> USE DEF Settling, Announced, Quiet, AN!AtRest, AN!pacer_idle, AN!Delivered, AN!flagVars,
        AN!signalVars, AN!bufferVars, AN!pacerVars, AN!engineVars, AN!clientVars
<1>1. CASE AN!SpeakStart
  BY <1>0, <1>1 DEF AN!SpeakStart, AndroidTypes
<1>2. CASE AN!Call
  BY <1>0, <1>2 DEF AN!Call
<1>3. CASE AN!Schedule
  BY <1>0, <1>3 DEF AN!Schedule
<1>4. CASE AN!EndCall
  BY <1>0, <1>4 DEF AN!EndCall
<1>5. CASE AN!Announce
  BY <1>0, <1>5 DEF AN!Announce
<1>6. CASE AN!Take
  BY <1>0, <1>6 DEF AN!Take
<1>7. CASE AN!Collect
  BY <1>0, <1>7 DEF AN!Collect
<1>8. CASE AN!Pull
  BY <1>0, <1>8 DEF AN!Pull, AN!render_complete
<1>9. CASE AN!Answer
  BY <1>0, <1>9 DEF AN!Answer
<1>10. CASE AN!Decline
  BY <1>0, <1>10 DEF AN!Decline
<1>11. CASE AN!Reuse
  BY <1>0, <1>11 DEF AN!Reuse, AN!render_complete
<1>12. CASE AN!Stop
  BY <1>0, <1>12 DEF AN!Stop
<1>13. CASE AN!Finish
  BY <1>0, <1>13 DEF AN!Finish
<1>14. CASE AN!Settle
  BY <1>0, <1>14 DEF AN!Settle, AN!Settled, AN!render_complete
<1>15. CASE AN!Retire
  BY <1>0, <1>15 DEF AN!Retire
<1>16. CASE UNCHANGED androidVars
  BY <1>0, <1>16 DEF androidVars
<1> QED
  BY <1>1, <1>2, <1>3, <1>4, <1>5, <1>6, <1>7, <1>8, <1>9, <1>10, <1>11, <1>12, <1>13, <1>14, <1>15,
     <1>16 DEF AN!Next

\* What a pull gives is what comes next, and a request of which nothing is left
\* to give and everything was there has been given whole.
LEMMA GivenIsNext ==
  ASSUME HeardInv, syn = "looked", Mine
  PROVE  /\ AN!Given \in Seq(Frame) /\ pull_pos + Len(AN!Given) <= Len(samples)
         /\ \A i \in 1 .. Len(AN!Given) : AN!Given[i] = << req, pull_pos + i >>
         /\ OnlyKick => AN!Given = << >>
         /\ ~OnlyKick => Len(samples) <= MaxSlice
         /\ seen /\ AN!Given = << >> => pull_pos = MaxSlice
<1>1. /\ samples \in Seq(Frame) /\ pull_pos \in Nat /\ pull_pos <= Len(samples)
      /\ OnlyKick => pull_pos = 0 /\ Len(samples) = 1
      /\ ~OnlyKick => /\ Len(samples) <= MaxSlice
                      /\ \A i \in 1 .. Len(samples) : samples[i] = << req, i >>
  BY DEF HeardInv, AndroidTypes, InOrder, OnlyKick
<1>2. ASSUME seen PROVE ~OnlyKick /\ Len(samples) = MaxSlice
  <2>1. busy = AN!None /\ pending = << >> /\ slices = {} /\ inflight = AN!NoCall
    BY <1>2 DEF HeardInv, Settling, Mine, Quiet, AN!AtRest, AN!pacer_idle, AN!Delivered
  <2>2. Brought = Collected /\ Collected \in Nat
    BY <1>1, <2>1 DEF Brought, Made, Handed, Collected
  <2>3. slices = Brought .. MaxSlice /\ Brought <= MaxSlice + 1
    BY DEF HeardInv, InOrder
  <2>4. Collected = MaxSlice + 1
    BY <2>1, <2>2, <2>3, Bounds
  <2> QED
    BY <1>1, <2>4, Bounds DEF Collected
<1>3. PICK e : e = AN!End
  OBVIOUS
<1>4. /\ e \in Nat /\ e <= Len(samples) /\ (seen => e = Len(samples))
      /\ ~seen /\ Len(samples) = 1 => e = 0
  <2>1. PICK l \in Nat : l = Len(samples)
    BY <1>1
  <2>2. e = IF seen THEN l ELSE IF l > Lookbehind THEN l - Lookbehind ELSE 0
    BY <1>3, <2>1 DEF AN!End
  <2>3. e \in Nat /\ e <= l /\ (seen => e = l) /\ (~seen /\ l = 1 => e = 0)
    BY ONLY l \in Nat, <2>2, Bounds
  <2> QED
    BY <2>1, <2>3
<1>5. PICK x : x = IF e - pull_pos > MaxPull THEN pull_pos + MaxPull ELSE e
  OBVIOUS
<1>6. AN!Given = SubSeq(samples, pull_pos + 1, x)
  BY <1>3, <1>5 DEF AN!Given
<1>7. x \in Nat /\ x <= Len(samples) /\ (x <= pull_pos => e <= pull_pos)
  BY <1>1, <1>4, <1>5, Bounds
<1>8. CASE x <= pull_pos
  <2>1. AN!Given = << >> /\ Len(AN!Given) = 0
    BY <1>1, <1>6, <1>7, <1>8
  <2> QED
    BY <1>1, <1>2, <1>4, <1>7, <1>8, <2>1
<1>9. CASE pull_pos < x
  <2>1. /\ AN!Given \in Seq(Frame) /\ Len(AN!Given) = x - pull_pos
        /\ \A i \in 1 .. x - pull_pos : AN!Given[i] = samples[pull_pos + i]
    BY <1>1, <1>6, <1>7, <1>9
  <2>2. ~OnlyKick
    BY <1>1, <1>2, <1>4, <1>5, <1>9, Bounds
  <2>3. ASSUME NEW i \in 1 .. x - pull_pos PROVE AN!Given[i] = << req, pull_pos + i >>
    <3>1. pull_pos + i \in 1 .. Len(samples)
      BY <1>1, <1>7, <1>9
    <3> QED
      BY <1>1, <2>1, <2>2, <3>1
  <2>4. AN!Given # << >>
    BY <1>1, <1>7, <1>9, <2>1
  <2> QED
    BY <1>1, <1>7, <1>9, <2>1, <2>2, <2>3, <2>4
<1> QED
  BY <1>1, <1>7, <1>8, <1>9

LEMMA ToldKept == HeardInv /\ [AN!Next]_androidVars => Told'
<1> SUFFICES ASSUME HeardInv, [AN!Next]_androidVars PROVE Told'
  OBVIOUS
<1> USE DEF AN!flagVars, AN!signalVars, AN!bufferVars, AN!pacerVars, AN!engineVars, AN!clientVars
<1>1. Told /\ req \in 0 .. MaxRequest /\ MaxRequest \in Nat
  BY Bounds DEF HeardInv, AndroidTypes
<1>2. ASSUME UNCHANGED << got, over, req, utt >>, early \subseteq early', Playing' => Playing
      PROVE  Told'
  BY <1>1, <1>2 DEF Told
<1>3. CASE AN!SpeakStart
  <2>1. /\ req' = req + 1 /\ req < MaxRequest /\ UNCHANGED << got, over >> /\ utt' = utt + 1
        /\ early \subseteq early'
    BY <1>3 DEF AN!SpeakStart
  <2>2. req' # 0 /\ req' \in 1 .. MaxRequest /\ req' > req /\ utt' # 0
    BY <1>1, <2>1 DEF HeardInv, AndroidTypes
  <2>3. over[req'] = "no"
    BY <1>1, <2>2 DEF Told
  <2>4. \A r \in 1 .. MaxRequest : r > req' => r > req
    BY <1>1, <2>1
  <2> QED
    BY <1>1, <2>1, <2>2, <2>3, <2>4 DEF Told
<1>4. CASE AN!Call \/ AN!Schedule \/ AN!EndCall \/ AN!Announce
  BY <1>2, <1>4 DEF AN!Call, AN!Schedule, AN!EndCall, AN!Announce, Playing
<1>5. CASE AN!Take \/ AN!Collect \/ AN!Pull \/ AN!Stop
  BY <1>2, <1>5 DEF AN!Take, AN!Collect, AN!Pull, AN!Stop, Playing
<1>6. CASE AN!Answer
  <2>1. /\ req \in 1 .. MaxRequest /\ over[req] = "no" /\ syn = "looked"
        /\ UNCHANGED << req, utt, early >>
    BY <1>1, <1>6 DEF AN!Answer, Told, Playing
  <2>0. \A r \in 1 .. MaxRequest : r # req => got'[r] = got[r]
    <3>1. CASE UNCHANGED got
      BY <3>1
    <3>2. CASE got' = [got EXCEPT ![req] = @ \o AN!Given]
      BY <2>1, <3>2 DEF HeardInv, AndroidTypes
    <3> QED
      BY <1>6, <3>1, <3>2 DEF AN!Answer
  <2>2. CASE UNCHANGED << got, over >> /\ syn' = "started"
    BY <1>2, <2>1, <2>2 DEF Playing
  <2>3. CASE AN!Over("cut") /\ UNCHANGED got /\ syn' = "over"
    <3>1. /\ over' = [over EXCEPT ![req] = "cut"] /\ ~Playing'
          /\ over \in [1 .. MaxRequest -> {"no", "cut", "all"}]
      BY <2>3 DEF AN!Over, Playing, HeardInv, AndroidTypes
    <3>2. over'[req] = "cut" /\ \A r \in 1 .. MaxRequest : r # req => over'[r] = over[r]
      BY <2>1, <3>1
    <3> QED
      BY ONLY <1>1, <2>1, <2>3, <3>1, <3>2 DEF Told
  <2>4. CASE ~pt_stop /\ AN!Given = << >> /\ seen /\ AN!Over("all") /\ UNCHANGED got /\ syn' = "over"
    <3>1. /\ over' = [over EXCEPT ![req] = "all"] /\ ~Playing'
          /\ over \in [1 .. MaxRequest -> {"no", "cut", "all"}]
      BY <2>4 DEF AN!Over, Playing, HeardInv, AndroidTypes
    <3>2. req \notin early => Len(got[req]) = MaxSlice
      BY <2>1, <2>4, GivenIsNext DEF HeardInv, InOrder, Mine, Playing
    <3>3. over'[req] = "all" /\ \A r \in 1 .. MaxRequest : r # req => over'[r] = over[r]
      BY <2>1, <3>1
    <3> QED
      BY ONLY <1>1, <2>1, <2>4, <3>1, <3>2, <3>3 DEF Told
  <2>5. CASE /\ req \in early /\ UNCHANGED over /\ syn' = "started"
    BY <1>1, <2>0, <2>1, <2>5 DEF Told, Playing
  <2>6. CASE /\ req \notin early /\ ~pt_stop /\ AN!Given # << >> /\ UNCHANGED over
             /\ got' = [got EXCEPT ![req] = @ \o AN!Given]
    <3>0. Mine
      BY <2>1, <2>6 DEF Mine, Playing
    <3>1. PICK g \in Seq(Frame) : g = AN!Given
      BY <2>1, <3>0, GivenIsNext
    <3>2. /\ pull_pos + Len(g) <= Len(samples) /\ Len(samples) <= MaxSlice
          /\ \A i \in 1 .. Len(g) : g[i] = << req, pull_pos + i >>
      BY <2>1, <2>6, <3>0, <3>1, GivenIsNext
    <3>3. /\ got[req] \in Seq(Frame) /\ Len(got[req]) = pull_pos /\ pull_pos \in Nat
          /\ got \in [1 .. MaxRequest -> Seq(Frame)] /\ Len(samples) \in Nat
          /\ \A i \in 1 .. Len(got[req]) : got[req][i] = << req, i >>
      <4>1. /\ got[req] \in Seq(Frame) /\ pull_pos \in Nat
            /\ got \in [1 .. MaxRequest -> Seq(Frame)] /\ Len(samples) \in Nat
        BY <2>1 DEF HeardInv, AndroidTypes
      <4>2. Len(got[req]) = pull_pos
        BY <3>0 DEF HeardInv, InOrder
      <4>3. \A i \in 1 .. Len(got[req]) : got[req][i] = << req, i >>
        BY <1>1, <2>1, <2>6 DEF Told
      <4> QED
        BY <4>1, <4>2, <4>3
    <3> DEFINE b == got[req]
    <3>4. PICK h \in Seq(Frame) : /\ h = b \o g /\ Len(h) = Len(b) + Len(g)
                                  /\ \A i \in 1 .. Len(b) : h[i] = b[i]
                                  /\ \A i \in 1 .. Len(g) : h[Len(b) + i] = g[i]
      <4>1. b \in Seq(Frame)
        BY <3>3
      <4> HIDE DEF b
      <4>2. b \o g \in Seq(Frame)
        BY ONLY <4>1, g \in Seq(Frame)
      <4>3. /\ Len(b \o g) = Len(b) + Len(g)
            /\ \A i \in 1 .. Len(b) : (b \o g)[i] = b[i]
            /\ \A i \in 1 .. Len(g) : (b \o g)[Len(b) + i] = g[i]
        BY ONLY <4>1, g \in Seq(Frame)
      <4> QED
        BY <4>2, <4>3
    <3>5. got'[req] = h /\ \A r \in 1 .. MaxRequest : r # req => got'[r] = got[r]
      BY <2>1, <2>6, <3>1, <3>3, <3>4
    <3>6. Len(h) = pull_pos + Len(g) /\ Len(h) <= MaxSlice
      <4>1. PICK l \in Nat : l = Len(samples)
        BY <3>3
      <4>2. PICK m \in Nat : m = Len(g)
        BY <3>1
      <4>3. PICK q \in Nat : q = pull_pos
        BY <3>3
      <4> QED
        BY <3>2, <3>3, <3>4, <4>1, <4>2, <4>3, Bounds
    <3>7. ASSUME NEW i \in 1 .. Len(h) PROVE h[i] = << req, i >>
      <4>1. CASE i <= pull_pos
        BY <3>3, <3>4, <4>1
      <4>2. CASE i > pull_pos
        <5>1. i - pull_pos \in 1 .. Len(g) /\ pull_pos + (i - pull_pos) = i
          BY <3>3, <3>6, <4>2
        <5>2. h[pull_pos + (i - pull_pos)] = g[i - pull_pos]
          BY <3>3, <3>4, <5>1
        <5> QED
          BY <3>2, <5>1, <5>2
      <4> QED
        BY <3>3, <4>1, <4>2
    <3>8. ASSUME NEW r \in 1 .. MaxRequest
          PROVE  /\ r \notin early =>
                      /\ Len(got'[r]) <= MaxSlice
                      /\ \A i \in 1 .. Len(got'[r]) : got'[r][i] = << r, i >>
                      /\ over[r] = "all" => Len(got'[r]) = MaxSlice
                 /\ r > req => got'[r] = << >> /\ over[r] = "no"
      <4>1. CASE r = req
        BY <1>1, <2>1, <3>5, <3>6, <3>7, <4>1
      <4>2. CASE r # req
        BY <1>1, <3>5, <4>2 DEF Told
      <4> QED
        BY <4>1, <4>2
    <3> QED
      BY <1>1, <2>1, <2>6, <3>8 DEF Told, Playing
  <2> QED
    BY <1>6, <2>2, <2>3, <2>4, <2>5, <2>6 DEF AN!Answer
<1>7. CASE AN!Finish \/ AN!Settle \/ AN!Reuse
  BY <1>2, <1>7 DEF AN!Finish, AN!Settle, AN!Reuse, Playing
<1>8. CASE AN!Decline
  <2>1. /\ req \in 1 .. MaxRequest /\ over' = [over EXCEPT ![req] = "cut"] /\ ~Playing'
        /\ UNCHANGED << got, req, early >>
    BY <1>1, <1>8 DEF AN!Decline, AN!Over, Told, Playing
  <2>2. \A r \in 1 .. MaxRequest : r # req => over'[r] = over[r]
    BY <2>1 DEF HeardInv, AndroidTypes
  <2> QED
    BY <1>1, <2>1, <2>2 DEF Told, HeardInv, AndroidTypes
<1>9. CASE AN!Retire
  <2>1. UNCHANGED << req, got, over, early >> /\ ~Playing'
    BY <1>9 DEF AN!Retire, Playing
  <2> QED
    BY <1>1, <2>1 DEF Told
<1>10. CASE UNCHANGED androidVars
  BY <1>2, <1>10 DEF androidVars, Playing
<1> QED
  BY <1>3, <1>4, <1>5, <1>6, <1>7, <1>8, <1>9, <1>10 DEF AN!Next

\* What the order of the slices depends on.
LEMMA OrderFrame ==
  ASSUME HeardInv, Mine' => Mine,
         UNCHANGED << samples, busy, pending, slices, inflight, utt, req, got, pull_pos >>
  PROVE  InOrder'
<1>1. UNCHANGED << OnlyKick, Collected, Handed, Made, Brought >>
  BY DEF OnlyKick, Collected, Handed, Made, Brought
<1> QED
  BY <1>1 DEF HeardInv, InOrder

\* The parts of a request that is being heard, as numbers.
LEMMA Numbered ==
  ASSUME HeardInv, Mine
  PROVE  /\ Collected \in Nat /\ Handed \in Nat /\ Made \in 0 .. MaxSlice + 1
         /\ Made = Handed + Len(pending) /\ Len(pending) \in Nat
         /\ ~au_cancel /\ req # 0 /\ utt # 0
<1>1. Len(samples) \in Nat /\ Len(pending) \in Nat
  BY DEF HeardInv, AndroidTypes
<1>2. Collected \in Nat
  BY <1>1 DEF Collected
<1>3. Handed \in Nat
  BY <1>2 DEF Handed
<1>4. Made \in Nat /\ Brought <= MaxSlice + 1
  BY <1>1, <1>3 DEF Made, HeardInv, InOrder
<1>5. Made <= MaxSlice + 1
  BY <1>4, Bounds DEF Brought
<1>6. ~au_cancel /\ req # 0 /\ utt # 0
  BY DEF HeardInv, Settling, Told, Mine
<1> QED
  BY <1>1, <1>2, <1>3, <1>4, <1>5, <1>6, Bounds DEF Made

LEMMA StartOrders == HeardInv /\ AN!SpeakStart => InOrder'
<1> SUFFICES ASSUME HeardInv, AN!SpeakStart, Mine' PROVE InOrder'
  BY DEF InOrder
<1>0. AN!AtRest
  BY DEF AN!SpeakStart, HeardInv, Settling, Quiet, Mine
<1>1. /\ samples' = << >> /\ pull_pos' = 0 /\ slices' = 0 .. MaxSlice
      /\ pending' = << >> /\ busy' = AN!None /\ inflight' = AN!NoCall
  BY <1>0 DEF AN!SpeakStart, AN!AtRest, AN!pacer_idle, AN!Delivered, AN!pacerVars
<1>2. ~OnlyKick' /\ Collected' = 0 /\ Handed' = 0 /\ Len(samples') = 0 /\ Len(pending') = 0
  BY <1>1 DEF OnlyKick, Collected, Handed
<1>3. Made' = 0 /\ Brought' = 0
  BY <1>1, <1>2 DEF Made, Brought
<1>4. got'[req'] = << >>
  <2>1. req' = req + 1 /\ req < MaxRequest /\ UNCHANGED got /\ req \in 0 .. MaxRequest
    BY DEF AN!SpeakStart, HeardInv, AndroidTypes
  <2>2. req' \in 1 .. MaxRequest /\ req' > req
    BY <2>1, Bounds
  <2> QED
    BY <2>1, <2>2 DEF HeardInv, Told
<1> QED
  BY <1>1, <1>2, <1>3, <1>4, Bounds DEF InOrder

LEMMA CallOrders == HeardInv /\ AN!Call => InOrder'
<1>0. AN!Call => UNCHANGED << syn, pt_stop, req, early >>
  BY Zenon DEF AN!Call, AN!flagVars, AN!clientVars
<1> SUFFICES ASSUME HeardInv, AN!Call, Mine PROVE InOrder'
  BY <1>0 DEF InOrder, Mine, Playing
<1>1. PICK k : k = (CHOOSE i \in slices : \A j \in slices : i <= j)
  OBVIOUS
<1>2. /\ slices # {} /\ slices' = slices \ {k} /\ inflight = AN!NoCall /\ inflight' = << req, k >>
      /\ UNCHANGED << samples, busy, pending, utt, req, got, pull_pos >>
  BY <1>1 DEF AN!Call, AN!bufferVars, AN!pacerVars, AN!clientVars
<1>3. PICK m \in 0 .. MaxSlice + 1 : m = Made
  BY Numbered
<1>4. slices = m .. MaxSlice
  BY <1>2, <1>3 DEF HeardInv, InOrder, Brought
<1>5. k \in slices /\ k \in Nat /\ \A j \in slices : k <= j
  BY <1>1, <1>2, LeastSlice
<1>6. k = m /\ slices' = m + 1 .. MaxSlice /\ m <= MaxSlice
  BY <1>2, <1>3, <1>4, <1>5, Bounds
<1>7. UNCHANGED << OnlyKick, Collected, Handed, Made >>
  BY <1>2 DEF OnlyKick, Collected, Handed, Made
<1>8. inflight' # AN!NoCall
  BY <1>2, Numbered DEF AN!NoCall
<1>9. Brought' = m + 1 /\ m + 1 <= MaxSlice + 1
  BY <1>3, <1>6, <1>7, <1>8, Bounds DEF Brought
<1> QED
  BY <1>2, <1>3, <1>6, <1>7, <1>9 DEF HeardInv, InOrder

LEMMA ScheduleOrders == HeardInv /\ AN!Schedule => InOrder'
<1>0. AN!Schedule => UNCHANGED << syn, pt_stop, req, early >>
  BY Zenon DEF AN!Schedule, AN!flagVars, AN!clientVars
<1> SUFFICES ASSUME HeardInv, AN!Schedule, Mine PROVE InOrder'
  BY <1>0 DEF InOrder, Mine, Playing
<1>1. PICK m \in 0 .. MaxSlice + 1 : m = Made
  BY Numbered
<1>2. /\ inflight # AN!NoCall /\ inflight' = AN!NoCall
      /\ pending' = Append(pending, [tag |-> utt, frame |-> inflight])
      /\ UNCHANGED << samples, busy, slices, utt, req, got, pull_pos >>
  BY DEF AN!Schedule, AN!bufferVars, AN!clientVars
<1>3. /\ inflight = << req, m >> /\ Brought = m + 1
      /\ slices = m + 1 .. MaxSlice /\ m + 1 <= MaxSlice + 1
  BY <1>1, <1>2 DEF HeardInv, InOrder, Brought
<1>4. UNCHANGED << OnlyKick, Collected, Handed >>
  BY <1>2 DEF OnlyKick, Collected, Handed
<1>5. PICK h \in Nat : h = Handed /\ m = h + Len(pending)
  BY <1>1, Numbered
<1>6. PICK n \in Nat : n = Len(pending)
  BY Numbered
<1>7. /\ Len(pending') = n + 1 /\ \A i \in 1 .. n : pending'[i] = pending[i]
      /\ pending'[n + 1] = [tag |-> utt, frame |-> << req, m >>]
  BY <1>2, <1>3, <1>6 DEF HeardInv, AndroidTypes
<1>8. Made' = m + 1 /\ Brought' = m + 1
  BY <1>2, <1>4, <1>5, <1>6, <1>7 DEF Made, Brought
<1>9. ASSUME NEW i \in 1 .. n + 1
      PROVE  pending'[i] = [tag |-> utt, frame |-> << req, h + i - 1 >>]
  <2>1. CASE i = n + 1
    BY <1>5, <1>6, <1>7, <2>1
  <2>2. CASE i # n + 1
    <3>1. \A j \in 1 .. n : pending[j] = [tag |-> utt, frame |-> << req, h + j - 1 >>]
      BY <1>5, <1>6 DEF HeardInv, InOrder
    <3>2. i \in 1 .. n
      BY <2>2
    <3> QED
      BY <1>7, <3>1, <3>2
  <2> QED
    BY <2>1, <2>2
<1> QED
  BY <1>2, <1>3, <1>4, <1>5, <1>7, <1>8, <1>9 DEF HeardInv, InOrder

LEMMA TakeOrders == HeardInv /\ AN!Take => InOrder'
<1>0. AN!Take => UNCHANGED << syn, pt_stop, req, early >>
  BY Zenon DEF AN!Take, AN!flagVars, AN!engineVars, AN!clientVars
<1> SUFFICES ASSUME HeardInv, AN!Take, Mine PROVE InOrder'
  BY <1>0 DEF InOrder, Mine, Playing
<1>1. /\ busy = AN!None /\ pending # << >> /\ busy' = Head(pending) /\ pending' = Tail(pending)
      /\ UNCHANGED << samples, slices, inflight, utt, req, got, pull_pos >>
  BY DEF AN!Take, AN!bufferVars, AN!clientVars, AN!engineVars
<1>2. UNCHANGED << OnlyKick, Collected >>
  BY <1>1 DEF OnlyKick, Collected
<1>3. PICK h \in Nat : h = Handed /\ h = Collected
  BY <1>1, Numbered DEF Handed
<1>4. PICK n \in Nat : n + 1 = Len(pending)
  <2>1. Len(pending) \in Nat \ {0}
    BY <1>1 DEF HeardInv, AndroidTypes
  <2>2. Len(pending) - 1 \in Nat /\ (Len(pending) - 1) + 1 = Len(pending)
    BY <2>1
  <2> QED
    BY Zenon, <2>2
<1>5. /\ busy' = pending[1] /\ Len(pending') = n
      /\ \A i \in 1 .. n : pending'[i] = pending[i + 1]
  BY <1>1, <1>4 DEF HeardInv, AndroidTypes
<1>6. \A i \in 1 .. n + 1 : pending[i] = [tag |-> utt, frame |-> << req, h + i - 1 >>]
  BY <1>3, <1>4 DEF HeardInv, InOrder
<1>7. busy' = [tag |-> utt, frame |-> << req, h >>]
  <2>1. 1 \in 1 .. n + 1 /\ h + 1 - 1 = h
    BY <1>3, <1>4
  <2> QED
    BY <1>5, <1>6, <2>1
<1>8. busy' # AN!None
  <2>1. utt # 0
    BY Numbered
  <2> QED
    BY <1>7, <2>1 DEF AN!None
<1>9. Handed' = h + 1
  BY <1>2, <1>3, <1>8 DEF Handed
<1>10. UNCHANGED << Made, Brought >>
  <2>1. Made' = Made
    BY <1>3, <1>4, <1>5, <1>9 DEF Made
  <2> QED
    BY <1>1, <2>1 DEF Brought
<1>11. ASSUME NEW i \in 1 .. n
       PROVE  pending'[i] = [tag |-> utt, frame |-> << req, (h + 1) + i - 1 >>]
  <2>1. i + 1 \in 1 .. n + 1 /\ h + (i + 1) - 1 = (h + 1) + i - 1
    BY <1>3, <1>4
  <2> QED
    BY <1>5, <1>6, <2>1
<1> QED
  BY <1>1, <1>2, <1>3, <1>5, <1>7, <1>9, <1>10, <1>11 DEF HeardInv, InOrder

LEMMA CollectOrders == HeardInv /\ AN!Collect => InOrder'
<1>0. AN!Collect => UNCHANGED << syn, pt_stop, req, early >>
  BY Zenon DEF AN!Collect, AN!flagVars, AN!engineVars, AN!clientVars
<1> SUFFICES ASSUME HeardInv, AN!Collect, Mine PROVE InOrder'
  BY <1>0 DEF InOrder, Mine, Playing
<1>1. /\ busy # AN!None /\ busy' = AN!None
      /\ samples' = IF AN!Wanted THEN AN!Placed ELSE samples
      /\ UNCHANGED << pending, slices, inflight, utt, req, got, pull_pos >>
  BY DEF AN!Collect, AN!clientVars, AN!engineVars
<1>2. PICK c \in Nat : c = Collected /\ Handed = c + 1
  BY <1>1, Numbered DEF Handed
<1>3. busy = [tag |-> utt, frame |-> << req, c >>]
  BY <1>1, <1>2 DEF HeardInv, InOrder
<1>4. AN!Wanted
  BY <1>3, Numbered DEF AN!Wanted
<1>5. c <= MaxSlice
  <2>1. PICK n \in Nat : n = Len(pending)
    BY Numbered
  <2>2. c + 1 + n \in 0 .. MaxSlice + 1
    BY <1>2, <2>1, Numbered
  <2> QED
    BY <2>1, <2>2, Bounds
<1>6. samples' = AN!Placed /\ samples \in Seq(Frame) /\ << req, c >> \in Frame
  BY <1>1, <1>2, <1>4 DEF HeardInv, AndroidTypes, Frame
<1>7. /\ Collected' = c + 1
      /\ ~OnlyKick' => /\ Len(samples') <= MaxSlice
                       /\ \A i \in 1 .. Len(samples') : samples'[i] = << req, i >>
      /\ pull_pos <= Len(samples') /\ (OnlyKick' => pull_pos = 0)
  <2>1. CASE samples = << >>
    <3>1. c = 0 /\ samples' = << << req, 0 >> >>
      BY <1>2, <1>3, <1>6, <2>1 DEF AN!Placed, Collected
    <3>2. OnlyKick' /\ Len(samples') = 1 /\ pull_pos = 0
      <4>1. pull_pos \in Nat /\ pull_pos <= Len(samples) /\ Len(samples) = 0
        BY <2>1 DEF HeardInv, AndroidTypes, InOrder
      <4>2. OnlyKick'
        BY <1>1, <3>1 DEF OnlyKick
      <4> QED
        BY <3>1, <4>1, <4>2
    <3> QED
      BY <3>1, <3>2 DEF Collected
  <2>2. CASE OnlyKick
    <3>1. c = 1 /\ samples' = << << req, 1 >> >> /\ pull_pos = 0
      BY <1>2, <1>3, <1>6, <2>2 DEF AN!Placed, AN!Kick, Collected, OnlyKick, HeardInv, InOrder
    <3>2. ~OnlyKick' /\ Len(samples') = 1 /\ samples'[1] = << req, 1 >>
      BY <1>1, <3>1 DEF OnlyKick
    <3> QED
      BY <3>1, <3>2, Bounds DEF Collected
  <2>3. CASE samples # << >> /\ ~OnlyKick
    <3>1. PICK l \in Nat : l = Len(samples) /\ c = l + 1 /\ l # 0
      BY <1>2, <1>6, <2>3 DEF Collected
    <3>2. \A i \in 1 .. l : samples[i] = << req, i >>
      BY <2>3, <3>1 DEF HeardInv, InOrder
    <3>3. ~(Len(samples) = 1 /\ samples[1][2] = AN!Kick)
      BY <3>1, <3>2 DEF AN!Kick
    <3>4. samples' = samples \o << << req, c >> >>
      BY <1>3, <1>6, <3>3 DEF AN!Placed
    <3>5. /\ Len(samples') = l + 1 /\ samples'[l + 1] = << req, c >>
          /\ \A i \in 1 .. l : samples'[i] = samples[i]
      BY <1>6, <3>1, <3>4
    <3>6. \A i \in 1 .. l + 1 : samples'[i] = << req, i >>
      BY <3>1, <3>2, <3>5
    <3>7. samples' # << >> /\ ~OnlyKick'
      BY <3>1, <3>5 DEF OnlyKick
    <3>8. pull_pos \in Nat /\ pull_pos <= l
      BY <3>1 DEF HeardInv, AndroidTypes, InOrder
    <3> QED
      BY <1>1, <1>5, <3>1, <3>5, <3>6, <3>7, <3>8, Bounds DEF Collected
  <2> QED
    BY <2>1, <2>2, <2>3
<1>8. UNCHANGED << Handed, Made, Brought >>
  <2>1. Handed' = Handed
    BY <1>1, <1>2, <1>7 DEF Handed
  <2> QED
    BY <1>1, <2>1 DEF Made, Brought
<1> QED
  BY <1>1, <1>7, <1>8 DEF HeardInv, InOrder

LEMMA AnswerOrders == HeardInv /\ AN!Answer => InOrder'
<1> SUFFICES ASSUME HeardInv, AN!Answer, Mine' PROVE InOrder'
  BY DEF InOrder
<1>1. /\ syn = "looked" /\ Mine
      /\ UNCHANGED << samples, busy, pending, slices, inflight, utt, req >>
  BY DEF AN!Answer, Mine, Playing, AN!flagVars, AN!pacerVars, AN!engineVars
<1>2. UNCHANGED << OnlyKick, Collected, Handed, Made, Brought >>
  BY <1>1 DEF OnlyKick, Collected, Handed, Made, Brought
<1>3. CASE UNCHANGED << got, pull_pos >>
  BY <1>1, <1>2, <1>3 DEF HeardInv, InOrder
<1>4. CASE /\ got' = [got EXCEPT ![req] = @ \o AN!Given] /\ AN!Given # << >>
           /\ pull_pos' = pull_pos + Len(AN!Given)
  <2>1. PICK g \in Seq(Frame) : g = AN!Given
    BY <1>1, GivenIsNext
  <2>2. pull_pos + Len(g) <= Len(samples) /\ ~OnlyKick
    BY <1>1, <1>4, <2>1, GivenIsNext
  <2>3. /\ req \in 1 .. MaxRequest /\ got \in [1 .. MaxRequest -> Seq(Frame)]
        /\ Len(got[req]) = pull_pos
    BY <1>1, Bounds DEF HeardInv, AndroidTypes, Told, InOrder, Mine
  <2>4. Len(got'[req]) = pull_pos + Len(g)
    <3>1. got'[req] = got[req] \o g /\ got[req] \in Seq(Frame)
      BY <1>4, <2>1, <2>3
    <3>2. \A b, d \in Seq(Frame) : Len(b \o d) = Len(b) + Len(d)
      OBVIOUS
    <3> QED
      BY <2>1, <2>3, <3>1, <3>2
  <2> QED
    BY <1>1, <1>2, <1>4, <2>1, <2>2, <2>4 DEF HeardInv, InOrder
<1> QED
  BY <1>3, <1>4 DEF AN!Answer

LEMMA OrderKept == HeardInv /\ [AN!Next]_androidVars => InOrder'
<1> SUFFICES ASSUME HeardInv, [AN!Next]_androidVars PROVE InOrder'
  OBVIOUS
<1> USE DEF AN!flagVars, AN!signalVars, AN!bufferVars, AN!pacerVars, AN!engineVars, AN!clientVars
<1>1. CASE AN!EndCall \/ AN!Announce
  BY <1>1, OrderFrame DEF AN!EndCall, AN!Announce, Mine, Playing
<1>2. CASE AN!Pull \/ AN!Stop
  BY <1>2, OrderFrame DEF AN!Pull, AN!Stop, Mine, Playing
<1>3. CASE AN!Decline \/ AN!Reuse \/ AN!Finish \/ AN!Settle \/ AN!Retire
  <2>1. ~Mine'
    BY <1>3 DEF AN!Decline, AN!Reuse, AN!Finish, AN!Settle, AN!Retire, Mine, Playing
  <2> QED
    BY <2>1 DEF InOrder
<1>4. CASE UNCHANGED androidVars
  BY <1>4, OrderFrame DEF androidVars, Mine, Playing
<1> QED
  BY <1>1, <1>2, <1>3, <1>4, StartOrders, CallOrders, ScheduleOrders, TakeOrders, CollectOrders,
     AnswerOrders DEF AN!Next

\* What a client is given of a request whose end the engine announced behind its
\* last slice is that request's audio from its start, without the kick that starts
\* the player and without what a stopped request left behind, and one that nobody
\* stopped ends with all of it: for every number of requests and slices, however
\* much a pull asks for and is held back, and by either of the two ways to
\* announce an end (panthera_pull, panthera_finish, settle_cancelled_audio).
THEOREM ClientsHearTheirOwn == AN!Init /\ [][AN!Next]_androidVars => []AN!AndroidHeard
<1>1. HeardInv => AN!AndroidHeard
  <2> SUFFICES ASSUME HeardInv, NEW r \in (1 .. MaxRequest) \ early
               PROVE  /\ AN!IsPrefix(got[r], AN!Speech(r))
                      /\ over[r] = "all" => got[r] = AN!Speech(r)
    BY DEF AN!AndroidHeard, AN!Requests
  <2> DEFINE complete == AN!Speech(r)
  <2>1. complete = [k \in 1 .. MaxSlice |-> << r, k >>] /\ MaxSlice \in Nat
    BY Bounds DEF AN!Speech
  <2>2. /\ complete \in Seq(Frame) /\ Len(complete) = MaxSlice
        /\ \A k \in 1 .. MaxSlice : complete[k] = << r, k >>
    BY <2>1, Bounds DEF Frame
  <2>3. /\ got[r] \in Seq(Frame) /\ Len(got[r]) <= MaxSlice
        /\ \A i \in 1 .. Len(got[r]) : got[r][i] = << r, i >>
        /\ over[r] = "all" => Len(got[r]) = MaxSlice
    BY DEF HeardInv, AndroidTypes, Told
  <2> HIDE DEF complete
  <2>4. SubSeq(got[r], 1, Len(got[r])) = SubSeq(complete, 1, Len(got[r]))
    <3>1. PICK n \in Nat : n = Len(got[r]) /\ n <= MaxSlice
      BY <2>3
    <3>2. /\ SubSeq(got[r], 1, n) \in Seq(Frame) /\ Len(SubSeq(got[r], 1, n)) = n
          /\ \A i \in 1 .. n : SubSeq(got[r], 1, n)[i] = << r, i >>
      BY <2>3, <3>1
    <3>3. /\ SubSeq(complete, 1, n) \in Seq(Frame) /\ Len(SubSeq(complete, 1, n)) = n
          /\ \A i \in 1 .. n : SubSeq(complete, 1, n)[i] = << r, i >>
      BY <2>2, <3>1, Bounds
    <3> QED
      BY <3>1, <3>2, <3>3, SeqEqual
  <2>5. ASSUME over[r] = "all" PROVE got[r] = complete
    BY <2>2, <2>3, <2>5, SeqEqual
  <2> QED
    BY <2>2, <2>3, <2>4, <2>5 DEF AN!IsPrefix, complete
<1>2. HeardInv /\ [AN!Next]_androidVars => HeardInv'
  BY TypesKept, SettlingKept, OrderKept, ToldKept DEF HeardInv
<1> QED
  BY <1>1, <1>2, HeardInit, PTL

-----------------------------------------------------------------------------
(* The markers of a response (Markers).                                    *)

OutputCalls == [at : {"idle", "calling", "accepted"}, epoch : Nat, active : BOOLEAN,
                wake : BOOLEAN, n : Nat, for : 0 .. MaxMarked]
MarkItems   == [id : Nat, frame : Nat, before : Nat]
MarkerTypes ==
  /\ active \in BOOLEAN /\ failed \in BOOLEAN /\ misused \in BOOLEAN
  /\ epoch \in Nat /\ frontier \in Nat /\ consumed \in Nat /\ collected \in Nat /\ sent \in Nat
  /\ request \in 0 .. MaxMarked
  /\ items \in Seq(MarkItems) /\ response \in Seq(Nat)
  /\ calling \in [Outputs -> OutputCalls] /\ queued \in [0 .. MaxMarked -> Nat]
  /\ serving \in {"no", "yes", "broken", "ended"}

\* A request's output makes one call at a time that queues frames, and there is
\* room for them.
Tells(t) == calling[t].at # "idle" /\ ~calling[t].wake
OneOutput ==
  /\ \A t, u \in Outputs : Tells(t) /\ Tells(u) /\ calling[t].for = calling[u].for => t = u
  /\ \A t \in Outputs : calling[t].at # "idle" => calling[t].for \in 1 .. request
  /\ \A t \in Outputs : Tells(t) /\ calling[t].at = "calling" =>
       queued[calling[t].for] + calling[t].n <= MaxFrames
  /\ \A r \in 0 .. MaxMarked : queued[r] <= MaxFrames /\ (r > request => queued[r] = 0)

\* The calls of the request that is served are those that began in its epoch.
OwnEpoch ==
  /\ active <=> serving # "no"
  /\ active => request > 0
  /\ \A t \in Outputs : calling[t].at # "idle" =>
       /\ calling[t].epoch <= epoch
       /\ active => (calling[t].for = request <=> calling[t].active /\ calling[t].epoch = epoch)

\* The frontier is what the request queued, but for the call that has yet to
\* say so.
Unsaid(t) == Tells(t) /\ calling[t].for = request /\ calling[t].at = "accepted"
Followed ==
  /\ frontier <= MaxFrames
  /\ active => /\ \A t \in Outputs : Unsaid(t) => frontier + calling[t].n = queued[request]
               /\ (\A t \in Outputs : ~Unsaid(t)) => frontier = queued[request]

\* Markers are kept in the order of their frames, which are those queued before.
Ordered ==
  /\ \A i \in 1 .. Len(items) :
       /\ items[i].id = i /\ items[i].frame = items[i].before /\ items[i].frame <= frontier
       /\ i > consumed => sent <= items[i].frame
  /\ \A i, j \in 1 .. Len(items) : i <= j => items[i].frame <= items[j].frame
  /\ consumed <= Len(items) /\ sent <= frontier

\* A response s of n frames and c of the markers its.
FramesIn(s, k) == {j \in 1 .. k : s[j] <= MaxFrames}
InPlace(s, k, c, its) ==
  IF s[k] <= MaxFrames THEN s[k] = Cardinality(FramesIn(s, k - 1)) + 1
  ELSE /\ k - Cardinality(FramesIn(s, k - 1)) \in 1 .. c
       /\ s[k] = MaxFrames + (k - Cardinality(FramesIn(s, k - 1)))
       /\ its[k - Cardinality(FramesIn(s, k - 1))].before = Cardinality(FramesIn(s, k - 1))
Carries(s, n, c, its) ==
  /\ Len(s) = n + c /\ Cardinality(FramesIn(s, Len(s))) = n
  /\ \A k \in 1 .. Len(s) : InPlace(s, k, c, its)

\* What the request may still become.
Outcome ==
  /\ failed \/ serving = "broken" => misused
  /\ serving = "ended" => /\ sent = queued[request] /\ consumed = Len(items)
                          /\ \A t \in Outputs : calling[t].at # "idle" => calling[t].for # request

MarkerInv == /\ MarkerTypes /\ OneOutput /\ OwnEpoch /\ Followed /\ Ordered
             /\ Carries(response, sent, consumed, items) /\ Outcome

\* A response that goes on from s says the same of the places s has.
LEMMA PlacesKept ==
  ASSUME NEW s, NEW r, NEW c, NEW its, NEW l \in Nat,
         \A k \in 1 .. l : r[k] = s[k], NEW k \in 0 .. l
  PROVE  /\ FramesIn(r, k) = FramesIn(s, k)
         /\ IsFiniteSet(FramesIn(s, k)) /\ Cardinality(FramesIn(s, k)) \in Nat
         /\ k > 0 => (InPlace(s, k, c, its) <=> InPlace(r, k, c, its))
<1>1. ASSUME NEW i \in 0 .. l PROVE FramesIn(r, i) = FramesIn(s, i)
  <2>1. \A j \in 1 .. i : r[j] = s[j]
    OBVIOUS
  <2> QED
    BY ONLY <2>1, Zenon DEF FramesIn
<1>2. IsFiniteSet(1 .. k) /\ FramesIn(s, k) \subseteq 1 .. k
  <2>1. IsFiniteSet(1 .. k)
    BY FS_Interval
  <2> QED
    BY <2>1, Zenon DEF FramesIn
<1>3. IsFiniteSet(FramesIn(s, k)) /\ Cardinality(FramesIn(s, k)) \in Nat
  BY <1>2, FS_Subset, FS_CardinalityType
<1>4. ASSUME k > 0 PROVE InPlace(s, k, c, its) <=> InPlace(r, k, c, its)
  <2>1. k - 1 \in 0 .. l /\ k \in 1 .. l
    BY <1>4
  <2>2. FramesIn(r, k - 1) = FramesIn(s, k - 1) /\ r[k] = s[k]
    BY <1>1, <2>1
  <2> QED
    BY ONLY <2>2, Zenon DEF InPlace
<1> QED
  BY <1>1, <1>3, <1>4

\* The next m frames, from the place after l, keep a response in its order.
LaidOn(s, r, l, n, c, its, m) ==
  /\ MaxFrames \in Nat /\ n + m <= MaxFrames /\ l = n + c
  /\ Cardinality(FramesIn(s, l)) = n
  /\ \A k \in 1 .. l : InPlace(s, k, c, its) /\ r[k] = s[k]
  /\ \A k \in l + 1 .. l + m : r[k] = n + (k - l)
LEMMA FramesCount ==
  ASSUME NEW s, NEW r, NEW l \in Nat, NEW n \in Nat, NEW c \in Nat, NEW its, NEW m \in Nat,
         LaidOn(s, r, l, n, c, its, m)
  PROVE  /\ Cardinality(FramesIn(r, l + m)) = n + m
         /\ \A k \in 1 .. l + m : InPlace(r, k, c, its)
<1>0. /\ MaxFrames \in Nat /\ n + m <= MaxFrames /\ l = n + c
      /\ Cardinality(FramesIn(s, l)) = n
      /\ \A k \in 1 .. l : InPlace(s, k, c, its) /\ r[k] = s[k]
      /\ \A k \in l + 1 .. l + m : r[k] = n + (k - l)
  BY Zenon DEF LaidOn
<1> USE <1>0
<1>1. IsFiniteSet(FramesIn(s, l)) /\ FramesIn(r, l) = FramesIn(s, l)
  <2>1. l \in 0 .. l
    OBVIOUS
  <2>2. \A k \in 1 .. l : r[k] = s[k]
    BY <1>0, Zenon
  <2> QED
    BY ONLY l \in Nat, <2>1, <2>2, PlacesKept, Zenon
<1>2. ASSUME NEW k \in l .. l + m PROVE Cardinality(FramesIn(r, k)) = n + (k - l)
  <2>1. 1 .. k = (1 .. l) \cup (l + 1 .. k)
    OBVIOUS
  <2>2. \A j \in l + 1 .. k : r[j] <= MaxFrames
    OBVIOUS
  <2>3. FramesIn(r, k) = FramesIn(r, l) \cup (l + 1 .. k)
    BY ONLY <2>1, <2>2, Zenon DEF FramesIn
  <2>4. FramesIn(r, l) \cap (l + 1 .. k) = {}
    <3>1. FramesIn(r, l) \subseteq 1 .. l /\ (1 .. l) \cap (l + 1 .. k) = {}
      <4>1. FramesIn(r, l) \subseteq 1 .. l
        BY Zenon DEF FramesIn
      <4> QED
        BY ONLY <4>1, l \in Nat
    <3> QED
      BY ONLY <3>1, Zenon
  <2>5. IsFiniteSet(l + 1 .. k) /\ Cardinality(l + 1 .. k) = k - l
    <3>1. l + 1 \in Int /\ k \in Int
      OBVIOUS
    <3>2. /\ IsFiniteSet(l + 1 .. k)
          /\ Cardinality(l + 1 .. k) = IF l + 1 > k THEN 0 ELSE k - (l + 1) + 1
      BY ONLY <3>1, FS_Interval, Zenon
    <3> QED
      BY <3>1, <3>2
  <2>6. Cardinality({}) = 0
    BY FS_EmptySet
  <2>7. Cardinality(FramesIn(r, l) \cup (l + 1 .. k))
          = Cardinality(FramesIn(r, l)) + Cardinality(l + 1 .. k)
            - Cardinality(FramesIn(r, l) \cap (l + 1 .. k))
    BY ONLY <1>1, <2>5, FS_Union, Zenon
  <2>8. Cardinality(FramesIn(r, k)) = n + (k - l) - 0
    BY ONLY <1>1, <2>3, <2>4, <2>5, <2>6, <2>7, Cardinality(FramesIn(s, l)) = n, Zenon
  <2> QED
    BY <2>8
<1>3. ASSUME NEW k \in 1 .. l + m PROVE InPlace(r, k, c, its)
  <2>1. CASE k <= l
    <3>1. InPlace(s, k, c, its) /\ k \in 0 .. l /\ k > 0
      BY <2>1
    <3> QED
      BY <3>1, PlacesKept
  <2>2. CASE k > l
    <3>1. k \in l + 1 .. l + m /\ k - 1 \in l .. l + m
      BY <2>2
    <3>2. r[k] = n + (k - l) /\ Cardinality(FramesIn(r, k - 1)) = n + (k - 1 - l)
      BY <1>2, <3>1
    <3>3. r[k] <= MaxFrames /\ r[k] = Cardinality(FramesIn(r, k - 1)) + 1
      BY ONLY <3>1, <3>2, m \in Nat, l \in Nat, n \in Nat, MaxFrames \in Nat, n + m <= MaxFrames
    <3> QED
      BY ONLY <3>3, Zenon DEF InPlace
  <2> QED
    BY <2>1, <2>2
<1> QED
  BY <1>2, <1>3

LEMMA FramesLaid ==
  ASSUME NEW s \in Seq(Nat), NEW n \in Nat, NEW c \in Nat, NEW its, NEW m \in Nat,
         MaxFrames \in Nat, n + m <= MaxFrames, Carries(s, n, c, its)
  PROVE  /\ s \o [k \in 1 .. m |-> n + k] \in Seq(Nat)
         /\ Carries(s \o [k \in 1 .. m |-> n + k], n + m, c, its)
<1> DEFINE e == [k \in 1 .. m |-> n + k]
           r == s \o e
<1>1. e \in Seq(Nat) /\ Len(e) = m /\ \A k \in 1 .. m : e[k] = n + k
  OBVIOUS
<1>2. /\ r \in Seq(Nat) /\ Len(r) = Len(s) + m
      /\ \A k \in 1 .. Len(s) : r[k] = s[k]
      /\ \A k \in Len(s) + 1 .. Len(s) + m : r[k] = n + (k - Len(s))
  BY <1>1
<1> HIDE DEF e, r
<1>3. /\ Len(s) \in Nat /\ Len(s) = n + c /\ Cardinality(FramesIn(s, Len(s))) = n
      /\ \A k \in 1 .. Len(s) : InPlace(s, k, c, its)
  BY DEF Carries
<1>4. /\ Cardinality(FramesIn(r, Len(s) + m)) = n + m
      /\ \A k \in 1 .. Len(s) + m : InPlace(r, k, c, its)
  <2> PICK l \in Nat : l = Len(s)
    BY <1>3
  <2>1. LaidOn(s, r, l, n, c, its, m)
    BY ONLY <1>2, <1>3, l = Len(s), MaxFrames \in Nat, n + m <= MaxFrames, Zenon DEF LaidOn
  <2>2. /\ Cardinality(FramesIn(r, l + m)) = n + m
        /\ \A k \in 1 .. l + m : InPlace(r, k, c, its)
    BY ONLY <2>1, l \in Nat, n \in Nat, c \in Nat, m \in Nat, FramesCount, Zenon
  <2> QED
    BY ONLY <2>2, l = Len(s), Zenon
<1>5. Len(r) = n + m + c
  BY <1>2, <1>3
<1>6. Carries(r, n + m, c, its)
  BY ONLY <1>2, <1>4, <1>5, Zenon DEF Carries
<1> QED
  BY <1>2, <1>6 DEF r, e

\* The next marker, after the frames queued when it was notified.
LEMMA MarkLaid ==
  ASSUME NEW s \in Seq(Nat), NEW n \in Nat, NEW c \in Nat, NEW its,
         MaxFrames \in Nat, Carries(s, n, c, its), its[c + 1].before = n
  PROVE  /\ s \o << MaxFrames + (c + 1) >> \in Seq(Nat)
         /\ Carries(s \o << MaxFrames + (c + 1) >>, n, c + 1, its)
<1> DEFINE r == s \o << MaxFrames + (c + 1) >>
<1>1. /\ r \in Seq(Nat) /\ Len(r) = Len(s) + 1 /\ Len(s) \in Nat
      /\ \A k \in 1 .. Len(s) : r[k] = s[k]
      /\ r[Len(s) + 1] = MaxFrames + (c + 1)
  OBVIOUS
<1> HIDE DEF r
<1> PICK l \in Nat : l = Len(s)
  BY <1>1
<1>2. /\ l = n + c /\ Cardinality(FramesIn(s, l)) = n
      /\ \A k \in 1 .. l : InPlace(s, k, c, its)
  BY ONLY l = Len(s), Carries(s, n, c, its), Zenon DEF Carries
<1>3. \A k \in 1 .. l : r[k] = s[k]
  BY <1>1
<1>4. FramesIn(r, l) = FramesIn(s, l)
  <2>1. l \in 0 .. l
    OBVIOUS
  <2> QED
    BY ONLY <1>3, <2>1, l \in Nat, PlacesKept
<1>5. FramesIn(r, l + 1) = FramesIn(r, l)
  <2>1. 1 .. l + 1 = (1 .. l) \cup {l + 1} /\ ~(r[l + 1] <= MaxFrames)
    BY <1>1
  <2> QED
    BY ONLY <2>1, Zenon DEF FramesIn
<1>6. ASSUME NEW k \in 1 .. l PROVE InPlace(r, k, c + 1, its)
  <2>1. k \in 0 .. l /\ k > 0 /\ InPlace(s, k, c, its)
    BY <1>2
  <2>2. InPlace(r, k, c, its)
    BY ONLY <1>3, <2>1, l \in Nat, PlacesKept
  <2>3. \A i \in 1 .. c : i \in 1 .. c + 1
    OBVIOUS
  <2> QED
    BY ONLY <2>2, <2>3, Zenon DEF InPlace
<1>7. InPlace(r, l + 1, c + 1, its)
  <2>1. (l + 1) - 1 = l /\ (l + 1) - n = c + 1 /\ c + 1 \in 1 .. c + 1 /\ ~(r[l + 1] <= MaxFrames)
    BY <1>1, <1>2
  <2>2. r[l + 1] = MaxFrames + (c + 1)
    BY <1>1
  <2>3. Cardinality(FramesIn(r, (l + 1) - 1)) = n
    BY ONLY <1>2, <1>4, <2>1, Zenon
  <2>4. (l + 1) - Cardinality(FramesIn(r, (l + 1) - 1)) = c + 1
    BY ONLY <2>1, <2>3, Zenon
  <2> QED
    <3>1. its[(l + 1) - Cardinality(FramesIn(r, (l + 1) - 1))].before = Cardinality(FramesIn(r, (l + 1) - 1))
      BY ONLY <2>3, <2>4, its[c + 1].before = n, Zenon
    <3>2. /\ (l + 1) - Cardinality(FramesIn(r, (l + 1) - 1)) \in 1 .. c + 1
          /\ r[l + 1] = MaxFrames + ((l + 1) - Cardinality(FramesIn(r, (l + 1) - 1)))
          /\ ~(r[l + 1] <= MaxFrames)
      BY ONLY <2>1, <2>2, <2>4, Zenon
    <3> QED
      BY ONLY <3>1, <3>2, Zenon DEF InPlace
<1>8. \A k \in 1 .. l + 1 : InPlace(r, k, c + 1, its)
  BY <1>6, <1>7
<1>9. Len(r) = l + 1 /\ l + 1 = n + (c + 1)
  BY <1>1, <1>2
<1>10. Carries(r, n, c + 1, its)
  BY ONLY <1>2, <1>4, <1>5, <1>8, <1>9, Zenon DEF Carries
<1> QED
  BY <1>1, <1>10 DEF r

\* A marker more to come changes nothing of what was sent.
LEMMA ItemsGrow ==
  ASSUME NEW s \in Seq(Nat), NEW n \in Nat, NEW c \in Nat, NEW its \in Seq(MarkItems),
         NEW x, c <= Len(its), Carries(s, n, c, its)
  PROVE  Carries(s, n, c, Append(its, x))
<1>1. \A i \in 1 .. c : Append(its, x)[i] = its[i]
  OBVIOUS
<1> HIDE DEF MarkItems
<1>2. ASSUME NEW k \in 1 .. Len(s) PROVE InPlace(s, k, c, Append(its, x))
  <2>1. InPlace(s, k, c, its)
    BY Zenon DEF Carries
  <2> QED
    BY ONLY <1>1, <2>1, Zenon DEF InPlace
<1> QED
  BY <1>2, Zenon DEF Carries

\* Conjuncts that look at nothing a step changes stay.
LEMMA MarkersSame ==
  /\ UNCHANGED << calling, queued, request >> => (OneOutput => OneOutput')
  /\ UNCHANGED << calling, active, epoch, request, serving >> => (OwnEpoch => OwnEpoch')
  /\ UNCHANGED << calling, active, frontier, queued, request >> => (Followed => Followed')
  /\ UNCHANGED << items, frontier, sent, consumed >> => (Ordered => Ordered')
  /\ UNCHANGED << response, sent, consumed, items >> =>
       (Carries(response, sent, consumed, items) => Carries(response, sent, consumed, items)')
<1>1. UNCHANGED << calling, queued, request >> => (OneOutput => OneOutput')
  BY DEF OneOutput, Tells
<1>2. UNCHANGED << calling, active, epoch, request, serving >> => (OwnEpoch => OwnEpoch')
  BY DEF OwnEpoch
<1>3. UNCHANGED << calling, active, frontier, queued, request >> => (Followed => Followed')
  BY DEF Followed, Unsaid, Tells
<1>4. UNCHANGED << items, frontier, sent, consumed >> => (Ordered => Ordered')
  BY Zenon DEF Ordered
<1>5. UNCHANGED << response, sent, consumed, items >> =>
       (Carries(response, sent, consumed, items) => Carries(response, sent, consumed, items)')
  BY Zenon DEF Carries, InPlace, FramesIn
<1> QED
  BY <1>1, <1>2, <1>3, <1>4, <1>5

LEMMA MarkerBounds ==
  /\ MaxMarked \in Nat /\ MaxFrames \in Nat /\ Lookbehind \in Nat
  /\ MK!Idle \in OutputCalls /\ MK!Idle.at = "idle"
<1>1. MaxMarked \in Nat /\ MaxFrames \in Nat
  BY MarkersAssumption
<1>2. Lookbehind \in Nat
  BY AndroidAssumption
<1> QED
  BY <1>1, <1>2 DEF MK!Idle, OutputCalls

LEMMA MarkerInit == MK!Init => MarkerInv
<1> SUFFICES ASSUME MK!Init PROVE MarkerInv
  OBVIOUS
<1> USE MarkerBounds DEF MK!Init
<1>1. MarkerTypes
  <2>1. /\ items \in Seq(MarkItems) /\ response \in Seq(Nat)
        /\ request \in 0 .. MaxMarked /\ queued \in [0 .. MaxMarked -> Nat]
    OBVIOUS
  <2>2. calling \in [Outputs -> OutputCalls]
    BY Zenon
  <2> QED
    BY <2>1, <2>2 DEF MarkerTypes
<1>2. OneOutput /\ OwnEpoch /\ Followed /\ Ordered /\ Outcome
  BY DEF OneOutput, OwnEpoch, Followed, Unsaid, Tells, Ordered, Outcome
<1>3. Carries(response, sent, consumed, items)
  <2>1. FramesIn(response, Len(response)) = {}
    BY DEF FramesIn
  <2> QED
    BY <2>1, FS_EmptySet DEF Carries
<1> QED
  BY <1>1, <1>2, <1>3 DEF MarkerInv

LEMMA MarkerBegin == MarkerInv /\ MK!Begin => MarkerInv'
<1> SUFFICES ASSUME MarkerInv, MK!Begin PROVE MarkerInv'
  OBVIOUS
<1> USE MarkerBounds DEF MK!Begin, MarkerInv
<1>1. MarkerTypes'
  <2>1. /\ items' \in Seq(MarkItems) /\ response' \in Seq(Nat)
        /\ request' \in 0 .. MaxMarked /\ epoch' \in Nat
    BY DEF MarkerTypes
  <2> QED
    BY <2>1 DEF MarkerTypes
<1>2. OneOutput'
  BY DEF OneOutput, Tells, MarkerTypes
<1>3. \A t \in Outputs : calling[t].at # "idle" => calling[t].epoch < epoch' /\ calling[t].for < request'
  <2>1. ASSUME NEW t \in Outputs, calling[t].at # "idle"
        PROVE  /\ calling[t].epoch \in Nat /\ calling[t].epoch <= epoch
               /\ calling[t].for \in 1 .. request
    BY <2>1 DEF OneOutput, OwnEpoch, MarkerTypes, OutputCalls
  <2>2. request' = request + 1 /\ epoch' = epoch + 1 /\ request \in Nat /\ epoch \in Nat
    BY DEF MarkerTypes
  <2> QED
    BY ONLY <2>1, <2>2
<1>4. OwnEpoch'
  <2>1. \A t \in Outputs : calling[t].at # "idle" =>
          /\ calling[t].epoch <= epoch' /\ calling[t].epoch # epoch'
          /\ calling[t].for # request'
    <3>1. \A t \in Outputs : calling[t].epoch \in Nat /\ calling[t].for \in Nat
      BY DEF MarkerTypes, OutputCalls
    <3>2. epoch' \in Nat /\ request' \in Nat
      BY DEF MarkerTypes
    <3> QED
      BY ONLY <1>3, <3>1, <3>2
  <2>2. active' = TRUE /\ serving' # "no" /\ request' > 0 /\ calling' = calling
    BY DEF MarkerTypes
  <2> QED
    BY ONLY <2>1, <2>2, Zenon DEF OwnEpoch
<1>5. Followed'
  BY <1>3 DEF Followed, OneOutput, Unsaid, Tells, MarkerTypes, OutputCalls
<1>6. Ordered' /\ Outcome'
  BY DEF Ordered, Outcome
<1>7. Carries(response, sent, consumed, items)'
  <2>1. response' = <<>> /\ 1 .. Len(<<>>) = {}
    OBVIOUS
  <2>2. FramesIn(<<>>, Len(<<>>)) = {}
    BY ONLY <2>1, Zenon DEF FramesIn
  <2>3. Carries(<<>>, 0, 0, <<>>)
    <3>1. Cardinality(FramesIn(<<>>, Len(<<>>))) = 0
      BY ONLY <2>2, FS_EmptySet, Zenon
    <3>2. Len(<<>>) = 0 + 0
      OBVIOUS
    <3> QED
      BY ONLY <2>1, <3>1, <3>2, Zenon DEF Carries
  <2>4. sent' = 0 /\ consumed' = 0 /\ items' = <<>>
    OBVIOUS
  <2> QED
    BY ONLY <2>1, <2>3, <2>4, Zenon DEF Carries, InPlace, FramesIn
<1> QED
  BY <1>1, <1>2, <1>4, <1>5, <1>6, <1>7

LEMMA MarkerQueue ==
  ASSUME MarkerInv, NEW t \in Outputs, NEW n \in {1, 2}, NEW wake \in BOOLEAN,
         MK!QueueSamples(t, n, wake)
  PROVE  MarkerInv'
<1> USE MarkerBounds DEF MK!QueueSamples, MarkerInv
<1>1. /\ calling[t].at = "idle" /\ request \in 1 .. MaxMarked /\ serving # "ended"
      /\ wake \/ ((\A u \in Outputs : calling[u].at = "idle" \/ calling[u].for # request
                                      \/ calling[u].wake)
                  /\ queued[request] + n <= MaxFrames)
  BY DEF MK!Idle, MK!Speaks, MK!Between, MarkerTypes
<1>2. /\ \A u \in Outputs : u # t => calling'[u] = calling[u]
      /\ calling'[t] = [at |-> "calling", epoch |-> epoch, active |-> active,
                        wake |-> wake, n |-> n, for |-> request]
      /\ calling' \in [Outputs -> OutputCalls]
  BY DEF MarkerTypes, OutputCalls
<1>3. MarkerTypes'
  BY <1>2 DEF MarkerTypes
<1>4. OneOutput'
  <2>1. \A u \in Outputs : u # t => (Tells(u)' <=> Tells(u))
    BY <1>2 DEF Tells
  <2>2. /\ calling'[t].at = "calling" /\ calling'[t].wake = wake
        /\ calling'[t].n = n /\ calling'[t].for = request
    BY ONLY <1>2
  <2>3. Tells(t)' <=> ~wake
    BY ONLY <2>2, Zenon DEF Tells
  <2>4. ASSUME NEW u \in Outputs, Tells(u)', Tells(t)', calling'[u].for = request
        PROVE  u = t
    <3>1. SUFFICES ASSUME u # t PROVE FALSE
      OBVIOUS
    <3>2. Tells(u) /\ calling[u].for = request
      BY <1>2, <2>1, <2>4, <3>1
    <3> QED
      BY <1>1, <2>3, <2>4, <3>2, Zenon DEF Tells
  <2>5. \A u, v \in Outputs :
          Tells(u)' /\ Tells(v)' /\ calling'[u].for = calling'[v].for => u = v
    BY <1>2, <2>1, <2>2, <2>4 DEF OneOutput
  <2>6. \A u \in Outputs : calling'[u].at # "idle" => calling'[u].for \in 1 .. request
    <3>1. request \in 1 .. request
      BY <1>1
    <3>2. \A u \in Outputs : calling[u].at # "idle" => calling[u].for \in 1 .. request
      BY DEF OneOutput
    <3> QED
      BY ONLY <1>2, <2>2, <3>1, <3>2, Zenon
  <2>7. \A u \in Outputs : Tells(u)' /\ calling'[u].at = "calling" =>
          queued[calling'[u].for] + calling'[u].n <= MaxFrames
    <3>1. \A u \in Outputs : Tells(u) /\ calling[u].at = "calling" =>
            queued[calling[u].for] + calling[u].n <= MaxFrames
      BY DEF OneOutput
    <3> QED
      BY ONLY <1>1, <1>2, <2>1, <2>2, <2>3, <3>1, Zenon
  <2> QED
    BY <2>5, <2>6, <2>7 DEF OneOutput
<1>5. OwnEpoch'
  BY <1>1, <1>2 DEF OwnEpoch, MarkerTypes
<1>6. Followed'
  <2>1. \A u \in Outputs : Unsaid(u)' <=> Unsaid(u)
    BY <1>1, <1>2 DEF Unsaid, Tells
  <2>2. \A u \in Outputs : Unsaid(u) => calling'[u] = calling[u]
    BY <1>1, <1>2 DEF Unsaid, Tells
  <2> QED
    BY <2>1, <2>2 DEF Followed
<1>7. Ordered' /\ Carries(response, sent, consumed, items)'
  BY MarkersSame
<1>8. Outcome'
  BY <1>1 DEF Outcome, MarkerTypes
<1> QED
  BY <1>3, <1>4, <1>5, <1>6, <1>7, <1>8

LEMMA MarkerAccepted ==
  ASSUME MarkerInv, NEW t \in Outputs, MK!Accepted(t)
  PROVE  MarkerInv'
<1> USE DEF MK!Accepted, MarkerInv
<1>1. /\ calling[t].at = "calling" /\ calling[t] \in OutputCalls
      /\ calling[t].for \in 1 .. request
      /\ \A u \in Outputs : u # t => calling'[u] = calling[u]
      /\ calling'[t] = [calling[t] EXCEPT !.at = "accepted"]
      /\ calling' \in [Outputs -> OutputCalls]
  BY DEF MarkerTypes, OneOutput, OutputCalls
<1>2. /\ calling'[t].at = "accepted" /\ calling'[t].epoch = calling[t].epoch
      /\ calling'[t].active = calling[t].active /\ calling'[t].wake = calling[t].wake
      /\ calling'[t].n = calling[t].n /\ calling'[t].for = calling[t].for
  BY ONLY <1>1 DEF OutputCalls
<1>3. /\ queued' \in [0 .. MaxMarked -> Nat]
      /\ \A r \in 0 .. MaxMarked : r # calling[t].for => queued'[r] = queued[r]
      /\ calling[t].wake => queued'[calling[t].for] = queued[calling[t].for]
      /\ ~calling[t].wake => queued'[calling[t].for] = queued[calling[t].for] + calling[t].n
      /\ calling[t].for \in 0 .. MaxMarked
  BY <1>1, SMTT(30) DEF MarkerTypes, OutputCalls
<1>4. MarkerTypes'
  BY <1>1, <1>3 DEF MarkerTypes
<1>5. \A u \in Outputs : Tells(u)' <=> Tells(u)
  BY <1>1, <1>2 DEF Tells
<1>6. OneOutput'
  <2>1. \A u, v \in Outputs :
          Tells(u)' /\ Tells(v)' /\ calling'[u].for = calling'[v].for => u = v
    BY <1>1, <1>2, <1>5 DEF OneOutput
  <2>2. \A u \in Outputs : calling'[u].at # "idle" => calling'[u].for \in 1 .. request
    BY <1>1, <1>2 DEF OneOutput
  <2>3. ASSUME NEW u \in Outputs, Tells(u)', calling'[u].at = "calling"
        PROVE  queued'[calling'[u].for] + calling'[u].n <= MaxFrames
    <3>1. u # t /\ calling'[u] = calling[u] /\ Tells(u) /\ calling[u].at = "calling"
      BY <1>1, <1>2, <1>5, <2>3
    <3>2. Tells(t) => calling[u].for # calling[t].for
      BY <3>1 DEF OneOutput
    <3>3. queued'[calling[u].for] = queued[calling[u].for]
      BY <1>1, <1>3, <3>1, <3>2 DEF Tells, MarkerTypes, OutputCalls
    <3> QED
      BY <3>1, <3>3 DEF OneOutput
  <2>4. ASSUME NEW r \in 0 .. MaxMarked
        PROVE  queued'[r] <= MaxFrames /\ (r > request => queued'[r] = 0)
    <3>1. queued[r] <= MaxFrames /\ (r > request => queued[r] = 0)
      BY DEF OneOutput
    <3>2. CASE r # calling[t].for \/ calling[t].wake
      BY <1>3, <3>1, <3>2
    <3>3. CASE r = calling[t].for /\ ~calling[t].wake
      <4>1. queued[r] + calling[t].n <= MaxFrames
        BY <1>1, <3>3 DEF OneOutput, Tells
      <4>2. request \in Nat /\ r \in 1 .. request
        BY <1>1, <3>3 DEF MarkerTypes
      <4> QED
        BY ONLY <1>3, <3>3, <4>1, <4>2
    <3> QED
      BY <3>2, <3>3
  <2> QED
    BY <2>1, <2>2, <2>3, <2>4 DEF OneOutput
<1>7. OwnEpoch'
  BY <1>1, <1>2 DEF OwnEpoch
<1>8. Followed'
  <2>1. CASE Tells(t) /\ calling[t].for = request
    <3>1. \A u \in Outputs : ~Unsaid(u)
      BY <1>1, <2>1 DEF Unsaid, OneOutput
    <3>2. \A u \in Outputs : Unsaid(u)' <=> u = t
      BY <1>1, <1>2, <1>5, <2>1, <3>1 DEF Unsaid
    <3>3. queued'[request] = queued[request] + calling[t].n
      BY <1>3, <2>1 DEF Tells
    <3> QED
      BY <1>2, <3>1, <3>2, <3>3 DEF Followed
  <2>2. CASE ~(Tells(t) /\ calling[t].for = request)
    <3>1. \A u \in Outputs : (Unsaid(u)' <=> Unsaid(u)) /\ (Unsaid(u) => calling'[u] = calling[u])
      BY <1>1, <1>2, <1>5, <2>2 DEF Unsaid
    <3>2. queued'[request] = queued[request]
      BY <1>1, <1>3, <2>2 DEF Tells, MarkerTypes
    <3> QED
      BY <3>1, <3>2 DEF Followed
  <2> QED
    BY <2>1, <2>2
<1>9. Ordered' /\ Carries(response, sent, consumed, items)'
  BY MarkersSame
<1>10. Outcome'
  BY <1>1, <1>2, <1>3 DEF Outcome, MarkerTypes
<1> QED
  BY <1>4, <1>6, <1>7, <1>8, <1>9, <1>10

LEMMA MarkerCommit ==
  ASSUME MarkerInv, NEW t \in Outputs, MK!Commit(t)
  PROVE  MarkerInv'
<1> USE DEF MK!Commit, MarkerInv
<1>1. /\ calling[t].at = "accepted" /\ calling[t] \in OutputCalls
      /\ \A u \in Outputs : u # t => calling'[u] = calling[u]
      /\ calling'[t].at = "idle" /\ calling' \in [Outputs -> OutputCalls]
  BY MarkerBounds DEF MarkerTypes
<1>2. MK!Counts(t) <=> active /\ Unsaid(t)
  BY <1>1 DEF MK!Counts, Unsaid, Tells, OwnEpoch
<1>3. frontier' \in Nat /\ frontier <= frontier'
  BY <1>1 DEF MarkerTypes, OutputCalls
<1>4. MarkerTypes'
  BY <1>1, <1>3 DEF MarkerTypes
<1>5. OneOutput' /\ OwnEpoch'
  BY <1>1 DEF OneOutput, OwnEpoch, Tells
<1>6. Followed'
  <2>1. \A u \in Outputs : Unsaid(u)' <=> u # t /\ Unsaid(u)
    BY <1>1 DEF Unsaid, Tells
  <2>2. \A u \in Outputs : Unsaid(u) /\ Unsaid(t) => u = t
    BY DEF Unsaid, OneOutput
  <2>3. request \in 0 .. MaxMarked /\ queued[request] <= MaxFrames
    BY DEF OneOutput, MarkerTypes
  <2>4. CASE MK!Counts(t)
    <3>1. frontier' = queued[request] /\ \A u \in Outputs : ~Unsaid(u)'
      BY <1>2, <2>1, <2>2, <2>4 DEF Followed
    <3> QED
      BY <2>3, <3>1 DEF Followed
  <2>5. CASE ~MK!Counts(t)
    <3>1. frontier' = frontier
      BY <2>5
    <3>2. active => \A u \in Outputs : Unsaid(u)' <=> Unsaid(u)
      BY <1>2, <2>1, <2>5
    <3>3. \A u \in Outputs : Unsaid(u)' => calling'[u] = calling[u]
      BY <1>1, <2>1
    <3> QED
      BY <3>1, <3>2, <3>3 DEF Followed
  <2> QED
    BY <2>4, <2>5
<1>7. Ordered'
  <2>1. \A i \in 1 .. Len(items) : items[i].frame \in Nat
    <3>1. items \in Seq(MarkItems)
      BY DEF MarkerTypes
    <3>2. \A i \in 1 .. Len(items) : items[i] \in MarkItems
      BY ONLY <3>1
    <3> QED
      BY ONLY <3>2 DEF MarkItems
  <2> QED
    BY <1>3, <2>1 DEF Ordered, MarkerTypes
<1>8. Carries(response, sent, consumed, items)'
  BY MarkersSame
<1>9. Outcome'
  BY <1>1 DEF Outcome
<1> QED
  BY <1>4, <1>5, <1>6, <1>7, <1>8, <1>9

LEMMA MarkerNotify ==
  ASSUME MarkerInv, NEW t \in Outputs, NEW late \in BOOLEAN, MK!NotifySync(t, late)
  PROVE  MarkerInv'
<1> USE DEF MarkerInv
<1>1. /\ active /\ serving # "ended" /\ MK!Between
      /\ UNCHANGED << active, epoch, frontier, consumed, calling, queued, collected, sent,
                      response, request, serving >>
      /\ request \in 0 .. MaxMarked /\ queued[request] \in Nat /\ frontier \in Nat
      /\ items \in Seq(MarkItems) /\ consumed \in Nat /\ sent \in Nat
  BY DEF MK!NotifySync, MK!Speaks, MarkerTypes
<1>2. OneOutput' /\ OwnEpoch' /\ Followed'
  <2>1. /\ calling' = calling /\ queued' = queued /\ request' = request /\ active' = active
        /\ epoch' = epoch /\ serving' = serving /\ frontier' = frontier
    BY <1>1
  <2> QED
    BY ONLY <2>1, OneOutput, OwnEpoch, Followed, MarkersSame
<1>3. frontier = queued[request]
  <2>1. \A u \in Outputs : ~Unsaid(u)
    BY <1>1 DEF MK!Between, Unsaid, Tells
  <2> QED
    BY <1>1, <2>1 DEF Followed
<1>4. CASE items' = items /\ failed' = TRUE /\ misused' = TRUE
  <2>1. MarkerTypes'
    BY <1>1, <1>4 DEF MarkerTypes
  <2>2. Ordered' /\ Carries(response, sent, consumed, items)'
    BY <1>1, <1>4, MarkersSame
  <2>3. Outcome'
    BY <1>1, <1>4 DEF Outcome
  <2> QED
    BY <1>2, <2>1, <2>2, <2>3
<1>5. CASE /\ items' = Append(items, [id |-> Len(items) + 1, frame |-> frontier,
                                      before |-> queued[request]])
           /\ UNCHANGED << failed, misused >>
  <2> DEFINE x == [id |-> Len(items) + 1, frame |-> frontier, before |-> queued[request]]
  <2>1. /\ x \in MarkItems /\ x.id = Len(items) + 1 /\ x.frame = frontier /\ x.before = frontier
    BY <1>1, <1>3 DEF MarkItems
  <2>2. items' = Append(items, x)
    BY <1>5
  <2> HIDE DEF x
  <2>3. /\ items' \in Seq(MarkItems) /\ Len(items') = Len(items) + 1 /\ Len(items) \in Nat
        /\ \A i \in 1 .. Len(items) : items'[i] = items[i]
        /\ items'[Len(items) + 1] = x
    BY <1>1, <2>1, <2>2
  <2>4. MarkerTypes'
    BY <1>1, <1>5, <2>3 DEF MarkerTypes
  <2>5. Ordered'
    <3>1. \A i \in 1 .. Len(items') :
            /\ items'[i].id = i /\ items'[i].frame = items'[i].before /\ items'[i].frame <= frontier
            /\ i > consumed => sent <= items'[i].frame
      BY <1>1, <2>1, <2>3 DEF Ordered
    <3>2. \A i, j \in 1 .. Len(items') : i <= j => items'[i].frame <= items'[j].frame
      BY <1>1, <2>1, <2>3, <3>1 DEF Ordered
    <3> QED
      BY <1>1, <2>3, <3>1, <3>2 DEF Ordered
  <2>6. Carries(response, sent, consumed, items)'
    <3>1. response \in Seq(Nat) /\ consumed <= Len(items)
      BY DEF MarkerTypes, Ordered
    <3>2. Carries(response, sent, consumed, Append(items, x))
      BY ONLY <1>1, <3>1, Carries(response, sent, consumed, items), ItemsGrow
    <3>3. response' = response /\ sent' = sent /\ consumed' = consumed
      BY <1>1
    <3> QED
      BY ONLY <2>2, <3>2, <3>3, Zenon DEF Carries, InPlace, FramesIn
  <2>7. Outcome'
    BY <1>1, <1>5 DEF Outcome
  <2> QED
    BY <1>2, <2>4, <2>5, <2>6, <2>7
<1> QED
  BY <1>4, <1>5 DEF MK!NotifySync

LEMMA MarkerCollect == MarkerInv /\ MK!Collect => MarkerInv'
<1> SUFFICES ASSUME MarkerInv, MK!Collect PROVE MarkerInv'
  OBVIOUS
<1> USE DEF MarkerInv, MK!Collect
<1>1. MarkerTypes'
  BY DEF MarkerTypes
<1>2. OneOutput' /\ OwnEpoch' /\ Followed' /\ Ordered' /\ Carries(response, sent, consumed, items)'
  BY MarkersSame
<1>3. Outcome'
  BY DEF Outcome
<1> QED
  BY <1>1, <1>2, <1>3

\* What stream_chunk adds, up to a frame the output has said it queued.
LEMMA ChunkSent ==
  ASSUME MarkerInv, NEW upto \in Nat, upto <= frontier,
         NEW n \in Nat, n = IF upto > sent THEN upto ELSE sent
  PROVE  /\ response \o MK!Frames(upto) \in Seq(Nat)
         /\ Carries(response \o MK!Frames(upto), n, consumed, items)
<1>1. /\ sent \in Nat /\ frontier \in Nat /\ consumed \in Nat /\ response \in Seq(Nat)
      /\ frontier <= MaxFrames /\ sent <= frontier /\ MaxFrames \in Nat
      /\ Carries(response, sent, consumed, items)
  BY MarkerBounds DEF MarkerInv, MarkerTypes, Followed, Ordered
<1> DEFINE m == IF upto > sent THEN upto - sent ELSE 0
<1>0. m \in Nat
  BY <1>1
<1>2. sent + m = n /\ sent + m <= MaxFrames
  BY <1>1
<1>3. MK!Frames(upto) = [k \in 1 .. m |-> sent + k]
  BY Zenon DEF MK!Frames
<1> HIDE DEF m
<1>4. /\ response \o [k \in 1 .. m |-> sent + k] \in Seq(Nat)
      /\ Carries(response \o [k \in 1 .. m |-> sent + k], sent + m, consumed, items)
  BY ONLY <1>0, <1>1, <1>2, FramesLaid
<1> QED
  BY ONLY <1>2, <1>3, <1>4, Zenon

LEMMA MarkerTurn ==
  ASSUME MarkerInv, serving = "yes", NEW settled \in Nat, MK!Turn(settled)
  PROVE  MarkerInv'
<1> USE DEF MarkerInv
<1>1. /\ sent \in Nat /\ frontier \in Nat /\ consumed \in Nat /\ response \in Seq(Nat)
      /\ items \in Seq(MarkItems) /\ Len(items) \in Nat /\ sent <= frontier /\ consumed <= Len(items)
      /\ \A i \in 1 .. Len(items) : items[i].frame \in Nat
  <2>1. \A i \in 1 .. Len(items) : items[i] \in MarkItems
    BY DEF MarkerTypes
  <2> QED
    BY <2>1 DEF MarkerTypes, MarkItems, Ordered
<1>2. /\ active' = active /\ failed' = failed /\ epoch' = epoch /\ frontier' = frontier
      /\ items' = items /\ calling' = calling /\ queued' = queued /\ collected' = collected
      /\ request' = request /\ misused' = misused
  BY DEF MK!Turn
<1>3. OneOutput' /\ Followed'
  BY ONLY <1>2, OneOutput, Followed, MarkersSame
<1>4. MK!Upto(settled) \in Nat /\ MK!Upto(settled) <= frontier
  BY <1>1 DEF MK!Upto
<1>5. MK!Due(settled) => /\ consumed + 1 \in 1 .. Len(items) /\ items[consumed + 1].frame <= frontier
                         /\ items[consumed + 1].frame \in Nat /\ sent <= items[consumed + 1].frame
                         /\ items[consumed + 1].id = consumed + 1
                         /\ items[consumed + 1].before = items[consumed + 1].frame
  BY <1>1, <1>4 DEF MK!Due, Ordered
<1>6. CASE failed \/ (MK!Due(settled) /\ items[consumed + 1].frame < sent)
  <2>1. serving' = "broken" /\ UNCHANGED << consumed, sent, response >>
    BY <1>6 DEF MK!Turn
  <2>2. failed
    BY <1>1, <1>5, <1>6
  <2>3. MarkerTypes' /\ OwnEpoch' /\ Outcome'
    BY <1>2, <2>1, <2>2 DEF MarkerTypes, OwnEpoch, Outcome
  <2>4. Ordered' /\ Carries(response, sent, consumed, items)'
    BY <1>2, <2>1, MarkersSame
  <2> QED
    BY <1>3, <2>3, <2>4
<1>7. CASE ~(failed \/ (MK!Due(settled) /\ items[consumed + 1].frame < sent))
  <2> DEFINE upto == IF MK!Due(settled) THEN items[consumed + 1].frame ELSE MK!Upto(settled)
  <2>1. /\ sent' = IF upto > sent THEN upto ELSE sent
        /\ response' = response \o MK!Frames(upto)
                       \o (IF MK!Due(settled) THEN << MK!Mark(items[consumed + 1]) >> ELSE <<>>)
        /\ consumed' = IF MK!Due(settled) THEN consumed + 1 ELSE consumed
        /\ serving' = serving
    BY <1>7, Zenon DEF MK!Turn
  <2>2. upto \in Nat /\ upto <= frontier
    BY <1>4, <1>5
  <2>3. sent' \in Nat /\ sent' <= frontier /\ sent <= sent' /\ upto <= sent'
    BY <1>1, <2>1, <2>2
  <2>4. OwnEpoch'
    BY ONLY <1>2, <2>1, OwnEpoch, MarkersSame
  <2>5. /\ response \o MK!Frames(upto) \in Seq(Nat)
        /\ Carries(response \o MK!Frames(upto), sent', consumed, items)
    BY ONLY MarkerInv, <2>1, <2>2, <2>3, ChunkSent
  <2>6. Outcome'
    BY <1>2, <2>1 DEF Outcome
  <2>7. CASE MK!Due(settled)
    <3>1. upto = items[consumed + 1].frame /\ sent' = upto /\ consumed' = consumed + 1
      BY <1>1, <1>5, <2>1, <2>7
    <3>2. response' = (response \o MK!Frames(upto)) \o << MaxFrames + (consumed + 1) >>
      BY <1>5, <2>1, <2>7, Zenon DEF MK!Mark
    <3>3. response' \in Seq(Nat) /\ Carries(response', sent', consumed + 1, items)
      <4>1. items[consumed + 1].before = sent'
        BY <1>5, <2>7, <3>1
      <4>2. MaxFrames \in Nat
        BY MarkerBounds
      <4> QED
        BY ONLY <1>1, <2>3, <2>5, <3>2, <4>1, <4>2, MarkLaid
    <3>4. Carries(response, sent, consumed, items)'
      BY ONLY <1>2, <3>1, <3>3, Zenon DEF Carries, InPlace, FramesIn
    <3>5. MarkerTypes'
      BY <1>1, <1>2, <2>1, <2>3, <3>1, <3>3, SMTT(30) DEF MarkerTypes
    <3>6. Ordered'
      BY <1>1, <1>2, <1>5, <2>3, <2>7, <3>1 DEF Ordered
    <3> QED
      BY <1>3, <2>4, <2>6, <3>4, <3>5, <3>6
  <2>8. CASE ~MK!Due(settled)
    <3>1. upto = MK!Upto(settled) /\ consumed' = consumed
      BY <2>1, <2>8
    <3>2. response' = response \o MK!Frames(upto)
      BY <2>1, <2>5, <2>8, SMTT(30)
    <3>3. Carries(response, sent, consumed, items)'
      BY ONLY <1>2, <2>5, <3>1, <3>2, Zenon DEF Carries, InPlace, FramesIn
    <3>4. MarkerTypes'
      BY <1>1, <1>2, <2>1, <2>3, <2>5, <3>1, <3>2 DEF MarkerTypes
    <3>5. \A i \in 1 .. Len(items) : i > consumed => sent' <= items[i].frame
      <4>1. ASSUME NEW i \in 1 .. Len(items), i > consumed PROVE sent' <= items[i].frame
        <5>1. consumed + 1 \in 1 .. Len(items) /\ consumed + 1 <= i
          BY <1>1, <4>1
        <5>2. items[consumed + 1].frame <= items[i].frame /\ sent <= items[i].frame
          BY <4>1, <5>1 DEF Ordered
        <5>3. upto <= items[consumed + 1].frame
          BY <1>1, <1>4, <2>8, <3>1, <5>1 DEF MK!Due
        <5> QED
          BY <1>1, <2>1, <2>2, <5>1, <5>2, <5>3, SMTT(30)
      <4> QED
        BY <4>1
    <3>6. Ordered'
      BY <1>2, <2>3, <3>1, <3>5 DEF Ordered
    <3> QED
      BY <1>3, <2>4, <2>6, <3>3, <3>4, <3>6
  <2> QED
    BY <2>7, <2>8
<1> QED
  BY <1>6, <1>7

LEMMA MarkerFinish == MarkerInv /\ MK!Finish => MarkerInv'
<1> SUFFICES ASSUME MarkerInv, MK!Finish PROVE MarkerInv'
  OBVIOUS
<1> USE DEF MarkerInv
<1>1. /\ active' = active /\ failed' = failed /\ epoch' = epoch /\ frontier' = frontier
      /\ items' = items /\ consumed' = consumed /\ calling' = calling /\ queued' = queued
      /\ collected' = collected /\ request' = request /\ misused' = misused
      /\ serving = "yes" /\ active /\ ~failed /\ collected = queued[request]
      /\ \A t \in Outputs : calling[t].at = "idle" \/ calling[t].for # request
  BY DEF MK!Finish, MK!Done, OwnEpoch
<1>2. /\ sent \in Nat /\ frontier \in Nat /\ consumed \in Nat /\ Len(items) \in Nat
      /\ sent <= frontier /\ consumed <= Len(items)
      /\ \A i \in 1 .. Len(items) : items[i].frame <= frontier
  BY SMTT(30) DEF MarkerTypes, Ordered
<1>3. frontier = queued[request] /\ MK!Upto(collected) = frontier
  <2>1. \A t \in Outputs : ~Unsaid(t)
    BY <1>1 DEF Unsaid, Tells
  <2>2. frontier = queued[request]
    BY <1>1, <2>1 DEF Followed
  <2> QED
    BY <1>1, <1>2, <2>2 DEF MK!Upto
<1>4. consumed = Len(items)
  BY <1>2, <1>3 DEF MK!Finish, MK!Due
<1>5. sent' = frontier /\ serving' = "ended" /\ response' = response \o MK!Frames(frontier)
  BY <1>1, <1>2, <1>3, <1>4 DEF MK!Finish
<1>6. /\ response \o MK!Frames(frontier) \in Seq(Nat)
      /\ Carries(response \o MK!Frames(frontier), frontier, consumed, items)
  <2>1. frontier = IF frontier > sent THEN frontier ELSE sent
    BY <1>2
  <2>2. frontier <= frontier
    BY <1>2
  <2> QED
    BY ONLY MarkerInv, <1>2, <2>1, <2>2, ChunkSent
<1>7. Carries(response, sent, consumed, items)'
  BY ONLY <1>1, <1>5, <1>6, Zenon DEF Carries, InPlace, FramesIn
<1>8. MarkerTypes'
  BY <1>1, <1>2, <1>5, <1>6 DEF MarkerTypes
<1>9. OneOutput' /\ Followed'
  BY ONLY <1>1, OneOutput, Followed, MarkersSame
<1>10. OwnEpoch'
  BY <1>1, <1>5 DEF OwnEpoch
<1>11. Ordered'
  BY <1>1, <1>2, <1>4, <1>5 DEF Ordered
<1>12. Outcome'
  BY <1>1, <1>3, <1>4, <1>5 DEF Outcome
<1> QED
  BY <1>7, <1>8, <1>9, <1>10, <1>11, <1>12

LEMMA MarkerEnd == MarkerInv /\ MK!End => MarkerInv'
<1> SUFFICES ASSUME MarkerInv, MK!End PROVE MarkerInv'
  OBVIOUS
<1> USE DEF MarkerInv, MK!End
<1>1. MarkerTypes'
  <2>1. epoch \in Nat /\ epoch' = epoch + 1
    BY DEF MarkerTypes
  <2>2. epoch' \in Nat
    BY ONLY <2>1
  <2>3. active' \in BOOLEAN /\ serving' \in {"no", "yes", "broken", "ended"}
    BY Zenon
  <2> QED
    BY <2>2, <2>3, Zenon DEF MarkerTypes
<1>2. OneOutput' /\ Ordered' /\ Carries(response, sent, consumed, items)'
  BY MarkersSame
<1>3. OwnEpoch'
  <2>1. \A t \in Outputs : calling[t].epoch \in Nat
    BY DEF MarkerTypes, OutputCalls
  <2> QED
    BY <2>1 DEF OwnEpoch, MarkerTypes
<1>4. Followed' /\ Outcome'
  BY DEF Followed, Outcome
<1> QED
  BY <1>1, <1>2, <1>3, <1>4

LEMMA MarkerStep == MarkerInv /\ [MK!Next]_markerVars => MarkerInv'
<1> SUFFICES ASSUME MarkerInv, [MK!Next]_markerVars PROVE MarkerInv'
  OBVIOUS
<1>1. CASE MK!Send
  <2>1. collected \in Nat /\ MK!Settled \subseteq Nat
    BY MarkerBounds DEF MarkerInv, MarkerTypes, MK!Settled
  <2>2. serving = "yes" /\ \E settled \in Nat : MK!Turn(settled)
    BY <1>1, <2>1, Zenon DEF MK!Send
  <2> QED
    BY <2>2, MarkerTurn
<1>2. CASE MK!Begin \/ MK!Collect \/ MK!Finish \/ MK!End
  BY <1>2, MarkerBegin, MarkerCollect, MarkerFinish, MarkerEnd
<1>3. ASSUME NEW t \in Outputs,
             \/ \E n \in {1, 2}, wake \in BOOLEAN : MK!QueueSamples(t, n, wake)
             \/ MK!Accepted(t) \/ MK!Commit(t)
             \/ \E late \in BOOLEAN : MK!NotifySync(t, late)
      PROVE  MarkerInv'
  BY <1>3, MarkerQueue, MarkerAccepted, MarkerCommit, MarkerNotify
<1>4. CASE UNCHANGED markerVars
  <2>1. MarkerTypes' /\ Outcome'
    BY <1>4 DEF markerVars, MarkerInv, MarkerTypes, Outcome
  <2> QED
    BY <1>4, <2>1, MarkersSame DEF markerVars, MarkerInv
<1> QED
  BY <1>1, <1>2, <1>3, <1>4 DEF MK!Next

\* Each marker goes out after exactly the frames its request had queued when the
\* engine notified, the frames in order, and a request the engine did nothing
\* wrong in ends with all of both, for every number of requests, threads and
\* markers and every lookbehind (tiger_host_markers.c, stream_markers).
THEOREM MarkersStayPlaced == MK!Init /\ [][MK!Next]_markerVars => []MK!MarkersPlaced
<1>1. MarkerInv => MK!MarkersPlaced
  <2> SUFFICES ASSUME MarkerInv PROVE MK!MarkersPlaced
    OBVIOUS
  <2>1. \A k \in 1 .. Len(response) : MK!Before(k) = Cardinality(FramesIn(response, k - 1))
    BY Zenon DEF MK!Before, FramesIn, MK!Cardinality, Cardinality
  <2>2. \A k \in 1 .. Len(response) : InPlace(response, k, consumed, items)
    BY Zenon DEF MarkerInv, Carries
  <2>3. DOMAIN response = 1 .. Len(response)
    BY DEF MarkerInv, MarkerTypes
  <2>4. \A k \in DOMAIN response :
          IF response[k] <= MaxFrames THEN response[k] = MK!Before(k) + 1
          ELSE LET m == k - MK!Before(k)
               IN  response[k] = MaxFrames + m /\ items[m].before = MK!Before(k)
    BY ONLY <2>1, <2>2, <2>3, Zenon DEF InPlace
  <2>5. (serving = "broken" => misused)
        /\ (serving = "ended" => sent = queued[request] /\ consumed = Len(items))
    BY DEF MarkerInv, Outcome
  <2>6. Len(response) = sent + consumed
    BY Zenon DEF MarkerInv, Carries
  <2> QED
    BY ONLY <2>4, <2>5, <2>6, Zenon DEF MK!MarkersPlaced
<1> QED
  BY <1>1, MarkerInit, MarkerStep, PTL
=============================================================================
