------------------------------- MODULE Regex -------------------------------
(***************************************************************************)
(* The regular expressions of the host (src/src/tiger_host_regex.c): the   *)
(* recursive-descent reader of POSIX extended patterns and the bounded     *)
(* backtracking matcher that runs them.  A pattern is a sequence of        *)
(* characters of Ascii, in which the name of a class between "[:" and ":]" *)
(* is one token; a program is the tree the reader builds.                  *)
(***************************************************************************)
EXTENDS Integers, Sequences, SequencesExt, FiniteSets

CONSTANTS MaxSteps,              \* RE_MAX_STEPS, the budget of one match
          BoundBits              \* the bits of the unsigned that a bound is read into

Ascii == << "\n", " ", "$", "(", ")", "*", "+", ",", "-", ".", "0", "1", "2",
            "3", ":", "=", "?", "A", "B", "[", "\\", "]", "^", "a", "b", "{",
            "|", "}" >>
Char  == ToSet(Ascii)
Code(c) == CHOOSE i \in DOMAIN Ascii : Ascii[i] = c
Digits  == {"0", "1", "2", "3"}
Uppers  == {"A", "B"}
Lowers  == {"a", "b"}
Blanks  == {" ", "\n"}

Inf == 2 ^ BoundBits - 1         \* RE_INF, a repetition without an upper bound
End == ""                        \* the terminating NUL

At(s, i) == IF i \in DOMAIN s THEN s[i] ELSE End

(* ------------------------------- Reading ------------------------------- *)

Read(tree, i) == [bad |-> FALSE, tree |-> tree, at |-> i]
Bad           == [bad |-> TRUE,  tree |-> End,  at |-> 0]

Leaf(k)       == [kind |-> k]
Lit(c)        == [kind |-> "char", ch |-> c]
SetOf(S)      == [kind |-> "set", set |-> S]
Cat(a, b)     == [kind |-> "cat", a |-> a, b |-> b]
Alt(a, b)     == [kind |-> "alt", a |-> a, b |-> b]
Rep(a, lo, hi) == [kind |-> "rep", a |-> a, lo |-> lo, hi |-> hi]

Classes == [ alpha |-> Uppers \union Lowers,  digit |-> Digits,
             alnum |-> Uppers \union Lowers \union Digits,
             upper |-> Uppers,  lower |-> Lowers,
             space |-> Blanks,  blank |-> {" "},  cntrl |-> {"\n"},
             punct |-> Char \ (Uppers \union Lowers \union Digits \union Blanks),
             print |-> Char \ {"\n"},  graph |-> Char \ Blanks,
             xdigit |-> Digits \union Uppers \union Lowers ]

SameLetter == { {"A", "a"}, {"B", "b"} }
BothCases(S) == S \union UNION { pair \in SameLetter : pair \cap S # {} }

Closed(set, negate, flags) ==
  LET folded == IF "icase" \in flags THEN BothCases(set) ELSE set
  IN  IF ~negate THEN folded
      ELSE (Char \ folded) \ (IF "newline" \in flags THEN {"\n"} ELSE {})

(* The member of a bracket at position i: a class, a range unless the "-"  *)
(* is the last, or the character itself.                                   *)
Member(p, i) ==
  LET c == At(p, i)
      kind == At(p, i + 1)
      name == At(p, i + 2)
  IN  IF c = "[" /\ kind \in {":", ".", "="}
        THEN IF \/ <<At(p, i + 3), At(p, i + 4)>> # <<kind, "]">>
                \/ kind = ":" /\ name \notin DOMAIN Classes
             THEN Bad
             ELSE Read(IF kind = ":" THEN Classes[name] ELSE {name}, i + 5)
      ELSE IF kind = "-" /\ name \notin {End, "]"}
        THEN IF Code(name) < Code(c) THEN Bad
             ELSE Read({ d \in Char : Code(d) \in Code(c) .. Code(name) }, i + 3)
      ELSE Read({c}, i + 1)

(* The members from position i on; a "]" is a literal only as the first.   *)
RECURSIVE Members(_, _, _, _, _, _)
Joined(p, m, work, negate, flags) ==
  IF m.bad THEN Bad ELSE Members(p, m.at, FALSE, work \union m.tree, negate, flags)
Members(p, i, first, work, negate, flags) ==
  CASE At(p, i) = End -> Bad
    [] At(p, i) = "]" /\ ~first -> Read(SetOf(Closed(work, negate, flags)), i + 1)
    [] OTHER -> Joined(p, Member(p, i), work, negate, flags)

DigitsAt(p, i)  == CHOOSE n \in 0 .. Len(p) :
                     /\ \A j \in i .. i + n - 1 : At(p, j) \in Digits
                     /\ At(p, i + n) \notin Digits
Value(p, i)     == FoldLeft(LAMBDA n, d : (10 * n + Code(d) - Code("0")) % 2 ^ BoundBits, 0,
                            SubSeq(p, i, i + DigitsAt(p, i) - 1))

(* "{n}", "{n,}" or "{n,m}" at position i; anything else, and m < n too, is *)
(* not an interval (length 0), and the brace an ordinary character.         *)
Interval(p, i) ==
  LET lo     == Value(p, i + 1)
      comma  == i + 1 + DigitsAt(p, i + 1)
      openTo == At(p, comma) = "," /\ At(p, comma + 1) = "}"
      hi     == IF openTo THEN Inf ELSE IF At(p, comma) = "," THEN Value(p, comma + 1) ELSE lo
      close  == IF At(p, comma) = "," THEN comma + 1 + DigitsAt(p, comma + 1) ELSE comma
  IN  IF /\ At(p, i) = "{"
         /\ DigitsAt(p, i + 1) > 0
         /\ At(p, comma) = "," => openTo \/ DigitsAt(p, comma + 1) > 0
         /\ At(p, close) = "}"
         /\ hi = Inf \/ hi >= lo
      THEN [lo |-> lo, hi |-> hi, len |-> close - i + 1]
      ELSE [lo |-> 0, hi |-> 0, len |-> 0]

Repeats(p, i) ==
  CASE At(p, i) = "*" -> [lo |-> 0, hi |-> Inf, len |-> 1]
    [] At(p, i) = "+" -> [lo |-> 1, hi |-> Inf, len |-> 1]
    [] At(p, i) = "?" -> [lo |-> 0, hi |-> 1, len |-> 1]
    [] OTHER          -> Interval(p, i)

RECURSIVE Postfix(_, _), ParseAlt(_, _, _), CatFrom(_, _, _, _), AltFrom(_, _, _)
Repeated(r, q) == Read(Rep(r.tree, q.lo, q.hi), r.at + q.len)
Postfix(p, r) ==
  IF r.bad \/ Repeats(p, r.at).len = 0 THEN r
  ELSE Postfix(p, Repeated(r, Repeats(p, r.at)))

Group(p, r) == IF r.bad \/ At(p, r.at) # ")" THEN Bad ELSE Read(r.tree, r.at + 1)
ParseAtom(p, i, flags) ==
  LET c == At(p, i)
      negate == At(p, i + 1) = "^"
  IN  CASE c = "("  -> Group(p, ParseAlt(p, i + 1, flags))
        [] c = "["  -> Members(p, IF negate THEN i + 2 ELSE i + 1, TRUE, {}, negate, flags)
        [] c = "."  -> Read(Leaf("any"), i + 1)
        [] c = "^"  -> Read(Leaf("bol"), i + 1)
        [] c = "$"  -> Read(Leaf("eol"), i + 1)
        [] c = "\\" -> IF At(p, i + 1) = End THEN Bad ELSE Read(Lit(At(p, i + 1)), i + 2)
        [] c \in {")", End, "*", "+", "?"} -> Bad
        [] OTHER    -> Read(Lit(c), i + 1)

(* The concatenation from i on, after the part acc already read.           *)
CatOn(p, acc, r, flags) ==
  IF r.bad THEN Bad
  ELSE CatFrom(p, r.at, << IF acc = <<>> THEN r.tree ELSE Cat(acc[1], r.tree) >>, flags)
CatFrom(p, i, acc, flags) ==
  IF At(p, i) \notin {End, "|", ")"}
    THEN CatOn(p, acc, Postfix(p, ParseAtom(p, i, flags)), flags)
  ELSE Read(IF acc = <<>> THEN Leaf("empty") ELSE acc[1], i)

AltOn(p, r, b, flags) ==
  IF b.bad THEN Bad ELSE AltFrom(p, Read(Alt(r.tree, b.tree), b.at), flags)
AltFrom(p, r, flags) ==
  IF r.bad \/ At(p, r.at) # "|" THEN r
  ELSE AltOn(p, r, CatFrom(p, r.at + 1, <<>>, flags), flags)

ParseAlt(p, i, flags) == AltFrom(p, CatFrom(p, i, <<>>, flags), flags)

(* The program of p, or the refusal: a basic expression, or one not read   *)
(* to its end.                                                             *)
Compile(p, flags) ==
  LET r == ParseAlt(p, 1, flags)
  IN  IF "extended" \notin flags \/ r.bad \/ r.at # Len(p) + 1 THEN Bad ELSE r

(* ------------------------------ Matching ------------------------------- *)

(* A frame of what is left to do: run a node, or go on with a repetition   *)
(* that finished its count-th iteration, begun at mark.                    *)
Then(t)              == [rep |-> FALSE, tree |-> t, count |-> 0, mark |-> 0]
Going(t, count, mark) == [rep |-> TRUE, tree |-> t, count |-> count, mark |-> mark]

Answer(hit, n) == [hit |-> hit, steps |-> n]
Spent(n)       == n > MaxSteps

Same(c, d, flags) == c = d \/ ("icase" \in flags /\ {c, d} \in SameLetter)
LineStart(s, i, flags) == i = 1 \/ ("newline" \in flags /\ At(s, i - 1) = "\n")
LineEnd(s, i, flags)   == At(s, i) = End \/ ("newline" \in flags /\ At(s, i) = "\n")

Consumes(t, s, i, flags) ==
  /\ At(s, i) # End
  /\ CASE t.kind = "char" -> Same(At(s, i), t.ch, flags)
       [] t.kind = "any"  -> ~("newline" \in flags /\ At(s, i) = "\n")
       [] t.kind = "set"  -> At(s, i) \in t.set
       [] OTHER           -> FALSE

StandsAt(t, s, i, flags) ==
  \/ t.kind = "empty"
  \/ /\ t.kind = "bol"
     /\ LineStart(s, i, flags)
  \/ /\ t.kind = "eol"
     /\ LineEnd(s, i, flags)

(* re_rep goes on at once after an iteration that consumed nothing.        *)
Idle(count, mark, i) == count > 0 /\ i = mark
(* The upper bound, one iteration late. *)
OneMoreOf(t, count)  == t.hi = Inf \/ count <= t.hi
MoreOf(t, count)     == t.hi = Inf \/ count < t.hi

RECURSIVE Run(_, _, _, _, _, _), Resume(_, _, _, _, _), Repeat(_, _, _, _, _, _, _, _)
Repeat(t, count, mark, i, k, s, flags, n) ==
  LET body == Run(t.a, i, <<Going(t, count + 1, i)>> \o k, s, flags, n)
      tried == IF MoreOf(t, count) THEN body ELSE Answer(FALSE, n)
  IN  IF Spent(n) THEN Answer(FALSE, n)
      ELSE IF Idle(count, mark, i) THEN Resume(k, i, s, flags, n)
      ELSE IF tried.hit \/ Spent(tried.steps) \/ count < t.lo THEN tried
      ELSE Resume(k, i, s, flags, tried.steps)

Resume(k, i, s, flags, n) ==
  IF Spent(n) THEN Answer(FALSE, n)
  ELSE IF k = <<>> THEN Answer(TRUE, n)
  ELSE IF k[1].rep THEN Repeat(k[1].tree, k[1].count, k[1].mark, i, Tail(k), s, flags, n)
  ELSE Run(k[1].tree, i, Tail(k), s, flags, n)

Run(t, i, k, s, flags, before) ==
  LET n == before + 1
      first == Run(t.a, i, k, s, flags, n)
  IN  IF Spent(before) \/ Spent(n) THEN Answer(FALSE, n)
      ELSE CASE t.kind = "cat" -> Run(t.a, i, <<Then(t.b)>> \o k, s, flags, n)
             [] t.kind = "alt" -> IF first.hit THEN first
                                  ELSE Run(t.b, i, k, s, flags, first.steps)
             [] t.kind = "rep" -> Repeat(t, 0, 0, i, k, s, flags, n)
             [] Consumes(t, s, i, flags) -> Resume(k, i + 1, s, flags, n)
             [] StandsAt(t, s, i, flags) -> Resume(k, i, s, flags, n)
             [] OTHER -> Answer(FALSE, n)

(* Every start position, the end of the subject among them, until one      *)
(* matches or the budget is spent.                                         *)
RECURSIVE SearchFrom(_, _, _, _, _)
SearchFrom(t, i, s, flags, n) ==
  LET r == Run(t, i, <<>>, s, flags, n)
  IN  IF r.hit \/ Spent(r.steps) \/ i > Len(s) THEN r
      ELSE SearchFrom(t, i + 1, s, flags, r.steps)

Search(t, s, flags) == SearchFrom(t, 1, s, flags, 0)
=============================================================================
