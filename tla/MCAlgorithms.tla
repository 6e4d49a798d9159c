---------------------------- MODULE MCAlgorithms ----------------------------
(***************************************************************************)
(* The pure algorithms of the host against reference definitions, over     *)
(* bounded inputs.  A behaviour picks a subject for one of them and then   *)
(* an input to it.                                                         *)
(***************************************************************************)
EXTENDS LoaderImages, FiniteSetsExt

CONSTANTS MaxSteps,              \* the step budget of one regular expression match
          BoundBits,             \* the bits its bounds are read into
          MaxWord,               \* the longest subject matched
          MaxText,               \* the longest text with numbers in it
          LongDigits, MaxParts, MaxClean, MaxDigits, MaxCommand,
          MaxWords,              \* the words a call of the engine hands on
          MaxFormat,             \* conversions in a format
          MaxParams, Byte, MaxOut

VARIABLES part, input,
          image, slide, mem, loaded, resolved, missing, ran, dead

RX == INSTANCE Regex
NM == INSTANCE Numbers
LD == INSTANCE Loader
AX == INSTANCE Accel
GC == INSTANCE GuestCalls
PF == INSTANCE Preferences
loaderVars == << image, slide, mem, loaded, resolved, missing, ran, dead >>
vars == << part, input, loaderVars >>

(* ------------------------- Regular expressions ------------------------- *)

Words(S, n) == UNION { [1 .. m -> S] : m \in 0 .. n }

Smallest(a, b) == IF a < b THEN a ELSE b

(* The leaves: a literal, any character, both anchors, and bracket         *)
(* expressions with the set each stands for, written out by hand.          *)
BracketText == [ a |-> <<"[", "a", "]">>,
                 notA |-> <<"[", "^", "a", "]">>,
                 digit |-> <<"[", "[", ":", "digit", ":", "]", "]">>,
                 close |-> <<"[", "]", "a", "-", "b", "]">>,
                 dash |-> <<"[", "a", "-", "]">> ]
BracketSet  == [ a |-> {"a"}, notA |-> RX!Char \ {"a"}, digit |-> RX!Digits,
                 close |-> {"]", "a", "b"}, dash |-> {"a", "-"},
                 run |-> RX!Digits \union {","} ]

Bracket(n) == [kind |-> "bracket", name |-> n]
Leaves == {RX!Lit("a"), RX!Leaf("any"), RX!Leaf("bol"), RX!Leaf("eol"),
           Bracket("notA"), Bracket("close")}
Times  == { <<0, RX!Inf>>, <<1, RX!Inf>>, <<0, 1>>, <<2, 2>>, <<1, 2>> }
Small  == Leaves \union { RX!Rep(a, t[1], t[2]) : a \in Leaves, t \in Times }
Pairs  == { RX!Cat(a, b) : a, b \in Leaves } \union { RX!Alt(a, b) : a, b \in Leaves }
          \union { RX!Alt(RX!Leaf("empty"), a) : a \in Leaves }
Trees  == { RX!Rep(a, t[1], t[2]) : a \in Pairs \union Small, t \in Times }
          \union { RX!Cat(a, b) : a \in Small, b \in Small }
          \union { RX!Cat(RX!Leaf("bol"), RX!Cat(RX!Rep(a, t[1], t[2]), RX!Leaf("eol"))) :
                     a \in Leaves, t \in Times }

Special == {".", "[", "(", ")", "*", "+", "?", "{", "|", "^", "$", "\\"}
Digit(n) == <<RX!Ascii[RX!Code("0") + n]>>

(* A pattern that reads as the tree.                                       *)
RECURSIVE Text(_)
Text(t) ==
  CASE t.kind = "empty"   -> <<>>
    [] t.kind = "char"    -> IF t.ch \in Special THEN <<"\\", t.ch>> ELSE <<t.ch>>
    [] t.kind = "any"     -> <<".">>
    [] t.kind = "bol"     -> <<"^">>
    [] t.kind = "eol"     -> <<"$">>
    [] t.kind = "bracket" -> BracketText[t.name]
    [] t.kind = "cat"     -> <<"(">> \o Text(t.a) \o <<")", "(">> \o Text(t.b) \o <<")">>
    [] t.kind = "alt"     -> <<"(">> \o Text(t.a) \o <<"|">> \o Text(t.b) \o <<")">>
    [] t.kind = "rep"     -> <<"(">> \o Text(t.a) \o <<")">> \o
                             (CASE <<t.lo, t.hi>> = <<0, RX!Inf>> -> <<"*">>
                                [] <<t.lo, t.hi>> = <<1, RX!Inf>> -> <<"+">>
                                [] <<t.lo, t.hi>> = <<0, 1>> -> <<"?">>
                                [] t.hi = t.lo -> <<"{">> \o Digit(t.lo) \o <<"}">>
                                [] t.hi = RX!Inf -> <<"{">> \o Digit(t.lo) \o <<",", "}">>
                                [] OTHER -> <<"{">> \o Digit(t.lo) \o <<",">> \o Digit(t.hi) \o <<"}">>)

(* What the tree means: the stretches of s that it matches.                *)
Compose(R, S) == { <<p[1], q[2]>> : <<p, q>> \in { pq \in R \X S : pq[1][2] = pq[2][1] } }
Stays(s)      == { <<i, i>> : i \in 1 .. Len(s) + 1 }
RECURSIVE Power(_, _, _)
Power(R, n, s) == IF n = 0 THEN Stays(s) ELSE Compose(R, Power(R, n - 1, s))
RECURSIVE Spans(_, _, _)
Spans(t, s, flags) ==
  CASE t.kind = "empty"   -> Stays(s)
    [] t.kind = "bol"     -> { <<i, i>> : i \in {1} \union { j \in 2 .. Len(s) + 1 :
                                            "newline" \in flags /\ s[j - 1] = "\n" } }
    [] t.kind = "eol"     -> { <<i, i>> : i \in {Len(s) + 1} \union { j \in 1 .. Len(s) :
                                            "newline" \in flags /\ s[j] = "\n" } }
    [] t.kind = "char"    -> { <<i, i + 1>> : i \in { j \in 1 .. Len(s) :
                                 \/ s[j] = t.ch
                                 \/ "icase" \in flags /\ {s[j], t.ch} = {"a", "A"} } }
    [] t.kind = "any"     -> { <<i, i + 1>> : i \in { j \in 1 .. Len(s) :
                                 s[j] = "\n" => "newline" \notin flags } }
    [] t.kind = "bracket" -> { <<i, i + 1>> : i \in { j \in 1 .. Len(s) :
                                 /\ \/ s[j] \in BracketSet[t.name]
                                    \/ t.name = "close" /\ "icase" \in flags /\ s[j] = "A"
                                 /\ ~(t.name = "notA" /\ "icase" \in flags /\ s[j] = "A")
                                 /\ ~(t.name = "notA" /\ "newline" \in flags /\ s[j] = "\n") } }
    [] t.kind = "cat"     -> Compose(Spans(t.a, s, flags), Spans(t.b, s, flags))
    [] t.kind = "alt"     -> Spans(t.a, s, flags) \union Spans(t.b, s, flags)
    [] t.kind = "rep"     -> UNION { Power(Spans(t.a, s, flags), n, s) :
                                     n \in t.lo .. (IF t.hi = RX!Inf THEN t.lo + Len(s) ELSE t.hi) }

(* What the source refuses, and what it reads literally instead.           *)
Malformed == { <<"*", "a">>, <<"(", "a">>, <<"a", ")">>, <<"a", "|", "+">>, <<"[", "a">>,
               <<"[", "]">>, <<"[", "b", "-", "a", "]">>, <<"a", "\\">>, <<"(", ")", "*", ")">>,
               <<"[", "[", ":", "a", ":", "]", "]">>, <<"[", "[", ".", "a", "]">> }
Literal   == { <<"a", "{">>, <<"{", "1", "}">>, <<"a", "{", "2", ",", "1", "}">>,
               <<"a", "{", ",", "2", "}">>, <<"]">>, <<"}">> }

Agrees(r, spans) ==
  /\ r.hit => spans # {}
  /\ ~r.hit /\ ~RX!Spent(r.steps) => spans = {}
Understood(r, tree, s, flags) ==
  ~r.bad /\ Agrees(RX!Search(r.tree, s, flags), Spans(tree, s, flags))
ReadRight(r, p) ==
  /\ r.bad = (p \in Malformed)
  /\ ~r.bad => RX!Search(r.tree, p, {"extended"}).hit

(* A pattern matches exactly the subjects its meaning says, unless the     *)
(* budget ran out, and then it matches nothing; the malformed is refused,  *)
(* and what only looks like an operator stands for itself (re_compile and  *)
(* re_search).                                                             *)
RegexMatches ==
  /\ part = "regex" =>
       LET flags == {"extended"} \union input.flags
       IN  Understood(RX!Compile(Text(input.tree), flags), input.tree, input.subject, flags)
  /\ part = "reading" => ReadRight(RX!Compile(input, {"extended"}), input)

PoseReading ==
  /\ part = "none"
  /\ part' = "reading"
  /\ input' \in Malformed \union Literal
  /\ UNCHANGED loaderVars

PoseRegex ==
  /\ part = "none"
  /\ part' = "pattern"
  /\ input' \in [tree : Trees, flags : {{}, {"icase", "newline"}}]
  /\ UNCHANGED loaderVars
TryWord ==
  /\ part = "pattern"
  /\ part' = "regex"
  /\ \E s \in Words({"a", "A", "\n"}, MaxWord) :
       input' = [tree |-> input.tree, flags |-> input.flags, subject |-> s]
  /\ UNCHANGED loaderVars

(* ------------------------------- Numbers ------------------------------- *)

(* The words of a number heard: the value below each scale.  A word below  *)
(* a hundred adds, "hundred" multiplies, a scale closes its group.         *)
Worth(w) == IF \E k \in DOMAIN NM!Ones : NM!Ones[k] = w
              THEN (CHOOSE k \in DOMAIN NM!Ones : NM!Ones[k] = w) - 1
              ELSE 10 * ((CHOOSE k \in DOMAIN NM!Tens : NM!Tens[k] = w) - 1)
HearWord(h, w) ==
  CASE w = "hundred" -> [h EXCEPT !.now = 100 * @]
    [] w \in ToSet(NM!Scales) ->
         [h EXCEPT !.now = 0, !.groups = (w :> h.now) @@ @]
    [] OTHER -> [h EXCEPT !.now = @ + Worth(w)]
Heard(words) ==
  LET h == FoldLeft(HearWord, [now |-> 0, groups |-> << >>], words)
  IN  [ k \in DOMAIN NM!Scales |->
          IF k = 1 THEN h.now
          ELSE IF NM!Scales[k] \in DOMAIN h.groups THEN h.groups[NM!Scales[k]] ELSE 0 ]

(* What the digits mean, in the same form.                                 *)
ThousandsOf(s, k) ==
  LET from == Len(s) - 3 * k
      d(i) == IF i < 1 \/ i > Len(s) THEN 0 ELSE NM!Val[s[i]]
  IN  100 * d(from + 1) + 10 * d(from + 2) + d(from + 3)
Meant(s) == [ k \in DOMAIN NM!Scales |-> ThousandsOf(s, k) ]

RECURSIVE SplitAt(_, _)
SplitAt(s, sep) ==
  IF ~Contains(s, sep) THEN <<s>>
  ELSE LET i == CHOOSE k \in DOMAIN s : s[k] = sep /\ sep \notin ToSet(SubSeq(s, 1, k - 1))
       IN  <<SubSeq(s, 1, i - 1)>> \o SplitAt(SubSeq(s, i + 1, Len(s)), sep)
Without(s, x) == SelectSeq(s, LAMBDA c : c # x)

(* A rewritten token is heard as the same signed number: digits regrouped  *)
(* are the same digits, a decimal is its whole part and then its digits,   *)
(* and a version is its numbers in turn.                                   *)
SameNumber(tok, out) ==
  LET neg   == tok[1] = "-"
      body  == IF neg THEN Tail(out) ELSE out
      parts == SplitAt(Without(Without(tok, ","), "-"), ".")
      says  == SplitAt(body, "point")
  IN  /\ neg <=> out[1] \in {"-", "minus"}
      /\ IF \E i \in DOMAIN body : body[i] \in NM!Digit
           THEN Without(body, ",") = parts[1] /\ Len(parts) = 1
         ELSE /\ Len(says) = Len(parts)
              /\ Heard(says[1]) = Meant(parts[1])
              /\ \A k \in 2 .. Len(parts) :
                   IF Len(parts) = 2
                     THEN [ i \in DOMAIN says[k] |-> Worth(says[k][i]) ]
                          = [ i \in DOMAIN parts[k] |-> NM!Val[parts[k][i]] ]
                     ELSE Heard(says[k]) = Meant(parts[k])

(* The pattern of the source's comment, with its two lookarounds.          *)
Num    == Bracket("digit")
Token  == RX!Cat(RX!Rep(RX!Lit("-"), 0, 1),
            RX!Cat(Num, RX!Cat(RX!Rep(Bracket("run"), 0, RX!Inf),
              RX!Rep(RX!Cat(RX!Lit("."), RX!Rep(Num, 1, RX!Inf)), 0, RX!Inf))))
Before(s, i) == i > 1 /\ s[i - 1] \in NM!Alnum \union {",", "."}
After(s, j)  == \/ j <= Len(s) /\ s[j] \in NM!Alnum
                \/ j < Len(s) /\ s[j] = "." /\ s[j + 1] \in NM!Digit
Tokens(s) == { p \in Spans(Token, s, {}) : ~Before(s, p[1]) /\ ~After(s, p[2]) }

(* Leftmost first, and then the longest.                                   *)
RECURSIVE Substituted(_, _, _, _)
Substituted(s, i, found, style) ==
  LET here == { p[2] : p \in { q \in found : q[1] = i } }
      j    == CHOOSE k \in here : \A l \in here : l <= k
      tok  == SubSeq(s, i, j - 1)
      out  == NM!Rewrite(tok, style)
  IN  IF i > Len(s) THEN <<>>
      ELSE IF here = {} THEN <<s[i]>> \o Substituted(s, i + 1, found, style)
      ELSE (IF out = <<>> THEN tok ELSE out) \o Substituted(s, j, found, style)

(* The host finds the numbers that the reference pattern finds, leaves a   *)
(* command it can be expected to know (of at most MaxCommand characters) as *)
(* it is, and says each number it rewrites as itself (num_expand,          *)
(* num_rewrite, num_to_words).  A longer command is not left alone, against *)
(* the comment in num_expand: nothing is said of it here.                  *)
NumbersRead ==
  /\ part = "number" => NM!Sayable(input) /\ Heard(NM!ToWords(input)) = Meant(input)
  /\ part = "text" =>
       /\ NM!Expand(input.text, input.style)
            = Substituted(input.text, 1, Tokens(input.text), input.style)
       /\ \A p \in Tokens(input.text) :
            LET tok == SubSeq(input.text, p[1], p[2] - 1)
                out == NM!Rewrite(tok, input.style)
            IN  out # <<>> => SameNumber(tok, out)
  /\ part = "command" =>
       (Len(input) - 4 <= MaxCommand => NM!Expand(input, "words") = input)

ThreeDigits == { <<"0", "0", "0">>, <<"0", "0", "1">>, <<"0", "1", "3">>, <<"1", "0", "0">>,
                 <<"9", "9", "9">>, <<"5", "4", "0">> }
PoseNumber ==
  /\ part = "none"
  /\ part' = "number"
  /\ \E top \in Words(NM!Digit, 3) \ {<<>>} :
       \/ input' = top
       \/ \E f \in UNION { [1 .. n -> ThreeDigits] : n \in 1 .. 4 } :
            /\ top \in {<<"1">>, <<"0">>, <<"2", "0">>, <<"7", "1", "2">>}
            /\ input' = FoldLeft(LAMBDA a, b : a \o b, top, f)
  /\ UNCHANGED loaderVars

PoseText ==
  /\ part = "none"
  /\ part' = "text"
  /\ input' \in [text : Words({"1", "0", ",", ".", "-", "K"}, MaxText), style : {"fix", "words"}]
  /\ UNCHANGED loaderVars

PoseCommand ==
  /\ part = "none"
  /\ part' = "command"
  /\ \E n \in 1 .. MaxCommand + 1 :
       input' = <<"[", "[">> \o [ k \in 1 .. n |-> "1" ] \o <<"]", "]">>
  /\ UNCHANGED loaderVars

(* ---------------------------- Accelerate ------------------------------- *)

(* The transform by its definition, of the samples or the half-spectrum v  *)
(* packs.                                                                  *)
Sum(S, f(_))  == FoldSet(LAMBDA k, c : AX!Plus(c, f(k)), AX!C(0, 0), S)
Wave(j, k, n) == AX!C(AX!Cos((j * k) % n, n), AX!Sin((j * k) % n, n))
Samples(v)    == [ j \in 0 .. 2 * Cardinality(DOMAIN v) - 1 |->
                     IF j % 2 = 0 THEN v[j \div 2].re ELSE v[j \div 2].im ]
Spectrum(v, n, k) ==
  Sum(0 .. n - 1, LAMBDA j : AX!Scaled(2 * Samples(v)[j], AX!Conj(Wave(j, k, n))))
Signal(v, n, j) ==
  LET h == n \div 2
  IN  AX!Mod(v[0].re + (IF j % 2 = 0 THEN v[0].im ELSE -v[0].im)
             + Sum(1 .. h - 1, LAMBDA k : AX!Scaled(2, AX!Times(v[k], Wave(j, k, n)))).re)
Transformed(v, n, dir) ==
  [ k \in 0 .. n \div 2 - 1 |->
      IF dir # "forward" THEN AX!C(Signal(v, n, 2 * k), Signal(v, n, 2 * k + 1))
      ELSE IF k = 0 THEN AX!C(Spectrum(v, n, 0).re, Spectrum(v, n, n \div 2).re)
      ELSE Spectrum(v, n, k) ]

(* Split memory with v in it at a stride, noise around it.                 *)
Noise == AX!C(61, 7)
Spread(v, z) == [ a \in 0 .. 17 |->
                    IF \E k \in DOMAIN v : a = z.at + k * z.by
                    THEN v[(a - z.at) \div z.by] ELSE Noise ]

(* A matrix in memory, and the product by its definition.                  *)
Cell(row, lead, i, j) == IF row THEN i * lead + j ELSE j * lead + i
Laid(row, lead, t, M(_, _), d) ==
  [ x \in 0 .. 15 |->
      LET in(i, j) == x = IF t THEN Cell(row, lead, j, i) ELSE Cell(row, lead, i, j)
          here == { ij \in (0 .. d[1] - 1) \X (0 .. d[2] - 1) : in(ij[1], ij[2]) }
      IN  IF here = {} THEN 1000 ELSE LET ij == CHOOSE p \in here : TRUE IN M(ij[1], ij[2]) ]
MatA(i, h) == 1 + 2 * i + 5 * h
MatB(h, j) == 3 - h + 7 * j
MatC(i, j) == 11 * i - j

(* Each transform is the discrete Fourier transform of its size, doubled   *)
(* forwards, whatever larger setup it is given and whether or not that     *)
(* holds its tables, and nothing outside its slots is written; a window    *)
(* and its half-hop neighbour sum to one under the cross-fade; the lag     *)
(* reported is the address of the peak; sgemm is the matrix product for    *)
(* both layouts (fft_zrip, hann_window, vmma, maxvi, sgemm).               *)
Transforms ==
  /\ part = "transform" =>
       LET v   == [ k \in 0 .. input.n \div 2 - 1 |->
                      IF input.at = 16 THEN AX!C(3 * k + 1, 7 - k * k)
                      ELSE IF k # input.at \div 2 THEN AX!C(0, 0)
                      ELSE IF input.at % 2 = 0 THEN AX!C(1, 0) ELSE AX!C(0, 1) ]
           flat == Spread(v, input.z)
       IN  AX!fft_zrip(input.setup, flat, input.z, input.n, input.dir)
             = IF input.n = 1 \/ (input.setup # AX!None /\ input.setup.n < input.n) THEN flat
               ELSE Spread(Transformed(v, input.n, input.dir), input.z)
  /\ part = "splice" =>
       LET n    == input.n
           w    == AX!hann_window(n, FALSE)
           half == AX!hann_window(n, TRUE)
           flat == [ a \in 0 .. 3 * n - 1 |-> IF a < n THEN w[a] ELSE 5 ]
           out  == AX!vmma(flat, [at |-> n \div 2, by |-> 1], [at |-> n, by |-> 1],
                           [at |-> 0, by |-> 1], [at |-> n, by |-> 1],
                           [at |-> 2 * n, by |-> 1], n \div 2)
       IN  /\ \A k \in DOMAIN half : half[k] = w[k]
           /\ \A k \in 0 .. n \div 2 - 1 : AX!Mod(out[2 * n + k]) = 5
  /\ part = "peak" =>
       LET peak == AX!maxvi(input.mem, input.a, input.n)
       IN  /\ input.mem[input.a.at + (IF input.a.by < 0 THEN -1 ELSE 1) * peak.index] = peak.top
           /\ \A k \in 0 .. input.n - 1 : AX!At(input.mem, input.a, k) <= peak.top
           /\ AX!svemg(AX!vmsb(input.mem, input.a, input.a, input.a, input.a, input.n),
                       input.a, input.n) = 0
              <=> \A k \in 0 .. input.n - 1 : AX!At(input.mem, input.a, k) \in {0, 1}
  /\ part = "matrix" =>
       LET r    == input
           c    == Laid(r.row, 4, FALSE, MatC, <<r.m, r.n>>)
           got  == AX!sgemm(r.row, r.ta, r.tb, r.m, r.n, r.k, r.alpha,
                            Laid(r.row, 4, r.ta, MatA, <<r.m, r.k>>), 4,
                            Laid(r.row, 4, r.tb, MatB, <<r.k, r.n>>), 4, r.beta, c, 4)
           dot(i, j) == FoldSet(LAMBDA h, s : s + MatA(i, h) * MatB(h, j), 0, 0 .. r.k - 1)
           want(i, j) == r.alpha * dot(i, j) + r.beta * MatC(i, j)
       IN  got = Laid(r.row, 4, FALSE, want, <<r.m, r.n>>)

Setups == {AX!None} \union { AX!create_fftsetup(n, ready) : n \in {1, 2, 4, 8, 16}, ready \in BOOLEAN }
PoseTransform ==
  /\ part = "none"
  /\ part' = "transform"
  /\ \E n \in {1, 2, 4, 8, 16}, at \in 0 .. 16 :
       /\ at < n \/ at = 16
       /\ input' \in [n : {n}, at : {at}, setup : Setups, dir : {"forward", "inverse"},
                      z : {[at |-> 1, by |-> 1], [at |-> 0, by |-> 2]}]
  /\ UNCHANGED loaderVars
PoseSplice ==
  /\ part = "none"
  /\ part' = "splice"
  /\ input' \in [n : {2, 4, 8, 16}]
  /\ UNCHANGED loaderVars
PosePeak ==
  /\ part = "none"
  /\ part' = "peak"
  /\ input' \in [n : 1 .. 3, mem : [0 .. 5 -> {-1, 0, 2}],
                 a : {[at |-> 1, by |-> 1], [at |-> 0, by |-> 2], [at |-> 5, by |-> -2]}]
  /\ UNCHANGED loaderVars
PoseMatrix ==
  /\ part = "none"
  /\ part' = "matrix"
  /\ input' \in [row : BOOLEAN, ta : BOOLEAN, tb : BOOLEAN, m : 1 .. 3, n : 1 .. 3, k : 1 .. 3,
                 alpha : {0, 1, 2}, beta : {0, 1, -1}]
  /\ UNCHANGED loaderVars

(* ------------------------ Calls and preferences ------------------------ *)

(* Every host function the engine calls gets its arguments from the words  *)
(* the engine pushed for them and leaves its result where the engine looks *)
(* (uc_dispatch and its tables), and a format reads the words of its       *)
(* conversions (guest_format).                                             *)
CallsCarried ==
  /\ part = "call" => GC!Carried(input.name)
  /\ part = "format" => GC!FormatReads(input)

PoseCall ==
  /\ part = "none"
  /\ part' = "call"
  /\ input' \in [name : GC!Shims]
  /\ UNCHANGED loaderVars
PoseFormat ==
  /\ part = "none"
  /\ part' = "format"
  /\ input' \in Words(GC!Conversions, MaxFormat)
  /\ UNCHANGED loaderVars

(* Entries as a person writes them: one to a line with remarks in the file *)
(* and one after another in the environment, blanks wherever.              *)
Settings == [name : {<<"a">>, <<"s">>, <<"a", "s">>}, value : {<<"1">>, <<"2", "1">>, <<"yes">>, <<"a">>}]
Written(e, pad) == pad \o e.name \o pad \o <<"=">> \o pad \o e.value \o pad
FileOf(es, pad, remark) ==
  FlattenSeq([ k \in DOMAIN es |-> Written(es[k], pad) \o remark \o <<"\n">> ])
LineOf(es, pad, sep) ==
  FlattenSeq([ k \in DOMAIN es |-> Written(es[k], pad) \o <<sep>> ])
Remarks == {<<>>, <<"#">>, <<"#", "a", "=", "1", ";", "s", "=", "2">>}
Pads    == {<<>>, <<" ">>, <<" ", "\t">>}
Says(v) == CASE v = <<"1">> -> 1 [] v = <<"2", "1">> -> 21 [] v = <<"yes">> -> 1
Good(es) == SelectSeq(es, LAMBDA e : e.value # <<"a">>)
Known(es) == SubSeq(Good(es), 1, Smallest(Len(Good(es)), MaxParams))
Asked(es, name) ==
  LET at == { k \in DOMAIN Known(es) : Known(es)[k].name = name }
  IN  IF at = {} THEN PF!Unset.num
      ELSE Says(Known(es)[CHOOSE k \in at : \A l \in at : k <= l].value)

(* A parameter is read the same from the file, through remarks and blanks, *)
(* as from the environment, which hides the file; the phrase override      *)
(* hides both; a number keeps its value through every C type that holds    *)
(* it; and the engine's one format is filled in, as far as there is room   *)
(* (cf_params_init, CFPreferencesCopyAppValue, CFNumberGetValue,           *)
(* CFStringCreateWithFormat).                                              *)
SettingsRead ==
  /\ part = "settings" =>
       LET es   == input.entries
           file == PF!cf_params_init(<<>>, FileOf(es, input.pad, input.remark))
           line == PF!cf_params_init(LineOf(es, input.pad, input.sep), <<"s", "=", "2">>)
       IN  \A table \in {file} \union (IF es = <<>> THEN {} ELSE {line}), name \in {<<"a">>, <<"s">>, <<"a", "s">>} :
             /\ PF!CopyAppValue(table, name, FALSE, 0).num = Asked(es, name)
             /\ PF!CopyAppValue(table, name, TRUE, 2).num
                  = IF name = PF!SilThreshold THEN -4 ELSE Asked(es, name)
  /\ part = "value" =>
       \A t, u \in { k \in PF!CFNumberTypes : PF!Known(k) } :
         LET v == input.value
             fits(k) == PF!BytesOf(k) = 0 \/ v \in PF!Holds(PF!BytesOf(k))
         IN  fits(t) /\ fits(u) =>
               PF!CFNumberGetValue(PF!CFNumberCreate(t, v)[1], u) = <<v>>
  /\ part = "string" =>
       LET full == FlattenSeq([ k \in DOMAIN input |-> IF input[k] = "arg" THEN <<"x", "y">>
                                                      ELSE IF input[k] = "per" THEN <<"%">> ELSE <<"z">> ])
           form == FlattenSeq([ k \in DOMAIN input |-> IF input[k] = "arg" THEN <<"%", "@">>
                                                      ELSE IF input[k] = "per" THEN <<"%", "%">> ELSE <<"z">> ])
           got  == PF!CFStringCreateWithFormat(form, [ k \in DOMAIN input |-> <<"x", "y">> ])
       IN  got = <<SubSeq(full, 1, Smallest(Len(full), MaxOut - 1))>>

PoseSettings ==
  /\ part = "none"
  /\ part' = "settings"
  /\ input' \in [entries : Words(Settings, 2), pad : Pads, remark : Remarks, sep : {";", ","}]
  /\ UNCHANGED loaderVars
PoseValue ==
  /\ part = "none"
  /\ part' = "value"
  /\ input' \in [value : -70 .. 70]
  /\ UNCHANGED loaderVars
PoseString ==
  /\ part = "none"
  /\ part' = "string"
  /\ input' \in Words({"arg", "per", "text"}, 4)
  /\ UNCHANGED loaderVars

(* ------------------------------- Loading ------------------------------- *)

(* What a name means to image i: the host's function, the image's own      *)
(* definition, that of the first other image that has one, or the thunk    *)
(* made for it.                                                            *)
First(S)      == SelectSeq(Order, LAMBDA k : k \in S)[1]
Gives(i)      == DOMAIN image[i].gives
Givers(i, n)  == { k \in ToSet(loaded) \ {i} : n \in Gives(k) }
Means(i, n) ==
  IF n = "malloc" THEN {Shims.malloc}
  ELSE IF n \in Gives(i) THEN {LD!In(i, image[i].gives[n])}
  ELSE IF Givers(i, n) # {}
    THEN LET k == First(Givers(i, n)) IN {LD!In(k, image[k].gives[n])}
  ELSE { ThunkAt + 16 * (k - 1) : k \in { j \in DOMAIN missing : missing[j] = n } }

(* What a slot of it holds once it is resolved.  A weak import and an      *)
(* external relocation nobody defines stay as they are.                    *)
Holds(i, t) ==
  LET v == LD!Get(mem, LD!In(i, t.addr + (IF t.stub THEN 1 ELSE 0)))
  IN  CASE t.self -> v = LD!In(i, t.plus)
        [] t.stub -> LD!Wrap(v + LD!In(i, t.addr) + 5) \in Means(i, t.sym)
        [] OTHER  -> \/ LD!Wrap(v - t.plus) \in Means(i, t.sym)
                     \/ Means(i, t.sym) = {} /\ t.weak /\ v = 0
                     \/ Means(i, t.sym) = {} /\ ~image[i].info /\ t.plus # 0

(* However the images moved and whichever format each has, every pointer,  *)
(* reference and jump of a resolved image leads where its symbol means,    *)
(* and an initialiser runs at the address it has after the slide           *)
(* (macho_map_image, macho_bind, macho_run_initializers).                  *)
Linked ==
  part = "loader" /\ ~dead =>
    /\ \A n \in DOMAIN resolved : \A t \in image[resolved[n]].truth : Holds(resolved[n], t)
    /\ \A n \in DOMAIN ran : \A k \in DOMAIN ran[n] :
         \E t \in image[LD!Here[n]].truth : t.self /\ ran[n][k] = LD!In(LD!Here[n], t.plus)

LoaderIdle ==
  /\ image = << >> /\ slide = << >> /\ mem = << >> /\ loaded = <<>> /\ resolved = <<>>
  /\ missing = <<>> /\ ran = <<>> /\ dead = FALSE
Loading == part = "loader" /\ LD!Next /\ UNCHANGED << part, input >>

(* ----------------------------------------------------------------------- *)

Init ==
  /\ input = [none |-> TRUE]
  /\ \/ part = "none" /\ LoaderIdle
     \/ part = "loader" /\ LD!Init
Next == PoseReading \/ PoseRegex \/ TryWord \/ PoseNumber \/ PoseText \/ PoseCommand
        \/ PoseTransform \/ PoseSplice \/ PosePeak \/ PoseMatrix
        \/ PoseCall \/ PoseFormat \/ PoseSettings \/ PoseValue \/ PoseString \/ Loading
=============================================================================
