------------------------------ MODULE Numbers ------------------------------
(***************************************************************************)
(* The rewriting of numbers the engine reads wrongly                       *)
(* (src/src/tiger_host_numbers.c).  Text is a sequence of characters, of   *)
(* which the model tells apart digits, the signs that make up a number,    *)
(* letters and brackets; rewritten text holds words as members too.  A     *)
(* number is its sequence of digits, most significant first.               *)
(***************************************************************************)
EXTENDS Integers, Sequences, SequencesExt, FiniteSetsExt

CONSTANTS LongDigits,            \* NUM_LONG_DIGITS: from here the engine spells
          MaxParts,              \* the parts a token may have
          MaxClean,              \* the characters of a token that fit the buffer
          MaxDigits,             \* the digits num_parse takes
          MaxCommand             \* the longest embedded command looked for

Digit   == {"0", "1", "2", "3", "4", "5", "6", "7", "8", "9"}
Letter  == {"K", "x"}
Alnum   == Digit \union Letter
Val     == [ d \in Digit |-> CHOOSE n \in 0 .. 9 : ToString(n) = d ]

Ones == << "zero", "one", "two", "three", "four", "five", "six", "seven",
           "eight", "nine", "ten", "eleven", "twelve", "thirteen", "fourteen",
           "fifteen", "sixteen", "seventeen", "eighteen", "nineteen" >>
Tens == << "", "ten", "twenty", "thirty", "forty", "fifty", "sixty", "seventy",
           "eighty", "ninety" >>
Scales == << "", "thousand", "million", "billion", "trillion" >>

At(s, i) == IF i \in DOMAIN s THEN s[i] ELSE ""

(* ------------------------------ In words ------------------------------- *)

RECURSIVE Below1000(_)
Below1000(n) ==
  IF n < 20 THEN <<Ones[n + 1]>>
  ELSE IF n < 100
    THEN <<Tens[(n \div 10) + 1]>> \o (IF n % 10 = 0 THEN <<>> ELSE <<Ones[(n % 10) + 1]>>)
  ELSE <<Ones[(n \div 100) + 1], "hundred">> \o
       (IF n % 100 = 0 THEN <<>> ELSE Below1000(n % 100))

(* The digits in threes, least significant first: what division by the     *)
(* scales leaves.                                                          *)
Number(s)  == FoldLeft(LAMBDA n, d : 10 * n + Val[d], 0, s)
Groups(s)  == [ k \in 1 .. (Len(s) + 2) \div 3 |->
                 Number(SubSeq(s, IF Len(s) > 3 * k THEN Len(s) - 3 * k + 1 ELSE 1,
                               Len(s) - 3 * (k - 1))) ]
TopGroup(g) == { k \in DOMAIN g : g[k] # 0 }

(* num_to_words of the groups, the largest scale first.                    *)
RECURSIVE Scaled(_)
Scaled(g) ==
  LET top  == Max(TopGroup(g))
      rest == SubSeq(g, 1, top - 1)
  IN  IF TopGroup(g) = {} THEN <<>>
      ELSE Below1000(g[top]) \o (IF top = 1 THEN <<>> ELSE <<Scales[top]>>) \o Scaled(rest)

Sayable(s) == Len(s) \in 1 .. MaxDigits /\ \A k \in TopGroup(Groups(s)) : k <= Len(Scales)
ToWords(s) == IF TopGroup(Groups(s)) = {} THEN <<"zero">> ELSE Scaled(Groups(s))
Aloud(s)   == [ i \in DOMAIN s |-> Ones[Val[s[i]] + 1] ]

RECURSIVE Grouped(_)
Grouped(s) == IF Len(s) <= 3 THEN s
              ELSE Grouped(SubSeq(s, 1, Len(s) - 3)) \o <<",">> \o SubSeq(s, Len(s) - 2, Len(s))

(* ------------------------------- A token ------------------------------- *)

Negative(tok) == At(tok, 1) = "-"
Clean(tok) == SelectSeq(IF Negative(tok) THEN Tail(tok) ELSE tok, LAMBDA c : c # ",")

RECURSIVE Parts(_)
Parts(s) ==
  LET dots == { i \in DOMAIN s : s[i] = "." }
  IN  IF dots = {} THEN <<s>>
      ELSE <<SubSeq(s, 1, Min(dots) - 1)>> \o Parts(SubSeq(s, Min(dots) + 1, Len(s)))

Minus(tok, sign) == IF Negative(tok) THEN <<sign>> ELSE <<>>
Pointed(parts) == FoldLeft(LAMBDA out, p : IF out = <<>> THEN ToWords(p)
                                           ELSE out \o <<"point">> \o ToWords(p), <<>>, parts)
LeadingZero(whole) == Len(whole) <= 2 /\ \A i \in DOMAIN whole : whole[i] = "0"

(* What a token becomes, or the empty sequence for one left alone: parts   *)
(* that are too many, empty, or too long to say are not rewritten, three   *)
(* or more are a version, and "fix" changes only what the engine loses.    *)
Rewrite(tok, style) ==
  LET parts == Parts(Clean(tok))
      whole == parts[1]
      n     == Len(parts)
  IN  CASE Len(Clean(tok)) >= MaxClean \/ n > MaxParts
           \/ (\E k \in DOMAIN parts : parts[k] = <<>>) -> <<>>
        [] n > 2 ->
             IF \A k \in DOMAIN parts : Sayable(parts[k])
               THEN Minus(tok, "minus") \o Pointed(parts) ELSE <<>>
        [] n \in 1 .. 2 /\ style = "words" ->
             IF ~Sayable(whole) THEN <<>>
             ELSE Minus(tok, "minus") \o ToWords(whole) \o
                  (IF n = 2 THEN <<"point">> \o Aloud(parts[2]) ELSE <<>>)
        [] n = 2 /\ style = "fix" ->
             IF LeadingZero(whole)
               THEN Minus(tok, "minus") \o <<"zero", "point">> \o Aloud(parts[2]) ELSE <<>>
        [] OTHER ->
             IF Len(whole) >= LongDigits THEN Minus(tok, "-") \o Grouped(whole) ELSE <<>>

(* ------------------------------ The scan ------------------------------- *)

Starts(s, i) == At(s, i) \in Digit \/ (At(s, i) = "-" /\ At(s, i + 1) \in Digit)
LookBehind(s, i) == At(s, i - 1) \notin Alnum \union {",", "."}
LookAhead(s, j)  == ~(At(s, j) \in Alnum \/ (At(s, j) = "." /\ At(s, j + 1) \in Digit))

(* The first position from i on that is not in S.                          *)
Beyond(s, i, S) == Min({ j \in i .. Len(s) + 1 : At(s, j) \notin S })

RECURSIVE DotGroups(_, _)
DotGroups(s, j) == IF At(s, j) = "." /\ At(s, j + 1) \in Digit
                     THEN DotGroups(s, Beyond(s, j + 1, Digit)) ELSE j

(* num_token_valid: [i, j) is what the pattern could have produced.        *)
Shortest(s, i) == IF At(s, i) = "-" THEN i + 2 ELSE i + 1
TokenValid(s, i, j) ==
  /\ At(s, Shortest(s, i) - 1) \in Digit
  /\ LET t == SubSeq(s, 1, j - 1)
     IN  DotGroups(t, Beyond(t, Shortest(s, i), Digit \union {","})) = j

(* Where the token at i ends, the longest that the lookahead allows, or i. *)
Longest(s, i) == DotGroups(s, Beyond(s, Shortest(s, i), Digit \union {","}))
Ends(s, i) == { j \in Shortest(s, i) .. Longest(s, i) : TokenValid(s, i, j) /\ LookAhead(s, j) }
TokenEnd(s, i) == IF Starts(s, i) /\ LookBehind(s, i) /\ Ends(s, i) # {}
                    THEN Max(Ends(s, i)) ELSE i

(* The end of the embedded command at i, or i.                             *)
Closes(s, i) == { j \in i + 2 .. Len(s) - 1 : s[j] = "]" /\ s[j + 1] = "]" }
CommandEnd(s, i) ==
  IF At(s, i) = "[" /\ At(s, i + 1) = "[" /\ Closes(s, i) # {}
     /\ Min(Closes(s, i)) - (i + 2) <= MaxCommand
    THEN Min(Closes(s, i)) + 2 ELSE i

RECURSIVE ExpandFrom(_, _, _)
ExpandFrom(s, i, style) ==
  LET command == CommandEnd(s, i)
      j       == TokenEnd(s, i)
      tok     == SubSeq(s, i, j - 1)
      said    == Rewrite(tok, style)
  IN  IF i > Len(s) THEN <<>>
      ELSE IF command > i
        THEN SubSeq(s, i, command - 1) \o ExpandFrom(s, command, style)
      ELSE IF j > i
        THEN (IF said = <<>> THEN tok ELSE said) \o ExpandFrom(s, j, style)
      ELSE <<s[i]>> \o ExpandFrom(s, i + 1, style)

Expand(s, style) == IF style = "off" THEN s ELSE ExpandFrom(s, 1, style)
=============================================================================
