---------------------------- MODULE Preferences ----------------------------
(***************************************************************************)
(* The engine's tuning parameters and the values it asks for them through  *)
(* (tiger_host_cf.c): TIGER_PARAMS or params.txt read into a table, a      *)
(* lookup in it, CFNumbers of any C type, and the one format string.       *)
(*                                                                         *)
(* Text is a sequence of marks: a letter stands for a name's character,    *)
(* "1" and "2" for digits, "yes" and "no" for the words read as booleans.  *)
(***************************************************************************)
EXTENDS SequencesExt, Integers

CONSTANTS MaxParams,    \* CF_MAX_PARAMS
          Byte,         \* bits in a byte, few enough for TLC's integers
          MaxOut        \* CFPATH: room for a formatted string and its end

Blank == {" ", "\t"}
Digit == [d \in {"1", "2"} |-> IF d = "1" THEN 1 ELSE 2]
Worded == [w \in {"yes", "no"} |-> IF w = "yes" THEN 1 ELSE 0]

FirstAt(s, S) == LET at == {i \in DOMAIN s : s[i] \in S}
                 IN  IF at = {} THEN Len(s) + 1 ELSE CHOOSE i \in at : \A j \in at : i <= j
LastNotAt(s, S) == LET at == {i \in DOMAIN s : s[i] \notin S}
                   IN  IF at = {} THEN 0 ELSE CHOOSE i \in at : \A j \in at : j <= i
Trimmed(s) == LET upto == SubSeq(s, 1, LastNotAt(s, Blank))
                  lead == {i \in DOMAIN upto : \A j \in 1 .. i : upto[j] \in Blank}
              IN  SubSeq(upto, Cardinality(lead) + 1, Len(upto))

\* cf_params_file: a comment is blanked to the end of its line, a line's end
\* becomes a separator.
cf_params_file(s) ==
    LET InComment(i) == \E j \in 1 .. i : s[j] = "#" /\ \A k \in j .. i : s[k] # "\n"
    IN  [i \in DOMAIN s |-> CASE InComment(i) -> " "
                              [] s[i] \in {"\r", "\n"} -> ";"
                              [] OTHER -> s[i]]

\* The pieces between separators.
Pieces(s) ==
    LET Cut(acc, c) == IF c \in {";", ","} THEN Append(acc, <<>>)
                       ELSE [acc EXCEPT ![Len(acc)] = Append(@, c)]
    IN  FoldLeft(Cut, << <<>> >>, s)

\* strtod: the digits the text starts with, as a number.
Number(s) == FoldLeft(LAMBDA n, c : 10 * n + Digit[c], 0, s)
Leading(s) == SubSeq(s, 1, FirstAt(s, {s[i] : i \in DOMAIN s} \ DOMAIN Digit) - 1)

\* One entry of the parameters: <<>> when it is ignored.
Entry(piece) ==
    LET eq == FirstAt(piece, {"="})
        name == Trimmed(SubSeq(piece, 1, eq - 1))
        value == Trimmed(SubSeq(piece, eq + 1, Len(piece)))
    IN  CASE eq > Len(piece) -> <<>>
          [] Len(value) = 1 /\ value[1] \in DOMAIN Worded ->
                << [key |-> name, kind |-> "boolean", num |-> Worded[value[1]]] >>
          [] Leading(value) # <<>> ->
                << [key |-> name, kind |-> "number", num |-> Number(Leading(value))] >>
          [] OTHER -> <<>>

\* cf_params_init: the environment when it says anything, the file otherwise;
\* entries past the table's end are ignored.
cf_params_init(env, file) ==
    LET text == IF env # <<>> THEN env ELSE cf_params_file(file)
        found == FlattenSeq([i \in DOMAIN Pieces(text) |-> Entry(Pieces(text)[i])])
    IN  SubSeq(found, 1, IF Len(found) < MaxParams THEN Len(found) ELSE MaxParams)

Unset == [key |-> <<>>, kind |-> "none", num |-> 0]

\* sh_CFPreferencesCopyAppValue: the phrase override hides its key, and the
\* first entry of a name is the one that counts.
SilThreshold == <<"s">>
OverrideValue == <<-8, -4, 0, 5>>
CopyAppValue(table, key, overridden, mode) ==
    LET at == SelectInSeq(table, LAMBDA e : e.key = key)
    IN  CASE overridden /\ key = SilThreshold ->
                IF mode = 0 THEN Unset ELSE [key |-> key, kind |-> "number", num |-> OverrideValue[mode]]
          [] at # 0 -> table[at]
          [] OTHER -> Unset

-----------------------------------------------------------------------------
(* CFNumberCreate and CFNumberGetValue: the C type behind each CFNumberType *)
(* as its bytes, 0 for a floating type; a double holds every value here.   *)

CFNumberTypes == 1 .. 17
BytesOf(type) == CASE type \in {1, 7} -> 1
                   [] type \in {2, 8} -> 2
                   [] type \in {3, 9, 10, 14, 15} -> 4
                   [] type \in {4, 11} -> 8
                   [] type \in {5, 6, 12, 13, 16} -> 0
                   [] OTHER -> -1
Known(type) == BytesOf(type) >= 0

\* The integers a variable of n bytes can hold.
Holds(n) == - (2 ^ (n * Byte - 1)) .. 2 ^ (n * Byte - 1) - 1
Wrapped(v, n) == ((v + 2 ^ (n * Byte - 1)) % (2 ^ (n * Byte))) - 2 ^ (n * Byte - 1)

\* sh_CFNumberCreate reads the variable, sh_CFNumberGetValue writes it: each
\* <<>> when it does not know the type.
CFNumberCreate(type, v) == IF Known(type) THEN <<v>> ELSE <<>>
CFNumberGetValue(num, type) ==
    IF ~Known(type) THEN <<>> ELSE <<IF BytesOf(type) = 0 THEN num ELSE Wrapped(num, BytesOf(type))>>

-----------------------------------------------------------------------------
\* sh_CFStringCreateWithFormat: "@" after a "%" takes the next argument, any
\* other letter refuses the whole string, and what does not fit is left out.
CFStringCreateWithFormat(format, args) ==
    LET Room(out) == Len(out) + 1 < MaxOut
        Added(out, s) == SubSeq(out \o s, 1, IF Len(out \o s) < MaxOut THEN Len(out \o s) ELSE MaxOut - 1)
        Step(acc, c) ==
            CASE acc.refused \/ ~Room(acc.out) -> acc
              [] acc.percent /\ c = "@" -> [acc EXCEPT !.percent = FALSE, !.next = @ + 1,
                                                       !.out = Added(@, args[acc.next])]
              [] acc.percent /\ c = "%" -> [acc EXCEPT !.percent = FALSE, !.out = Append(@, "%")]
              [] acc.percent -> [acc EXCEPT !.refused = TRUE]
              [] c = "%" -> [acc EXCEPT !.percent = TRUE]
              [] OTHER -> [acc EXCEPT !.out = Append(@, c)]
        end == FoldLeft(Step, [out |-> <<>>, percent |-> FALSE, next |-> 1, refused |-> FALSE], format)
    IN  IF end.refused \/ end.percent THEN <<>> ELSE <<end.out>>
=============================================================================
