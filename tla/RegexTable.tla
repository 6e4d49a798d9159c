------------------------------ MODULE RegexTable ------------------------------
(* The compiled patterns of tiger_host_regex.c.  The framework's regex_t is     *)
(* opaque here, so what regcomp compiled is kept in a table under its address,  *)
(* and every call holds one lock.                                               *)
EXTENDS Naturals, Sequences, SequencesExt, FiniteSets

CONSTANTS Pregs,        \* addresses of the framework's regex_t
          Patterns,     \* patterns that compile
          Abbrevs,      \* those that are marked as abbreviations
          FirstCap,     \* the table's first size, 16 in the code
          MaxProgs      \* RE_MAX_PROGS

NoPreg == "no preg"
NoProg == "no prog"

VARIABLES
  slots,     \* g_re, its first g_re_n
  cap,       \* g_re_cap
  noAbbrev,  \* g_no_abbrev
  kept,      \* the pattern each preg was last compiled from (the framework)
  answer     \* what the last call returned: "match", "none"

tableVars == << slots, cap, noAbbrev, kept, answer >>

Init == /\ slots = <<>> /\ cap = 0 /\ noAbbrev = FALSE
        /\ kept = [p \in Pregs |-> NoProg] /\ answer = "none"

Slot(p, prog) == [preg |-> p, prog |-> prog, abbreviation |-> prog \in Abbrevs]
Spare == Slot(NoPreg, NoProg)

\* re_find: the first slot of a preg.
Own(p) == {i \in DOMAIN slots : slots[i].preg = p}
Least(S) == CHOOSE i \in S : \A j \in S : i <= j

\* re_slot_for: its own slot, one freed earlier, a new one, or the first, which
\* the others move down over.
SlotFor(p, prog) ==
  LET free  == Own(NoPreg)
      grown == IF Len(slots) = cap /\ cap < MaxProgs
                 THEN (IF cap = 0 THEN FirstCap ELSE IF 2 * cap > MaxProgs THEN MaxProgs ELSE 2 * cap)
                 ELSE cap
  IN  CASE Own(p) # {} -> /\ slots' = [slots EXCEPT ![Least(Own(p))] = Slot(p, prog)]
                          /\ cap' = cap
        [] Own(p) = {} /\ free # {} -> /\ slots' = [slots EXCEPT ![Least(free)] = Slot(p, prog)]
                                       /\ cap' = cap
        [] OTHER -> /\ cap' = grown
                    /\ slots' = (IF Len(slots) < grown THEN slots ELSE Tail(slots))
                                \o <<Slot(p, prog)>>

\* regcomp always succeeds; what it refuses has no program.
Regcomp(p, prog) ==
  /\ SlotFor(p, prog)
  /\ kept' = [kept EXCEPT ![p] = prog]
  /\ UNCHANGED << noAbbrev, answer >>

\* regexec: no slot or no program is no match, and neither is an abbreviation
\* while they are off.  Whether a program matches is Regex's.
Found(p) == /\ Own(p) # {}
            /\ LET s == slots[Least(Own(p))]
               IN  s.prog # NoProg /\ ~(noAbbrev /\ s.abbreviation)
Regexec(p) ==
  /\ answer' = IF Found(p) THEN slots[Least(Own(p))].prog ELSE "none"
  /\ UNCHANGED << slots, cap, noAbbrev, kept >>

Regfree(p) ==
  /\ slots' = IF Own(p) = {} THEN slots ELSE [slots EXCEPT ![Least(Own(p))] = Spare]
  /\ kept' = [kept EXCEPT ![p] = NoProg]
  /\ UNCHANGED << cap, noAbbrev, answer >>

\* panthera_set_expand_abbreviations and serve()'s flag.
SetAbbreviations == noAbbrev' = ~noAbbrev /\ UNCHANGED << slots, cap, kept, answer >>

Next == \/ \E p \in Pregs, prog \in Patterns \union {NoProg} : Regcomp(p, prog)
        \/ \E p \in Pregs : Regexec(p) \/ Regfree(p)
        \/ SetAbbreviations

-----------------------------------------------------------------------------
\* A preg is answered from the pattern it was last compiled from, wherever the
\* table moved it, and none is forgotten while the table has a place for all
\* that are in use; none is in it twice (re_slot_for and its three callers).
InUse == {p \in Pregs : Own(p) # {}}
PatternsKept ==
  /\ \A p \in Pregs : Cardinality(Own(p)) <= 1
  /\ \A p \in InUse : slots[Least(Own(p))].prog = kept[p]
  /\ \A p \in Pregs : kept[p] # NoProg /\ Own(p) = {} => Len(slots) = MaxProgs
  /\ Len(slots) <= cap /\ cap <= MaxProgs
=============================================================================
