---------------------------- MODULE ProtectedMove ----------------------------
(***************************************************************************)
(* The move of a generation's data into protected storage                  *)
(* (ProtectedStorage.move, made by PantheraEngine.migrate whenever the app *)
(* runs unlocked and finds an engine outside): copy, check, swap, and only *)
(* then delete the original.  A step may fail, and the process may be      *)
(* killed between any two and run again.                                   *)
(***************************************************************************)
EXTENDS Naturals

CONSTANTS Files, Engine,         \* of a generation, and the one it is known by
          MaxKill

VARIABLES source, staging, live, \* folder |-> what it has of each file
          phase,                 \* where move is
          kills
moveVars == << source, staging, live, phase, kills >>

(* A file is missing, short, of the data that was there, or of the new.    *)
All(v)  == [f \in Files |-> v]
Has(d)  == { f \in Files : d[f] # "none" }
Whole(d) == d \in {All("old"), All("new")}
Pending == source[Engine] # "none"

Init ==
  /\ source = All("new") /\ staging = All("none") /\ live \in {All("none"), All("old")}
  /\ phase = "off" /\ kills = 0

Begin ==
  /\ phase = "off" /\ Pending
  /\ staging' = All("none") /\ phase' = "copy"
  /\ UNCHANGED << source, live, kills >>
Copy ==
  /\ phase = "copy"
  /\ \E f \in Has(source) \ Has(staging), got \in {"short", "all"} :
       staging' = [staging EXCEPT ![f] = IF got = "all" THEN source[f] ELSE got]
  /\ UNCHANGED << source, live, phase, kills >>

(* A copy that has each file, at any size. *)
AlikeByName(f) == staging[f] # "none"
(* verify: every file of the source is in the copy, at the same size.      *)
Alike(f) == staging[f] = source[f]
Verify ==
  /\ phase = "copy" /\ Has(source) \subseteq Has(staging)
  /\ phase' = IF \A f \in Has(source) : Alike(f) THEN "swap" ELSE "failed"
  /\ UNCHANGED << source, staging, live, kills >>

(* The old data goes file by file; the rename is one step, onto nothing.   *)
DropLive ==
  /\ phase = "swap"
  /\ \E f \in Has(live) : live' = [live EXCEPT ![f] = "none"]
  /\ UNCHANGED << source, staging, phase, kills >>
Rename ==
  /\ phase = "swap" /\ Has(live) = {}
  /\ live' = staging /\ staging' = All("none") /\ phase' = "drop"
  /\ UNCHANGED << source, kills >>
Fail ==
  /\ phase \in {"copy", "swap"} /\ phase' = "failed"
  /\ UNCHANGED << source, staging, live, kills >>
Discard ==
  /\ phase = "failed"
  /\ staging' = All("none") /\ phase' = "off"
  /\ UNCHANGED << source, live, kills >>

DropSource ==
  /\ phase = "drop"
  /\ \E f \in Has(source) : source' = [source EXCEPT ![f] = "none"]
  /\ UNCHANGED << staging, live, phase, kills >>
(* A deletion ends with what it could not delete, and a kill ends it too.  *)
Done ==
  /\ phase = "drop" /\ phase' = "off"
  /\ UNCHANGED << source, staging, live, kills >>
Kill ==
  /\ phase # "off" /\ kills < MaxKill
  /\ kills' = kills + 1 /\ phase' = "off"
  /\ UNCHANGED << source, staging, live >>

Next == \/ Begin \/ Copy \/ Verify \/ DropLive \/ Rename \/ Fail \/ Discard
        \/ DropSource \/ Done \/ Kill
Spec == Init /\ [][Next]_moveVars

-----------------------------------------------------------------------------
(* Nothing goes that was not proven to be copied: a file of the source only *)
(* while the same is in its place, and the data that is there only while    *)
(* all of the source is beside it (ProtectedStorage's comment: "the source  *)
(* is untouched until the copy is proven").                                 *)
OnlyProvenGoes ==
  [][/\ \A f \in Files : source'[f] # source[f] => live[f] = source[f]
     /\ live' # live => \A f \in Has(source) : Alike(f)]_moveVars

(* One whole copy of the data is there whatever fails (move's comment: "A   *)
(* failed or cancelled move leaves both folders as they were").  It does    *)
(* not hold: what a deletion of the source leaves is moved over the copy.   *)
OneWholeCopy == Whole(source) \/ Whole(live)
=============================================================================
