----------------------------- MODULE MCLibraries -----------------------------
(***************************************************************************)
(* The stand-ins for the libraries the engine was linked to, on small      *)
(* instances: the pure algorithms, and what the host keeps between calls   *)
(* (objects, decoders, memory, tables and the interfaces that hand the     *)
(* speech on).  A behaviour is one of them.                                *)
(***************************************************************************)
EXTENDS MCAlgorithms, StandIns

allVars == << vars, objectVars >>

Objects == {"cf", "aac", "guest", "block", "table", "sql", "plat", "marker", "android",
            "move"}
LibraryInit ==
  /\ part \in Objects \union {"none", "loader"}
  /\ Init \/ (part \in Objects /\ input = [none |-> TRUE] /\ LoaderIdle)
  /\ AA!Init /\ (part # "aac" => backend = "mf")
  /\ CF!Init /\ GM!Init /\ BL!Init /\ RT!Init /\ SQ!Init /\ PM!Init /\ MK!Init /\ AN!Init
  /\ MV!Init /\ (part # "move" => installed = MV!All("none"))

Pure == Next /\ UNCHANGED objectVars
CoreFoundation ==
  /\ part = "cf" /\ CF!Next
  /\ UNCHANGED << vars, aacVars, guestVars, blockVars, tableVars,
                  sqlVars, platVars, markerVars, androidVars, moveVars >>
AacConverter ==
  /\ part = "aac" /\ AA!Next
  /\ UNCHANGED << vars, cfVars, guestVars, blockVars, tableVars,
                  sqlVars, platVars, markerVars, androidVars, moveVars >>
GuestMemory ==
  /\ part = "guest" /\ GM!Next
  /\ UNCHANGED << vars, cfVars, aacVars, blockVars, tableVars,
                  sqlVars, platVars, markerVars, androidVars, moveVars >>
Blocks ==
  /\ part = "block" /\ BL!Next
  /\ UNCHANGED << vars, cfVars, aacVars, guestVars, tableVars,
                  sqlVars, platVars, markerVars, androidVars, moveVars >>
RegexTable ==
  /\ part = "table" /\ RT!Next
  /\ UNCHANGED << vars, cfVars, aacVars, guestVars, blockVars,
                  sqlVars, platVars, markerVars, androidVars, moveVars >>
SqlHandles ==
  /\ part = "sql" /\ SQ!Next
  /\ UNCHANGED << vars, cfVars, aacVars, guestVars, blockVars,
                  tableVars, platVars, markerVars, androidVars, moveVars >>
PlatMemory ==
  /\ part = "plat" /\ PM!Next
  /\ UNCHANGED << vars, cfVars, aacVars, guestVars, blockVars,
                  tableVars, sqlVars, markerVars, androidVars, moveVars >>
Markers ==
  /\ part = "marker" /\ MK!Next
  /\ UNCHANGED << vars, cfVars, aacVars, guestVars, blockVars,
                  tableVars, sqlVars, platVars, androidVars, moveVars >>
AndroidSpeech ==
  /\ part = "android" /\ AN!Next
  /\ UNCHANGED << vars, cfVars, aacVars, guestVars, blockVars,
                  tableVars, sqlVars, platVars, markerVars, moveVars >>
ProtectedMove ==
  /\ part = "move" /\ MV!Next
  /\ UNCHANGED << vars, cfVars, aacVars, guestVars, blockVars,
                  tableVars, sqlVars, platVars, markerVars, androidVars >>
LibraryNext == \/ Pure \/ CoreFoundation \/ AacConverter \/ GuestMemory \/ Blocks
               \/ RegexTable \/ SqlHandles \/ PlatMemory \/ Markers \/ AndroidSpeech
               \/ ProtectedMove
LibrarySpec == LibraryInit /\ [][LibraryNext]_allVars

-----------------------------------------------------------------------------
\* Text is matched, and its numbers are written, as the reference definitions
\* say (tiger_host_regex.c, tiger_host_numbers.c).
TextRead == RegexMatches /\ NumbersRead

\* What crosses between the engine and the host arrives as it was meant: the
\* arguments of every call and format, and every setting.
ValuesCarried == CallsCarried /\ SettingsRead
=============================================================================
