------------------------------ MODULE StandIns ------------------------------
(***************************************************************************)
(* What the host and the app keep between calls: the objects, decoders,     *)
(* memory and tables of the stand-ins for the libraries the engine was      *)
(* linked to, the interfaces that hand the speech on, and a generation's    *)
(* data.  Each is a component with variables of its own.                    *)
(***************************************************************************)
EXTENDS Naturals, FiniteSets

CONSTANTS Threads,
          Grave, MaxObjects, MaxOwned,                       \* CoreFoundation
          AacFrame, Priming, MaxRounds, MaxUnit, MaxStreams, Asks,      \* AacConverter
          Views, MaxMaps, Hdr, Split, Align, ArenaRoom, StackSize, Needs, MaxHeld,    \* GuestMemory
          Blk, Var, MaxCopies, MaxScopes,                    \* Blocks
          Pregs, Patterns, Abbrevs, FirstCap, MaxProgs,     \* RegexTable
          Natives, Boxes,                                    \* SqlHandles
          Top, Reach, Midway, Start, MaxTable, MaxTries, Sizes, AskedAt, \* PlatMemory
          Outputs, MaxMarked, MaxFrames, Capacity,           \* Markers
          MaxRequest, MaxSlice, MaxPull, Lookbehind,         \* AndroidSpeech
          Files, Engine, MaxKill                             \* ProtectedMove

VARIABLES
  st, rc, kind, slots, blocks, grave, grave_i, owned, todo, turn, hurried,
  backend, dec, pcm, pos, stream, left, call, accepted, lost, heard,
  whole, played,
  heap, held, stack, growing, moving, pc, regions, engines, mapped, views,
  maps, gone,
  frame, frames, blkRc, captured, blkHeld, varRc, freed,
  progs, cap, noAbbrev, kept, answer,
  tried, ok, box, live, stmtOf, known, status,
  pages, hint, table, given, forgotten, at,
  active, failed, epoch, frontier, items, consumed, calling, queued,
  collected, sent, response, request, serving, misused,
  pt_stop, au_cancel, settle_failed, stopped, utt, samples, pull_pos,
  pending, busy, defer_arm, slices, inflight, ending, early, syn, seen, req,
  got, over,
  source, staging, installed, phase, kills

cfVars == << st, rc, kind, slots, blocks, grave, grave_i, owned, todo, turn,
   hurried >>
aacVars == << backend, dec, pcm, pos, stream, left, call, accepted, lost,
   heard, whole, played >>
guestVars == << heap, held, stack, growing, moving, pc, regions, engines,
   mapped, views, maps, gone >>
blockVars == << frame, frames, blkRc, captured, blkHeld, varRc, freed >>
tableVars == << progs, cap, noAbbrev, kept, answer >>
sqlVars == << tried, ok, box, live, stmtOf, known, status >>
platVars == << pages, hint, table, given, forgotten, at >>
markerVars == << active, failed, epoch, frontier, items, consumed, calling,
   queued, collected, sent, response, request, serving, misused >>
androidVars == << pt_stop, au_cancel, settle_failed, stopped, utt, samples,
   pull_pos, pending, busy, defer_arm, slices, inflight, ending, early, syn,
   seen, req, got, over >>
moveVars == << source, staging, installed, phase, kills >>
objectVars == << cfVars, aacVars, guestVars, blockVars, tableVars,
                 sqlVars, platVars, markerVars, androidVars, moveVars >>

CF == INSTANCE CoreFoundation
AA == INSTANCE AacConverter WITH Frame <- AacFrame
GM == INSTANCE GuestMemory WITH dead <- gone, Room <- ArenaRoom, Requests <- Needs
BL == INSTANCE Blocks WITH MaxFrames <- MaxScopes
RT == INSTANCE RegexTable WITH slots <- progs
SQ == INSTANCE SqlHandles WITH rc <- status
PM == INSTANCE PlatMemory WITH Half <- Midway, mapped <- pages, held <- given, lost <- forgotten
MK == INSTANCE Markers WITH Threads <- Outputs, MaxRequest <- MaxMarked, call <- calling, stream <- response
AN == INSTANCE AndroidSpeech WITH pcm <- samples, left <- slices
MV == INSTANCE ProtectedMove WITH live <- installed

(* What the components ask of their bounds: the ring has a place; there is   *)
(* finitely much memory and names that stand for nothing are nobody's; a     *)
(* table begins no larger than it may become; a header and what is reserved *)
(* are not empty; the codec's delay is not shorter than a frame (2112 and    *)
(* 1024 samples); sizes, counts and addresses are numbers; and a request has *)
(* speech, of which the last is held back.                                   *)
ASSUME ObjectsAssumption == Grave \in Nat \ {0} /\ MaxObjects \in Nat
ASSUME BlocksAssumption ==
  IsFiniteSet(Blk) /\ Blk \intersect Var = {}
  /\ {BL!NoOne, BL!Stack, BL!Helper} \intersect (Blk \union Var) = {}
ASSUME SqlAssumption == IsFiniteSet(Boxes) /\ SQ!NoOne \notin Natives
ASSUME TableAssumption == RT!NoPreg \notin Pregs /\ MaxProgs \in Nat /\ FirstCap \in 1 .. MaxProgs
ASSUME GuestAssumption ==
  /\ {Hdr, Align} \subseteq Nat \ {0} /\ {Split, ArenaRoom, StackSize} \subseteq Nat
  /\ Needs \subseteq Nat /\ GM!Block \notin Views
ASSUME PlatAssumption ==
  /\ {Top, Reach, Start, MaxTries} \subseteq Nat
  /\ AskedAt \subseteq Nat /\ Sizes \subseteq Nat \ {0}
ASSUME MarkersAssumption == {MaxMarked, MaxFrames} \subseteq Nat
ASSUME AacAssumption ==
  /\ AacFrame \in Nat \ {0} /\ Priming \in Nat /\ Priming >= AacFrame
  /\ MaxUnit \in Nat /\ Asks \subseteq Nat
ASSUME AndroidAssumption ==
  MaxRequest \in Nat /\ {MaxSlice, MaxPull, Lookbehind} \subseteq Nat \ {0}

-----------------------------------------------------------------------------
\* What somebody still refers to is not freed, and what nobody does is given
\* back once: CoreFoundation objects across the graveyard, heap blocks (not the
\* variables they capture, see Blocks), SQLite's handles in their boxes, and the
\* compiled pattern of each regex_t.
ReferencesHeld == CF!ObjectsHeld /\ BL!BlocksBalance /\ SQ!HandlesBoxed /\ RT!PatternsKept

\* Memory of the guest is one holder's at a time, within its reach, and every
\* emulator maps the same (tiger_host_uc.c, tiger_plat_posix.c).
MemorySound == GM!GuestMemorySound /\ PM!MemoryReached

\* What is heard is what was meant to be: each recording whole and without a
\* seam, each marker at its frame, each Android request its own audio as long as
\* the engine announces the end of its speech behind the last of it
\* (tiger_host_aac.c, tiger_host_markers.c, tiger_host_jni.c).
SpeechHeard == AA!RecordingHeard /\ MK!MarkersPlaced /\ AN!AndroidHeard

\* Nothing of a generation's data goes that is not proven to be copied
\* (ProtectedStorage.kt).
OnlyProvenGoes == MV!OnlyProvenGoes
=============================================================================
