------------------------------- MODULE Loader -------------------------------
(***************************************************************************)
(* Loading the engine (src/src/tiger_host_macho.c, and host_open in        *)
(* tiger_host.c): the images are mapped, relocated, bound to the shims, to *)
(* themselves and to one another, and only then initialised.  A word of    *)
(* guest memory is one entry of mem; what was never written reads zero.    *)
(***************************************************************************)
EXTENDS DyldInfo, TLC, FiniteSets

CONSTANTS Catalog,               \* the images each place may hold ({} for none)
          Order,                 \* the places, in the order they are loaded
          Shims,                 \* the table of shims: name |-> host function
          BaseName,              \* a name without its "$variant"
          Bases,                 \* where the system may put an image that moves
          Granule,               \* the granularity reservations are rounded to
          ThunkAt, MaxMissing    \* the thunk area and its size

VARIABLES image,                 \* place |-> the image found there
          slide, mem,            \* where each image landed; guest memory
          loaded, resolved,      \* g_images; the images resolved so far
          missing,               \* g_missing, the names that have a thunk
          ran,                   \* the initialisers run, in order
          dead                   \* die() ended the process
loaderVars == << image, slide, mem, loaded, resolved, missing, ran, dead >>

Places == ToSet(Order)
Get(m, a)    == IF a \in DOMAIN m THEN m[a] ELSE 0
Put(m, a, v) == (a :> v) @@ m
In(i, a)     == Wrap(a + slide[i])

(* ------------------------------- Mapping ------------------------------- *)

Floor(a)  == a - (a % Granule)   \* want: the low address rounded down
Extent(im, base) == base .. base + (im.hi - Floor(im.lo)) - 1
Taken     == UNION { Extent(image[i], Floor(image[i].lo) + slide[i]) : i \in ToSet(loaded) }
Stays(im) == Floor(im.lo) # 0 /\ Extent(im, Floor(im.lo)) \cap Taken = {}
Landings(im) == IF Stays(im) THEN {Floor(im.lo)}
                ELSE { b \in Bases : Extent(im, b) \cap Taken = {} }

(* The segments copied to where they landed; the rest reads as zero.       *)
Copied(im, by) == [ a \in { b + by : b \in DOMAIN im.bytes } |-> im.bytes[a - by] ]

RelocBase(im) == IF im.split THEN im.dataLow ELSE im.lo

(* The local relocations of a classic image; only plain words slide, and a *)
(* prebound lazy pointer gets back the value it had before.                *)
ApplyRelocs(im, by, m) ==
  IF by = 0 THEN m
  ELSE FoldLeft(LAMBDA n, r :
         LET a == Wrap(RelocBase(im) + r.addr + by)
         IN  CASE r.type = "lazy"    -> Put(n, a, Wrap(r.value + by))
               [] r.type = "vanilla" -> Put(n, a, Wrap(Get(n, a) + by))
               [] OTHER              -> n,
         m, im.relocs)

(* POINTER and TEXT_ABSOLUTE32 fixups hold an address of the image's own   *)
(* base; the others are left alone.                                        *)
ApplyRebases(im, by, m) ==
  FoldLeft(LAMBDA n, f : IF f.type \in {1, 2}
                           THEN Put(n, Wrap(f.addr + by), Wrap(Get(n, Wrap(f.addr + by)) + by))
                           ELSE n,
           m, WalkRebase(im.rebase, im.segs).out)

(* ------------------------------ Looking up ----------------------------- *)

LookupShim(name) == IF name \in DOMAIN Shims THEN Shims[name]
                    ELSE IF BaseName[name] \in DOMAIN Shims THEN Shims[BaseName[name]] ELSE 0

(* The first definition of the name, through at most depth aliases; an     *)
(* alias of itself is no definition.                                       *)
RECURSIVE LookupIn(_, _, _)
LookupIn(i, name, depth) ==
  LET found == SelectSeq(image[i].syms, LAMBDA y :
                 /\ y.name = name
                 /\ \/ y.kind = "defined"
                    \/ y.kind = "alias" /\ depth > 0 /\ y.value # name)
  IN  IF found = <<>> THEN 0
      ELSE IF found[1].kind = "defined" THEN In(i, found[1].value)
      ELSE LookupIn(i, found[1].value, depth - 1)

LookupLoaded(i, name) ==
  LET hits == SelectSeq(loaded, LAMBDA k : k # i /\ LookupIn(k, name, 4) # 0)
  IN  IF hits = <<>> THEN 0 ELSE LookupIn(hits[1], name, 4)

Target(i, name) ==               \* shims first, then the image itself
  IF LookupShim(name) # 0 THEN LookupShim(name)
  ELSE IF LookupIn(i, name, 4) # 0 THEN LookupIn(i, name, 4)
  ELSE LookupLoaded(i, name)

(* ------------------------------- Binding ------------------------------- *)

(* The memory, the missing names and whether make_thunk gave up.           *)
Work == [mem |-> mem, missing |-> missing, died |-> FALSE]
Store(w, a, v) == [w EXCEPT !.mem = Put(@, a, v)]

(* Store(w, a, v) for the v the name resolves to, a new thunk if nothing   *)
(* defines it.                                                             *)
Bound(i, w, a, name, Form(_)) ==
  IF Target(i, name) # 0 THEN Store(w, a, Form(Target(i, name)))
  ELSE IF Len(w.missing) >= MaxMissing THEN [w EXCEPT !.died = TRUE]
  ELSE [Store(w, a, Form(ThunkAt + 16 * Len(w.missing))) EXCEPT !.missing = Append(@, name)]

(* One entry of a section of pointers, or of the five-byte jump table that *)
(* is rewritten in place.                                                  *)
BindEntry(i, w, section, k) ==
  LET sym  == section.entries[k]
      stub == section.type = "stubs5"
      a    == In(i, section.addr + (k - 1) * (IF stub THEN 5 ELSE 4))
  IN  CASE sym \in {"ABS", "NONE"} \/ (stub /\ sym = "LOCAL") -> w
        [] sym = "LOCAL" /\ ~stub -> Store(w, a, Wrap(Get(w.mem, a) + slide[i]))
        [] stub /\ sym \notin {"LOCAL", "ABS", "NONE"} ->
             Bound(i, w, a + 1, sym, LAMBDA fn : Wrap(fn - (a + 5)))
        [] OTHER -> Bound(i, w, a, sym, LAMBDA fn : fn)

(* The streams own the pointer sections of a compressed image; its stubs   *)
(* stay with the table.                                                    *)
(* As if the streams did not own the pointers.                             *)
BindsAll(i, section) == section.type \in {"stubs5", "pointers"}
Binds(i, section) == section.type = "stubs5" \/ (section.type = "pointers" /\ ~image[i].info)
BindSection(i, w, section) ==
  FoldLeft(LAMBDA v, k : IF v.died THEN v ELSE BindEntry(i, v, section, k),
           w, [ k \in DOMAIN section.entries |-> k ])
BindTable(i, w) ==
  FoldLeft(LAMBDA v, section : IF Binds(i, section) THEN BindSection(i, v, section) ELSE v,
           w, image[i].sections)

(* External relocations add the target to the addend in the slot; a        *)
(* prebound image has the old target in it too.                            *)
ExtReloc(i, w, r) ==
  LET a == In(i, RelocBase(image[i]) + r.addr)
      addend == Get(w.mem, a) - (IF image[i].prebound THEN r.old ELSE 0)
  IN  IF r.plain /\ Target(i, r.sym) # 0 THEN Store(w, a, Wrap(addend + Target(i, r.sym))) ELSE w
ApplyExtRelocs(i, w) == FoldLeft(LAMBDA v, r : ExtReloc(i, v, r), w, image[i].ext)

(* A bind of a stream writes target and addend over whatever is there.     *)
DoBind(i, w, f) ==
  IF w.died \/ f.type # 1 THEN w
  ELSE IF f.weak /\ Target(i, f.sym) = 0 THEN Store(w, Wrap(f.addr + slide[i]), 0)
  ELSE Bound(i, w, Wrap(f.addr + slide[i]), f.sym, LAMBDA fn : Wrap(fn + f.addend))

BindStreams(im) == << WalkBind(im.bind, im.segs, FALSE), WalkBind(im.weak, im.segs, FALSE),
                      WalkBind(im.lazy, im.segs, TRUE) >>
ApplyBinds(i, w) ==
  FoldLeft(LAMBDA v, walk : FoldLeft(LAMBDA u, f : DoBind(i, u, f), v, walk.out),
           w, BindStreams(image[i]))

Resolution(i) == IF image[i].info THEN ApplyBinds(i, BindTable(i, Work))
                 ELSE ApplyExtRelocs(i, BindTable(i, Work))

(* ------------------------------- The order ----------------------------- *)

Init ==
  /\ image \in FoldSet(LAMBDA i, made : { f @@ (i :> im) : f \in made, im \in Catalog[i] },
                      {<< >>}, Places)
  /\ slide = [ i \in Places |-> 0 ]
  /\ mem = << >> /\ loaded = <<>> /\ resolved = <<>>
  /\ missing = <<>> /\ ran = <<>> /\ dead = FALSE

Here == SelectSeq(Order, LAMBDA i : image[i].present)
Load ==
  /\ ~dead /\ Len(loaded) < Len(Here)
  /\ LET i == Here[Len(loaded) + 1]
         im == image[i]
     IN  /\ loaded' = Append(loaded, i)
         /\ IF Landings(im) = {} \/ (im.info /\ WalkRebase(im.rebase, im.segs).died)
              THEN dead' = TRUE /\ UNCHANGED << slide, mem >>
            ELSE \E base \in Landings(im) :
              LET by == Wrap(base - Floor(im.lo))
                  copy == Copied(im, by) @@ mem
              IN  /\ slide' = [slide EXCEPT ![i] = by]
                  /\ mem' = IF im.info THEN ApplyRebases(im, by, copy)
                                       ELSE ApplyRelocs(im, by, copy)
                  /\ UNCHANGED dead
  /\ UNCHANGED << image, resolved, missing, ran >>

Resolve ==
  /\ ~dead /\ Len(loaded) = Len(Here) /\ Len(resolved) < Len(Here)
  /\ LET i == Here[Len(resolved) + 1]
         w == Resolution(i)
         lost == image[i].info /\ \E k \in 1 .. 3 : BindStreams(image[i])[k].died
     IN  /\ mem' = w.mem /\ missing' = w.missing
         /\ dead' = (w.died \/ lost)
         /\ resolved' = Append(resolved, i)
  /\ UNCHANGED << image, slide, loaded, ran >>

Initializers(i) ==
  FlattenSeq([ k \in DOMAIN image[i].sections |->
    LET s == image[i].sections[k]
    IN  IF s.type # "inits" THEN <<>>
        ELSE [ j \in DOMAIN s.entries |-> Get(mem, In(i, s.addr + 4 * (j - 1))) ] ])
RunInitializers ==
  /\ ~dead /\ Len(resolved) = Len(Here) /\ Len(ran) < Len(Here)
  /\ ran' = Append(ran, Initializers(Here[Len(ran) + 1]))
  /\ UNCHANGED << image, slide, mem, loaded, resolved, missing, dead >>

Next == Load \/ Resolve \/ RunInitializers
=============================================================================
