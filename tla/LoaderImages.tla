---------------------------- MODULE LoaderImages ----------------------------
(***************************************************************************)
(* Images to load, each with what its slots have to hold in the end: an    *)
(* address of its own, or a symbol and an addend.  The streams of a        *)
(* compressed image are written by one of several encoders.                *)
(***************************************************************************)
EXTENDS Integers, Sequences, SequencesExt, TLC

Word == 4096
Granule == 16
Bases == {1024, 2048}
Shims == [malloc |-> 3000]
BaseName == [ n \in {"malloc", "f", "g", "vt", "own", "gone", "opt"} |-> n ]
            @@ ("malloc$U" :> "malloc")
ThunkAt == 3200
MaxMissing == 4
Order == << "ab", "ls", "sd", "mt" >>

(* ------------------------------- Encoding ------------------------------ *)

UlebOf(n) == IF n < 128 THEN <<n>> ELSE <<128 + (n % 128), n \div 128>>
SlebOf(n) == IF n \in -64 .. 63 THEN <<n % 128>> ELSE <<128 + (n % 128), (n \div 128) % 128>>
Op(code, imm) == <<16 * code + imm>>
Flatten(f) == FoldLeft(LAMBDA s, t : s \o t, <<>>, f)

(* The slots offs of segment 1, one by one, by deltas that may run         *)
(* backwards, or as one run of equal strides.                              *)
RebaseStream(style, offs) ==
  Op(1, 1) \o
  CASE style = "each" ->
         Flatten([ k \in DOMAIN offs |-> Op(2, 1) \o UlebOf(offs[k]) \o Op(5, 1) ]) \o Op(0, 0)
    [] style = "delta" ->
         Op(2, 1) \o UlebOf(offs[1]) \o
         Flatten([ k \in 1 .. Len(offs) - 1 |->
           Op(7, 0) \o UlebOf((offs[k + 1] - offs[k] - 4) % Word) ]) \o Op(6, 0) \o <<1>>
    [] style = "run" ->
         Op(2, 1) \o UlebOf((offs[1] - 4) % Word) \o Op(4, 1) \o
         Op(8, 0) \o <<Len(offs)>> \o UlebOf((offs[2] - offs[1] - 4) % Word)

BindStream(style, binds, lazy) ==
  Flatten([ k \in DOMAIN binds |->
    LET b == binds[k]
        at == Op(7, 1) \o UlebOf(b.off)
    IN  Op(4, IF b.weak THEN 1 ELSE 0) \o <<b.sym>> \o Op(6, 0) \o SlebOf(b.addend) \o
        (CASE style = "each"  -> Op(1, 2) \o at \o Op(9, 0)
           [] style = "delta" -> IF k = 1 \/ lazy THEN at \o Op(10, 0) \o <<4>>
                                 ELSE Op(8, 0) \o UlebOf((b.off - binds[k - 1].off - 8) % Word)
                                      \o Op(10, 0) \o <<4>>
           [] style = "run"   -> Op(2, 0) \o <<7>> \o at \o Op(12, 0) \o <<1, 0>>) \o
        (IF lazy THEN Op(0, 0) ELSE <<>>) ])

(* -------------------------------- Images ------------------------------- *)

Def(n, v)   == [name |-> n, kind |-> "defined", value |-> v]
Undef(n)    == [name |-> n, kind |-> "undefined", value |-> 0]
Alias(n, t) == [name |-> n, kind |-> "alias", value |-> t]
Own(a, v)       == [addr |-> a, self |-> TRUE, stub |-> FALSE, sym |-> "none", plus |-> v, weak |-> FALSE]
Sym(a, n, plus) == [addr |-> a, self |-> FALSE, stub |-> FALSE, sym |-> n, plus |-> plus, weak |-> FALSE]
Jump(a, n)      == [addr |-> a, self |-> FALSE, stub |-> TRUE, sym |-> n, plus |-> 0, weak |-> FALSE]
Weak(a, n)      == [Sym(a, n, 0) EXCEPT !.weak = TRUE]

None == [present |-> FALSE]
Blank == [ present |-> TRUE, lo |-> 0, hi |-> 96, split |-> FALSE, dataLow |-> 0,
           prebound |-> FALSE, info |-> FALSE, segs |-> << >>, bytes |-> << >>,
           relocs |-> <<>>, ext |-> <<>>, syms |-> <<>>, sections |-> <<>>,
           rebase |-> <<>>, bind |-> <<>>, weak |-> <<>>, lazy |-> <<>>,
           gives |-> << >>, truth |-> {} ]
Bytes(b, f) == [ a \in { b + k : k \in DOMAIN f } |-> f[a - b] ]
Section(t, a, e) == [type |-> t, addr |-> a, entries |-> e]

(* A classic image based at b: data 32 above it, a pointer of its own, a   *)
(* reference with an addend, a pointer table, a jump table, initialisers.  *)
Classic(b, split, prebound, syms, gives) ==
  [Blank EXCEPT !.gives = gives, !.lo = b, !.hi = b + 96, !.split = split, !.dataLow = b + 32,
     !.prebound = prebound, !.syms = syms,
     !.bytes = Bytes(b, (32 :> b + 20) @@ (36 :> IF prebound THEN 700 + 8 ELSE 8)
                        @@ (48 :> b + 12) @@ (80 :> b + 16) @@ (84 :> 77)),
     !.relocs = LET from == IF split THEN 32 ELSE 0
                IN  << [type |-> "vanilla", addr |-> 32 - from, value |-> 0],
                       [type |-> "vanilla", addr |-> 80 - from, value |-> 0],
                       [type |-> "lazy", addr |-> 84 - from, value |-> b + 4],
                       [type |-> "other", addr |-> 0, value |-> 0] >>,
     !.ext = LET from == IF split THEN 32 ELSE 0
             IN  << [plain |-> TRUE, addr |-> 36 - from, sym |-> "vt", old |-> 700],
                    [plain |-> FALSE, addr |-> 0, sym |-> "vt", old |-> 0],
                    [plain |-> TRUE, addr |-> 0, sym |-> "gone", old |-> 0] >>,
     !.sections = << Section("pointers", b + 40, << "malloc$U", "f", "LOCAL", "ABS", "gone" >>),
                     Section("stubs", b + 64, << "f" >>),
                     Section("stubs5", b + 64, << "f", "LOCAL", "own" >>),
                     Section("inits", b + 80, << "-" >>) >>,
     !.truth = { Own(b + 32, b + 20), Own(b + 48, b + 12), Own(b + 80, b + 16),
                 Sym(b + 36, "vt", 8), Sym(b + 40, "malloc", 0), Sym(b + 44, "f", 0),
                 Sym(b + 56, "gone", 0), Jump(b + 64, "f"), Jump(b + 74, "own") } ]

(* A compressed one: the same kind of slots, named by streams; its pointer *)
(* section describes slots that the streams already did.                   *)
Compressed(b, style, syms, gives) ==
  [Blank EXCEPT !.gives = gives, !.lo = b, !.hi = b + 96, !.info = TRUE, !.syms = syms,
     !.segs = (0 :> b) @@ (1 :> b + 32),
     !.bytes = Bytes(b, (48 :> b + 20) @@ (40 :> b + 12) @@ (32 :> b + 16) @@ (52 :> 55)),
     !.rebase = RebaseStream(style, << 16, 8, 0 >>),
     !.bind = BindStream(style, << [off |-> 4, sym |-> "vt", addend |-> 8, weak |-> FALSE],
                                   [off |-> 20, sym |-> "malloc", addend |-> 0, weak |-> FALSE],
                                   [off |-> 12, sym |-> "opt", addend |-> 0, weak |-> TRUE] >>, FALSE),
     !.weak = BindStream(style, << [off |-> 24, sym |-> "own", addend |-> -100, weak |-> FALSE] >>, FALSE),
     !.lazy = BindStream(style, << [off |-> 28, sym |-> "f", addend |-> 0, weak |-> FALSE],
                                   [off |-> 48, sym |-> "gone", addend |-> 0, weak |-> FALSE] >>, TRUE),
     !.sections = << Section("pointers", b + 40, << "LOCAL" >>),
                     Section("stubs5", b + 64, << "f" >>),
                     Section("inits", b + 32, << "-" >>) >>,
     !.truth = { Own(b + 32, b + 16), Own(b + 40, b + 12), Own(b + 48, b + 20),
                 Sym(b + 36, "vt", 8), Sym(b + 52, "malloc", 0), Weak(b + 44, "opt"),
                 Sym(b + 56, "own", -100), Sym(b + 60, "f", 0), Sym(b + 80, "gone", 0),
                 Jump(b + 64, "f") } ]

(* What is defined where, and the same with the aliases followed by hand.  *)
Styles == {"each", "delta", "run"}
SdSyms(b)  == << Undef("g"), Def("own", b + 8), Def("f", b + 12), Def("vt", b + 28) >>
SdGives(b) == [own |-> b + 8, f |-> b + 12, vt |-> b + 28]
MtSyms  == << Undef("f"), Undef("vt"), Def("own", 4) >>
MtGives == [own |-> 4]
LsSyms  == << Alias("vt", "vt"), Alias("f", "g"), Def("g", 536), Def("own", 516) >>
LsGives == [f |-> 536, g |-> 536, own |-> 516]
AbSyms(b)  == << Alias("f", "f"), Def("own", b + 4) >>
AbGives(b) == [own |-> b + 4]

Catalog ==
  [ ab |-> {None, Compressed(512, "each", AbSyms(512), AbGives(512))},
    ls |-> {None, Classic(512, FALSE, FALSE, LsSyms, LsGives),
                  Compressed(0, "delta", AbSyms(0), AbGives(0))},
    sd |-> { Classic(512, TRUE, p, SdSyms(512), SdGives(512)) : p \in BOOLEAN }
           \union { Compressed(768, s, SdSyms(768), SdGives(768)) : s \in Styles },
    mt |-> { Classic(0, FALSE, FALSE, MtSyms, MtGives) }
           \union { Compressed(0, s, MtSyms, MtGives) : s \in Styles } ]
=============================================================================
