------------------------------ MODULE DyldInfo ------------------------------
(***************************************************************************)
(* The compressed fixup streams of a Mach-O image                          *)
(* (src/src/tiger_host_dyldinfo.c): LEB numbers, the rebase program and    *)
(* the three bind programs.  A stream is a sequence of bytes, in which the *)
(* name of a symbol is one member.  Addresses are words that wrap.         *)
(***************************************************************************)
EXTENDS Integers, Sequences, SequencesExt

CONSTANTS Word                   \* two to the width of a guest word

Wrap(n) == n % Word              \* the modulus is never negative

(* ------------------------------- Numbers ------------------------------- *)

(* The bytes of the number at i, the last without its high bit.            *)
LebEnd(s, i)  == CHOOSE j \in i .. Len(s) : s[j] < 128 /\ \A k \in i .. j - 1 : s[k] >= 128
LebEnds(s, i) == \E j \in i .. Len(s) : s[j] < 128 /\ \A k \in i .. j - 1 : s[k] >= 128
Bits(s, i, j) == FoldRight(LAMBDA b, v : Wrap((v * 128) + (b % 128)), SubSeq(s, i, j), 0)
Uleb(s, i)    == Bits(s, i, LebEnd(s, i))
Sleb(s, i)    == LET j == LebEnd(s, i)
                 IN  IF s[j] >= 64 THEN Wrap(Bits(s, i, j) - 128 ^ (j - i + 1))
                     ELSE Bits(s, i, j)

(* ------------------------------ The walks ------------------------------ *)

(* The registers of a walk: where it reads, what it would emit next, and   *)
(* the fixups it has emitted.                                              *)
Fresh(i, out) == [ at |-> i, seg |-> 0, off |-> 0, type |-> 1, sym |-> "none",
                   addend |-> 0, weak |-> FALSE, out |-> out, over |-> FALSE, died |-> FALSE ]
Die(w)        == [w EXCEPT !.died = TRUE]

(* n fixups from the current slot on, each stride bytes after the last.    *)
Emit(w, n, stride, segs) ==
  IF n > 0 /\ w.seg \notin DOMAIN segs THEN Die(w)
  ELSE [w EXCEPT
          !.out = @ \o [ k \in 1 .. n |->
                         [ addr |-> Wrap(segs[w.seg] + w.off + (k - 1) * stride), type |-> w.type,
                           sym |-> w.sym, addend |-> w.addend, weak |-> w.weak ] ],
          !.off = Wrap(@ + n * stride)]

Move(w, n) == [w EXCEPT !.off = Wrap(@ + n)]
Past(w, j) == [w EXCEPT !.at = j + 1]

RebaseOps == << "done", "type", "segment", "add", "add_scaled", "times_imm", "times",
                "one_add", "times_skip" >>
BindOps   == << "done", "ordinal_imm", "ordinal", "ordinal_imm", "symbol", "type", "addend",
                "segment", "add", "one", "one_add", "one_add_scaled", "times_skip" >>

OneNumber  == {"segment", "add", "times", "one_add", "ordinal", "addend"}
TwoNumbers == {"times_skip"}
Complete(s, i, op) ==            \* the operands are all there
  /\ op \in OneNumber  => LebEnds(s, i)
  /\ op \in TwoNumbers => LebEnds(s, i) /\ LebEnds(s, LebEnd(s, i) + 1)
  /\ op = "symbol"     => i <= Len(s)

(* What one opcode, its immediate imm and the operands from w.at on do.    *)
Obey(w, op, imm, s, segs, lazy) ==
  LET n == Uleb(s, w.at)
      j == LebEnd(s, w.at)
  IN  CASE op = "done" -> IF lazy THEN Fresh(w.at, w.out) ELSE [w EXCEPT !.over = TRUE]
        [] op = "ordinal_imm" -> w
        [] op = "ordinal"     -> Past(w, j)
        [] op = "type"        -> [w EXCEPT !.type = imm]
        [] op = "symbol"      -> [w EXCEPT !.sym = s[w.at], !.weak = imm % 2 = 1, !.at = @ + 1]
        [] op = "addend"      -> [Past(w, j) EXCEPT !.addend = Sleb(s, w.at)]
        [] op = "segment"     -> [Past(w, j) EXCEPT !.seg = imm, !.off = n]
        [] op = "add"         -> Move(Past(w, j), n)
        [] op = "add_scaled"  -> Move(w, 4 * imm)
        [] op = "one"         -> Emit(w, 1, 4, segs)
        [] op = "times_imm"   -> Emit(w, imm, 4, segs)
        [] op = "times"       -> Emit(Past(w, j), n, 4, segs)
        [] op = "one_add"     -> Move(Emit(Past(w, j), 1, 4, segs), n)
        [] op = "one_add_scaled" -> Move(Emit(w, 1, 4, segs), 4 * imm)
        [] op = "times_skip"  ->
             Emit(Past(w, LebEnd(s, j + 1)), n, Wrap(4 + Uleb(s, j + 1)), segs)

RECURSIVE Walk(_, _, _, _, _)
Walk(w, s, segs, ops, lazy) ==
  LET code == s[w.at] \div 16 + 1
      next == [w EXCEPT !.at = @ + 1]
  IN  IF w.at > Len(s) \/ w.over \/ w.died THEN w
      ELSE IF code \notin DOMAIN ops \/ ~Complete(s, next.at, ops[code]) THEN Die(w)
      ELSE Walk(Obey(next, ops[code], s[w.at] % 16, s, segs, lazy), s, segs, ops, lazy)

(* The fixups of a rebase stream, and of a bind stream: in the lazy one    *)
(* DONE starts the next symbol's little program instead of ending.         *)
WalkRebase(s, segs)       == Walk(Fresh(1, <<>>), s, segs, RebaseOps, FALSE)
WalkBind(s, segs, lazy)   == Walk(Fresh(1, <<>>), s, segs, BindOps, lazy)
=============================================================================
