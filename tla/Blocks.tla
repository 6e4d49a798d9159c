-------------------------------- MODULE Blocks --------------------------------
(* The Blocks runtime of tiger_host_gcd.c.  The engine builds a block in a     *)
(* frame of its stack; copying moves it to the heap, with the __block variable *)
(* or the block it captures, and releasing gives both back.  What the compiler *)
(* emits around a frame is the engine's and modelled from that.                *)
EXTENDS Naturals, FiniteSets

CONSTANTS Blk,          \* blocks that may be on the heap
          Var,          \* __block variables that may be on the heap
          MaxCopies,    \* references the engine holds to one block
          MaxFrames     \* frames entered

NoOne  == "no one"
Stack  == "stack"
Helper == "helper"      \* what a block captured is still to be assigned

VARIABLES
  frame,      \* of the frame: whether it is open, and where its variable forwards to
  frames,     \* frames entered so far
  blkRc,      \* BLK_REFCOUNT_MASK of each heap block; 0 when it has no reference
  captured,   \* what each captured, until its dispose helper has run
  blkHeld,    \* references the engine holds to each block
  varRc,      \* and the count of each heap variable
  freed       \* heap variables given back

blockVars == << frame, frames, blkRc, captured, blkHeld, varRc, freed >>

Closed  == [open |-> FALSE, to |-> NoOne]
Free(b) == blkRc[b] = 0 /\ captured[b] = NoOne

Init ==
  /\ frame = Closed /\ frames = 0
  /\ blkRc = [b \in Blk |-> 0] /\ captured = [b \in Blk |-> NoOne]
  /\ blkHeld = [b \in Blk |-> 0] /\ varRc = [v \in Var |-> 0] /\ freed = {}

\* The engine enters a frame with a __block variable of its own.
Enter ==
  /\ ~frame.open /\ frames < MaxFrames
  /\ frame' = [open |-> TRUE, to |-> Stack] /\ frames' = frames + 1
  /\ UNCHANGED << blkRc, captured, blkHeld, varRc, freed >>

\* sh_Block_copy of a block of the frame: a new block on the heap, whose copy
\* helper is still to run if it captures.  Without memory it returns NULL, and
\* nothing changes.
Copy(b) ==
  /\ frame.open /\ Free(b) /\ \A c \in Blk : captured[c] # Helper
  /\ blkRc' = [blkRc EXCEPT ![b] = 1]
  /\ blkHeld' = [blkHeld EXCEPT ![b] = 1]
  /\ \E x \in {NoOne, Helper} : captured' = [captured EXCEPT ![b] = x]
  /\ UNCHANGED << frame, frames, varRc, freed >>

Captures(b, x) == captured[b] = Helper /\ captured' = [captured EXCEPT ![b] = x]

\* sh_Block_object_assign of a __block variable: the first copy moves it to the
\* heap with a count of one and leaves the frame forwarding there; a later one
\* is counted.  Without memory the block is left with the variable of the stack.
AssignByref(b) ==
  /\ \/ /\ frame.to = Stack
        /\ \/ \E v \in Var : /\ varRc[v] = 0 /\ v \notin freed
                             /\ \A c \in Blk : captured[c] # v
                             /\ varRc' = [varRc EXCEPT ![v] = 1]
                             /\ frame' = [frame EXCEPT !.to = v]
                             /\ Captures(b, v)
           \/ Captures(b, Stack) /\ UNCHANGED << frame, varRc >>
     \/ /\ frame.to \in Var \ freed
        /\ varRc' = [varRc EXCEPT ![frame.to] = @ + 1]
        /\ Captures(b, frame.to) /\ UNCHANGED frame
  /\ UNCHANGED << frames, blkRc, blkHeld, freed >>

\* And of a block: sh_Block_copy of one that is on the heap already, which is
\* counted (NEEDS_FREE), or of one of the frame, or without memory of neither.
AssignBlock(b) ==
  /\ \/ \E c \in Blk : /\ blkHeld[c] > 0 /\ captured[c] # Helper
                       /\ blkRc' = [blkRc EXCEPT ![c] = @ + 1]
                       /\ Captures(b, c)
     \/ \E c \in Blk : /\ Free(c)
                       /\ blkRc' = [blkRc EXCEPT ![c] = 1]
                       /\ Captures(b, c)
     \/ Captures(b, NoOne) /\ UNCHANGED blkRc
  /\ UNCHANGED << frame, frames, blkHeld, varRc, freed >>

\* sh_Block_copy of a heap block: NEEDS_FREE, so it is counted.
CopyAgain(b) ==
  /\ blkRc[b] > 0 /\ captured[b] # Helper /\ blkHeld[b] < MaxCopies
  /\ blkRc' = [blkRc EXCEPT ![b] = @ + 1]
  /\ blkHeld' = [blkHeld EXCEPT ![b] = @ + 1]
  /\ UNCHANGED << frame, frames, captured, varRc, freed >>

\* sh_Block_release: with the last reference the dispose helper is to run, for
\* what the block captured, and the block is freed.
Release(b) ==
  /\ blkHeld[b] > 0 /\ captured[b] # Helper
  /\ blkHeld' = [blkHeld EXCEPT ![b] = @ - 1]
  /\ blkRc' = [blkRc EXCEPT ![b] = @ - 1]
  /\ UNCHANGED << frame, frames, captured, varRc, freed >>

\* sh_Block_object_dispose of a __block variable: the last reference frees it.
\* One that forwards to the stack is not ours.  What was freed is not followed
\* further.
Disposed(v) ==
  IF v \notin Var \ freed THEN UNCHANGED << varRc, freed >>
  ELSE /\ varRc' = [varRc EXCEPT ![v] = @ - 1]
       /\ freed' = IF varRc[v] = 1 THEN freed \union {v} ELSE freed

\* The dispose helper of a block without references: a block that was captured
\* is released in turn.
Dispose(b) ==
  /\ blkRc[b] = 0 /\ captured[b] # NoOne
  /\ captured' = [captured EXCEPT ![b] = NoOne]
  /\ IF captured[b] \in Blk
     THEN blkRc' = [blkRc EXCEPT ![captured[b]] = @ - 1] /\ UNCHANGED << varRc, freed >>
     ELSE Disposed(captured[b]) /\ UNCHANGED blkRc
  /\ UNCHANGED << frame, frames, blkHeld >>

\* The frame ends, and what the compiler emits disposes of its variable through
\* where it forwards.
Leave ==
  /\ frame.open /\ \A b \in Blk : captured[b] # Helper
  /\ frame' = Closed
  /\ Disposed(frame.to)
  /\ UNCHANGED << frames, blkRc, captured, blkHeld >>

Next == \/ Enter \/ Leave
        \/ \E b \in Blk : \/ Copy(b) \/ AssignByref(b) \/ AssignBlock(b)
                          \/ CopyAgain(b) \/ Release(b) \/ Dispose(b)

-----------------------------------------------------------------------------
\* A heap block has a reference for every copy the engine holds of it and for
\* every block that captured it and has not given it back, and so is freed by
\* the last of them (sh_Block_copy, sh_Block_release and the object helpers; the
\* comment on sh_Block_copy: "releases balance").  Nothing of the kind is said
\* of a __block variable: the first copy is counted for the block that captures
\* it and not for the frame, whose own dispose then takes a reference from one
\* of its captors, and it is freed while they still refer to it.
Captors(b) == {c \in Blk : captured[c] = b}
BlocksBalance == \A b \in Blk : blkRc[b] = blkHeld[b] + Cardinality(Captors(b))
=============================================================================
