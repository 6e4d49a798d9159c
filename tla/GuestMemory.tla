---------------------------- MODULE GuestMemory ----------------------------
(***************************************************************************)
(* The memory an emulated engine sees (tiger_host_uc.c): one arena every   *)
(* guest block and stack comes from, the table of guest regions, and the   *)
(* emulators, one per thread, that must all map those regions.  The file   *)
(* views of sh_mmap and sh_munmap (tiger_host_files.c) come and go in it.  *)
(*                                                                         *)
(* An action is one hold of g_arena_cs or g_map_cs, or the call between    *)
(* two of them.  Sizes are in units of the allocator's alignment; what a   *)
(* block holds is left out, so a block is its header's address.            *)
(***************************************************************************)
EXTENDS SequencesExt, Integers

CONSTANTS Threads,      \* threads that may enter the guest
          Views,        \* addresses the host hands out for a mapped file
          MaxMaps,      \* MAX_MAPS: the views sh_munmap can find again
          Hdr,          \* ARENA_HDR
          Split,        \* ARENA_SPLIT
          Align,        \* payloads are rounded up to this
          Room,         \* UC_ARENA_SZ
          StackSize,    \* UC_STACK_SZ
          Requests,     \* the sizes guest code asks for
          MaxHeld       \* a bound: guest blocks a thread holds at a time

VARIABLES
    heap,       \* [next, free, size]: g_arena_next, the free list, the headers
    held,       \* the blocks each thread's guest code holds, [at, need]
    stack,      \* t_stack_base of each thread, as a header; 0 is none
    growing,    \* sh_uc_realloc between its allocation and its free: the old block
    moving,     \* the view a thread is mapping or unmapping, {} when none
    pc,         \* where a thread is with respect to its emulator and to files
    regions,    \* g_regions
    engines,    \* g_engines, by the thread that owns the emulator
    mapped,     \* what each emulator maps
    views,      \* the host's live file views
    maps,       \* g_maps: the views sh_munmap knows
    dead        \* die() was called: "no", "stack" or "map"

vars == <<heap, held, stack, growing, moving, pc, regions, engines, mapped, views, maps, dead>>

Base == 2 * Align                   \* g_uc_arena; 0 is the null pointer
End == Base + Room                  \* g_uc_arena_end
Block == "block"                    \* trampolines and arena, one region

BlockEnd(h, at) == at + Hdr + h.size[at]

-----------------------------------------------------------------------------
(* The allocator, as functions of the heap.                                *)

Rounded(n) == ((n + Align - 1) \div Align) * Align

Resized(h, at, n) == [h EXCEPT !.size = [a \in DOMAIN @ \cup {at} |-> IF a = at THEN n ELSE @[a]]]

Unheaded(h, at) == [h EXCEPT !.size = [a \in DOMAIN @ \ {at} |-> @[a]]]

\* arena_alloc: the header of the block found, 0 when there is none, and the heap left.
Allocated(h, want) ==
    LET n == Rounded(want)
        fits == {i \in DOMAIN h.free : h.size[h.free[i]] >= n}
    IN  IF fits # {}
        THEN LET i == CHOOSE j \in fits : \A k \in fits : j <= k
                 at == h.free[i]
                 tail == at + Hdr + n
                 left == h.size[at] - n - Hdr
             IN  [at |-> at,
                  heap |-> IF left >= Split
                           THEN Resized(Resized([h EXCEPT !.free[i] = tail], tail, left), at, n)
                           ELSE [h EXCEPT !.free = RemoveAt(@, i)]]
        ELSE IF h.next + Hdr + n <= End
        THEN [at |-> h.next, heap |-> [Resized(h, h.next, n) EXCEPT !.next = h.next + Hdr + n]]
        ELSE [at |-> 0, heap |-> h]

\* Neighbours left apart.
LeftApart(h, i) == h

\* Two neighbours of the free list become the first of them when they touch.
Joined(h, i) ==
    IF i \in DOMAIN h.free /\ i + 1 \in DOMAIN h.free /\ BlockEnd(h, h.free[i]) = h.free[i + 1]
    THEN LET at == h.free[i] next == h.free[i + 1]
         IN  Unheaded(Resized([h EXCEPT !.free = RemoveAt(@, i + 1)],
                              at, h.size[at] + Hdr + h.size[next]), next)
    ELSE h

\* arena_release: linked in address order, merged forward and then backward.
Released(h, at) ==
    LET before == Cardinality({i \in DOMAIN h.free : h.free[i] < at})
    IN  Joined(Joined([h EXCEPT !.free = InsertAt(@, before + 1, at)], before + 1), before)

\* sh_uc_free: a pointer outside the arena is left alone.
Freed(h, at) == IF at = 0 \/ at + Hdr >= End THEN h ELSE Released(h, at)

-----------------------------------------------------------------------------
Init == /\ heap = [next |-> Base, free |-> <<>>, size |-> <<>>]
        /\ held = [t \in Threads |-> {}]
        /\ stack = [t \in Threads |-> 0]
        /\ growing = [t \in Threads |-> [at |-> 0, need |-> 0]]
        /\ moving = [t \in Threads |-> {}]
        /\ pc = [t \in Threads |-> "out"]
        /\ regions = {Block}
        /\ engines = {}
        /\ mapped = [t \in Threads |-> {}]
        /\ views = {}
        /\ maps = {}
        /\ dead = "no"

To(t, from, to) == dead = "no" /\ pc[t] = from /\ pc' = [pc EXCEPT ![t] = to]

\* uc_new_engine: the replay of the regions and the registration are one step.
NewEngine(t) ==
    /\ To(t, "out", "engine")
    /\ mapped' = [mapped EXCEPT ![t] = regions]
    /\ engines' = engines \cup {t}
    /\ UNCHANGED <<heap, held, stack, growing, regions, views, maps, dead, moving>>

\* uc_ensure_engine: the guest stack, after the emulator is registered.
NewStack(t) ==
    LET got == Allocated(heap, StackSize)
    IN  /\ To(t, "engine", "in")
        /\ heap' = got.heap
        /\ stack' = [stack EXCEPT ![t] = got.at]
        /\ dead' = IF got.at = 0 THEN "stack" ELSE dead
        /\ UNCHANGED <<held, growing, regions, engines, mapped, views, maps, moving>>

\* uc_release_thread: out of the registry and closed, then the stack is freed.
CloseEngine(t) ==
    /\ To(t, "in", "leaving")
    /\ held[t] = {}
    /\ engines' = engines \ {t}
    /\ mapped' = [mapped EXCEPT ![t] = {}]
    /\ UNCHANGED <<heap, held, stack, growing, regions, views, maps, dead, moving>>

FreeStack(t) ==
    /\ To(t, "leaving", "out")
    /\ heap' = Freed(heap, stack[t])
    /\ stack' = [stack EXCEPT ![t] = 0]
    /\ UNCHANGED <<held, growing, regions, engines, mapped, views, maps, dead, moving>>

\* sh_uc_malloc, sh_uc_calloc, uc_in and uc_out; the refused one answers null.
Malloc(t) ==
    \E n \in Requests :
        LET got == Allocated(heap, n)
        IN  /\ To(t, "in", "in")
            /\ Cardinality(held[t]) < MaxHeld
            /\ got.at # 0
            /\ heap' = got.heap
            /\ held' = [held EXCEPT ![t] = @ \cup {[at |-> got.at, need |-> n]}]
            /\ UNCHANGED <<stack, growing, regions, engines, mapped, views, maps, dead, moving>>

Free(t) ==
    \E b \in held[t] :
        /\ To(t, "in", "in")
        /\ heap' = Freed(heap, b.at)
        /\ held' = [held EXCEPT ![t] = @ \ {b}]
        /\ UNCHANGED <<stack, growing, regions, engines, mapped, views, maps, dead, moving>>

\* sh_uc_realloc: the same block when it is big enough, and the old one kept
\* when there is no other.
Realloc(t) ==
    \E b \in held[t], n \in Requests :
        LET got == Allocated(heap, n)
            stay == heap.size[b.at] >= n
        IN  /\ dead = "no" /\ pc[t] = "in"
            /\ IF stay
               THEN /\ held' = [held EXCEPT ![t] = (@ \ {b}) \cup {[b EXCEPT !.need = n]}]
                    /\ UNCHANGED <<heap, growing, pc, moving>>
               ELSE /\ got.at # 0
                    /\ heap' = got.heap
                    /\ held' = [held EXCEPT ![t] = (@ \ {b}) \cup {[at |-> got.at, need |-> n]}]
                    /\ growing' = [growing EXCEPT ![t] = b]
                    /\ pc' = [pc EXCEPT ![t] = "growing"]
            /\ UNCHANGED <<stack, regions, engines, mapped, views, maps, dead, moving>>

Grown(t) ==
    /\ To(t, "growing", "in")
    /\ heap' = Freed(heap, growing[t].at)
    /\ growing' = [growing EXCEPT ![t] = [at |-> 0, need |-> 0]]
    /\ UNCHANGED <<held, stack, regions, engines, mapped, views, maps, dead, moving>>

\* sh_mmap: the host hands out an address no live view has, and the view is
\* recorded while there is a row for it.
MapView(t) ==
    \E v \in Views \ views :
        /\ To(t, "in", "mapping")
        /\ moving' = [moving EXCEPT ![t] = {v}]
        /\ views' = views \cup {v}
        /\ maps' = IF Cardinality(maps) < MaxMaps THEN maps \cup {v} ELSE maps
        /\ UNCHANGED <<heap, held, stack, growing, regions, engines, mapped, dead>>

\* What uc_add_region and uc_unmap_extern do under g_map_cs.
InEveryEngine(Map(_)) == mapped' = [e \in Threads |-> IF e \in engines THEN Map(mapped[e]) ELSE mapped[e]]

\* uc_map_extern: recorded and mapped into every emulator; a second mapping of
\* the same address is refused by the emulator, which ends the program.
AddRegion(t) ==
    LET Map(m) == m \cup moving[t]
    IN  /\ To(t, "mapping", "in")
        /\ moving' = [moving EXCEPT ![t] = {}]
        /\ regions' = regions \cup moving[t]
        /\ InEveryEngine(Map)
        /\ dead' = IF \E e \in engines : moving[t] \subseteq mapped[e] THEN "map" ELSE dead
        /\ UNCHANGED <<heap, held, stack, growing, engines, views, maps>>

\* sh_munmap: out of every emulator and the table first ...
Unmap(t) ==
    \E v \in maps \cap regions :
        LET Map(m) == m \ {v}
        IN  /\ To(t, "in", "unmapping")
            /\ moving' = [moving EXCEPT ![t] = {v}]
            /\ regions' = regions \ {v}
            /\ InEveryEngine(Map)
            /\ UNCHANGED <<heap, held, stack, growing, engines, views, maps, dead>>

\* ... and only then given back to the host, which may hand it out again.
UnmapView(t) ==
    /\ To(t, "unmapping", "in")
    /\ moving' = [moving EXCEPT ![t] = {}]
    /\ views' = views \ moving[t]
    /\ maps' = maps \ moving[t]
    /\ UNCHANGED <<heap, held, stack, growing, regions, engines, mapped, dead>>

Step(t) == \/ NewEngine(t) \/ NewStack(t) \/ CloseEngine(t) \/ FreeStack(t)
           \/ Malloc(t) \/ Free(t) \/ Realloc(t) \/ Grown(t)
           \/ MapView(t) \/ AddRegion(t) \/ Unmap(t) \/ UnmapView(t)

Next == \E t \in Threads : Step(t)

Spec == Init /\ [][Next]_vars

-----------------------------------------------------------------------------
Used == UNION {{b.at : b \in held[t]} \cup ({stack[t], growing[t].at} \ {0}) : t \in Threads}

Waiting == ToSet(heap.free)

\* The blocks of the arena lie end to end from its start to where it has been
\* handed out to; none is both in use and free, no free one touches the next,
\* and one that is neither is the empty block at the very end, which
\* sh_uc_free takes for somebody else's pointer.
ArenaTiled ==
    LET blocks == DOMAIN heap.size
    IN  /\ Used \cup Waiting \subseteq blocks
        /\ Used \cap Waiting = {}
        /\ Cardinality(Waiting) = Len(heap.free)
        /\ \A a \in blocks \ (Used \cup Waiting) : a + Hdr = End
        /\ \A a \in blocks : BlockEnd(heap, a) \in blocks \cup {heap.next}
        /\ heap.next = Base \/ Base \in blocks
        /\ \A a, b \in blocks : a < b => BlockEnd(heap, a) <= b
        /\ \A a \in Waiting : BlockEnd(heap, a) \notin Waiting

\* No two holders share a block, and each has at least what it asked for.
BlocksAreTheirs ==
    /\ \A t \in Threads : \A b \in held[t] : heap.size[b.at] >= b.need
    /\ \A t, u \in Threads : t # u => {b.at : b \in held[t]} \cap {b.at : b \in held[u]} = {}
    /\ \A t, u \in Threads : stack[t] # 0 =>
          /\ stack[t] \notin {b.at : b \in held[u]}
          /\ t # u => stack[t] # stack[u]

\* Every registered emulator maps exactly the recorded regions, all of them
\* still there on the host, and none was ever asked to map one twice.
EnginesAgree ==
    /\ \A t \in engines : mapped[t] = regions
    /\ regions \ {Block} \subseteq views
    /\ dead # "map"

\* What the guest may rely on: its blocks, and the same memory on every thread.
GuestMemorySound == ArenaTiled /\ BlocksAreTheirs /\ EnginesAgree

=============================================================================
