---------------------------- MODULE CoreFoundation ----------------------------
(* The reference counting of tiger_host_cf.c.  The engine's threads create,   *)
(* retain and release strings, data and containers; an object whose last      *)
(* reference goes is retired into a ring of the last Grave of them, because   *)
(* the engine reads strings it has just released, and is freed when it is     *)
(* evicted.  A release that retires is several atomic operations, and what is *)
(* evicted may release others.                                                *)
EXTENDS Naturals, Sequences, SequencesExt, FiniteSetsExt

CONSTANTS Threads,
          Grave,        \* CF_GRAVE, 64 in the code
          MaxObjects,   \* objects ever created
          MaxOwned      \* references one thread holds to one object

Ids == 1..MaxObjects
Foreign == 0            \* one of the engine's constants: never ours to free

VARIABLES
  st,       \* of each object: "none", "live", "retired", "evicted", "freed"
  rc,       \* cfobj.rc
  kind,     \* cfobj.kind
  slots,    \* what a container holds, in order; a dictionary's keys and values alternate
  blocks,   \* objects whose cfobj.bytes is allocated
  grave,    \* g_grave
  grave_i,  \* g_grave_i
  owned,    \* references each thread owns (the engine)
  todo,     \* what is left of a thread's release, first things first
  turn,     \* the turn of the ring each object was given
  hurried   \* objects evicted before their time

vars == <<st, rc, kind, slots, blocks, grave, grave_i, owned, todo, turn, hurried>>

Init ==
  /\ st = [o \in Ids |-> "none"] /\ rc = [o \in Ids |-> 0]
  /\ kind = [o \in Ids |-> "string"] /\ slots = [o \in Ids |-> <<>>]
  /\ blocks = {}
  /\ grave = [i \in 0..(Grave - 1) |-> 0] /\ grave_i = 0
  /\ owned = [t \in Threads |-> [o \in Ids |-> 0]]
  /\ todo = [t \in Threads |-> <<>>] /\ turn = [o \in Ids |-> 0] /\ hurried = {}

Occurs(o, s) == Cardinality({i \in DOMAIN s : s[i] = o})
Ours(o) == o # Foreign

\* CFRetain of a sequence of objects: the host's own are counted once more each.
Retained(s) == [o \in Ids |-> rc[o] + Occurs(o, s)]

\* cf_make, with what a container or copy retains as it is filled.
Make(t, k, s) ==
  LET o == CHOOSE i \in Ids : st[i] = "none" /\ \A j \in Ids : j < i => st[j] # "none"
  IN  /\ \E i \in Ids : st[i] = "none"
      /\ st' = [st EXCEPT ![o] = "live"]
      /\ rc' = [Retained(s) EXCEPT ![o] = 1]
      /\ kind' = [kind EXCEPT ![o] = k]
      /\ slots' = [slots EXCEPT ![o] = s]
      /\ blocks' = IF k = "data" \/ s # <<>> THEN blocks \cup {o} ELSE blocks
      /\ owned' = [owned EXCEPT ![t][o] = 1]
      /\ UNCHANGED <<grave, grave_i, todo, turn, hurried>>

Runs(t) == todo[t] = <<>>
Owns(t, o) == o \in Ids /\ owned[t][o] > 0

\* cf_new and cf_text, and a copy of a string; cf_data, CFDataCreate and the
\* NoCopy forms.
CreateString(t) == Runs(t) /\ Make(t, "string", <<>>)
CreateData(t) == Runs(t) /\ Make(t, "data", <<>>)

\* CFDictionaryCreate and CFArrayCreate; a mutable array starts empty.  The
\* engine fills them with what it owns: a dictionary of strings and data under
\* constants, arrays of dictionaries.
CreateDictionary(t) ==
  /\ Runs(t)
  /\ \E v \in Ids : Owns(t, v) /\ kind[v] \in {"string", "data"}
                    /\ Make(t, "dict", <<Foreign, v>>)
CreateArray(t) ==
  /\ Runs(t)
  /\ \/ Make(t, "array", <<>>)
     \/ \E v \in Ids : Owns(t, v) /\ kind[v] = "dict" /\ Make(t, "array", <<v>>)

\* CFDictionaryCreateCopy shares the entries.
CreateCopy(t) ==
  /\ Runs(t)
  /\ \E d \in Ids : Owns(t, d) /\ kind[d] = "dict" /\ Make(t, "dict", slots[d])

\* CFArrayAppendValue, on an array no other thread is filling.
AppendValue(t, a, v) ==
  /\ Runs(t) /\ Owns(t, a) /\ kind[a] = "array" /\ Len(slots[a]) < 2
  /\ Owns(t, v) /\ kind[v] = "dict"
  /\ slots' = [slots EXCEPT ![a] = Append(@, v)]
  /\ blocks' = blocks \cup {a}
  /\ rc' = Retained(<<v>>)
  /\ UNCHANGED <<st, kind, grave, grave_i, owned, todo, turn, hurried>>

\* CFArrayGetValueAtIndex and CFDictionaryGetValue lend what the container
\* holds; CFRetain makes it the thread's.
Lent(t) == UNION {Range(slots[d]) : d \in {o \in Ids : Owns(t, o)}} \ {Foreign}
Retain(t, o) ==
  /\ Runs(t) /\ (Owns(t, o) \/ o \in Lent(t)) /\ owned[t][o] < MaxOwned
  /\ rc' = Retained(<<o>>)
  /\ owned' = [owned EXCEPT ![t][o] = @ + 1]
  /\ UNCHANGED <<st, kind, slots, blocks, grave, grave_i, todo, turn, hurried>>

-----------------------------------------------------------------------------
(* CFRelease.                                                                 *)

Task(what, o, i) == [what |-> what, id |-> o, at |-> i]
Doing(t, what) == todo[t] # <<>> /\ Head(todo[t]).what = what
Then(t, more) == todo' = [todo EXCEPT ![t] = more \o Tail(@)]

Release(t, o) ==
  /\ Runs(t) /\ Owns(t, o)
  /\ owned' = [owned EXCEPT ![t][o] = @ - 1]
  /\ todo' = [todo EXCEPT ![t] = <<Task("drop", o, 0)>>]
  /\ UNCHANGED <<st, rc, kind, slots, blocks, grave, grave_i, turn, hurried>>

\* InterlockedDecrement: the last reference retires the object.
Decrement(t) ==
  /\ Doing(t, "drop")
  /\ LET o == Head(todo[t]).id
     IN  IF ~Ours(o) THEN Then(t, <<>>) /\ UNCHANGED <<st, rc>>
         ELSE /\ rc' = [rc EXCEPT ![o] = @ - 1]
              /\ IF rc[o] > 1 THEN Then(t, <<>>) /\ UNCHANGED st
                 ELSE /\ Then(t, <<Task("turn", o, 0)>>)
                      /\ st' = [st EXCEPT ![o] = "retired"]
  /\ UNCHANGED <<kind, slots, blocks, grave, grave_i, owned, turn, hurried>>

\* InterlockedIncrement: the object's place in the ring.
TakeTurn(t) ==
  /\ Doing(t, "turn")
  /\ grave_i' = grave_i + 1
  /\ LET o == Head(todo[t]).id
     IN  /\ Then(t, <<Task("bury", o, (grave_i + 1) % Grave)>>)
         /\ turn' = [turn EXCEPT ![o] = grave_i + 1]
  /\ UNCHANGED <<st, rc, kind, slots, blocks, grave, owned, hurried>>

\* What the evicted gives back: a container its children, then itself.
\* A container freed without its children.
OnlyItself(old) == <<Task("free", old, 0)>>
GivenBack(old) == [i \in DOMAIN slots[old] |-> Task("drop", slots[old][i], 0)]
                  \o <<Task("free", old, 0)>>

\* InterlockedExchangePointer: in goes the one, out comes the other.
Bury(t) ==
  /\ Doing(t, "bury")
  /\ LET task == Head(todo[t])
         old == grave[task.at]
     IN  /\ grave' = [grave EXCEPT ![task.at] = task.id]
         /\ Then(t, IF old = 0 THEN <<>> ELSE GivenBack(old))
         /\ st' = IF old = 0 THEN st ELSE [st EXCEPT ![old] = "evicted"]
         /\ slots' = IF old = 0 THEN slots ELSE [slots EXCEPT ![old] = <<>>]
         /\ hurried' = IF old # 0 /\ turn[task.id] - turn[old] \in 1..(Grave - 1)
                       THEN hurried \cup {old} ELSE hurried
  /\ UNCHANGED <<rc, kind, blocks, grave_i, owned, turn>>

\* GMEM_FREE of a container's slots, of a long string and of the object; the
\* bytes of a data object are not among them.
Free(t) ==
  /\ Doing(t, "free")
  /\ LET o == Head(todo[t]).id
     IN  /\ st' = [st EXCEPT ![o] = "freed"]
         /\ blocks' = IF kind[o] \in {"dict", "array"} THEN blocks \ {o} ELSE blocks
  /\ Then(t, <<>>)
  /\ UNCHANGED <<rc, kind, slots, grave, grave_i, owned, turn, hurried>>

Step(t) ==
  \/ CreateString(t) \/ CreateData(t) \/ CreateDictionary(t) \/ CreateArray(t)
  \/ CreateCopy(t)
  \/ \E a, v \in Ids : AppendValue(t, a, v)
  \/ \E o \in Ids : Retain(t, o) \/ Release(t, o)
  \/ Decrement(t) \/ TakeTurn(t) \/ Bury(t) \/ Free(t)

Next == \E t \in Threads : Step(t)
Spec == Init /\ [][Next]_vars

-----------------------------------------------------------------------------
\* A thread's tasks of these kinds on an object, each by how many come after it.
Waits(tasks, kinds, o) ==
  {Len(tasks) - i : i \in {j \in DOMAIN tasks : tasks[j].what \in kinds /\ tasks[j].id = o}}

\* The references there are to an object: those threads own, those containers
\* hold, and those a release is about to give up.
Owned(o) == UNION {{<<"thread", t, n>> : n \in 1..owned[t][o]} : t \in Threads}
Slotted(o) == UNION {{<<"slot", d, i>> : i \in {j \in DOMAIN slots[d] : slots[d][j] = o}} : d \in Ids}
Dropping(o) == UNION {{<<"drop", t, n>> : n \in Waits(todo[t], {"drop"}, o)} : t \in Threads}
References(o) == Owned(o) \cup Slotted(o) \cup Dropping(o)

\* Where an object nobody refers to is: the graveyard, or the task that puts it
\* there or frees it.
Places(o) == {<<"grave", 0, i>> : i \in {j \in DOMAIN grave : grave[j] = o}}
  \cup UNION {{<<"task", t, n>> : n \in Waits(todo[t], {"turn", "bury", "free"}, o)} : t \in Threads}

\* What the engine or a container still refers to is alive, whichever threads
\* release and retire meanwhile; what it has let go of stays readable until
\* Grave others were retired after it (a release that a whole ring overtook
\* between its two steps on it excepted), and is then evicted once, in one place
\* (CFRelease and its graveyard; the comment there tells of the dictionary that
\* opened a path out of a string it had released).
ObjectsHeld ==
  /\ hurried = {}
  /\ \A o \in Ids :
      /\ st[o] \in {"live", "retired"} => rc[o] = Cardinality(References(o))
      /\ st[o] = "live" <=> References(o) # {}
      /\ Cardinality(Places(o)) = IF st[o] \in {"retired", "evicted"} THEN 1 ELSE 0
=============================================================================
