------------------------------ MODULE GuestSync ------------------------------
(***************************************************************************)
(* What the engine's own threads synchronise with: pthread mutexes and     *)
(* conditions kept in a side table by guest address, Multiprocessing       *)
(* tasks, and the bounded message queues they talk through                 *)
(* (src/src/tiger_host_shims.c, tiger_host_cxx.c), on handles that behave  *)
(* as WinHandles says.  The engine does not destroy what is in use.        *)
(***************************************************************************)
EXTENDS Integers, Sequences, FiniteSets

CONSTANTS Threads,               \* threads of the engine
          Addresses,             \* where it keeps its mutexes
          Cap,                   \* MPQ_CAP
          MaxCalls,              \* calls a thread makes
          MaxNative              \* native objects made in a behaviour

VARIABLES table,                 \* g_guest_sync: address |-> native mutex, 0 for none
          natives,               \* native mutexes made so far
          own,                   \* native mutex |-> who is in it, and how deep
          at,                    \* thread |-> where it is
          ring, head, tail, count,         \* mpqueue
          cs, sem,               \* its critical section and semaphore
          sent, got,             \* messages accepted, and delivered, in order
          lost,                  \* messages refused by a full queue
          task,                  \* thread |-> the life of its task
          calls
guestVars == << table, natives, own, at, ring, head, tail, count, cs, sem,
                sent, got, lost, task, calls >>

Nobody == "nobody"
Idle   == [pc |-> "idle", a |-> Nobody, n |-> 0]

Init ==
  /\ table = [ a \in Addresses |-> 0 ]
  /\ natives = 0
  /\ own = [ n \in 1 .. MaxNative |-> [by |-> Nobody, depth |-> 0] ]
  /\ at = [ t \in Threads |-> Idle ]
  /\ ring = [ i \in 0 .. Cap - 1 |-> << Nobody, 0 >> ]
  /\ head = 0 /\ tail = 0 /\ count = 0
  /\ cs = Nobody /\ sem = 0
  /\ sent = <<>> /\ got = <<>> /\ lost = {}
  /\ task = [ t \in Threads |-> "none" ]
  /\ calls = [ t \in Threads |-> 0 ]

mutexVars == << table, natives, own >>
queueVars == << ring, head, tail, count, cs, sem, sent, got, lost >>

Pc(t, pc)   == [at EXCEPT ![t].pc = pc]
Starts(t)   == /\ at[t] = Idle /\ task[t] \in {"none", "running"} /\ calls[t] < MaxCalls
               /\ calls' = [calls EXCEPT ![t] = @ + 1]

(* ------------------------------ The mutexes ---------------------------- *)

(* guest_sync_get: under the table's lock, the entry for the address, made *)
(* if there is none.  That lock is the statically initialised one of POSIX: *)
(* on Windows the first caller initialises it, and another may enter it    *)
(* before it has, which is outside this model.                             *)
Get(a) ==
  IF table[a] # 0 THEN UNCHANGED << table, natives >>
  ELSE /\ natives < MaxNative
       /\ natives' = natives + 1
       /\ table' = [table EXCEPT ![a] = natives + 1]
Native(a) == IF table[a] # 0 THEN table[a] ELSE natives + 1

LockMutex(t) ==                  \* mtx_ready: one that was never initialised still works
  /\ Starts(t)
  /\ \E a \in Addresses :
       /\ Get(a)
       /\ at' = [at EXCEPT ![t] = [pc |-> "get", a |-> a, n |-> 0]]
  /\ UNCHANGED << own, queueVars, task >>
FindMutex(t) ==                  \* mtx_native, and then outside the table's lock
  /\ at[t].pc = "get"
  /\ Get(at[t].a)
  /\ at' = [at EXCEPT ![t].pc = "enter", ![t].n = Native(at[t].a)]
  /\ UNCHANGED << own, queueVars, task, calls >>
EnterMutex(t) ==                 \* a critical section may be entered again
  LET n == at[t].n
  IN  /\ at[t].pc = "enter"
      /\ own[n].by \in {Nobody, t}
      /\ own' = [own EXCEPT ![n] = [by |-> t, depth |-> @.depth + 1]]
      /\ at' = [at EXCEPT ![t] = Idle]
      /\ UNCHANGED << table, natives, queueVars, task, calls >>

Holds(t, a) == table[a] # 0 /\ own[table[a]].by = t
Left(n)     == IF own[n].depth = 1 THEN [by |-> Nobody, depth |-> 0]
                                   ELSE [own[n] EXCEPT !.depth = @ - 1]
UnlockMutex(t) ==
  /\ at[t] = Idle
  /\ \E a \in Addresses : Holds(t, a) /\ own' = [own EXCEPT ![table[a]] = Left(table[a])]
  /\ UNCHANGED << table, natives, at, queueVars, task, calls >>

(* guest_sync_destroy, of a mutex nobody uses; sh_mutex_init is that and a *)
(* fresh entry.                                                            *)
InUse(a) == \/ table[a] # 0 /\ own[table[a]].by # Nobody
            \/ \E t \in Threads : at[t].pc \in {"get", "enter", "asleep", "woken"} /\ at[t].a = a
DestroyMutex(t) ==
  /\ Starts(t)
  /\ \E a \in Addresses : ~InUse(a) /\ table' = [table EXCEPT ![a] = 0]
  /\ UNCHANGED << natives, own, at, queueVars, task >>
InitMutex(t) ==
  /\ Starts(t) /\ natives < MaxNative
  /\ natives' = natives + 1
  /\ \E a \in Addresses : ~InUse(a) /\ table' = [table EXCEPT ![a] = natives + 1]
  /\ UNCHANGED << own, at, queueVars, task >>

(* sh_cond_wait gives up one level of the mutex and sleeps, in one step;   *)
(* sh_cond_signal wakes one, and a sleeper may also wake for nothing.      *)
CondWait(t) ==
  /\ Starts(t)
  /\ \E a \in Addresses :
       /\ Holds(t, a)
       /\ own' = [own EXCEPT ![table[a]] = Left(table[a])]
       /\ at' = [at EXCEPT ![t] = [pc |-> "asleep", a |-> a, n |-> table[a]]]
  /\ UNCHANGED << table, natives, queueVars, task >>
CondSignal(t) ==
  /\ Starts(t)
  /\ \E s \in Threads : at[s].pc = "asleep" /\ at' = Pc(s, "woken")
  /\ UNCHANGED << mutexVars, queueVars, task >>
CondWake(t) ==
  /\ at[t].pc = "asleep"
  /\ at' = Pc(t, "woken")
  /\ UNCHANGED << mutexVars, queueVars, task, calls >>
CondBack(t) ==
  /\ at[t].pc = "woken" /\ own[at[t].n].by \in {Nobody, t}
  /\ own' = [own EXCEPT ![at[t].n] = [by |-> t, depth |-> @.depth + 1]]
  /\ at' = [at EXCEPT ![t] = Idle]
  /\ UNCHANGED << table, natives, queueVars, task, calls >>

(* ------------------------------- The queue ----------------------------- *)

(* sh_mp_notify_queue: a full queue refuses; else the message goes in      *)
(* under the critical section, and the semaphore counts it only after.     *)
Refuse(m) == lost' = lost \union {m} /\ UNCHANGED << ring, tail, count, sent >>
Enqueue(m) ==
  /\ ring' = [ring EXCEPT ![tail] = m]
  /\ tail' = (tail + 1) % Cap
  /\ count' = count + 1
  /\ sent' = Append(sent, m)
  /\ UNCHANGED lost
Message(t) == << t, calls[t] >>
Notify(t) ==                     \* from the engine, or mp_thunk when its task ends
  /\ \/ Starts(t) /\ UNCHANGED task
     \/ /\ task[t] = "ended" /\ at[t] = Idle
        /\ task' = [task EXCEPT ![t] = "telling"]
        /\ UNCHANGED calls
  /\ at' = Pc(t, "put")
  /\ UNCHANGED << mutexVars, queueVars >>
(* A full queue that takes one more. *)
PutsBeyond(t) ==
  /\ at[t].pc = "put" /\ cs = Nobody
  /\ IF count > Cap THEN Refuse(Message(t)) /\ at' = Pc(t, "idle")
                    ELSE Enqueue(Message(t)) /\ at' = Pc(t, "release")
  /\ task' = IF task[t] = "telling" THEN [task EXCEPT ![t] = "over"] ELSE task
  /\ UNCHANGED << mutexVars, head, cs, sem, got, calls >>
Put(t) ==
  /\ at[t].pc = "put" /\ cs = Nobody
  /\ IF count >= Cap THEN Refuse(Message(t)) /\ at' = Pc(t, "idle")
                     ELSE Enqueue(Message(t)) /\ at' = Pc(t, "release")
  /\ task' = IF task[t] = "telling" THEN [task EXCEPT ![t] = "over"] ELSE task
  /\ UNCHANGED << mutexVars, head, cs, sem, got, calls >>
Release(t) ==
  /\ at[t].pc = "release"
  /\ sem' = sem + 1
  /\ at' = Pc(t, "idle")
  /\ UNCHANGED << mutexVars, ring, head, tail, count, cs, sent, got, lost, task, calls >>

(* sh_mp_wait_on_queue: one unit of the semaphore is one message.          *)
WaitOnQueue(t) ==
  /\ Starts(t) /\ \A n \in 1 .. MaxNative : own[n].by # t
  /\ at' = Pc(t, "wait")
  /\ UNCHANGED << mutexVars, queueVars, task >>
TakeUnit(t) ==
  /\ at[t].pc = "wait" /\ sem > 0
  /\ sem' = sem - 1
  /\ at' = Pc(t, "read")
  /\ UNCHANGED << mutexVars, ring, head, tail, count, cs, sent, got, lost, task, calls >>
WaitTimeout(t) ==
  /\ at[t].pc = "wait"
  /\ at' = Pc(t, "idle")
  /\ UNCHANGED << mutexVars, queueVars, task, calls >>
EnterQueue(t) ==
  /\ at[t].pc = "read" /\ cs = Nobody
  /\ cs' = t
  /\ at' = Pc(t, "reading")
  /\ UNCHANGED << mutexVars, ring, head, tail, count, sem, sent, got, lost, task, calls >>
Dequeue(t) ==
  /\ at[t].pc = "reading"
  /\ got' = Append(got, ring[head])
  /\ head' = (head + 1) % Cap
  /\ count' = count - 1
  /\ cs' = Nobody
  /\ at' = Pc(t, "idle")
  /\ UNCHANGED << mutexVars, ring, tail, sem, sent, lost, task, calls >>

(* ------------------------------- The tasks ----------------------------- *)

(* sh_mp_create_task starts a thread; MPTerminateTask only closes its      *)
(* handle, and the task runs on to its end.                                *)
CreateTask(t) ==
  /\ task[t] = "none" /\ at[t] = Idle /\ calls[t] = 0
  /\ task' = [task EXCEPT ![t] = "running"]
  /\ UNCHANGED << mutexVars, at, queueVars, calls >>
EndTask(t) ==
  /\ task[t] = "running" /\ at[t] = Idle
  /\ \A n \in 1 .. MaxNative : own[n].by # t
  /\ task' = [task EXCEPT ![t] = "ended"]
  /\ calls' = [calls EXCEPT ![t] = MaxCalls + 1]
  /\ UNCHANGED << mutexVars, at, queueVars >>

Steps(t) == \/ FindMutex(t) \/ EnterMutex(t) \/ UnlockMutex(t) \/ CondWake(t) \/ CondBack(t)
            \/ Put(t) \/ Release(t) \/ TakeUnit(t) \/ EnterQueue(t) \/ Dequeue(t) \/ EndTask(t)
            \/ (task[t] = "ended" /\ Notify(t))
Next == \E t \in Threads :
          \/ Steps(t) \/ LockMutex(t) \/ DestroyMutex(t) \/ InitMutex(t) \/ CondWait(t)
          \/ CondSignal(t) \/ Notify(t) \/ WaitOnQueue(t) \/ WaitTimeout(t) \/ CreateTask(t)

(* ----------------------------- Correctness ----------------------------- *)

(* Two threads that lock the mutex of one address are never both in it,    *)
(* even if both are the first to use it, or it was destroyed in between.   *)
GuestExclusion ==
  \A a \in Addresses, t, u \in Threads :
    /\ at[t].pc \in {"enter", "asleep", "woken"} /\ at[t].a = a => at[t].n = table[a]
    /\ \A n \in 1 .. MaxNative : own[n].by # Nobody => \E b \in Addresses : table[b] = n

(* Every message accepted is delivered once, in order: what was delivered  *)
(* and what is in the ring is what was sent, and a waiter that has taken a *)
(* unit of the semaphore always finds its message.                         *)
Between(pc) == Cardinality({ t \in Threads : at[t].pc = pc })
MessagesInOrder ==
  /\ sent = got \o [ k \in 1 .. count |-> ring[(head + k - 1) % Cap] ]
  /\ count = sem + Between("release") + Between("read") + Between("reading")

(* The end of a task is told, if the queue has room when it ends.          *)
TaskEndTold ==
  \A t \in Threads : []<>(task[t] \in {"ended", "telling", "over"} =>
    << t, MaxCalls + 1 >> \in lost \union { sent[k] : k \in DOMAIN sent })
=============================================================================
