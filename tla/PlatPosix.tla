------------------------------ MODULE PlatPosix ------------------------------
(***************************************************************************)
(* The waitable handles on POSIX (src/src/tiger_plat_posix.c): a mutex and *)
(* a condition each, slept on in a loop, and for a thread a count of the   *)
(* references that the owner and the running wrapper hold.  Callers are    *)
(* the threads of the host that use the handles; one that has started a    *)
(* thread is alone in waiting for it and closing its handle.               *)
(***************************************************************************)
EXTENDS Integers, FiniteSets, FiniteSetsExt

CONSTANTS Callers, Handles,
          MaxCalls               \* the calls a caller makes

VARIABLES kind,                  \* handle |-> its kind, which it keeps
          level,                 \* signaled, count or done
          refs,                  \* a thread handle's references
          freed,                 \* the handles h_free has freed
          mtx,                   \* handle |-> who holds its mutex
          at,                    \* caller |-> the call it is in
          tramp,                 \* thread handle |-> where its wrapper is
          owner,                 \* thread handle |-> who started it
          answer, calls
posixVars == << kind, level, refs, freed, mtx, at, tramp, owner, answer, calls >>

Free   == "free"
NoOp   == [pc |-> "idle", op |-> "none", on |-> "none", timed |-> FALSE, due |-> FALSE,
             n |-> 0]
Threads == { h \in Handles : kind[h] = "thread" }
Events  == { h \in Handles : kind[h] \in {"auto", "manual"} }
Sems    == { h \in Handles : kind[h] = "sem" }

Init ==
  /\ kind \in [Handles -> {"auto", "manual", "sem", "thread"}]
  /\ level \in [Handles -> {0, 1}]
  /\ \A h \in Threads : level[h] = 0
  /\ refs = [ h \in Handles |-> 0 ]
  /\ freed = {}
  /\ mtx = [ h \in Handles |-> Free ]
  /\ at = [ c \in Callers |-> NoOp ]
  /\ tramp = [ h \in Handles |-> "none" ]
  /\ owner = [ h \in Handles |-> "none" ]
  /\ answer = [ c \in Callers |-> "none" ]
  /\ calls = [ c \in Callers |-> 0 ]

Pc(c, pc) == [at EXCEPT ![c].pc = pc]
On(c)     == at[c].on
Asleep(h) == { c \in Callers : at[c].pc = "asleep" /\ On(c) = h }
Wake(S)   == [ c \in Callers |-> IF c \in S THEN [at[c] EXCEPT !.pc = "woken"] ELSE at[c] ]

(* ------------------------------ Threads -------------------------------- *)

(* CreateThread: two references before the thread exists, so neither the   *)
(* wrapper nor the owner can free the handle under the other.  A thread    *)
(* that cannot be made takes the handle with it.                           *)
CreateThread(c, h) ==
  /\ at[c] = NoOp
  /\ h \in Threads /\ tramp[h] = "none"
  /\ \/ /\ refs' = [refs EXCEPT ![h] = 2]
        /\ tramp' = [tramp EXCEPT ![h] = "fn"]
        /\ owner' = [owner EXCEPT ![h] = c]
        /\ UNCHANGED freed
     \/ /\ freed' = freed \union {h}
        /\ tramp' = [tramp EXCEPT ![h] = "over"]
        /\ UNCHANGED << kind, refs, owner >>
  /\ UNCHANGED << kind, level, mtx, at, answer, calls >>

(* thread_trampoline after the thread's own function.                      *)
TrampLock(h) ==
  /\ tramp[h] = "fn" /\ mtx[h] = Free
  /\ mtx' = [mtx EXCEPT ![h] = h]
  /\ tramp' = [tramp EXCEPT ![h] = "locked"]
  /\ UNCHANGED << kind, level, refs, freed, at, owner, answer, calls >>
TrampDone(h) ==
  /\ tramp[h] = "locked"
  /\ level' = [level EXCEPT ![h] = 1]
  /\ at' = Wake(Asleep(h))
  /\ tramp' = [tramp EXCEPT ![h] = "told"]
  /\ UNCHANGED << kind, refs, freed, mtx, owner, answer, calls >>
TrampUnlock(h) ==
  /\ tramp[h] = "told"
  /\ mtx' = [mtx EXCEPT ![h] = Free]
  /\ tramp' = [tramp EXCEPT ![h] = "unref"]
  /\ UNCHANGED << kind, level, refs, freed, at, owner, answer, calls >>

Unref(h) ==
  /\ refs' = [refs EXCEPT ![h] = @ - 1]
  /\ freed' = IF refs[h] = 1 THEN freed \union {h} ELSE freed
TrampUnref(h) ==
  /\ tramp[h] = "unref"
  /\ Unref(h)
  /\ tramp' = [tramp EXCEPT ![h] = "over"]
  /\ UNCHANGED << kind, level, mtx, at, owner, answer, calls >>

(* The owner frees the handle of a thread that may still run. *)
ClosesAtOnce(c, h) ==
  /\ at[c] = NoOp
  /\ h \in Threads /\ owner[h] = c
  /\ freed' = freed \union {h}
  /\ owner' = [owner EXCEPT ![h] = "none"]
  /\ UNCHANGED << kind, level, refs, mtx, at, tramp, answer, calls >>

(* CloseHandle detaches a thread, and leaves an event or a semaphore.      *)
CloseHandle(c, h) ==
  /\ at[c] = NoOp
  /\ h \in Threads /\ owner[h] = c
  /\ Unref(h)
  /\ owner' = [owner EXCEPT ![h] = "none"]
  /\ UNCHANGED << kind, level, mtx, at, tramp, answer, calls >>

(* ------------------------------- Calls --------------------------------- *)

Usable(c) == Events \union Sems \union { h \in Threads : owner[h] = c }
Begin(c, op, h, timed, n) ==
  /\ at[c] = NoOp /\ calls[c] < MaxCalls
  /\ at' = [at EXCEPT ![c] = [pc |-> "enter", op |-> op, on |-> h, timed |-> timed,
                               due |-> FALSE, n |-> n]]
  /\ answer' = IF op = "wait" THEN [answer EXCEPT ![c] = "none"] ELSE answer
  /\ calls' = [calls EXCEPT ![c] = @ + 1]
  /\ UNCHANGED << kind, level, refs, freed, mtx, tramp, owner >>
Call(c) ==
  \/ \E h \in Usable(c), timed \in BOOLEAN : Begin(c, "wait", h, timed, 0)
  \/ \E h \in Events, op \in {"set", "reset"} : Begin(c, op, h, FALSE, 0)
  \/ \E h \in Sems, n \in 1 .. 2 : Begin(c, "release", h, FALSE, n)

Enter(c) ==
  /\ at[c].pc = "enter" /\ mtx[On(c)] = Free
  /\ mtx' = [mtx EXCEPT ![On(c)] = c]
  /\ at' = Pc(c, "in")
  /\ UNCHANGED << kind, level, refs, freed, tramp, owner, answer, calls >>
Leave(c) ==
  /\ at[c].pc = "leave"
  /\ mtx' = [mtx EXCEPT ![On(c)] = Free]
  /\ at' = [at EXCEPT ![c] = NoOp]
  /\ UNCHANGED << kind, level, refs, freed, tramp, owner, answer, calls >>

(* WaitForSingleObject, under the mutex: take what is there, or sleep,     *)
(* which lets go of the mutex in the same instant.                         *)
Left(h) == CASE kind[h] = "auto" -> 0
             [] kind[h] = "sem"  -> level[h] - 1
             [] OTHER            -> level[h]
Take(c) ==
  /\ at[c].pc = "in" /\ at[c].op = "wait" /\ level[On(c)] > 0
  /\ level' = [level EXCEPT ![On(c)] = Left(On(c))]
  /\ answer' = [answer EXCEPT ![c] = "object"]
  /\ at' = Pc(c, "leave")
  /\ UNCHANGED << kind, refs, freed, mtx, tramp, owner, calls >>
Sleep(c) ==
  /\ at[c].pc = "in" /\ at[c].op = "wait" /\ level[On(c)] <= 0
  /\ mtx' = [mtx EXCEPT ![On(c)] = Free]
  /\ at' = Pc(c, "asleep")
  /\ UNCHANGED << kind, level, refs, freed, tramp, owner, answer, calls >>

(* A condition may wake for nothing, and a timed one does not sleep past   *)
(* its time; then the wait is over, whatever was signalled meanwhile.      *)
Expire(c) ==
  /\ at[c].timed /\ ~at[c].due
  /\ at' = [at EXCEPT ![c].due = TRUE]
  /\ UNCHANGED << kind, level, refs, freed, mtx, tramp, owner, answer, calls >>
Rouse(c) ==
  /\ at[c].pc = "asleep"
  /\ at' = Pc(c, IF at[c].due THEN "late" ELSE "woken")
  /\ UNCHANGED << kind, level, refs, freed, mtx, tramp, owner, answer, calls >>
(* A wait that takes any wakeup for its signal. *)
TrustsAnyWakeup(c) ==
  /\ at[c].pc \in {"woken", "late"} /\ mtx[On(c)] = Free
  /\ mtx' = [mtx EXCEPT ![On(c)] = c]
  /\ at' = Pc(c, "leave")
  /\ answer' = [answer EXCEPT ![c] = IF at[c].pc = "late" THEN "timeout" ELSE "object"]
  /\ UNCHANGED << kind, level, refs, freed, tramp, owner, calls >>
Awaken(c) ==
  /\ at[c].pc \in {"woken", "late"} /\ mtx[On(c)] = Free
  /\ mtx' = [mtx EXCEPT ![On(c)] = c]
  /\ at' = Pc(c, IF at[c].pc = "late" THEN "leave" ELSE "in")
  /\ answer' = IF at[c].pc = "late" THEN [answer EXCEPT ![c] = "timeout"] ELSE answer
  /\ UNCHANGED << kind, level, refs, freed, tramp, owner, calls >>

(* SetEvent, ResetEvent and ReleaseSemaphore, which signals its condition  *)
(* once for every unit it adds.                                            *)
SetEvent(c) ==
  /\ at[c].pc = "in" /\ at[c].op = "set"
  /\ level' = [level EXCEPT ![On(c)] = 1]
  /\ at' = [Wake(Asleep(On(c))) EXCEPT ![c].pc = "leave"]
  /\ UNCHANGED << kind, refs, freed, mtx, tramp, owner, answer, calls >>
ResetEvent(c) ==
  /\ at[c].pc = "in" /\ at[c].op = "reset"
  /\ level' = [level EXCEPT ![On(c)] = 0]
  /\ at' = Pc(c, "leave")
  /\ UNCHANGED << kind, refs, freed, mtx, tramp, owner, answer, calls >>
ReleaseSemaphore(c) ==
  /\ at[c].pc = "in" /\ at[c].op = "release"
  /\ level' = [level EXCEPT ![On(c)] = @ + at[c].n]
  /\ \E S \in SUBSET Asleep(On(c)) :
       /\ Cardinality(S) = Min({at[c].n, Cardinality(Asleep(On(c)))})
       /\ at' = [Wake(S) EXCEPT ![c].pc = "leave"]
  /\ UNCHANGED << kind, refs, freed, mtx, tramp, owner, answer, calls >>

Step(c)  == \/ Enter(c) \/ Take(c) \/ Sleep(c) \/ Awaken(c) \/ Leave(c)
            \/ SetEvent(c) \/ ResetEvent(c) \/ ReleaseSemaphore(c)
Clock(c) == Expire(c) \/ (at[c].due /\ Rouse(c))
Tramp(h) == TrampLock(h) \/ TrampDone(h) \/ TrampUnlock(h) \/ TrampUnref(h)
Next ==
  \/ \E c \in Callers : \/ Call(c) \/ Step(c) \/ Expire(c) \/ Rouse(c)
                        \/ \E h \in Threads : CreateThread(c, h) \/ CloseHandle(c, h)
  \/ \E h \in Threads : Tramp(h)

(* ----------------------------- Correctness ----------------------------- *)

(* No thread touches a handle that has been freed.                         *)
HandleAlive ==
  \A h \in freed :
    /\ mtx[h] = Free /\ owner[h] = "none" /\ tramp[h] = "over"
    /\ \A c \in Callers : On(c) # h

(* The wait a caller is in, as WinHandles sees it.                         *)
Waiting == [ c \in Callers |->
  IF at[c].op = "wait" /\ at[c].pc # "leave" THEN [on |-> On(c), timed |-> at[c].timed]
  ELSE [on |-> "none", timed |-> FALSE] ]
W == INSTANCE WinHandles WITH waiting <- Waiting
=============================================================================
