----------------------------- MODULE WinHandles -----------------------------
(***************************************************************************)
(* What the host expects of a waitable handle, on every platform: a wait   *)
(* ends with a signal, which it takes in the same instant when the object  *)
(* is an auto-reset event or a semaphore, or, if it has a timeout, with    *)
(* that.  A thread's handle is signalled when the thread ends.             *)
(***************************************************************************)
EXTENDS Naturals

CONSTANTS Callers, Handles

VARIABLES kind,                  \* handle |-> "auto", "manual", "sem", "thread"
          level,                 \* handle |-> how many waits it would satisfy
          waiting,               \* caller |-> the wait it is in
          answer                 \* caller |-> what its last wait returned
winVars == << kind, level, waiting, answer >>

NoWait == [on |-> "none", timed |-> FALSE]

Init ==
  /\ kind \in [Handles -> {"auto", "manual", "sem", "thread"}]
  /\ level \in [Handles -> {0, 1}]
  /\ \A h \in Handles : kind[h] = "thread" => level[h] = 0
  /\ waiting = [ c \in Callers |-> NoWait ]
  /\ answer = [ c \in Callers |-> "none" ]

Begin(c) ==
  /\ waiting[c] = NoWait
  /\ \E h \in Handles, timed \in BOOLEAN :
       waiting' = [waiting EXCEPT ![c] = [on |-> h, timed |-> timed]]
  /\ answer' = [answer EXCEPT ![c] = "none"]
  /\ UNCHANGED << kind, level >>

Taken(h) == CASE kind[h] = "auto" -> 0
              [] kind[h] = "sem"  -> level[h] - 1
              [] OTHER            -> level[h]

Satisfied(c) ==
  LET h == waiting[c].on
  IN  /\ waiting[c] # NoWait
      /\ level[h] > 0
      /\ level' = [level EXCEPT ![h] = Taken(h)]
      /\ waiting' = [waiting EXCEPT ![c] = NoWait]
      /\ answer' = [answer EXCEPT ![c] = "object"]
      /\ UNCHANGED kind

TimesOut(c) ==
  /\ waiting[c].timed
  /\ waiting' = [waiting EXCEPT ![c] = NoWait]
  /\ answer' = [answer EXCEPT ![c] = "timeout"]
  /\ UNCHANGED << kind, level >>

Raised(h, n) == IF kind[h] = "sem" THEN level[h] + n ELSE 1
Signal(h) ==
  /\ \E n \in 1 .. 2 : level' = [level EXCEPT ![h] = Raised(h, n)]
  /\ UNCHANGED << kind, waiting, answer >>
Reset(h) ==
  /\ kind[h] \in {"auto", "manual"}
  /\ level' = [level EXCEPT ![h] = 0]
  /\ UNCHANGED << kind, waiting, answer >>

Next == \/ \E c \in Callers : Begin(c) \/ Satisfied(c) \/ TimesOut(c)
        \/ \E h \in Handles : Signal(h) \/ Reset(h)

(* A wait its object keeps satisfying ends, and one with a timeout ends.   *)
Spec == /\ Init /\ [][Next]_winVars
        /\ \A c \in Callers : /\ WF_winVars(Satisfied(c))
                              /\ WF_winVars(Satisfied(c) \/ TimesOut(c))
=============================================================================
