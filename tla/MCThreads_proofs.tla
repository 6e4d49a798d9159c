--------------------------- MODULE MCThreads_proofs ---------------------------
(***************************************************************************)
(* What threads may do to each other outside the serve loop, for every      *)
(* number of threads, handles, mutexes, messages and sessions, and of the   *)
(* slots, sources and timers of the engine.                                 *)
(***************************************************************************)
EXTENDS MCThreads, SequenceTheorems, FiniteSetTheorems, TLAPS

-----------------------------------------------------------------------------
(* The sessions of the library.                                            *)

Live(s) == host[s] \in {"open", "opened", "serving", "rendering"}

SessionTypes ==
  /\ opened \in 0 .. MaxSession /\ serving \in {0, opened}
  /\ wedged \in BOOLEAN /\ ready \in BOOLEAN /\ hungUp \in BOOLEAN
  /\ host \in [DS!Sessions -> {"none", "open", "opened", "serving", "rendering", "over"}]

\* Only the last session made can be live, and it has the streams; its thread is
\* the client's unless it was given up on, and then no other is ever made.
OneLive ==
  /\ \A s \in DS!Sessions :
       /\ s > opened => host[s] = "none"
       /\ Live(s) => s = opened /\ streams = s /\ (wedged \/ serving = s)
       /\ host[s] \in {"serving", "rendering"} => chan = s
       /\ host[s] = "opened" /\ openErr = 0 => chan = s
  /\ wedged => serving = 0

\* While the client waits in pt_open nothing ends the session it made.
Opening ==
  /\ client # "idle" => serving # 0
  /\ client = "opening" =>
       /\ ~hungUp
       /\ host[serving] \in IF ready THEN {IF openErr = 0 THEN "serving" ELSE "over"}
                                     ELSE {"open", "opened"}

DllInv == SessionTypes /\ OneLive /\ Opening

LEMMA DllSuffices ==
  ASSUME DllInv
  PROVE  DS!SessionOwned
BY DEF DllInv, OneLive, Opening, DS!SessionOwned, Live

LEMMA DllInit == DS!Init => DllInv
<1> SUFFICES ASSUME DS!Init PROVE DllInv
  OBVIOUS
<1>1. MaxSession \in Nat BY ThreadsAssumption
<1>2. opened \in 0 .. MaxSession /\ serving \in {0, opened} BY <1>1 DEF DS!Init
<1>4. host \in [DS!Sessions -> {"none", "open", "opened", "serving", "rendering", "over"}]
  BY DEF DS!Init
<1>5. wedged \in BOOLEAN /\ ready \in BOOLEAN /\ hungUp \in BOOLEAN BY DEF DS!Init
<1>3. OneLive /\ Opening BY DEF DS!Init, OneLive, Opening, Live
<1> QED BY <1>2, <1>3, <1>4, <1>5 DEF DllInv, SessionTypes

LEMMA DllStep ==
  ASSUME DllInv, DS!Next
  PROVE  DllInv'
<1> USE DEF DllInv, SessionTypes, OneLive, Opening, Live, DS!Returns, DS!hostVars
<1>0. MaxSession \in Nat /\ DS!Sessions = 1 .. MaxSession /\ opened \in Nat
  BY ThreadsAssumption DEF DS!Sessions
<1>1. CASE DS!OpenRefused BY <1>1 DEF DS!OpenRefused
<1>2. CASE DS!OpenFails BY <1>0, <1>2 DEF DS!OpenFails
<1>3. CASE DS!Open
  <2> DEFINE n == opened + 1
  <2>1. n \in DS!Sessions /\ n # 0 BY <1>0, <1>3 DEF DS!Open
  <2>2. \A s \in DS!Sessions : ~Live(s) BY <1>0, <1>3 DEF DS!Open
  <2>3. opened' = n /\ serving' = n /\ streams' = n /\ host' = [host EXCEPT ![n] = "open"]
    BY <1>3 DEF DS!Open
  <2>4. \A s \in DS!Sessions : s > n => s > opened BY <1>0
  <2> HIDE DEF n
  <2>5. SessionTypes'
    <3>1. n \in 0 .. MaxSession BY <1>0, <2>1
    <3>2. host' \in [DS!Sessions -> {"none", "open", "opened", "serving", "rendering", "over"}]
      BY <2>1, <2>3
    <3>3. wedged' \in BOOLEAN /\ ready' \in BOOLEAN /\ hungUp' \in BOOLEAN
      BY <1>3 DEF DS!Open
    <3> QED BY <2>3, <3>1, <3>2, <3>3
  <2>6. OneLive' BY <1>3, <2>1, <2>2, <2>3, <2>4 DEF DS!Open
  <2>7. Opening' BY <1>3, <2>1, <2>3 DEF DS!Open
  <2> QED BY <2>5, <2>6, <2>7
<1>4. CASE DS!Opened BY <1>4 DEF DS!Opened
<1>5. CASE DS!HangUp BY <1>5 DEF DS!HangUp
<1>6. CASE DS!Close BY <1>6 DEF DS!Close
<1>7. CASE DS!Closed BY <1>0, <1>7 DEF DS!Closed, DS!Joined, DS!GaveUp
<1>8. CASE DS!Alive BY <1>8 DEF DS!Alive
<1>9. ASSUME NEW s \in DS!Sessions, DS!HostOpen(s) PROVE DllInv'
  BY <1>0, <1>9 DEF DS!HostOpen
<1>10. ASSUME NEW s \in DS!Sessions, DS!HostReady(s) PROVE DllInv'
  BY <1>0, <1>10 DEF DS!HostReady
<1>11. ASSUME NEW s \in DS!Sessions, DS!ServeEnds(s) PROVE DllInv'
  BY <1>0, <1>11 DEF DS!ServeEnds
<1>12. ASSUME NEW s \in DS!Sessions, DS!Request(s) PROVE DllInv'
  BY <1>0, <1>12 DEF DS!Request
<1>13. ASSUME NEW s \in DS!Sessions, DS!Rendered(s) PROVE DllInv'
  BY <1>0, <1>13 DEF DS!Rendered
<1> QED BY <1>1, <1>2, <1>3, <1>4, <1>5, <1>6, <1>7, <1>8, <1>9, <1>10, <1>11, <1>12, <1>13
    DEF DS!Next, DS!Host

-----------------------------------------------------------------------------
(* The POSIX handles.                                                      *)

Pcs   == {"idle", "enter", "in", "leave", "asleep", "woken", "late"}
Ops   == {"none", "wait", "set", "reset", "release"}
Calls == [pc : Pcs, op : Ops, on : Handles \cup {"none"}, timed : BOOLEAN, due : BOOLEAN,
          n : 0 .. 2]
HandleTypes ==
  /\ kind \in [Handles -> {"auto", "manual", "sem", "thread"}]
  /\ refs \in [Handles -> Int] /\ freed \subseteq Handles
  /\ mtx \in [Handles -> {PP!Free} \cup Handles \cup Waiters]
  /\ tramp \in [Handles -> {"none", "fn", "locked", "told", "unref", "over"}]
  /\ owner \in [Handles -> {"none"} \cup Waiters]
  /\ at \in [Waiters -> Calls]

\* The references of a thread's handle are its wrapper's and its owner's, and it
\* is freed when both are gone.
Running(h) == IF tramp[h] \in {"fn", "locked", "told", "unref"} THEN 1 ELSE 0
Owned(h)   == IF owner[h] # "none" THEN 1 ELSE 0
Referred ==
  \A h \in Handles :
    /\ refs[h] = Running(h) + Owned(h)
    /\ kind[h] # "thread" => tramp[h] = "none"
    /\ tramp[h] = "none" => owner[h] = "none"
    /\ h \in freed => tramp[h] = "over" /\ owner[h] = "none"

\* Only the owner of a thread has a call on its handle.
Using == \A c \in Waiters, h \in Handles : PP!On(c) = h /\ kind[h] = "thread" => owner[h] = c

\* The mutex of a handle is held by its wrapper, or by a caller that is in a call
\* on it.
Holding ==
  \A h \in Handles :
    \/ mtx[h] = PP!Free
    \/ mtx[h] = h /\ tramp[h] \in {"locked", "told"}
    \/ mtx[h] \in Waiters /\ PP!On(mtx[h]) = h /\ at[mtx[h]].pc \in {"in", "leave"}

PosixInv == HandleTypes /\ Referred /\ Using /\ Holding

\* A call is one its handle has, and only a wait sleeps; one that gives up had a
\* time to give up at.
Calling ==
  \A c \in Waiters :
    /\ at[c].op # "none" => at[c].on \in Handles
    /\ at[c].op \in {"set", "reset"} => kind[at[c].on] \in {"auto", "manual"}
    /\ at[c].op = "release" => kind[at[c].on] = "sem" /\ at[c].n \in 1 .. 2
    /\ at[c].pc \in {"asleep", "woken", "late"} => at[c].op = "wait"
    /\ at[c].due \/ at[c].pc = "late" => at[c].timed

LEMMA PosixSuffices ==
  ASSUME PosixInv
  PROVE  PP!HandleAlive
<1> SUFFICES ASSUME NEW h \in freed
             PROVE  /\ mtx[h] = PP!Free /\ owner[h] = "none" /\ tramp[h] = "over"
                    /\ \A c \in Waiters : PP!On(c) # h
  BY DEF PP!HandleAlive
<1> USE DEF PosixInv
<1>1. h \in Handles /\ owner[h] = "none" /\ tramp[h] = "over" /\ kind[h] = "thread"
  BY DEF HandleTypes, Referred
<1>2. \A c \in Waiters : PP!On(c) # h
  BY <1>1, ThreadsAssumption DEF Using
<1>3. mtx[h] = PP!Free BY <1>1, <1>2 DEF Holding
<1> QED BY <1>1, <1>2, <1>3

LEMMA PosixInit == PP!Init => PosixInv
<1> SUFFICES ASSUME PP!Init PROVE PosixInv
  OBVIOUS
<1> USE DEF PP!Init
<1>1. PP!NoOp \in Calls BY DEF PP!NoOp, Calls, Pcs, Ops
<1>2. HandleTypes BY <1>1 DEF HandleTypes
<1>3. Referred BY DEF Referred, Running, Owned
<1>4. Using BY ThreadsAssumption DEF Using, PP!On, PP!NoOp
<1>5. Holding BY DEF Holding
<1> QED BY <1>2, <1>3, <1>4, <1>5 DEF PosixInv

\* What a step of a wrapper or an owner does to the references.
LEMMA ReferredStep ==
  ASSUME HandleTypes, Referred, PP!Next
  PROVE  Referred'
<1> USE DEF HandleTypes, Referred, Running, Owned, PP!Unref, PP!Threads, PP!Events, PP!Sems
<1>0. "none" \notin Waiters BY ThreadsAssumption
<1>1. ASSUME NEW c \in Waiters, NEW h \in PP!Threads, PP!CreateThread(c, h) PROVE Referred'
  BY <1>0, <1>1 DEF PP!CreateThread
<1>2. ASSUME NEW c \in Waiters, NEW h \in PP!Threads, PP!CloseHandle(c, h) PROVE Referred'
  BY <1>0, <1>2 DEF PP!CloseHandle
<1>3. ASSUME NEW h \in PP!Threads, PP!TrampLock(h) PROVE Referred'
  BY <1>3 DEF PP!TrampLock
<1>4. ASSUME NEW h \in PP!Threads, PP!TrampDone(h) PROVE Referred'
  BY <1>4 DEF PP!TrampDone
<1>5. ASSUME NEW h \in PP!Threads, PP!TrampUnlock(h) PROVE Referred'
  BY <1>5 DEF PP!TrampUnlock
<1>6. ASSUME NEW h \in PP!Threads, PP!TrampUnref(h) PROVE Referred'
  BY <1>6 DEF PP!TrampUnref
<1>7. ASSUME NEW c \in Waiters, PP!Call(c) \/ PP!Step(c) \/ PP!Expire(c) \/ PP!Rouse(c)
      PROVE  Referred'
  <2>1. UNCHANGED << kind, refs, freed, tramp, owner >>
    BY <1>7 DEF PP!Call, PP!Begin, PP!Step, PP!Enter, PP!Take, PP!Sleep, PP!Awaken, PP!Leave,
      PP!SetEvent, PP!ResetEvent, PP!ReleaseSemaphore, PP!Expire, PP!Rouse
  <2> QED BY <2>1
<1> QED BY <1>1, <1>2, <1>3, <1>4, <1>5, <1>6, <1>7 DEF PP!Next, PP!Tramp

\* A step of a caller that neither begins a call nor ends it, and a step of a
\* wrapper, leave each call on its handle; those woken were asleep.
Keeps == \A d \in Waiters : at'[d].on = at[d].on

LEMMA CallTypes ==
  ASSUME HandleTypes, PP!Next
  PROVE  at' \in [Waiters -> Calls]
<1> USE DEF HandleTypes, PP!On, PP!Pc, PP!Asleep, PP!Threads, PP!Events, PP!Sems
<1>1. ASSUME NEW c \in Waiters, NEW x \in Pcs PROVE [at[c] EXCEPT !.pc = x] \in Calls
  BY <1>1 DEF Calls
<1>2. ASSUME NEW S PROVE PP!Wake(S) \in [Waiters -> Calls]
  BY <1>1 DEF PP!Wake, Pcs
<1>3. ASSUME NEW c \in Waiters, NEW x \in Pcs PROVE PP!Pc(c, x) \in [Waiters -> Calls]
  <2>1. [at[c] EXCEPT !.pc = x] \in Calls BY <1>1, <1>3
  <2> QED BY <2>1
<1>4. ASSUME NEW S, NEW c \in Waiters
      PROVE  [PP!Wake(S) EXCEPT ![c].pc = "leave"] \in [Waiters -> Calls]
  <2>1. PP!Wake(S) \in [Waiters -> Calls] BY <1>2
  <2>2. [PP!Wake(S)[c] EXCEPT !.pc = "leave"] \in Calls BY <2>1 DEF Calls, Pcs
  <2> HIDE DEF PP!Wake
  <2> QED BY <2>1, <2>2
<1>5. ASSUME NEW c \in Waiters, PP!Call(c) PROVE at' \in [Waiters -> Calls]
  <2>1. ASSUME NEW op \in Ops, NEW h \in Handles, NEW limit \in BOOLEAN, NEW n \in 0 .. 2,
               PP!Begin(c, op, h, limit, n)
        PROVE  at' \in [Waiters -> Calls]
    <3> DEFINE r == [pc |-> "enter", op |-> op, on |-> h, timed |-> limit, due |-> FALSE, n |-> n]
    <3>1. r \in Calls BY DEF Calls, Pcs
    <3>2. at' = [at EXCEPT ![c] = r] BY <2>1 DEF PP!Begin
    <3> HIDE DEF r
    <3> QED BY <3>1, <3>2
  <2>2. PP!Usable(c) \subseteq Handles BY DEF PP!Usable
  <2>3. 0 \in 0 .. 2 /\ 1 .. 2 \subseteq 0 .. 2 /\ FALSE \in BOOLEAN OBVIOUS
  <2>4. CASE \E h \in PP!Usable(c), limit \in BOOLEAN : PP!Begin(c, "wait", h, limit, 0)
    BY <2>1, <2>2, <2>3, <2>4 DEF Ops
  <2>5. CASE \E h \in PP!Events, op \in {"set", "reset"} : PP!Begin(c, op, h, FALSE, 0)
    BY <2>1, <2>3, <2>5 DEF Ops
  <2>6. CASE \E h \in PP!Sems, n \in 1 .. 2 : PP!Begin(c, "release", h, FALSE, n)
    BY <2>1, <2>3, <2>6 DEF Ops
  <2> QED BY <1>5, <2>4, <2>5, <2>6 DEF PP!Call
<1>6. ASSUME NEW c \in Waiters, PP!Step(c) \/ PP!Rouse(c) PROVE at' \in [Waiters -> Calls]
  <2>1. CASE PP!Leave(c)
    <3>1. PP!NoOp \in Calls BY DEF PP!NoOp, Calls, Pcs, Ops
    <3> QED BY <2>1, <3>1 DEF PP!Leave
  <2>2. CASE PP!SetEvent(c) BY <1>4, <2>2 DEF PP!SetEvent
  <2>3. CASE PP!ReleaseSemaphore(c)
    <3>1. PICK S : at' = [PP!Wake(S) EXCEPT ![c].pc = "leave"]
      BY <2>3 DEF PP!ReleaseSemaphore
    <3> QED BY <1>4, <3>1
  <2>4. CASE \E x \in Pcs : at' = PP!Pc(c, x) BY <1>3, <2>4
  <2> QED BY <1>6, <2>1, <2>2, <2>3, <2>4 DEF PP!Step, PP!Enter, PP!Take, PP!Sleep,
      PP!Awaken, PP!ResetEvent, PP!Rouse, Pcs
<1>7. ASSUME NEW c \in Waiters, PP!Expire(c) PROVE at' \in [Waiters -> Calls]
  <2>1. [at[c] EXCEPT !.due = TRUE] \in Calls BY DEF Calls
  <2> QED BY <1>7, <2>1 DEF PP!Expire
<1>8. ASSUME NEW h \in PP!Threads, PP!Tramp(h) PROVE at' \in [Waiters -> Calls]
  BY <1>2, <1>8 DEF PP!Tramp, PP!TrampLock, PP!TrampDone, PP!TrampUnlock, PP!TrampUnref
<1>9. ASSUME NEW c \in Waiters, NEW h \in PP!Threads, PP!CreateThread(c, h) \/ PP!CloseHandle(c, h)
      PROVE  at' \in [Waiters -> Calls]
  BY <1>9 DEF PP!CreateThread, PP!CloseHandle
<1> QED BY <1>5, <1>6, <1>7, <1>8, <1>9 DEF PP!Next

LEMMA HandleTypesStep ==
  ASSUME HandleTypes, PP!Next
  PROVE  HandleTypes'
<1>1. at' \in [Waiters -> Calls] BY CallTypes
<1> USE DEF HandleTypes, PP!Threads, PP!Unref, PP!On
<1>2. ASSUME NEW c \in Waiters, NEW h \in PP!Threads, PP!CreateThread(c, h) \/ PP!CloseHandle(c, h)
      PROVE  HandleTypes'
  BY <1>1, <1>2 DEF PP!CreateThread, PP!CloseHandle
<1>3. ASSUME NEW h \in PP!Threads, PP!Tramp(h) PROVE HandleTypes'
  BY <1>1, <1>3 DEF PP!Tramp, PP!TrampLock, PP!TrampDone, PP!TrampUnlock, PP!TrampUnref
<1>4. ASSUME NEW c \in Waiters, PP!Call(c) \/ PP!Step(c) \/ PP!Expire(c) \/ PP!Rouse(c)
      PROVE  HandleTypes'
  <2>1. UNCHANGED << kind, refs, freed, tramp, owner >>
    BY <1>4 DEF PP!Call, PP!Begin, PP!Step, PP!Enter, PP!Take, PP!Sleep, PP!Awaken, PP!Leave,
      PP!SetEvent, PP!ResetEvent, PP!ReleaseSemaphore, PP!Expire, PP!Rouse
  <2>2. mtx' \in [Handles -> {PP!Free} \cup Handles \cup Waiters]
    BY <1>4 DEF PP!Call, PP!Begin, PP!Step, PP!Enter, PP!Take, PP!Sleep, PP!Awaken, PP!Leave,
      PP!SetEvent, PP!ResetEvent, PP!ReleaseSemaphore, PP!Expire, PP!Rouse
  <2> QED BY <1>1, <2>1, <2>2
<1> QED BY <1>2, <1>3, <1>4 DEF PP!Next

LEMMA WokenKeep ==
  ASSUME HandleTypes, NEW h, NEW S \in SUBSET PP!Asleep(h), NEW c \in Waiters
  PROVE  /\ PP!Wake(S)[c].on = at[c].on
         /\ at[c].pc # "asleep" => PP!Wake(S)[c] = at[c]
BY DEF HandleTypes, PP!Wake, PP!Asleep, Calls

LEMMA StepKeeps ==
  ASSUME HandleTypes, NEW c \in Waiters, PP!Step(c) \/ PP!Expire(c) \/ PP!Rouse(c), ~PP!Leave(c)
  PROVE  /\ Keeps
         /\ \A d \in Waiters \ {c} : at[d].pc # "asleep" => at'[d] = at[d]
<1> USE DEF Keeps, HandleTypes, PP!Pc, PP!On, Calls
<1>1. CASE \E x : at' = PP!Pc(c, x) BY <1>1
<1>2. ASSUME NEW h, NEW S \in SUBSET PP!Asleep(h), at' = [PP!Wake(S) EXCEPT ![c].pc = "leave"]
      PROVE  /\ Keeps
             /\ \A d \in Waiters \ {c} : at[d].pc # "asleep" => at'[d] = at[d]
  <2>1. \A d \in Waiters : /\ PP!Wake(S)[d].on = at[d].on
                           /\ at[d].pc # "asleep" => PP!Wake(S)[d] = at[d]
    BY WokenKeep
  <2>2. PP!Wake(S) = [d \in Waiters |-> PP!Wake(S)[d]] /\ PP!Wake(S)[c] \in Calls
    BY DEF PP!Wake, Pcs
  <2> HIDE DEF PP!Wake
  <2> QED BY <1>2, <2>1, <2>2
<1>3. CASE PP!Expire(c) BY <1>3 DEF PP!Expire
<1>4. CASE PP!SetEvent(c) BY <1>2, <1>4 DEF PP!SetEvent
<1>5. CASE PP!ReleaseSemaphore(c)
  <2>1. PICK S \in SUBSET PP!Asleep(PP!On(c)) : at' = [PP!Wake(S) EXCEPT ![c].pc = "leave"]
    BY <1>5 DEF PP!ReleaseSemaphore
  <2> QED BY <1>2, <2>1
<1> QED BY <1>1, <1>3, <1>4, <1>5 DEF PP!Step, PP!Enter, PP!Take, PP!Sleep,
      PP!Awaken, PP!ResetEvent, PP!Rouse

LEMMA TrampKeeps ==
  ASSUME HandleTypes, NEW h, PP!Tramp(h)
  PROVE  /\ Keeps
         /\ \A d \in Waiters : at[d].pc # "asleep" => at'[d] = at[d]
<1>1. CASE PP!TrampDone(h)
  <2>1. at' = PP!Wake(PP!Asleep(h)) BY <1>1 DEF PP!TrampDone
  <2>2. PP!Asleep(h) \in SUBSET PP!Asleep(h) OBVIOUS
  <2> QED BY <2>1, <2>2, WokenKeep DEF Keeps
<1>2. CASE ~PP!TrampDone(h)
  BY <1>2 DEF Keeps, PP!Tramp, PP!TrampLock, PP!TrampUnlock, PP!TrampUnref
<1> QED BY <1>1, <1>2

LEMMA UsingStep ==
  ASSUME HandleTypes, Referred, Using, PP!Next
  PROVE  Using'
<1> USE DEF HandleTypes, PP!On, PP!Threads
<1>0. "none" \notin Waiters \cup Handles BY ThreadsAssumption
<1>1. ASSUME NEW c \in Waiters, NEW h \in PP!Threads, PP!CreateThread(c, h) PROVE Using'
  <2>1. owner[h] = "none" BY <1>1 DEF PP!CreateThread, Referred
  <2>2. \A d \in Waiters : at[d].on # h BY <1>0, <2>1 DEF Using
  <2> QED BY <1>1, <2>2 DEF PP!CreateThread, Using
<1>2. ASSUME NEW c \in Waiters, NEW h \in PP!Threads, PP!CloseHandle(c, h) PROVE Using'
  <2>1. at[c].on = "none" BY <1>2 DEF PP!CloseHandle, PP!NoOp
  <2>2. \A d \in Waiters : at[d].on # h BY <1>0, <1>2, <2>1 DEF Using, PP!CloseHandle
  <2> QED BY <1>2, <2>2 DEF PP!CloseHandle, Using
<1>3. ASSUME NEW h \in PP!Threads, PP!Tramp(h) PROVE Using'
  <2>1. UNCHANGED << kind, owner >>
    BY <1>3 DEF PP!Tramp, PP!TrampLock, PP!TrampDone, PP!TrampUnlock, PP!TrampUnref
  <2>2. Keeps BY <1>3, TrampKeeps
  <2> QED BY <2>1, <2>2 DEF Using, Keeps
<1>4. ASSUME NEW c \in Waiters, PP!Call(c) PROVE Using'
  <2>1. PICK h \in PP!Usable(c) \cup PP!Events \cup PP!Sems :
               \E op, limit, n : PP!Begin(c, op, h, limit, n)
    BY <1>4 DEF PP!Call
  <2>2. UNCHANGED << kind, owner >> BY <2>1 DEF PP!Begin
  <2>3. \A d \in Waiters : at'[d].on = IF d = c THEN h ELSE at[d].on
    BY <2>1 DEF PP!Begin
  <2>4. kind[h] = "thread" => owner[h] = c
    BY DEF PP!Usable, PP!Events, PP!Sems
  <2> QED BY <2>2, <2>3, <2>4 DEF Using
<1>5. ASSUME NEW c \in Waiters, PP!Step(c) \/ PP!Expire(c) \/ PP!Rouse(c) PROVE Using'
  <2>1. UNCHANGED << kind, owner >>
    BY <1>5 DEF PP!Step, PP!Enter, PP!Take, PP!Sleep, PP!Awaken, PP!Leave,
      PP!SetEvent, PP!ResetEvent, PP!ReleaseSemaphore, PP!Expire, PP!Rouse
  <2>2. CASE PP!Leave(c)
    <3>1. \A d \in Waiters : at'[d].on = IF d = c THEN "none" ELSE at[d].on
      BY <2>2 DEF PP!Leave, PP!NoOp
    <3> QED BY <1>0, <2>1, <3>1 DEF Using
  <2>3. CASE ~PP!Leave(c)
    <3>1. Keeps BY <1>5, <2>3, StepKeeps
    <3> QED BY <2>1, <3>1 DEF Using, Keeps
  <2> QED BY <2>2, <2>3
<1> QED BY <1>1, <1>2, <1>3, <1>4, <1>5 DEF PP!Next

LEMMA HoldingStep ==
  ASSUME HandleTypes, Referred, Holding, PP!Next
  PROVE  Holding'
<1> USE DEF HandleTypes, PP!On, PP!Threads
<1> DEFINE In(h, c) == mtx[h] = c /\ at[c].on = h /\ at[c].pc \in {"in", "leave"}
           Held(h)  == \/ mtx[h] = PP!Free
                       \/ mtx[h] = h /\ tramp[h] \in {"locked", "told"}
                       \/ \E c \in Waiters : In(h, c)
<1>0. \A h \in Handles : Held(h) BY DEF Holding
<1> SUFFICES ASSUME NEW g \in Handles PROVE Held(g)'
  BY DEF Holding
<1>1. ASSUME NEW c \in Waiters, NEW h \in PP!Threads, PP!CreateThread(c, h) PROVE Held(g)'
  BY <1>0, <1>1 DEF PP!CreateThread
<1>2. ASSUME NEW c \in Waiters, NEW h \in PP!Threads, PP!CloseHandle(c, h) PROVE Held(g)'
  BY <1>0, <1>2 DEF PP!CloseHandle
<1>3. ASSUME NEW h \in PP!Threads, PP!Tramp(h) PROVE Held(g)'
  <2>1. \A d \in Waiters : at[d].pc # "asleep" => at'[d] = at[d] BY <1>3, TrampKeeps
  <2>2. \A d \in Waiters : at[d].pc \in {"in", "leave"} => at'[d] = at[d] BY <2>1
  <2> QED BY <1>0, <1>3, <2>2
      DEF PP!Tramp, PP!TrampLock, PP!TrampDone, PP!TrampUnlock, PP!TrampUnref
<1>4. ASSUME NEW c \in Waiters, PP!Call(c) PROVE Held(g)'
  <2>1. UNCHANGED << mtx, tramp >> /\ at[c] = PP!NoOp
    BY <1>4 DEF PP!Call, PP!Begin
  <2>2. \A d \in Waiters \ {c} : at'[d] = at[d] BY <1>4 DEF PP!Call, PP!Begin
  <2> QED BY <1>0, <2>1, <2>2 DEF PP!NoOp
<1>5. ASSUME NEW c \in Waiters, PP!Step(c) \/ PP!Expire(c) \/ PP!Rouse(c) PROVE Held(g)'
  <2>0. UNCHANGED tramp
    BY <1>5 DEF PP!Step, PP!Enter, PP!Take, PP!Sleep, PP!Awaken, PP!Leave,
      PP!SetEvent, PP!ResetEvent, PP!ReleaseSemaphore, PP!Expire, PP!Rouse
  <2>1. CASE PP!Leave(c)
    BY <1>0, <2>0, <2>1 DEF PP!Leave
  <2>2. CASE ~PP!Leave(c)
    <3>1. /\ Keeps
          /\ \A d \in Waiters \ {c} : at[d].pc \in {"in", "leave"} => at'[d] = at[d]
      BY <1>5, <2>2, StepKeeps
    <3>2. CASE mtx'[g] = mtx[g]
      <4>1. In(g, c) /\ g = at[c].on => PP!Free = mtx'[g] \/ at'[c].pc \in {"in", "leave"}
        <5> SUFFICES ASSUME In(g, c) PROVE PP!Free = mtx'[g] \/ at'[c].pc \in {"in", "leave"}
          OBVIOUS
        <5>1. CASE PP!SetEvent(c) \/ PP!ReleaseSemaphore(c)
          <6>1. PICK S : at' = [PP!Wake(S) EXCEPT ![c].pc = "leave"]
            BY <5>1 DEF PP!SetEvent, PP!ReleaseSemaphore
          <6>2. c \in DOMAIN PP!Wake(S) /\ PP!Wake(S)[c] \in Calls BY DEF PP!Wake, Calls, Pcs
          <6> HIDE DEF PP!Wake
          <6>3. at'[c] = [PP!Wake(S)[c] EXCEPT !.pc = "leave"] BY <6>1, <6>2
          <6>4. at'[c].pc = "leave" BY <6>2, <6>3 DEF Calls
          <6> QED BY <6>4
        <5>2. CASE PP!Take(c) \/ PP!Sleep(c) \/ PP!ResetEvent(c)
          BY <5>2 DEF PP!Take, PP!Sleep, PP!ResetEvent, PP!Pc, Calls
        <5>3. CASE PP!Expire(c) BY <5>3 DEF PP!Expire, Calls
        <5>4. CASE PP!Enter(c) \/ PP!Awaken(c) \/ PP!Rouse(c)
          BY <5>4 DEF PP!Enter, PP!Awaken, PP!Rouse
        <5> QED BY <1>5, <2>2, <5>1, <5>2, <5>3, <5>4 DEF PP!Step
      <4> QED BY <1>0, <2>0, <3>1, <3>2, <4>1 DEF Keeps
    <3>3. CASE mtx'[g] # mtx[g]
      <4>1. PP!Sleep(c) \/ PP!Enter(c) \/ PP!Awaken(c)
        BY <1>5, <2>2, <3>3 DEF PP!Step, PP!Take, PP!SetEvent, PP!ResetEvent,
          PP!ReleaseSemaphore, PP!Expire, PP!Rouse
      <4>2. CASE PP!Sleep(c) BY <3>3, <4>2 DEF PP!Sleep
      <4>3. CASE PP!Enter(c) BY <3>1, <3>3, <4>3 DEF PP!Enter, PP!Pc, Keeps
      <4>4. CASE PP!Awaken(c) BY <3>1, <3>3, <4>4 DEF PP!Awaken, PP!Pc, Keeps
      <4> QED BY <4>1, <4>2, <4>3, <4>4
    <3> QED BY <3>2, <3>3
  <2> QED BY <2>1, <2>2
<1> QED BY <1>1, <1>2, <1>3, <1>4, <1>5 DEF PP!Next

LEMMA PosixStep ==
  ASSUME PosixInv, PP!Next
  PROVE  PosixInv'
BY HandleTypesStep, ReferredStep, UsingStep, HoldingStep DEF PosixInv

-----------------------------------------------------------------------------
(* The mutexes of the engine.                                              *)

Stations == {"idle", "get", "enter", "asleep", "woken", "put", "release", "wait", "read", "reading"}
Shims    == [pc : Stations, a : Addresses \cup {"nobody"}, n : 0 .. MaxNative]
MutexTypes ==
  /\ natives \in 0 .. MaxNative /\ table \in [Addresses -> 0 .. natives]
  /\ own \in [1 .. MaxNative -> [by : EngineThreads \cup {"nobody"}, depth : Int]]
  /\ shim \in [EngineThreads -> Shims]

\* A thread that is about to enter a mutex, or back into one, knows the one its
\* address has, and a mutex that is held is some address's.
Matched ==
  /\ \A t \in EngineThreads :
       /\ shim[t].pc \in {"get", "enter", "asleep", "woken"} => shim[t].a \in Addresses
       /\ shim[t].pc \in {"enter", "asleep", "woken"} =>
            shim[t].n = table[shim[t].a] /\ shim[t].n # 0
  /\ \A n \in 1 .. MaxNative : own[n].by # GS!Nobody => \E b \in Addresses : table[b] = n

MutexInv == MutexTypes /\ Matched

LEMMA MutexSuffices ==
  ASSUME MutexInv
  PROVE  GS!GuestExclusion
BY DEF MutexInv, MutexTypes, Matched, GS!GuestExclusion

LEMMA MutexInit == GS!Init => MutexInv
<1> SUFFICES ASSUME GS!Init PROVE MutexInv
  OBVIOUS
<1>0. MaxNative \in Nat /\ 0 \in 0 .. MaxNative BY ThreadsAssumption
<1>1. natives = 0 /\ table \in [Addresses -> 0 .. 0] BY DEF GS!Init
<1>2. own \in [1 .. MaxNative -> [by : EngineThreads \cup {"nobody"}, depth : Int]]
  BY DEF GS!Init, GS!Nobody
<1>3. GS!Idle \in Shims BY <1>0 DEF GS!Idle, GS!Nobody, Shims, Stations
<1>4. shim \in [EngineThreads -> Shims] BY <1>3 DEF GS!Init
<1>5. Matched BY DEF GS!Init, GS!Idle, Matched
<1> QED BY <1>0, <1>1, <1>2, <1>4, <1>5 DEF MutexInv, MutexTypes

LEMMA ShimTypes ==
  ASSUME MutexTypes, NEW t \in EngineThreads, NEW x \in Stations
  PROVE  /\ GS!Pc(t, x) \in [EngineThreads -> Shims]
         /\ GS!Pc(t, x)[t] = [shim[t] EXCEPT !.pc = x]
         /\ \A u \in EngineThreads \ {t} : GS!Pc(t, x)[u] = shim[u]
<1>1. [shim[t] EXCEPT !.pc = x] \in Shims BY DEF MutexTypes, Shims
<1> QED BY <1>1 DEF MutexTypes, GS!Pc

\* A step that moves one thread to a place outside the mutexes leaves them alone.
LEMMA ElsewhereSteps ==
  ASSUME MutexInv, UNCHANGED << table, natives, own >>,
         shim' = shim \/ \E t \in EngineThreads, x \in Stations \ {"get", "enter", "asleep", "woken"} :
                             shim' = GS!Pc(t, x)
  PROVE  MutexInv'
<1>1. CASE shim' = shim BY <1>1 DEF MutexInv, MutexTypes, Matched
<1>2. ASSUME NEW t \in EngineThreads, NEW x \in Stations \ {"get", "enter", "asleep", "woken"},
             shim' = GS!Pc(t, x)
      PROVE  MutexInv'
  <2>0. /\ shim' \in [EngineThreads -> Shims] /\ shim'[t] = [shim[t] EXCEPT !.pc = x]
        /\ \A u \in EngineThreads \ {t} : shim'[u] = shim[u]
    BY <1>2, ShimTypes DEF MutexInv
  <2>1. shim'[t].pc = x BY <2>0 DEF MutexInv, MutexTypes, Shims
  <2>2. MutexTypes' BY <2>0 DEF MutexInv, MutexTypes
  <2>3. Matched' BY <2>0, <2>1 DEF MutexInv, MutexTypes, Matched
  <2> QED BY <2>2, <2>3 DEF MutexInv
<1> QED BY <1>1, <1>2

\* guest_sync_get gives an address a native mutex and takes none away.
LEMMA GetKnows ==
  ASSUME MutexTypes, NEW a \in Addresses, GS!Get(a)
  PROVE  /\ natives' \in 0 .. MaxNative /\ table' \in [Addresses -> 0 .. natives']
         /\ table'[a] # 0 /\ table'[a] = GS!Native(a) /\ table'[a] \in 0 .. MaxNative
         /\ \A b \in Addresses : table[b] # 0 => table'[b] = table[b]
<1> USE DEF MutexTypes, GS!Get, GS!Native
<1>0. MaxNative \in Nat /\ natives \in Nat BY ThreadsAssumption
<1>1. CASE table[a] # 0 BY <1>0, <1>1
<1>2. CASE table[a] = 0
  <2>1. natives + 1 \in 1 .. MaxNative /\ natives' = natives + 1
        /\ table' = [table EXCEPT ![a] = natives + 1]
    BY <1>0, <1>2
  <2>2. 0 .. natives \subseteq 0 .. natives + 1 /\ natives + 1 \in 0 .. natives + 1
    BY <1>0
  <2>3. table' \in [Addresses -> 0 .. natives + 1] BY <2>1, <2>2
  <2> QED BY <1>0, <1>2, <2>1, <2>2, <2>3
<1> QED BY <1>1, <1>2

LEMMA MutexStep ==
  ASSUME MutexInv, GS!Next
  PROVE  MutexInv'
<1> USE DEF MutexInv, GS!Starts, GS!mutexVars, GS!queueVars
<1>0. MaxNative \in Nat /\ natives \in Nat /\ natives <= MaxNative
  BY ThreadsAssumption DEF MutexTypes
<1>1. ASSUME NEW t \in EngineThreads, GS!LockMutex(t) PROVE MutexInv'
  <2>1. PICK a \in Addresses : /\ GS!Get(a)
                               /\ shim' = [shim EXCEPT ![t] = [pc |-> "get", a |-> a, n |-> 0]]
    BY <1>1 DEF GS!LockMutex
  <2>2. [pc |-> "get", a |-> a, n |-> 0] \in Shims BY <1>0 DEF Shims, Stations
  <2>3. UNCHANGED own BY <1>1 DEF GS!LockMutex
  <2>4. MutexTypes' BY <2>1, <2>2, <2>3, GetKnows DEF MutexTypes
  <2>5. Matched' BY <2>1, <2>3, GetKnows DEF MutexTypes, Matched
  <2> QED BY <2>4, <2>5
<1>2. ASSUME NEW t \in EngineThreads, GS!FindMutex(t) PROVE MutexInv'
  <2> DEFINE a == shim[t].a
             r == [shim[t] EXCEPT !.pc = "enter", !.n = GS!Native(a)]
  <2>1. a \in Addresses BY <1>2 DEF GS!FindMutex, Matched
  <2>2. GS!Get(a) /\ shim' = [shim EXCEPT ![t] = r] /\ UNCHANGED own
    BY <1>2 DEF GS!FindMutex, MutexTypes
  <2>3. /\ natives' \in 0 .. MaxNative /\ table' \in [Addresses -> 0 .. natives']
        /\ table'[a] # 0 /\ table'[a] = GS!Native(a) /\ table'[a] \in 0 .. MaxNative
        /\ \A b \in Addresses : table[b] # 0 => table'[b] = table[b]
    BY <2>1, <2>2, GetKnows
  <2>4. r \in Shims /\ r.a = a /\ r.n = GS!Native(a)
    BY <2>1, <2>3 DEF MutexTypes, Shims, Stations
  <2> HIDE DEF a, r
  <2>5. MutexTypes' BY <2>2, <2>3, <2>4 DEF MutexTypes
  <2>6. Matched' BY <2>1, <2>2, <2>3, <2>4 DEF MutexTypes, Matched
  <2> QED BY <2>5, <2>6
<1>3. ASSUME NEW t \in EngineThreads, GS!EnterMutex(t) \/ GS!CondBack(t) PROVE MutexInv'
  <2> DEFINE n == shim[t].n
  <2>1. n \in 1 .. MaxNative /\ shim[t].a \in Addresses /\ n = table[shim[t].a]
    BY <1>0, <1>3 DEF GS!EnterMutex, GS!CondBack, Matched, MutexTypes, Shims
  <2>2. GS!Idle \in Shims BY <1>0 DEF GS!Idle, GS!Nobody, Shims, Stations
  <2>3. /\ own' = [own EXCEPT ![n] = [by |-> t, depth |-> @.depth + 1]]
        /\ shim' = [shim EXCEPT ![t] = GS!Idle] /\ UNCHANGED << table, natives >>
    BY <1>3 DEF GS!EnterMutex, GS!CondBack
  <2> HIDE DEF n
  <2>4. own' \in [1 .. MaxNative -> [by : EngineThreads \cup {"nobody"}, depth : Int]]
    BY <2>1, <2>3 DEF MutexTypes
  <2>5. MutexTypes' BY <2>2, <2>3, <2>4 DEF MutexTypes
  <2>6. Matched' BY <2>1, <2>3 DEF MutexTypes, Matched, GS!Idle
  <2> QED BY <2>5, <2>6
<1>4. ASSUME NEW n \in 1 .. MaxNative
      PROVE  /\ GS!Left(n) \in [by : EngineThreads \cup {"nobody"}, depth : Int]
             /\ GS!Left(n).by # GS!Nobody => own[n].by # GS!Nobody
  BY DEF GS!Left, GS!Nobody, MutexTypes
<1>5. ASSUME NEW t \in EngineThreads, GS!UnlockMutex(t) PROVE MutexInv'
  <2>1. PICK a \in Addresses : GS!Holds(t, a) /\ own' = [own EXCEPT ![table[a]] = GS!Left(table[a])]
    BY <1>5 DEF GS!UnlockMutex
  <2>2. UNCHANGED << table, natives, shim >> BY <1>5 DEF GS!UnlockMutex
  <2>3. table[a] \in 1 .. MaxNative BY <1>0, <2>1 DEF GS!Holds, MutexTypes
  <2>4. MutexTypes' BY <1>4, <2>1, <2>2, <2>3 DEF MutexTypes
  <2>5. Matched' BY <1>4, <2>1, <2>2, <2>3 DEF MutexTypes, Matched
  <2> QED BY <2>4, <2>5
<1>6. ASSUME NEW t \in EngineThreads, GS!CondWait(t) PROVE MutexInv'
  <2>1. PICK a \in Addresses :
          /\ GS!Holds(t, a)
          /\ own' = [own EXCEPT ![table[a]] = GS!Left(table[a])]
          /\ shim' = [shim EXCEPT ![t] = [pc |-> "asleep", a |-> a, n |-> table[a]]]
    BY <1>6 DEF GS!CondWait
  <2>2. UNCHANGED << table, natives >> BY <1>6 DEF GS!CondWait
  <2>3. table[a] \in 1 .. MaxNative BY <1>0, <2>1 DEF GS!Holds, MutexTypes
  <2>4. [pc |-> "asleep", a |-> a, n |-> table[a]] \in Shims BY <1>0, <2>3 DEF Shims, Stations
  <2>5. MutexTypes' BY <1>4, <2>1, <2>2, <2>3, <2>4 DEF MutexTypes
  <2>6. Matched' BY <1>4, <2>1, <2>2, <2>3 DEF MutexTypes, Matched
  <2> QED BY <2>5, <2>6
<1>7. ASSUME NEW a \in Addresses, ~GS!InUse(a), NEW n \in 0 .. natives', UNCHANGED << own, shim >>,
             natives' \in {natives, natives + 1} /\ natives' <= MaxNative,
             table' = [table EXCEPT ![a] = n]
      PROVE  MutexInv'
  <2>1. /\ table[a] # 0 => own[table[a]].by = GS!Nobody
        /\ \A t \in EngineThreads :
             shim[t].pc \in {"get", "enter", "asleep", "woken"} => shim[t].a # a
    BY <1>7 DEF GS!InUse
  <2>2. table' \in [Addresses -> 0 .. natives'] /\ natives' \in 0 .. MaxNative
    <3>1. 0 .. natives \subseteq 0 .. natives' BY <1>0, <1>7
    <3> QED BY <1>0, <1>7, <3>1 DEF MutexTypes
  <2>3. MutexTypes' BY <1>7, <2>2 DEF MutexTypes
  <2>4. Matched' BY <1>7, <2>1 DEF MutexTypes, Matched
  <2> QED BY <2>3, <2>4
<1>8. ASSUME NEW t \in EngineThreads, GS!DestroyMutex(t) PROVE MutexInv'
  <2>1. 0 \in 0 .. natives' /\ natives' = natives /\ natives' <= MaxNative
    BY <1>0, <1>8 DEF GS!DestroyMutex
  <2> QED BY <1>7, <1>8, <2>1 DEF GS!DestroyMutex
<1>9. ASSUME NEW t \in EngineThreads, GS!InitMutex(t) PROVE MutexInv'
  <2>1. natives + 1 \in 0 .. natives' /\ natives' = natives + 1 /\ natives' <= MaxNative
    BY <1>0, <1>9 DEF GS!InitMutex
  <2> QED BY <1>7, <1>9, <2>1 DEF GS!InitMutex
<1>10. ASSUME NEW s \in EngineThreads, shim[s].pc = "asleep", shim' = GS!Pc(s, "woken"),
              UNCHANGED << table, natives, own >>
       PROVE  MutexInv'
  <2>1. /\ shim' \in [EngineThreads -> Shims] /\ shim'[s] = [shim[s] EXCEPT !.pc = "woken"]
        /\ \A u \in EngineThreads \ {s} : shim'[u] = shim[u]
    BY <1>10, ShimTypes DEF Stations
  <2>2. shim'[s].a = shim[s].a /\ shim'[s].n = shim[s].n BY <2>1 DEF MutexTypes, Shims
  <2>3. MutexTypes' BY <1>10, <2>1 DEF MutexTypes
  <2>4. Matched' BY <1>10, <2>1, <2>2 DEF Matched
  <2> QED BY <2>3, <2>4
<1>11. ASSUME NEW t \in EngineThreads, GS!CondSignal(t) \/ GS!CondWake(t) PROVE MutexInv'
  BY <1>10, <1>11 DEF GS!CondSignal, GS!CondWake
<1>12. ASSUME NEW t \in EngineThreads,
              \/ GS!Put(t) \/ GS!Release(t) \/ GS!TakeUnit(t) \/ GS!EnterQueue(t) \/ GS!Dequeue(t)
              \/ GS!Notify(t) \/ GS!WaitOnQueue(t) \/ GS!WaitTimeout(t)
              \/ GS!CreateTask(t) \/ GS!EndTask(t)
       PROVE  MutexInv'
  <2>1. /\ UNCHANGED << table, natives, own >>
        /\ shim' = shim \/ \E x \in Stations \ {"get", "enter", "asleep", "woken"} : shim' = GS!Pc(t, x)
    BY <1>12 DEF GS!Put, GS!Release, GS!TakeUnit, GS!EnterQueue, GS!Dequeue, GS!Notify,
      GS!WaitOnQueue, GS!WaitTimeout, GS!CreateTask, GS!EndTask, Stations
  <2> QED BY <2>1, ElsewhereSteps
<1> QED BY <1>1, <1>2, <1>3, <1>5, <1>6, <1>8, <1>9, <1>11, <1>12 DEF GS!Next, GS!Steps

-----------------------------------------------------------------------------
(* The message queue of the engine.                                        *)

Messages == (EngineThreads \cup {"nobody"}) \X Nat
Kept     == [ k \in 1 .. count |-> ring[(head + k - 1) % Places] ]     \* what is in the ring

\* A thread that has put a message and not yet told of it, or has taken a unit and
\* not yet its message, has one of the units that are counted.
Has(t) == IF shim[t].pc \in {"release", "read", "reading"} THEN 1 ELSE 0
Units  == GS!Between("release") + GS!Between("read") + GS!Between("reading")

QueueTypes ==
  /\ ring \in [0 .. Places - 1 -> Messages]
  /\ head \in 0 .. Places - 1 /\ tail \in 0 .. Places - 1 /\ count \in 0 .. Places
  /\ sem \in Nat /\ sent \in Seq(Messages) /\ got \in Seq(Messages)
  /\ asked \in [EngineThreads -> Nat]

\* The ring is filled up to the tail, and the units of the semaphore and the
\* threads between one and their message are as many as the messages.
Filled ==
  /\ tail = (head + count) % Places
  /\ sent = got \o Kept
  /\ count = sem + Units

QueueInv == QueueTypes /\ Filled

LEMMA BetweenTyped ==
  ASSUME NEW x
  PROVE  GS!Between(x) \in Nat
<1> DEFINE S == { u \in EngineThreads : shim[u].pc = x }
<1>1. GS!Between(x) = Cardinality(S) BY DEF GS!Between, GS!Cardinality, Cardinality
<1>2. S \in SUBSET EngineThreads OBVIOUS
<1> HIDE DEF S
<1>3. IsFiniteSet(S) BY <1>2, FS_Subset, ThreadsAssumption
<1> QED BY <1>1, <1>3, FS_CardinalityType

LEMMA QueueSuffices ==
  ASSUME QueueInv
  PROVE  GS!MessagesInOrder
<1>1. sent = got \o [ k \in 1 .. count |-> ring[(head + k - 1) % Places] ]
  BY DEF QueueInv, Filled, Kept
<1> DEFINE a == GS!Between("release")
           b == GS!Between("read")
           c == GS!Between("reading")
<1>2. a \in Nat /\ b \in Nat /\ c \in Nat BY BetweenTyped
<1>3. count = sem + (a + b + c) /\ sem \in Nat BY DEF QueueInv, QueueTypes, Filled, Units
<1> HIDE DEF a, b, c
<1>4. count = sem + a + b + c BY <1>2, <1>3
<1> QED BY <1>1, <1>4 DEF GS!MessagesInOrder, a, b, c

\* Indexes of the ring are less than twice its size before they are wrapped.
LEMMA Wraps ==
  ASSUME NEW x \in 0 .. 2 * Places - 1
  PROVE  x % Places = IF x < Places THEN x ELSE x - Places
<1>0. Places \in Nat \ {0} BY ThreadsAssumption
<1>1. CASE x < Places BY <1>0, <1>1
<1>2. CASE x >= Places
  <2>1. PICK y \in 0 .. Places - 1 : x = y + Places
    <3>1. x - Places \in 0 .. Places - 1 /\ x = (x - Places) + Places BY <1>0, <1>2
    <3> QED BY <3>1
  <2>2. (y + Places) % Places = y BY <1>0
  <2> QED BY <1>0, <1>2, <2>1, <2>2
<1> QED BY <1>0, <1>1, <1>2

LEMMA Period ==
  ASSUME NEW z \in Nat
  PROVE  (z + Places) % Places = z % Places
<1>0. Places \in Nat \ {0} BY ThreadsAssumption
<1>1. PICK q \in Int, r \in 0 .. Places - 1 : z = Places * q + r /\ r = z % Places
  BY <1>0
<1>2. PICK p \in Int, s \in 0 .. Places - 1 :
        z + Places = Places * p + s /\ s = (z + Places) % Places
  BY <1>0
<1> DEFINE d == p - q - 1
<1>3. Places * d = r - s BY <1>0, <1>1, <1>2
<1>4. d \in Int /\ Places * d < Places /\ -Places < Places * d BY <1>0, <1>1, <1>2, <1>3
<1> HIDE DEF d
<1>5. d = 0 BY <1>0, <1>4
<1>6. r - s = 0 BY <1>0, <1>3, <1>5
<1>7. r = s BY <1>1, <1>2, <1>6
<1> QED BY <1>1, <1>2, <1>7

LEMMA WrapSum ==
  ASSUME NEW x \in 0 .. 2 * Places - 1, NEW b \in Nat
  PROVE  ((x % Places) + b) % Places = (x + b) % Places
<1>0. Places \in Nat \ {0} BY ThreadsAssumption
<1>1. CASE x < Places
  <2>1. x % Places = x BY <1>0, <1>1
  <2> QED BY <2>1
<1>2. CASE x >= Places
  <2> DEFINE c == x - Places
  <2>1. x % Places = c /\ c \in Nat BY <1>0, <1>2, Wraps
  <2>2. c + b \in Nat /\ x + b = (c + b) + Places BY <1>0, <2>1
  <2> HIDE DEF c
  <2>3. ((c + b) + Places) % Places = (c + b) % Places BY <2>2, Period
  <2> QED BY <2>1, <2>2, <2>3
<1> QED BY <1>0, <1>1, <1>2

\* The places of the ring that hold messages are its own and not the tail.
LEMMA KeptPlaces ==
  ASSUME QueueTypes, tail = (head + count) % Places, NEW k \in 1 .. count
  PROVE  /\ (head + k - 1) % Places \in 0 .. Places - 1
         /\ count < Places => (head + k - 1) % Places # tail
<1> USE DEF QueueTypes
<1>0. Places \in Nat \ {0} /\ head \in Nat /\ count \in Nat BY ThreadsAssumption
<1> DEFINE x == head + k - 1
           y == head + count
<1>1. x \in 0 .. 2 * Places - 1 BY <1>0
<1>2. y \in 0 .. 2 * Places - 1 BY <1>0
<1>3. x < y /\ y <= x + count BY <1>0
<1>4. tail = y % Places OBVIOUS
<1> SUFFICES x % Places \in 0 .. Places - 1 /\ (count < Places => x % Places # tail)
  OBVIOUS
<1> HIDE DEF x, y
<1>5. x % Places = (IF x < Places THEN x ELSE x - Places) BY <1>1, Wraps
<1>6. tail = (IF y < Places THEN y ELSE y - Places) BY <1>2, <1>4, Wraps
<1>7. x % Places \in 0 .. Places - 1 BY <1>0, <1>1, <1>5
<1>8. count < Places => x % Places # tail
  <2>1. x \in Nat /\ y \in Nat /\ Places \in Nat /\ count \in Nat BY <1>0, <1>1, <1>2
  <2>2. CASE y < Places
    <3>1. x < Places BY <1>3, <2>1, <2>2
    <3>2. x % Places = x /\ tail = y BY <1>5, <1>6, <2>2, <3>1
    <3> QED BY <1>3, <2>1, <3>2
  <2>3. CASE y >= Places /\ x < Places BY <1>3, <1>5, <1>6, <2>1, <2>3
  <2>4. CASE y >= Places /\ x >= Places BY <1>3, <1>5, <1>6, <2>1, <2>4
  <2> QED BY <2>1, <2>2, <2>3, <2>4
<1> QED BY <1>7, <1>8

LEMMA KeptTyped ==
  ASSUME QueueTypes, tail = (head + count) % Places
  PROVE  /\ Kept \in Seq(Messages) /\ Len(Kept) = count
         /\ \A k \in 1 .. count : Kept[k] = ring[(head + k - 1) % Places]
<1>1. \A k \in 1 .. count : ring[(head + k - 1) % Places] \in Messages
  BY KeptPlaces DEF QueueTypes
<1>2. count \in Nat BY ThreadsAssumption DEF QueueTypes
<1> QED BY <1>1, <1>2 DEF Kept

\* A move of one thread is counted where it leaves and where it comes to.
LEMMA CountMoves ==
  ASSUME MutexTypes, MutexTypes', NEW t \in EngineThreads,
         \A u \in EngineThreads \ {t} : shim'[u] = shim[u], NEW x
  PROVE  /\ GS!Between(x) \in Nat /\ GS!Between(x)' \in Nat
         /\ shim[t].pc = x => GS!Between(x) >= 1
         /\ GS!Between(x)' = GS!Between(x) - (IF shim[t].pc = x THEN 1 ELSE 0)
                                           + (IF shim'[t].pc = x THEN 1 ELSE 0)
<1> DEFINE S == { u \in EngineThreads : shim[u].pc = x }
           T == { u \in EngineThreads : shim'[u].pc = x }
           R == { u \in EngineThreads \ {t} : shim[u].pc = x }
<1>1. IsFiniteSet(S) /\ IsFiniteSet(T) /\ IsFiniteSet(R)
  <2>1. S \in SUBSET EngineThreads /\ T \in SUBSET EngineThreads /\ R \in SUBSET EngineThreads
    OBVIOUS
  <2> HIDE DEF S, T, R
  <2> QED BY <2>1, FS_Subset, ThreadsAssumption
<1>2. Cardinality(R) \in Nat BY <1>1, FS_CardinalityType
<1>3. t \notin R OBVIOUS
<1>4. S = (IF shim[t].pc = x THEN R \cup {t} ELSE R) OBVIOUS
<1>5. T = (IF shim'[t].pc = x THEN R \cup {t} ELSE R) OBVIOUS
<1>6. GS!Between(x) = Cardinality(S) BY DEF GS!Between, GS!Cardinality, Cardinality
<1>8. GS!Between(x)' = Cardinality(T) BY DEF GS!Between, GS!Cardinality, Cardinality
<1> HIDE DEF S, T, R
<1>7. Cardinality(R \cup {t}) = Cardinality(R) + 1 BY <1>1, <1>3, FS_AddElement
<1> QED BY <1>2, <1>4, <1>5, <1>6, <1>7, <1>8

LEMMA QueueInit == GS!Init => QueueInv
<1> SUFFICES ASSUME GS!Init PROVE QueueInv
  OBVIOUS
<1>0. Places \in Nat \ {0} BY ThreadsAssumption
<1>1. /\ ring \in [0 .. Places - 1 -> Messages] /\ asked \in [EngineThreads -> Nat]
  BY DEF GS!Init, GS!Nobody, Messages
<1>2. head = 0 /\ tail = 0 /\ count = 0 /\ sem = 0 /\ sent = <<>> /\ got = <<>>
  BY DEF GS!Init
<1>3. 0 \in 0 .. Places - 1 /\ 0 \in 0 .. Places /\ <<>> \in Seq(Messages) BY <1>0
<1>4. QueueTypes BY <1>1, <1>2, <1>3 DEF QueueTypes
<1>5. tail = (head + count) % Places
  <2>1. 0 % Places = 0 BY <1>0
  <2> QED BY <1>2, <2>1
<1>6. sent = got \o Kept
  <2>1. Kept \in Seq(Messages) /\ Len(Kept) = 0 BY <1>2, <1>4, <1>5, KeptTyped
  <2>2. Kept = <<>> BY <2>1
  <2>3. <<>> \o <<>> = <<>> OBVIOUS
  <2> QED BY <1>2, <2>2, <2>3
<1>7. \A x \in {"release", "read", "reading"} : GS!Between(x) = 0
  <2> SUFFICES ASSUME NEW x \in {"release", "read", "reading"} PROVE GS!Between(x) = 0
    OBVIOUS
  <2>1. {t \in EngineThreads : shim[t].pc = x} = {} BY DEF GS!Init, GS!Idle
  <2>2. GS!Between(x) = Cardinality({t \in EngineThreads : shim[t].pc = x})
    BY DEF GS!Between, GS!Cardinality, Cardinality
  <2> QED BY <2>1, <2>2, FS_EmptySet
<1>8. Units = 0 BY <1>7 DEF Units
<1> QED BY <1>2, <1>4, <1>5, <1>6, <1>8 DEF QueueInv, Filled

\* A message put at the tail comes after those that were kept.
LEMMA PutKept ==
  ASSUME QueueInv, QueueTypes', NEW m \in Messages, count < Places,
         ring' = [ring EXCEPT ![tail] = m], tail' = (tail + 1) % Places,
         count' = count + 1, sent' = Append(sent, m), UNCHANGED << head, got >>
  PROVE  /\ tail' = (head' + count') % Places
         /\ sent' = got' \o Kept'
<1>0. Places \in Nat \ {0} /\ head \in 0 .. Places - 1 /\ count \in Nat
      /\ tail \in 0 .. Places - 1
  BY ThreadsAssumption DEF QueueInv, QueueTypes
<1>a. tail = (head + count) % Places /\ sent = got \o Kept BY DEF QueueInv, Filled
<1>1. tail' = (head' + count') % Places
  <2> DEFINE x == head + count
  <2>1. x \in 0 .. 2 * Places - 1 /\ head + (count + 1) = x + 1 BY <1>0
  <2>2. tail = x % Places BY <1>a
  <2> HIDE DEF x
  <2>3. ((x % Places) + 1) % Places = (x + 1) % Places BY <2>1, WrapSum
  <2> QED BY <2>1, <2>2, <2>3
<1>2. Kept \in Seq(Messages) /\ Len(Kept) = count
      /\ \A k \in 1 .. count : Kept[k] = ring[(head + k - 1) % Places]
  BY <1>a, KeptTyped DEF QueueInv
<1>3. Kept' \in Seq(Messages) /\ Len(Kept') = count + 1
      /\ \A k \in 1 .. count + 1 : Kept'[k] = ring'[(head + k - 1) % Places]
  <2>1. \A k \in 1 .. count + 1 : (head + k - 1) % Places \in 0 .. Places - 1
    <3> SUFFICES ASSUME NEW k \in 1 .. count + 1 PROVE (head + k - 1) % Places \in 0 .. Places - 1
      OBVIOUS
    <3>1. head + k - 1 \in Nat BY <1>0
    <3> QED BY <1>0, <3>1
  <2>2. \A k \in 1 .. count + 1 : ring'[(head + k - 1) % Places] \in Messages
    BY <2>1 DEF QueueTypes
  <2>3. count + 1 \in Nat BY <1>0
  <2>4. Kept' = [k \in 1 .. count + 1 |-> ring'[(head + k - 1) % Places]] BY DEF Kept
  <2> QED BY <2>2, <2>3, <2>4
<1>4. Kept' = Append(Kept, m)
  <2>1. /\ Append(Kept, m) \in Seq(Messages) /\ Len(Append(Kept, m)) = count + 1
        /\ \A k \in 1 .. count : Append(Kept, m)[k] = Kept[k]
        /\ Append(Kept, m)[count + 1] = m
    <3> HIDE DEF Kept
    <3> QED BY <1>2, AppendProperties
  <2>2. \A k \in 1 .. count : Kept'[k] = Kept[k]
    <3> SUFFICES ASSUME NEW k \in 1 .. count PROVE Kept'[k] = Kept[k]
      OBVIOUS
    <3>1. /\ (head + k - 1) % Places \in 0 .. Places - 1 /\ (head + k - 1) % Places # tail
      BY <1>a, KeptPlaces DEF QueueInv
    <3>2. ring'[(head + k - 1) % Places] = ring[(head + k - 1) % Places]
      BY <3>1 DEF QueueInv, QueueTypes
    <3>3. k \in 1 .. count + 1 BY <1>0
    <3> QED BY <1>2, <1>3, <3>2, <3>3
  <2>3. Kept'[count + 1] = m
    <3>1. count + 1 \in 1 .. count + 1 /\ head + (count + 1) - 1 = head + count BY <1>0
    <3>2. Kept'[count + 1] = ring'[(head + (count + 1) - 1) % Places] BY <1>3, <3>1
    <3>3. ring'[tail] = m BY <1>0 DEF QueueInv, QueueTypes
    <3> QED BY <1>a, <3>1, <3>2, <3>3
  <2>4. \A k \in 1 .. count + 1 : Kept'[k] = Append(Kept, m)[k]
    <3> SUFFICES ASSUME NEW k \in 1 .. count + 1 PROVE Kept'[k] = Append(Kept, m)[k]
      OBVIOUS
    <3>1. k = count + 1 \/ k \in 1 .. count BY <1>0
    <3> HIDE DEF Kept
    <3> QED BY <2>1, <2>2, <2>3, <3>1
  <2> HIDE DEF Kept
  <2> QED BY <1>3, <2>1, <2>4, SeqEqual
<1>5. sent' = got' \o Kept'
  <2>1. got \in Seq(Messages) /\ sent \in Seq(Messages) BY DEF QueueInv, QueueTypes
  <2>2. <<m>> \in Seq(Messages) OBVIOUS
  <2> HIDE DEF Kept
  <2>3. Append(Kept, m) = Kept \o <<m>> BY <1>2, AppendIsConcat
  <2>4. Append(sent, m) = sent \o <<m>> BY <2>1, AppendIsConcat
  <2>5. (got \o Kept) \o <<m>> = got \o (Kept \o <<m>>)
    BY <1>2, <2>1, <2>2, ConcatAssociative
  <2> QED BY <1>4, <1>a, <2>3, <2>4, <2>5
<1> QED BY <1>1, <1>5

\* The message at the head is the first of those that were kept.
LEMMA TakeKept ==
  ASSUME QueueInv, QueueTypes', count >= 1,
         head' = (head + 1) % Places, count' = count - 1, got' = Append(got, ring[head]),
         UNCHANGED << ring, tail, sent >>
  PROVE  /\ tail' = (head' + count') % Places
         /\ sent' = got' \o Kept'
<1>0. Places \in Nat \ {0} /\ head \in 0 .. Places - 1 /\ count \in 1 .. Places
      /\ head + 1 \in 0 .. 2 * Places - 1
  <2>1. Places \in Nat \ {0} /\ head \in 0 .. Places - 1 /\ count \in 1 .. Places
    BY ThreadsAssumption DEF QueueInv, QueueTypes
  <2> QED BY <2>1
<1>a. tail = (head + count) % Places /\ sent = got \o Kept BY DEF QueueInv, Filled
<1>b. ASSUME NEW b \in Nat PROVE (head' + b) % Places = (head + 1 + b) % Places
  <2> DEFINE x == head + 1
  <2>1. x \in 0 .. 2 * Places - 1 /\ head' = x % Places BY <1>0
  <2> HIDE DEF x
  <2>2. ((x % Places) + b) % Places = (x + b) % Places BY <2>1, WrapSum
  <2> QED BY <2>1, <2>2 DEF x
<1>1. tail' = (head' + count') % Places
  <2>1. count - 1 \in Nat /\ head + 1 + (count - 1) = head + count BY <1>0
  <2>2. (head' + (count - 1)) % Places = (head + 1 + (count - 1)) % Places BY <1>b, <2>1
  <2> QED BY <1>a, <2>1, <2>2
<1>2. Kept \in Seq(Messages) /\ Len(Kept) = count
      /\ \A k \in 1 .. count : Kept[k] = ring[(head + k - 1) % Places]
  BY <1>a, KeptTyped DEF QueueInv
<1>3. \A k \in 1 .. count - 1 : (head' + k - 1) % Places = (head + (k + 1) - 1) % Places
  <2> SUFFICES ASSUME NEW k \in 1 .. count - 1
               PROVE  (head' + k - 1) % Places = (head + (k + 1) - 1) % Places
    OBVIOUS
  <2>1. k - 1 \in Nat BY <1>0
  <2>2. (head' + (k - 1)) % Places = (head + 1 + (k - 1)) % Places BY <1>b, <2>1
  <2>3. head' \in Int BY <1>0
  <2>4. head' + (k - 1) = head' + k - 1 /\ head + 1 + (k - 1) = head + (k + 1) - 1
    BY <1>0, <2>3
  <2> QED BY <2>2, <2>4
<1>4. /\ Tail(Kept) \in Seq(Messages) /\ Len(Tail(Kept)) = count - 1
      /\ \A k \in 1 .. count - 1 : Tail(Kept)[k] = Kept[k + 1]
  <2> HIDE DEF Kept
  <2>1. Kept # <<>> BY <1>0, <1>2
  <2> QED BY <1>2, <2>1, HeadTailProperties
<1>5. Kept' = Tail(Kept)
  <2>1. Kept' = [k \in 1 .. count - 1 |-> ring[(head' + k - 1) % Places]] BY DEF Kept
  <2>2. \A k \in 1 .. count - 1 : ring[(head' + k - 1) % Places] = Tail(Kept)[k]
    <3> SUFFICES ASSUME NEW k \in 1 .. count - 1
                 PROVE  ring[(head' + k - 1) % Places] = Tail(Kept)[k]
      OBVIOUS
    <3>1. k + 1 \in 1 .. count BY <1>0
    <3>2. Kept[k + 1] = ring[(head + (k + 1) - 1) % Places] BY <1>2, <3>1
    <3> QED BY <1>3, <1>4, <3>2
  <2>3. count - 1 \in Nat BY <1>0
  <2>4. Kept' \in Seq(Messages) /\ Len(Kept') = count - 1
        /\ \A k \in 1 .. count - 1 : Kept'[k] = Tail(Kept)[k]
    <3>1. \A k \in 1 .. count - 1 : Tail(Kept)[k] \in Messages
      <4> HIDE DEF Kept
      <4> QED BY <1>4, ElementOfSeq
    <3>2. \A k \in 1 .. count - 1 : ring[(head' + k - 1) % Places] \in Messages
      BY <2>2, <3>1
    <3> DEFINE n == count - 1
               e == [k \in 1 .. n |-> ring[(head' + k - 1) % Places]]
    <3>3. e \in Seq(Messages) /\ Len(e) = n BY <2>3, <3>2
    <3>4. Kept' = e BY <2>1
    <3>5. \A k \in 1 .. n : e[k] = Tail(Kept)[k] BY <2>2
    <3> HIDE DEF Kept, e
    <3> QED BY <3>3, <3>4, <3>5
  <2> HIDE DEF Kept
  <2> QED BY <1>4, <2>4, SeqEqual
<1>6. Kept = <<ring[head]>> \o Tail(Kept)
  <2>1. 1 \in 1 .. count /\ head + 1 - 1 = head /\ head % Places = head BY <1>0
  <2>2. Kept[1] = ring[(head + 1 - 1) % Places] BY <1>2, <2>1
  <2>3. Kept[1] = ring[head] BY <2>1, <2>2
  <2>4. ring[head] \in Messages BY <1>0 DEF QueueInv, QueueTypes
  <2> DEFINE f == <<ring[head]>>
  <2>5. f \in Seq(Messages) /\ Len(f) = 1 /\ f[1] = ring[head] BY <2>4
  <2> HIDE DEF f, Kept
  <2>6. /\ f \o Tail(Kept) \in Seq(Messages) /\ Len(f \o Tail(Kept)) = 1 + (count - 1)
        /\ \A k \in 1 .. 1 + (count - 1) : (f \o Tail(Kept))[k] =
             IF k <= 1 THEN f[k] ELSE Tail(Kept)[k - 1]
    <3> DEFINE g == Tail(Kept)
    <3>1. g \in Seq(Messages) /\ Len(g) = count - 1 BY <1>4
    <3> HIDE DEF g
    <3>2. /\ f \o g \in Seq(Messages) /\ Len(f \o g) = Len(f) + Len(g)
          /\ \A k \in 1 .. Len(f) + Len(g) : (f \o g)[k] =
               IF k <= Len(f) THEN f[k] ELSE g[k - Len(f)]
      BY <2>5, <3>1, ConcatProperties
    <3> QED BY <2>5, <3>1, <3>2 DEF g
  <2>7. 1 + (count - 1) = count BY <1>0
  <2>8. ASSUME NEW k \in 1 .. count PROVE Kept[k] = (f \o Tail(Kept))[k]
    <3>1. CASE k = 1 BY <2>3, <2>5, <2>6, <2>7, <3>1
    <3>2. CASE k # 1
      <4>1. k - 1 \in 1 .. count - 1 /\ (k - 1) + 1 = k /\ ~(k <= 1) BY <1>0, <3>2
      <4>2. Tail(Kept)[k - 1] = Kept[(k - 1) + 1] BY <1>4, <4>1
      <4> QED BY <2>6, <2>7, <4>1, <4>2
    <3> QED BY <3>1, <3>2
  <2>9. Kept = f \o Tail(Kept) BY <1>2, <2>6, <2>7, <2>8, SeqEqual
  <2> QED BY <2>9 DEF f
<1>7. sent' = got' \o Kept'
  <2>1. got \in Seq(Messages) /\ ring[head] \in Messages BY <1>0 DEF QueueInv, QueueTypes
  <2>2. <<ring[head]>> \in Seq(Messages) BY <2>1
  <2> HIDE DEF Kept
  <2>3. Append(got, ring[head]) = got \o <<ring[head]>> BY <2>1, AppendIsConcat
  <2>4. (got \o <<ring[head]>>) \o Tail(Kept) = got \o (<<ring[head]>> \o Tail(Kept))
    BY <1>4, <2>1, <2>2, ConcatAssociative
  <2>5. got' \o Kept' = got \o Kept BY <1>5, <1>6, <2>3, <2>4
  <2> QED BY <1>a, <2>5
<1> QED BY <1>1, <1>7

LEMMA UnitMoves ==
  ASSUME MutexTypes, MutexTypes', NEW t \in EngineThreads,
         \A u \in EngineThreads \ {t} : shim'[u] = shim[u]
  PROVE  /\ Units \in Nat /\ Units' = Units - Has(t) + Has(t)'
         /\ Has(t) = 1 => Units >= 1
<1> DEFINE At(x) == IF shim[t].pc = x THEN 1 ELSE 0
<1>1. \A x : /\ GS!Between(x) \in Nat /\ GS!Between(x)' \in Nat
             /\ shim[t].pc = x => GS!Between(x) >= 1
             /\ GS!Between(x)' = GS!Between(x) - At(x) + At(x)'
  BY CountMoves
<1>2. Has(t) = At("release") + At("read") + At("reading") BY DEF Has
<1>3. Has(t)' = At("release")' + At("read")' + At("reading")' BY DEF Has
<1>4. \A x : At(x) \in {0, 1} /\ At(x)' \in {0, 1} /\ (At(x) = 1 <=> shim[t].pc = x) OBVIOUS
<1>5. Has(t) = 1 => shim[t].pc \in {"release", "read", "reading"} BY DEF Has
<1> HIDE DEF At
<1> DEFINE a == GS!Between("release")
           b == GS!Between("read")
           c == GS!Between("reading")
<1>6. a \in Nat /\ b \in Nat /\ c \in Nat BY <1>1
<1>7. /\ a' = a - At("release") + At("release")'
      /\ b' = b - At("read") + At("read")'
      /\ c' = c - At("reading") + At("reading")'
  BY <1>1
<1>8. /\ At("release") \in {0, 1} /\ At("read") \in {0, 1} /\ At("reading") \in {0, 1}
      /\ At("release")' \in {0, 1} /\ At("read")' \in {0, 1} /\ At("reading")' \in {0, 1}
  BY <1>4
<1>9. Has(t) = 1 => a >= 1 \/ b >= 1 \/ c >= 1 BY <1>1, <1>5
<1>10. Units = a + b + c /\ Units' = a' + b' + c' BY DEF Units
<1> HIDE DEF a, b, c
<1> QED BY <1>2, <1>3, <1>6, <1>7, <1>8, <1>9, <1>10

\* A step outside the queue, or one that is refused.
ringVars == << ring, head, tail, count, sem, sent, got >>

LEMMA QueueRests ==
  ASSUME MutexTypes, MutexTypes', QueueInv, UNCHANGED ringVars,
         asked' \in [EngineThreads -> Nat], NEW t \in EngineThreads,
         \A u \in EngineThreads \ {t} : shim'[u] = shim[u],
         shim[t].pc \notin {"release", "read", "reading"},
         shim'[t].pc \notin {"release", "read", "reading"}
  PROVE  QueueInv'
<1> USE DEF ringVars
<1>1. QueueTypes' BY DEF QueueInv, QueueTypes
<1>2. Units' = Units
  <2>1. Has(t) = 0 /\ Has(t)' = 0 BY DEF Has
  <2> QED BY <2>1, UnitMoves
<1>3. count = sem + Units BY DEF QueueInv, Filled
<1>4. Kept' = Kept BY DEF Kept
<1>5. count' = sem' + Units' BY <1>2, <1>3
<1>6. tail' = (head' + count') % Places /\ sent' = got' \o Kept'
  BY <1>4 DEF QueueInv, Filled
<1>7. Filled' BY <1>5, <1>6 DEF Filled
<1> QED BY <1>1, <1>7 DEF QueueInv

LEMMA PcMoves ==
  ASSUME MutexTypes, NEW t \in EngineThreads, NEW x \in Stations, shim' = GS!Pc(t, x)
  PROVE  /\ shim'[t].pc = x
         /\ \A u \in EngineThreads \ {t} : shim'[u] = shim[u]
<1>1. shim'[t] = [shim[t] EXCEPT !.pc = x] BY ShimTypes
<1>2. shim[t] \in Shims BY DEF MutexTypes
<1>3. shim'[t].pc = x BY <1>1, <1>2 DEF Shims
<1> QED BY <1>3, ShimTypes

LEMMA AskedTyped ==
  ASSUME QueueInv, NEW t \in EngineThreads, asked' = [asked EXCEPT ![t] = @ + 1]
  PROVE  asked' \in [EngineThreads -> Nat]
BY DEF QueueInv, QueueTypes

LEMMA QueueStep ==
  ASSUME MutexTypes, MutexTypes', QueueInv, GS!Next
  PROVE  QueueInv'
<1> USE DEF GS!Starts, GS!queueVars, ringVars
<1>0. asked \in [EngineThreads -> Nat] /\ MaxShimCalls \in Nat
  BY ThreadsAssumption DEF QueueInv, QueueTypes
<1>1. ASSUME NEW t \in EngineThreads,
             \/ GS!LockMutex(t) \/ GS!FindMutex(t) \/ GS!EnterMutex(t) \/ GS!CondBack(t)
             \/ GS!UnlockMutex(t) \/ GS!CondWait(t) \/ GS!DestroyMutex(t) \/ GS!InitMutex(t)
      PROVE  QueueInv'
  <2>1. UNCHANGED ringVars
    BY <1>1 DEF GS!LockMutex, GS!FindMutex, GS!EnterMutex, GS!CondBack, GS!UnlockMutex,
      GS!CondWait, GS!DestroyMutex, GS!InitMutex
  <2>2. asked' \in [EngineThreads -> Nat]
    BY <1>0, <1>1, AskedTyped DEF GS!LockMutex, GS!FindMutex, GS!EnterMutex, GS!CondBack,
      GS!UnlockMutex, GS!CondWait, GS!DestroyMutex, GS!InitMutex
  <2>3. \A u \in EngineThreads \ {t} : shim'[u] = shim[u]
    BY <1>1 DEF GS!LockMutex, GS!FindMutex, GS!EnterMutex, GS!CondBack,
      GS!UnlockMutex, GS!CondWait, GS!DestroyMutex, GS!InitMutex, MutexTypes
  <2>4. shim[t].pc \in {"idle", "get", "enter", "woken"}
    BY <1>1 DEF GS!LockMutex, GS!FindMutex, GS!EnterMutex, GS!CondBack,
      GS!UnlockMutex, GS!CondWait, GS!DestroyMutex, GS!InitMutex, GS!Idle
  <2>5. shim'[t].pc \in {"idle", "get", "enter", "asleep"}
    BY <1>1, <2>4 DEF GS!LockMutex, GS!FindMutex, GS!EnterMutex, GS!CondBack,
      GS!UnlockMutex, GS!CondWait, GS!DestroyMutex, GS!InitMutex, GS!Idle, MutexTypes, Shims
  <2> QED BY <2>1, <2>2, <2>3, <2>4, <2>5, QueueRests
<1>2. ASSUME NEW t \in EngineThreads, NEW x \in Stations \ {"release", "read", "reading"},
             shim' = GS!Pc(t, x), shim[t].pc \notin {"release", "read", "reading"},
             UNCHANGED ringVars, asked' \in [EngineThreads -> Nat]
      PROVE  QueueInv'
  <2>1. shim'[t].pc = x /\ \A u \in EngineThreads \ {t} : shim'[u] = shim[u]
    BY <1>2, PcMoves
  <2>2. shim'[t].pc \notin {"release", "read", "reading"} BY <1>2, <2>1
  <2> QED BY <1>2, <2>1, <2>2, QueueRests
<1>3. ASSUME NEW t \in EngineThreads, GS!CondSignal(t) PROVE QueueInv'
  <2>1. PICK s \in EngineThreads : shim[s].pc = "asleep" /\ shim' = GS!Pc(s, "woken")
    BY <1>3 DEF GS!CondSignal
  <2>2. UNCHANGED ringVars BY <1>3 DEF GS!CondSignal
  <2>3. asked' \in [EngineThreads -> Nat] BY <1>3, AskedTyped DEF GS!CondSignal
  <2>4. "woken" \in Stations \ {"release", "read", "reading"} BY DEF Stations
  <2> QED BY <1>2, <2>1, <2>2, <2>3, <2>4
<1>4. ASSUME NEW t \in EngineThreads,
             GS!CondWake(t) \/ GS!Notify(t) \/ GS!WaitOnQueue(t) \/ GS!WaitTimeout(t)
      PROVE  QueueInv'
  <2>1. UNCHANGED ringVars
    BY <1>4 DEF GS!CondWake, GS!Notify, GS!WaitOnQueue, GS!WaitTimeout
  <2>2. asked' \in [EngineThreads -> Nat]
    BY <1>0, <1>4, AskedTyped DEF GS!CondWake, GS!Notify, GS!WaitOnQueue, GS!WaitTimeout
  <2>3. \E x \in {"woken", "put", "wait", "idle"} : shim' = GS!Pc(t, x)
    BY <1>4 DEF GS!CondWake, GS!Notify, GS!WaitOnQueue, GS!WaitTimeout
  <2>4. shim[t].pc \in {"asleep", "idle", "wait"}
    BY <1>4 DEF GS!CondWake, GS!Notify, GS!WaitOnQueue, GS!WaitTimeout, GS!Idle
  <2>5. {"woken", "put", "wait", "idle"} \subseteq Stations \ {"release", "read", "reading"}
    BY DEF Stations
  <2> QED BY <1>2, <2>1, <2>2, <2>3, <2>4, <2>5
<1>5. ASSUME NEW t \in EngineThreads, GS!CreateTask(t) \/ GS!EndTask(t) PROVE QueueInv'
  <2>1. UNCHANGED ringVars /\ shim' = shim /\ shim[t].pc = "idle"
    BY <1>5 DEF GS!CreateTask, GS!EndTask, GS!Idle
  <2>2. asked' \in [EngineThreads -> Nat]
    BY <1>0, <1>5 DEF GS!CreateTask, GS!EndTask
  <2> QED BY <2>1, <2>2, QueueRests
<1>6. ASSUME NEW t \in EngineThreads, GS!Put(t) PROVE QueueInv'
  <2> DEFINE m == GS!Message(t)
  <2>1. m \in Messages BY <1>0 DEF GS!Message, Messages
  <2>2. shim[t].pc = "put" /\ UNCHANGED << head, sem, got, asked >> BY <1>6 DEF GS!Put
  <2>3. CASE count >= Places
    <3>1. UNCHANGED ringVars /\ shim' = GS!Pc(t, "idle")
      BY <1>6, <2>3 DEF GS!Put, GS!Refuse
    <3>2. "idle" \in Stations \ {"release", "read", "reading"} BY DEF Stations
    <3> QED BY <1>0, <1>2, <2>2, <3>1, <3>2
  <2>4. CASE ~(count >= Places)
    <3>1. /\ ring' = [ring EXCEPT ![tail] = m] /\ tail' = (tail + 1) % Places
          /\ count' = count + 1 /\ sent' = Append(sent, m) /\ shim' = GS!Pc(t, "release")
      BY <1>6, <2>4 DEF GS!Put, GS!Enqueue
    <3> HIDE DEF m
    <3>2. count < Places /\ count + 1 \in 0 .. Places /\ (tail + 1) % Places \in 0 .. Places - 1
      BY <2>4, ThreadsAssumption DEF QueueInv, QueueTypes
    <3>3. sent' \in Seq(Messages)
      BY <2>1, <3>1, AppendProperties DEF QueueInv, QueueTypes
    <3>4. QueueTypes' BY <2>1, <2>2, <3>1, <3>2, <3>3 DEF QueueInv, QueueTypes
    <3>5. tail' = (head' + count') % Places /\ sent' = got' \o Kept'
      BY <2>1, <2>2, <3>1, <3>2, <3>4, PutKept
    <3>6. count' = sem' + Units'
      <4>1. "release" \in Stations BY DEF Stations
      <4>2. shim'[t].pc = "release" /\ \A u \in EngineThreads \ {t} : shim'[u] = shim[u]
        BY <3>1, <4>1, PcMoves
      <4>3. Has(t) = 0 /\ Has(t)' = 1 BY <2>2, <4>2 DEF Has
      <4>4. Units \in Nat /\ Units' = Units + 1 BY <4>2, <4>3, UnitMoves
      <4>5. count = sem + Units /\ sem \in Nat BY DEF QueueInv, QueueTypes, Filled
      <4> QED BY <2>2, <3>1, <4>4, <4>5
    <3> QED BY <3>4, <3>5, <3>6 DEF QueueInv, Filled
  <2> QED BY <2>3, <2>4
<1>7. ASSUME NEW t \in EngineThreads, NEW x \in Stations, shim' = GS!Pc(t, x), sem' \in Nat,
             sem' + Has(t)' = sem + Has(t),
             UNCHANGED << ring, head, tail, count, sent, got, asked >>
      PROVE  QueueInv'
  <2>1. \A u \in EngineThreads \ {t} : shim'[u] = shim[u] BY <1>7, PcMoves
  <2>2. QueueTypes' BY <1>7 DEF QueueInv, QueueTypes
  <2>3. count' = sem' + Units'
    <3>1. Units \in Nat /\ Units' = Units - Has(t) + Has(t)' BY <2>1, UnitMoves
    <3>2. count = sem + Units /\ sem \in Nat BY DEF QueueInv, QueueTypes, Filled
    <3>3. Has(t) \in {0, 1} /\ Has(t)' \in {0, 1} BY DEF Has
    <3>4. PICK p \in {0, 1}, q \in {0, 1} : p = Has(t) /\ q = Has(t)' BY <3>3
    <3>5. Units' = Units - p + q /\ sem' + q = sem + p /\ count' = count
      BY <1>7, <3>1, <3>4
    <3>6. PICK n \in Nat : n = sem' BY <1>7
    <3>7. PICK u \in Nat : u = Units BY <3>1
    <3>8. n + q = sem + p BY <3>5, <3>6
    <3>9. n + (u - p + q) = sem + u BY <3>2, <3>4, <3>8
    <3> QED BY <3>2, <3>5, <3>6, <3>7, <3>9
  <2>4. Kept' = Kept BY <1>7 DEF Kept
  <2>5. tail' = (head' + count') % Places /\ sent' = got' \o Kept'
    BY <1>7, <2>4 DEF QueueInv, Filled
  <2> QED BY <2>2, <2>3, <2>5 DEF QueueInv, Filled
<1>8. ASSUME NEW t \in EngineThreads, GS!Release(t) \/ GS!TakeUnit(t) \/ GS!EnterQueue(t)
      PROVE  QueueInv'
  <2>0. UNCHANGED << ring, head, tail, count, sent, got, asked >>
    BY <1>8 DEF GS!Release, GS!TakeUnit, GS!EnterQueue
  <2>a. sem \in Nat /\ {"idle", "read", "reading"} \subseteq Stations
    BY DEF QueueInv, QueueTypes, Stations
  <2>1. CASE GS!Release(t)
    <3>1. shim[t].pc = "release" /\ shim' = GS!Pc(t, "idle") /\ sem' = sem + 1
      BY <2>1 DEF GS!Release
    <3>2. shim'[t].pc = "idle" BY <2>a, <3>1, PcMoves
    <3>3. Has(t) = 1 /\ Has(t)' = 0 BY <3>1, <3>2 DEF Has
    <3>4. sem' \in Nat /\ sem' + Has(t)' = sem + Has(t) BY <2>a, <3>1, <3>3
    <3> QED BY <1>7, <2>0, <2>a, <3>1, <3>4
  <2>2. CASE GS!TakeUnit(t)
    <3>1. shim[t].pc = "wait" /\ shim' = GS!Pc(t, "read") /\ sem' = sem - 1 /\ sem > 0
      BY <2>2 DEF GS!TakeUnit
    <3>2. shim'[t].pc = "read" BY <2>a, <3>1, PcMoves
    <3>3. Has(t) = 0 /\ Has(t)' = 1 BY <3>1, <3>2 DEF Has
    <3>4. sem' \in Nat /\ sem' + Has(t)' = sem + Has(t) BY <2>a, <3>1, <3>3
    <3> QED BY <1>7, <2>0, <2>a, <3>1, <3>4
  <2>3. CASE GS!EnterQueue(t)
    <3>1. shim[t].pc = "read" /\ shim' = GS!Pc(t, "reading") /\ sem' = sem
      BY <2>3 DEF GS!EnterQueue
    <3>2. shim'[t].pc = "reading" BY <2>a, <3>1, PcMoves
    <3>3. Has(t) = 1 /\ Has(t)' = 1 BY <3>1, <3>2 DEF Has
    <3>4. sem' \in Nat /\ sem' + Has(t)' = sem + Has(t) BY <2>a, <3>1, <3>3
    <3> QED BY <1>7, <2>0, <2>a, <3>1, <3>4
  <2> QED BY <1>8, <2>1, <2>2, <2>3
<1>9. ASSUME NEW t \in EngineThreads, GS!Dequeue(t) PROVE QueueInv'
  <2>1. /\ shim[t].pc = "reading" /\ shim' = GS!Pc(t, "idle") /\ got' = Append(got, ring[head])
        /\ head' = (head + 1) % Places /\ count' = count - 1
        /\ UNCHANGED << ring, tail, sem, sent, asked >>
    BY <1>9 DEF GS!Dequeue
  <2>2. shim'[t].pc = "idle" /\ \A u \in EngineThreads \ {t} : shim'[u] = shim[u]
    <3>1. "idle" \in Stations BY DEF Stations
    <3> QED BY <2>1, <3>1, PcMoves
  <2>3. Has(t) = 1 /\ Has(t)' = 0 BY <2>1, <2>2 DEF Has
  <2>4. Units \in Nat /\ Units >= 1 /\ Units' = Units - 1 BY <2>2, <2>3, UnitMoves
  <2>5. count = sem + Units /\ sem \in Nat /\ count \in 0 .. Places
    BY DEF QueueInv, QueueTypes, Filled
  <2>6. count >= 1 /\ count - 1 = sem + (Units - 1) BY <2>4, <2>5
  <2>7. QueueTypes'
    <3>1. Places \in Nat \ {0} BY ThreadsAssumption
    <3>2. head \in 0 .. Places - 1 /\ got \in Seq(Messages) /\ ring[head] \in Messages
      BY DEF QueueInv, QueueTypes
    <3>3. (head + 1) % Places \in 0 .. Places - 1 BY <3>1, <3>2
    <3>4. count - 1 \in 0 .. Places BY <2>5, <2>6, <3>1
    <3>5. Append(got, ring[head]) \in Seq(Messages) BY <3>2, AppendProperties
    <3> QED BY <2>1, <3>3, <3>4, <3>5 DEF QueueInv, QueueTypes
  <2>8. tail' = (head' + count') % Places /\ sent' = got' \o Kept'
    BY <2>1, <2>6, <2>7, TakeKept
  <2>9. count' = sem' + Units' BY <2>1, <2>4, <2>6
  <2> QED BY <2>7, <2>8, <2>9 DEF QueueInv, Filled
<1> QED BY <1>1, <1>3, <1>4, <1>5, <1>6, <1>8, <1>9 DEF GS!Next, GS!Steps

-----------------------------------------------------------------------------
(* All of them.                                                            *)

GuestInv == MutexInv /\ QueueInv

LEMMA PosixRests ==
  ASSUME PosixInv, UNCHANGED posixVars
  PROVE  PosixInv'
<1> USE DEF PosixInv, posixVars
<1>1. HandleTypes' BY DEF HandleTypes
<1>2. Referred' BY DEF Referred, Running, Owned
<1>3. Using' BY DEF Using, PP!On
<1>4. Holding' BY DEF Holding, PP!On
<1> QED BY <1>1, <1>2, <1>3, <1>4

LEMMA GuestRests ==
  ASSUME GuestInv, UNCHANGED guestVars
  PROVE  GuestInv'
<1> USE DEF GuestInv, guestVars
<1>1. MutexInv' BY DEF MutexInv, MutexTypes, Matched
<1>2. QueueTypes' BY DEF QueueInv, QueueTypes
<1>3. Kept' = Kept BY DEF Kept
<1>4. Units' = Units BY DEF Units, GS!Between
<1>5. Filled' BY <1>3, <1>4 DEF QueueInv, Filled
<1> QED BY <1>1, <1>2, <1>5 DEF QueueInv

LEMMA DllRests ==
  ASSUME DllInv, UNCHANGED dllVars
  PROVE  DllInv'
BY DEF DllInv, SessionTypes, OneLive, Opening, Live, dllVars

ThreadsInv == PosixInv /\ GuestInv /\ DllInv

LEMMA ThreadsStep ==
  ASSUME ThreadsInv, [ThreadsNext]_allVars
  PROVE  ThreadsInv'
<1> USE DEF ThreadsInv
<1>1. CASE Posix(PP!Next)
  BY <1>1, PosixStep, GuestRests, DllRests DEF Posix
<1>2. CASE Guest(GS!Next)
  <2>1. GS!Next /\ UNCHANGED << posixVars, dllVars >> BY <1>2 DEF Guest
  <2>2. MutexInv' BY <2>1, MutexStep DEF GuestInv
  <2>3. QueueInv' BY <2>1, <2>2, QueueStep DEF GuestInv, MutexInv
  <2> QED BY <2>1, <2>2, <2>3, PosixRests, DllRests DEF GuestInv
<1>3. CASE Dll(DS!Next)
  BY <1>3, DllStep, PosixRests, GuestRests DEF Dll
<1>4. CASE Source("sources", Next) \/ Source("wide", LW!Next)
  BY <1>4, PosixRests, GuestRests, DllRests DEF Source
<1>5. CASE UNCHANGED allVars
  BY <1>5, PosixRests, GuestRests, DllRests DEF allVars
<1> QED BY <1>1, <1>2, <1>3, <1>4, <1>5 DEF ThreadsNext

\* What each part keeps holds in every behaviour of the parts side by side: a step
\* of one leaves the others where they started.
THEOREM ThreadsInvariance == ThreadsSpec => []ThreadsInv
<1>1. ThreadsInit => ThreadsInv
  BY PosixInit, MutexInit, QueueInit, DllInit DEF ThreadsInit, ThreadsInv, GuestInv
<1>2. ThreadsInv /\ [ThreadsNext]_allVars => ThreadsInv' BY ThreadsStep
<1> QED BY <1>1, <1>2, PTL DEF ThreadsSpec

\* No thread touches a POSIX handle that was freed, whichever of its owner and
\* its wrapper lets go of it first: the two references that CreateThread takes
\* are CloseHandle's and thread_trampoline's, and only the owner calls on it.
THEOREM HandlesOutlive == ThreadsSpec => []HandleAlive
<1>1. ThreadsInv => HandleAlive BY PosixSuffices DEF ThreadsInv, HandleAlive
<1> QED BY <1>1, ThreadsInvariance, PTL

\* Threads of the engine that lock one guest address are in one native mutex
\* (mtx_native, guest_sync_get), and each message that sh_mp_notify_queue accepts
\* is in the ring until sh_mp_wait_on_queue delivers it, once and in order, with a
\* unit of the semaphore for each.
THEOREM EngineSynchronised == ThreadsSpec => []EngineInStep
<1>1. ThreadsInv => EngineInStep
  BY MutexSuffices, QueueSuffices DEF ThreadsInv, GuestInv, EngineInStep
<1> QED BY <1>1, ThreadsInvariance, PTL

\* A host thread that serves has the channel and the streams to itself, also after
\* a pt_close that gave up on it, since no pt_open starts another beside it; and
\* pt_open says 0 only when the thread it started is serving.
THEOREM SessionsOwn == ThreadsSpec => []SessionOwned
<1>1. ThreadsInv => SessionOwned BY DllSuffices DEF ThreadsInv, SessionOwned
<1> QED BY <1>1, ThreadsInvariance, PTL

-----------------------------------------------------------------------------
(* The POSIX handles are the handles of WinHandles, step for step.         *)

LEMMA CallFields ==
  ASSUME NEW a \in Calls, NEW x, NEW b, b = [a EXCEPT !.pc = x]
  PROVE  /\ b.pc = x /\ b.op = a.op /\ b.on = a.on /\ b.timed = a.timed
         /\ b.due = a.due /\ b.n = a.n
BY DEF Calls

\* Whatever a step moves, each caller stays in its call, save one that begins or
\* ends one; a caller that is woken was asleep.
SameCall(d) == /\ at'[d].op = at[d].op /\ at'[d].on = at[d].on /\ at'[d].n = at[d].n
               /\ at'[d].timed = at[d].timed
Roused(d) == SameCall(d) /\ at'[d].due = at[d].due
            /\ (at'[d].pc = at[d].pc \/ (at[d].pc = "asleep" /\ at'[d].pc = "woken"))

LEMMA WokenCalls ==
  ASSUME HandleTypes, NEW S \in SUBSET Waiters, \A d \in S : at[d].pc = "asleep",
         NEW d \in Waiters
  PROVE  LET b == PP!Wake(S)[d] IN
           /\ b.op = at[d].op /\ b.on = at[d].on /\ b.n = at[d].n
           /\ b.timed = at[d].timed /\ b.due = at[d].due
           /\ b.pc = at[d].pc \/ (at[d].pc = "asleep" /\ b.pc = "woken")
<1>1. at[d] \in Calls BY DEF HandleTypes
<1>2. PP!Wake(S)[d] = IF d \in S THEN [at[d] EXCEPT !.pc = "woken"] ELSE at[d] BY DEF PP!Wake
<1>3. CASE d \in S BY <1>1, <1>2, <1>3, CallFields
<1>4. CASE d \notin S BY <1>2, <1>4
<1> QED BY <1>3, <1>4

\* Where a caller goes in a step of its own that moves it within its call.
LEMMA Moves ==
  ASSUME HandleTypes, NEW c \in Waiters, NEW x, at' = PP!Pc(c, x)
  PROVE  /\ SameCall(c) /\ at'[c].pc = x /\ at'[c].due = at[c].due
         /\ \A d \in Waiters \ {c} : at'[d] = at[d]
<1>1. at[c] \in Calls BY DEF HandleTypes
<1>2. at'[c] = [at[c] EXCEPT !.pc = x] BY DEF HandleTypes, PP!Pc
<1>3. SameCall(c) /\ at'[c].pc = x /\ at'[c].due = at[c].due
  BY <1>1, <1>2, CallFields DEF SameCall
<1> QED BY <1>3 DEF HandleTypes, PP!Pc

LEMMA MovesWaking ==
  ASSUME HandleTypes, NEW c \in Waiters, at[c].pc = "in",
         NEW S \in SUBSET PP!Asleep(PP!On(c)),
         at' = [PP!Wake(S) EXCEPT ![c].pc = "leave"]
  PROVE  /\ SameCall(c) /\ at'[c].pc = "leave" /\ at'[c].due = at[c].due
         /\ \A d \in Waiters \ {c} : Roused(d)
<1>1. S \in SUBSET Waiters /\ (\A d \in S : at[d].pc = "asleep") /\ c \notin S
  BY DEF PP!Asleep
<1>2. PP!Wake(S)[c] = at[c] /\ DOMAIN PP!Wake(S) = Waiters BY <1>1 DEF PP!Wake
<1>3. PP!Wake(S) = [d \in Waiters |-> PP!Wake(S)[d]] BY DEF PP!Wake
<1>4. at'[c] = [at[c] EXCEPT !.pc = "leave"] /\ \A d \in Waiters \ {c} : at'[d] = PP!Wake(S)[d]
  <2> HIDE DEF PP!Wake
  <2> QED BY <1>2, <1>3
<1>5. at[c] \in Calls BY DEF HandleTypes
<1>6. SameCall(c) /\ at'[c].pc = "leave" /\ at'[c].due = at[c].due
  <2>1. at'[c] = [at[c] EXCEPT !.pc = "leave"] BY <1>4
  <2>2. /\ at'[c].pc = "leave" /\ at'[c].op = at[c].op /\ at'[c].on = at[c].on
        /\ at'[c].timed = at[c].timed /\ at'[c].due = at[c].due /\ at'[c].n = at[c].n
    BY ONLY <1>5, <2>1, CallFields
  <2> QED BY <2>2 DEF SameCall
<1>7. ASSUME NEW d \in Waiters \ {c} PROVE Roused(d)
  BY <1>1, <1>4, WokenCalls DEF Roused, SameCall
<1> QED BY <1>6, <1>7

LEMMA CallingInit == PP!Init => Calling
BY DEF PP!Init, PP!NoOp, Calling

LEMMA CallingStep ==
  ASSUME HandleTypes, Calling, PP!Next
  PROVE  Calling'
<1> USE DEF Calling
<1>0. UNCHANGED kind
  BY DEF PP!Next, PP!CreateThread, PP!CloseHandle, PP!Tramp, PP!TrampLock, PP!TrampDone,
    PP!TrampUnlock, PP!TrampUnref, PP!Call, PP!Begin, PP!Step, PP!Enter, PP!Take, PP!Sleep,
    PP!Awaken, PP!Leave, PP!SetEvent, PP!ResetEvent, PP!ReleaseSemaphore, PP!Expire, PP!Rouse
<1> DEFINE Called(a) == /\ a.op # "none" => a.on \in Handles
                        /\ a.op \in {"set", "reset"} => kind[a.on] \in {"auto", "manual"}
                        /\ a.op = "release" => kind[a.on] = "sem" /\ a.n \in 1 .. 2
                        /\ a.pc \in {"asleep", "woken", "late"} => a.op = "wait"
                        /\ a.due \/ a.pc = "late" => a.timed
<1>1. \A d \in Waiters : Called(at[d]) OBVIOUS
<1>2. SUFFICES \A d \in Waiters : Called(at'[d])
  BY <1>0
<1>3. ASSUME NEW d \in Waiters, Roused(d) PROVE Called(at'[d])
  BY <1>1, <1>3 DEF Roused, SameCall
<1>4. ASSUME NEW c \in Waiters, PP!Call(c) PROVE \A d \in Waiters : Called(at'[d])
  <2>1. ASSUME NEW op \in {"wait", "set", "reset", "release"}, NEW h \in Handles,
               NEW limit, NEW n, PP!Begin(c, op, h, limit, n),
               op \in {"set", "reset"} => kind[h] \in {"auto", "manual"},
               op = "release" => kind[h] = "sem" /\ n \in 1 .. 2
        PROVE  \A d \in Waiters : Called(at'[d])
    <3> DEFINE r == [pc |-> "enter", op |-> op, on |-> h, timed |-> limit, due |-> FALSE, n |-> n]
    <3>1. at' = [at EXCEPT ![c] = r] BY <2>1 DEF PP!Begin
    <3>2. Called(r) BY <2>1
    <3> HIDE DEF r
    <3> QED BY <1>1, <3>1, <3>2 DEF HandleTypes
  <2>2. PP!Usable(c) \subseteq Handles BY DEF PP!Usable, PP!Events, PP!Sems, PP!Threads
  <2>3. CASE \E h \in PP!Usable(c), limit \in BOOLEAN : PP!Begin(c, "wait", h, limit, 0)
    BY <2>1, <2>2, <2>3
  <2>4. CASE \E h \in PP!Events, op \in {"set", "reset"} : PP!Begin(c, op, h, FALSE, 0)
    BY <2>1, <2>4 DEF PP!Events
  <2>5. CASE \E h \in PP!Sems, n \in 1 .. 2 : PP!Begin(c, "release", h, FALSE, n)
    BY <2>1, <2>5 DEF PP!Sems
  <2> QED BY <1>4, <2>3, <2>4, <2>5 DEF PP!Call
<1>5. ASSUME NEW c \in Waiters, PP!Step(c) \/ PP!Rouse(c) \/ PP!Expire(c)
      PROVE  \A d \in Waiters : Called(at'[d])
  <2>1. CASE PP!Leave(c)
    <3>1. at' = [at EXCEPT ![c] = PP!NoOp] BY <2>1 DEF PP!Leave
    <3> QED BY <1>1, <3>1 DEF HandleTypes, PP!NoOp
  <2>2. CASE PP!SetEvent(c) \/ PP!ReleaseSemaphore(c)
    <3>1. PICK S \in SUBSET PP!Asleep(PP!On(c)) :
                 at[c].pc = "in" /\ at' = [PP!Wake(S) EXCEPT ![c].pc = "leave"]
      BY <2>2 DEF PP!SetEvent, PP!ReleaseSemaphore
    <3>2. /\ SameCall(c) /\ at'[c].pc = "leave" /\ at'[c].due = at[c].due
          /\ \A d \in Waiters \ {c} : Roused(d)
      BY <3>1, MovesWaking
    <3> QED BY <1>1, <1>3, <3>2 DEF SameCall
  <2>3. CASE PP!Expire(c)
    <3>1. /\ at'[c] = [at[c] EXCEPT !.due = TRUE] /\ at[c] \in Calls /\ at[c].timed
          /\ \A d \in Waiters \ {c} : at'[d] = at[d]
      BY <2>3 DEF PP!Expire, HandleTypes
    <3>2. /\ at'[c].pc = at[c].pc /\ at'[c].op = at[c].op /\ at'[c].on = at[c].on
          /\ at'[c].timed = at[c].timed /\ at'[c].n = at[c].n
      BY ONLY <3>1 DEF Calls
    <3>3. Called(at'[c]) BY <1>1, <3>1, <3>2
    <3>4. \A d \in Waiters \ {c} : Called(at'[d]) BY <1>1, <3>1
    <3> QED BY <3>3, <3>4
  <2>4. CASE PP!Enter(c) \/ PP!Take(c) \/ PP!Sleep(c) \/ PP!Awaken(c) \/ PP!ResetEvent(c)
             \/ PP!Rouse(c)
    <3>1. PICK x : /\ at' = PP!Pc(c, x)
                   /\ x \in {"in", "leave", "asleep", "woken", "late"}
                   /\ x \in {"asleep", "woken", "late"} => at[c].op = "wait"
                   /\ x = "late" => at[c].due
      BY <2>4 DEF PP!Enter, PP!Take, PP!Sleep, PP!Awaken, PP!ResetEvent, PP!Rouse
    <3>2. /\ SameCall(c) /\ at'[c].pc = x /\ at'[c].due = at[c].due
          /\ \A d \in Waiters \ {c} : at'[d] = at[d]
      BY <3>1, Moves
    <3> QED BY <1>1, <3>1, <3>2 DEF SameCall
  <2> QED BY <1>5, <2>1, <2>2, <2>3, <2>4 DEF PP!Step
<1>6. ASSUME NEW h \in PP!Threads, PP!Tramp(h) PROVE \A d \in Waiters : Called(at'[d])
  <2>1. CASE PP!TrampDone(h)
    <3>1. at' = PP!Wake(PP!Asleep(h)) BY <2>1 DEF PP!TrampDone
    <3>2. \A d \in Waiters : Roused(d) BY <3>1, WokenCalls DEF Roused, SameCall, PP!Asleep
    <3> QED BY <1>3, <3>2
  <2>2. CASE UNCHANGED at BY <1>1, <2>2
  <2> QED BY <1>6, <2>1, <2>2 DEF PP!Tramp, PP!TrampLock, PP!TrampUnlock, PP!TrampUnref
<1>7. ASSUME NEW c \in Waiters, NEW h \in PP!Threads, PP!CreateThread(c, h) \/ PP!CloseHandle(c, h)
      PROVE  \A d \in Waiters : Called(at'[d])
  <2>1. UNCHANGED at BY <1>7 DEF PP!CreateThread, PP!CloseHandle
  <2> QED BY <1>1, <2>1
<1> QED BY <1>4, <1>5, <1>6, <1>7 DEF PP!Next

\* What WinHandles sees of a caller: nothing, unless it waits and has not been
\* answered.
Shown(a) == IF a.op = "wait" /\ a.pc # "leave" THEN [on |-> a.on, timed |-> a.timed]
            ELSE [on |-> "none", timed |-> FALSE]

LEMMA WaitingShown == PP!Waiting = [ c \in Waiters |-> Shown(at[c]) ]
BY DEF PP!Waiting, Shown, PP!On

LEMMA ShownRests ==
  ASSUME \A d \in Waiters : Shown(at'[d]) = Shown(at[d])
  PROVE  UNCHANGED PP!Waiting
<1>1. PP!Waiting' = [ c \in Waiters |-> Shown(at'[c]) ] BY DEF PP!Waiting, Shown, PP!On
<1> QED BY <1>1, WaitingShown

LEMMA ShownMoves ==
  ASSUME NEW c \in Waiters, \A d \in Waiters \ {c} : Shown(at'[d]) = Shown(at[d])
  PROVE  PP!Waiting' = [PP!Waiting EXCEPT ![c] = Shown(at'[c])]
<1>1. PP!Waiting' = [ d \in Waiters |-> Shown(at'[d]) ] BY DEF PP!Waiting, Shown, PP!On
<1> QED BY <1>1, WaitingShown

\* Who is woken, or moves within a call without leaving it, waits as before.
LEMMA ShownOfSame ==
  ASSUME NEW d \in Waiters, SameCall(d), (at'[d].pc = "leave") <=> (at[d].pc = "leave")
  PROVE  Shown(at'[d]) = Shown(at[d])
BY DEF Shown, SameCall

LEMMA ShownOfOthers ==
  ASSUME NEW d \in Waiters, SameCall(d), at[d].op # "wait"
  PROVE  Shown(at'[d]) = Shown(at[d])
BY DEF Shown, SameCall

winVars == << kind, level, PP!Waiting, answer >>

LEMMA CallImplements ==
  ASSUME HandleTypes, NEW c \in Waiters, PP!Call(c)
  PROVE  PP!W!Begin(c) \/ UNCHANGED winVars
<1>0. at[c] = PP!NoOp /\ \A d \in Waiters \ {c} : at'[d] = at[d]
  BY DEF PP!Call, PP!Begin, HandleTypes
<1>1. \A d \in Waiters \ {c} : Shown(at'[d]) = Shown(at[d]) BY <1>0
<1>2. Shown(at[c]) = PP!W!NoWait BY <1>0 DEF Shown, PP!NoOp, PP!W!NoWait
<1>3. ASSUME NEW h \in Handles, NEW limit \in BOOLEAN, PP!Begin(c, "wait", h, limit, 0)
      PROVE  PP!W!Begin(c)
  <2>1. Shown(at'[c]) = [on |-> h, timed |-> limit]
    BY <1>3 DEF PP!Begin, HandleTypes, Shown
  <2>2. PP!Waiting' = [PP!Waiting EXCEPT ![c] = [on |-> h, timed |-> limit]]
    BY <1>1, <2>1, ShownMoves
  <2>3. PP!Waiting[c] = PP!W!NoWait BY <1>2, WaitingShown
  <2>4. answer' = [answer EXCEPT ![c] = "none"] /\ UNCHANGED << kind, level >>
    BY <1>3 DEF PP!Begin
  <2> QED BY <2>2, <2>3, <2>4 DEF PP!W!Begin
<1>4. ASSUME NEW op \in {"set", "reset", "release"}, NEW h, NEW n, PP!Begin(c, op, h, FALSE, n)
      PROVE  UNCHANGED winVars
  <2>1. Shown(at'[c]) = Shown(at[c])
    BY <1>0, <1>4 DEF PP!Begin, HandleTypes, Shown, PP!NoOp
  <2>2. UNCHANGED PP!Waiting BY <1>1, <2>1, ShownRests
  <2> QED BY <1>4, <2>2 DEF PP!Begin, winVars
<1>5. PP!Usable(c) \subseteq Handles BY DEF PP!Usable, PP!Events, PP!Sems, PP!Threads
<1>6. CASE \E h \in PP!Usable(c), limit \in BOOLEAN : PP!Begin(c, "wait", h, limit, 0)
  BY <1>3, <1>5, <1>6
<1>7. CASE \E h \in PP!Events, op \in {"set", "reset"} : PP!Begin(c, op, h, FALSE, 0)
  BY <1>4, <1>7
<1>8. CASE \E h \in PP!Sems, n \in 1 .. 2 : PP!Begin(c, "release", h, FALSE, n)
  BY <1>4, <1>8
<1> QED BY <1>6, <1>7, <1>8 DEF PP!Call

LEMMA TakeImplements ==
  ASSUME HandleTypes, Calling, NEW c \in Waiters, PP!Take(c)
  PROVE  PP!W!Satisfied(c)
<1> DEFINE h == at[c].on
<1>1. /\ at' = PP!Pc(c, "leave") /\ at[c].op = "wait" /\ at[c].pc = "in"
      /\ level[h] > 0 /\ level' = [level EXCEPT ![h] = PP!Left(h)]
      /\ answer' = [answer EXCEPT ![c] = "object"] /\ UNCHANGED kind
  BY DEF PP!Take, PP!On
<1>2. SameCall(c) /\ at'[c].pc = "leave" /\ \A d \in Waiters \ {c} : at'[d] = at[d]
  BY <1>1, Moves
<1>3. h \in Handles /\ h # "none" BY <1>1, ThreadsAssumption DEF Calling
<1>4. Shown(at[c]) = [on |-> h, timed |-> at[c].timed] BY <1>1 DEF Shown
<1>5. Shown(at'[c]) = PP!W!NoWait BY <1>2 DEF Shown, PP!W!NoWait
<1>6. PP!Waiting' = [PP!Waiting EXCEPT ![c] = PP!W!NoWait] BY <1>2, <1>5, ShownMoves
<1>7. PP!Waiting[c] = [on |-> h, timed |-> at[c].timed] BY <1>4, WaitingShown
<1>8. PP!Waiting[c].on = h /\ PP!Waiting[c] # PP!W!NoWait
  BY <1>3, <1>7 DEF PP!W!NoWait
<1>9. PP!W!Taken(h) = PP!Left(h) BY DEF PP!W!Taken, PP!Left
<1> QED BY <1>1, <1>6, <1>8, <1>9 DEF PP!W!Satisfied

LEMMA AwakenImplements ==
  ASSUME HandleTypes, Calling, NEW c \in Waiters, PP!Awaken(c)
  PROVE  PP!W!TimesOut(c) \/ UNCHANGED winVars
<1>1. at[c].op = "wait" /\ at[c].pc \in {"woken", "late"} /\ UNCHANGED << kind, level >>
  BY DEF PP!Awaken, Calling
<1>2. CASE at[c].pc = "late"
  <2>1. at' = PP!Pc(c, "leave") /\ answer' = [answer EXCEPT ![c] = "timeout"]
    BY <1>2 DEF PP!Awaken
  <2>2. SameCall(c) /\ at'[c].pc = "leave" /\ \A d \in Waiters \ {c} : at'[d] = at[d]
    BY <2>1, Moves
  <2>3. Shown(at'[c]) = PP!W!NoWait BY <2>2 DEF Shown, PP!W!NoWait
  <2>4. PP!Waiting' = [PP!Waiting EXCEPT ![c] = PP!W!NoWait] BY <2>2, <2>3, ShownMoves
  <2>5. at[c].timed BY <1>2 DEF Calling
  <2>6. PP!Waiting[c] = [on |-> at[c].on, timed |-> at[c].timed]
    BY <1>1, <1>2, WaitingShown DEF Shown
  <2>7. PP!Waiting[c].timed BY <2>5, <2>6
  <2> QED BY <1>1, <2>1, <2>4, <2>7 DEF PP!W!TimesOut
<1>3. CASE at[c].pc = "woken"
  <2>1. at' = PP!Pc(c, "in") /\ answer' = answer BY <1>3 DEF PP!Awaken
  <2>2. SameCall(c) /\ at'[c].pc = "in" /\ \A d \in Waiters \ {c} : at'[d] = at[d]
    BY <2>1, Moves
  <2>3. \A d \in Waiters : Shown(at'[d]) = Shown(at[d]) BY <1>3, <2>2, ShownOfSame
  <2> QED BY <1>1, <2>1, <2>3, ShownRests DEF winVars
<1> QED BY <1>1, <1>2, <1>3

\* A wait's steps between its beginning and its answer cannot be seen.
LEMMA StutterImplements ==
  ASSUME HandleTypes, Calling, NEW c \in Waiters,
         PP!Enter(c) \/ PP!Sleep(c) \/ PP!Leave(c) \/ PP!Expire(c) \/ PP!Rouse(c)
  PROVE  UNCHANGED winVars
<1>1. UNCHANGED << kind, level, answer >>
  BY DEF PP!Enter, PP!Sleep, PP!Leave, PP!Expire, PP!Rouse
<1>2. \A d \in Waiters : Shown(at'[d]) = Shown(at[d])
  <2>1. CASE PP!Leave(c)
    <3>1. at[c].pc = "leave" /\ at' = [at EXCEPT ![c] = PP!NoOp] BY <2>1 DEF PP!Leave
    <3> QED BY <3>1 DEF HandleTypes, Shown, PP!NoOp
  <2>2. CASE PP!Expire(c)
    <3>1. /\ at'[c] = [at[c] EXCEPT !.due = TRUE] /\ at[c] \in Calls
          /\ \A d \in Waiters \ {c} : at'[d] = at[d]
      BY <2>2 DEF PP!Expire, HandleTypes
    <3>2. /\ at'[c].pc = at[c].pc /\ at'[c].op = at[c].op /\ at'[c].on = at[c].on
          /\ at'[c].timed = at[c].timed
      BY ONLY <3>1 DEF Calls
    <3>3. Shown(at'[c]) = Shown(at[c]) BY <3>2 DEF Shown
    <3> QED BY <3>1, <3>3
  <2>3. CASE PP!Enter(c) \/ PP!Sleep(c) \/ PP!Rouse(c)
    <3>1. PICK x : /\ at' = PP!Pc(c, x) /\ x \in {"in", "asleep", "woken", "late"}
                   /\ at[c].pc \in {"enter", "in", "asleep"}
      BY <2>3 DEF PP!Enter, PP!Sleep, PP!Rouse
    <3>2. SameCall(c) /\ at'[c].pc = x /\ \A d \in Waiters \ {c} : at'[d] = at[d]
      BY <3>1, Moves
    <3> QED BY <3>1, <3>2, ShownOfSame
  <2> QED BY <2>1, <2>2, <2>3
<1> QED BY <1>1, <1>2, ShownRests DEF winVars

LEMMA SignalImplements ==
  ASSUME HandleTypes, Calling, NEW c \in Waiters,
         PP!SetEvent(c) \/ PP!ResetEvent(c) \/ PP!ReleaseSemaphore(c)
  PROVE  \E h \in Handles : PP!W!Signal(h) \/ PP!W!Reset(h)
<1> DEFINE h == at[c].on
<1>1. h \in Handles /\ at[c].op # "wait" /\ UNCHANGED << kind, answer >>
  BY DEF PP!SetEvent, PP!ResetEvent, PP!ReleaseSemaphore, Calling
<1>2. CASE PP!ResetEvent(c)
  <2>1. at' = PP!Pc(c, "leave") /\ level' = [level EXCEPT ![h] = 0] /\ at[c].op = "reset"
    BY <1>2 DEF PP!ResetEvent, PP!On
  <2>2. SameCall(c) /\ \A d \in Waiters \ {c} : at'[d] = at[d] BY <2>1, Moves
  <2>3. UNCHANGED PP!Waiting BY <1>1, <2>2, ShownOfOthers, ShownRests
  <2>4. kind[h] \in {"auto", "manual"} BY <2>1 DEF Calling
  <2> QED BY <1>1, <2>1, <2>3, <2>4 DEF PP!W!Reset
<1>3. CASE PP!SetEvent(c) \/ PP!ReleaseSemaphore(c)
  <2>1. PICK S \in SUBSET PP!Asleep(PP!On(c)) :
               at[c].pc = "in" /\ at' = [PP!Wake(S) EXCEPT ![c].pc = "leave"]
    BY <1>3 DEF PP!SetEvent, PP!ReleaseSemaphore
  <2>2. SameCall(c) /\ \A d \in Waiters \ {c} : Roused(d) BY <2>1, MovesWaking
  <2>3. \A d \in Waiters \ {c} : Shown(at'[d]) = Shown(at[d])
    BY <2>2, ShownOfSame DEF Roused
  <2>4. UNCHANGED PP!Waiting BY <1>1, <2>2, <2>3, ShownOfOthers, ShownRests
  <2>5. \E n \in 1 .. 2 : level' = [level EXCEPT ![h] = PP!W!Raised(h, n)]
    <3>1. CASE PP!SetEvent(c)
      <4>1. kind[h] # "sem" /\ level' = [level EXCEPT ![h] = 1]
        BY <3>1 DEF PP!SetEvent, Calling, PP!On
      <4>2. 1 \in 1 .. 2 /\ PP!W!Raised(h, 1) = 1 BY <4>1 DEF PP!W!Raised
      <4> QED BY <4>1, <4>2
    <3>2. CASE PP!ReleaseSemaphore(c)
      <4>1. /\ kind[h] = "sem" /\ at[c].n \in 1 .. 2
            /\ level' = [level EXCEPT ![h] = level[h] + at[c].n]
        BY <3>2 DEF PP!ReleaseSemaphore, Calling, PP!On
      <4>2. PP!W!Raised(h, at[c].n) = level[h] + at[c].n BY <4>1 DEF PP!W!Raised
      <4> QED BY <4>1, <4>2
    <3> QED BY <1>3, <3>1, <3>2
  <2> QED BY <1>1, <2>4, <2>5 DEF PP!W!Signal
<1> QED BY <1>2, <1>3

LEMMA TrampImplements ==
  ASSUME HandleTypes, Calling, NEW h \in PP!Threads, PP!Tramp(h)
  PROVE  PP!W!Signal(h) \/ UNCHANGED winVars
<1>1. CASE PP!TrampDone(h)
  <2>1. /\ at' = PP!Wake(PP!Asleep(h)) /\ level' = [level EXCEPT ![h] = 1]
        /\ UNCHANGED << kind, answer >> /\ kind[h] = "thread"
    BY <1>1 DEF PP!TrampDone, PP!Threads
  <2>2. \A d \in Waiters : Roused(d) BY <2>1, WokenCalls DEF Roused, SameCall, PP!Asleep
  <2>3. UNCHANGED PP!Waiting BY <2>2, ShownOfSame, ShownRests DEF Roused
  <2>4. 1 \in 1 .. 2 /\ PP!W!Raised(h, 1) = 1 BY <2>1 DEF PP!W!Raised
  <2> QED BY <2>1, <2>3, <2>4 DEF PP!W!Signal
<1>2. CASE ~PP!TrampDone(h)
  <2>1. UNCHANGED << kind, level, answer, at >>
    BY <1>2 DEF PP!Tramp, PP!TrampLock, PP!TrampUnlock, PP!TrampUnref
  <2> QED BY <2>1, ShownRests DEF winVars
<1> QED BY <1>1, <1>2

LEMMA PosixImplements ==
  ASSUME HandleTypes, Calling, PP!Next
  PROVE  PP!W!Next \/ UNCHANGED winVars
<1>1. ASSUME NEW c \in Waiters, NEW h \in PP!Threads, PP!CreateThread(c, h) \/ PP!CloseHandle(c, h)
      PROVE  UNCHANGED winVars
  <2>1. UNCHANGED << kind, level, answer, at >> BY <1>1 DEF PP!CreateThread, PP!CloseHandle
  <2> QED BY <2>1, ShownRests DEF winVars
<1>2. ASSUME NEW h \in PP!Threads, PP!Tramp(h) PROVE PP!W!Next \/ UNCHANGED winVars
  BY <1>2, TrampImplements DEF PP!W!Next, PP!Threads
<1>3. ASSUME NEW c \in Waiters, PP!Call(c) PROVE PP!W!Next \/ UNCHANGED winVars
  BY <1>3, CallImplements DEF PP!W!Next
<1>4. ASSUME NEW c \in Waiters, PP!Step(c) \/ PP!Expire(c) \/ PP!Rouse(c)
      PROVE  PP!W!Next \/ UNCHANGED winVars
  <2>1. CASE PP!Take(c) BY <2>1, TakeImplements DEF PP!W!Next
  <2>2. CASE PP!Awaken(c) BY <2>2, AwakenImplements DEF PP!W!Next
  <2>3. CASE PP!SetEvent(c) \/ PP!ResetEvent(c) \/ PP!ReleaseSemaphore(c)
    BY <2>3, SignalImplements DEF PP!W!Next
  <2>4. CASE PP!Enter(c) \/ PP!Sleep(c) \/ PP!Leave(c) \/ PP!Expire(c) \/ PP!Rouse(c)
    BY <2>4, StutterImplements
  <2> QED BY <1>4, <2>1, <2>2, <2>3, <2>4 DEF PP!Step
<1> QED BY <1>1, <1>2, <1>3, <1>4 DEF PP!Next

\* Every step of the POSIX handles is one the Windows handles could take or none
\* at all: a wait takes a signal in one instant, or gives up at its time, and
\* nothing else changes what a handle would satisfy (tiger_plat_posix.c).
THEOREM HandlesAreWindows ==
  ThreadsSpec => PP!W!Init /\ [][PP!W!Next]_<< kind, level, PP!Waiting, answer >>
<1>1. ThreadsInit => PP!W!Init
  <2> SUFFICES ASSUME PP!Init PROVE PP!W!Init
    BY DEF ThreadsInit
  <2>1. \A c \in Waiters : Shown(at[c]) = PP!W!NoWait
    BY DEF PP!Init, PP!NoOp, Shown, PP!W!NoWait
  <2>2. PP!Waiting = [ c \in Waiters |-> PP!W!NoWait ] BY <2>1, WaitingShown
  <2> QED BY <2>2 DEF PP!Init, PP!W!Init, PP!Threads
<1>2. ThreadsInit => Calling BY CallingInit DEF ThreadsInit
<1>3. ThreadsInv /\ Calling /\ [ThreadsNext]_allVars =>
        Calling' /\ [PP!W!Next]_<< kind, level, PP!Waiting, answer >>
  <2> SUFFICES ASSUME ThreadsInv, Calling, [ThreadsNext]_allVars
               PROVE  Calling' /\ (PP!W!Next \/ UNCHANGED winVars)
    BY DEF winVars
  <2>1. CASE Posix(PP!Next)
    BY <2>1, CallingStep, PosixImplements DEF Posix, ThreadsInv, PosixInv
  <2>2. CASE UNCHANGED posixVars
    <3>1. UNCHANGED << kind, level, answer, at >> BY <2>2 DEF posixVars
    <3>2. UNCHANGED PP!Waiting BY <3>1, ShownRests
    <3> QED BY <3>1, <3>2 DEF Calling, winVars
  <2> QED BY <2>1, <2>2 DEF ThreadsNext, Guest, Dll, Source, allVars
<1> QED BY <1>1, <1>2, <1>3, ThreadsInvariance, PTL DEF ThreadsSpec


-----------------------------------------------------------------------------
(* The table of sources: its invariant, part by part (DispatchSources).    *)

\* No more sources are made than the engine asks for.
Creating == {c \in Callers : pc[c] = "create"}
Counted  == made + refused + Cardinality(Creating) <= MaxMade

\* A source begins to exist when a slot is claimed for it, and its thread when
\* it is resumed.
Lives ==
  \A g \in Sources :
    /\ g > made => phase[g] = "none" /\ tpc[g] = "unborn" /\ ~cancelled[g]
    /\ g <= made => phase[g] # "none" /\ slotOf[g] \in 1 .. used
    /\ phase[g] \in {"none", "made"} => tpc[g] = "unborn"
    /\ phase[g] = "resumed" => tpc[g] # "unborn"

\* What a caller holds between two steps of one call.
Claims ==
  /\ \A c \in Callers :
       /\ pc[c] \in {"spawn", "publish"} => arg[c] \in 1 .. made /\ phase[arg[c]] = "resuming"
       /\ pc[c] = "publish" => tpc[arg[c]] # "unborn"
       /\ pc[c] = "retire" =>
            /\ lock = c /\ arg[c] \in 1 .. made
            /\ \A g \in 1 .. made : Known(g) => slotOf[g] # slotOf[arg[c]]
  /\ \A c, d \in Callers :
       {pc[c], pc[d]} \subseteq {"spawn", "publish"} /\ arg[c] = arg[d] => c = d

\* A slot says of its source what the scan for a free one needs to know.
Marked ==
  \A g \in 1 .. made :
    /\ Known(g) => ~retired[slotOf[g]]
    /\ phase[g] = "resuming" => starting[slotOf[g]]
    /\ phase[g] = "resumed" /\ tpc[g] # "dead" => thread[slotOf[g]] = g

SlotInv == Lives /\ Claims /\ Marked /\ SlotIsItsOwn

\* A cancelled source does not run while its thread is about.
Stopped ==
  /\ \A g \in 1 .. made : cancelled[g] /\ Alive(g) => ~running[slotOf[g]]
  /\ \A g \in Sources : revoked[g] => cancelled[g]

-----------------------------------------------------------------------------
(* What a step may touch.                                                   *)

\* The thread of a source touches none of what says whose a slot is, and it is
\* neither born nor raised from the dead by a step of its own.
LEMMA ThreadFrame ==
  ASSUME NEW g \in Sources, Thread(g)
  PROVE  /\ UNCHANGED <<lock, used, running, retired, retiredAt, retireSeq, starting,
                        thread, sourceVars, callVars, refused, revoked>>
         /\ tpc[g] \notin {"unborn", "dead"}
         /\ \E label \in {"top", "now", "wait", "timeout", "deliver", "queued", "enter", "in",
                          "after", "end", "dead"} : Step(g, label)
<1> USE DEF Step, sourceVars, callVars, slotVars, histVars
<1>1. CASE Top(g)
  BY <1>1 DEF Top
<1>2. CASE Woken(g)
  BY <1>2 DEF Woken
<1>3. CASE Timeout(g)
  BY <1>3 DEF Timeout
<1>4. CASE Expire(g)
  BY <1>4 DEF Expire
<1>5. CASE Deliver(g)
  BY <1>5 DEF Deliver
<1>6. CASE Take(g)
  BY <1>6 DEF Take
<1>7. CASE Enter(g)
  BY <1>7 DEF Enter
<1>8. CASE Return(g)
  BY <1>8 DEF Return
<1>9. CASE After(g)
  BY <1>9 DEF After
<1>10. CASE End(g)
  BY <1>10 DEF End
<1> QED
  BY <1>1, <1>2, <1>3, <1>4, <1>5, <1>6, <1>7, <1>8, <1>9, <1>10 DEF Thread

\* Nor do the calls that make nothing, resume nothing and cancel nothing.
LEMMA CallFrame ==
  ASSUME NEW c \in Callers, Caller(c)
  PROVE  \/ Claim(c) \/ Resume(c) \/ Spawn(c) \/ Publish(c) \/ Cancel(c) \/ Retire(c)
         \/ /\ UNCHANGED <<lock, used, running, retired, retiredAt, retireSeq, starting,
                           thread, sourceVars, tpc, revoked>>
            /\ \/ pc[c] = "idle" /\ pc' = [pc EXCEPT ![c] = "create"] /\ UNCHANGED arg
               \/ /\ pc[c] = "idle" /\ pc' = [pc EXCEPT ![c] = "signal"]
                  /\ \E g \in Sources : arg' = [arg EXCEPT ![c] = g]
               \/ pc[c] = "create" /\ pc' = [pc EXCEPT ![c] = "idle"] /\ UNCHANGED arg
               \/ /\ pc[c] = "signal" /\ pc' = [pc EXCEPT ![c] = "idle"]
                  /\ arg' = [arg EXCEPT ![c] = None]
               \/ UNCHANGED <<pc, arg>>
BY DEF Caller, Finish, Create, AwaitSlot, Refuse, SetTimer, Disarm, Signal, MayCall,
  slotVars, sourceVars, callVars, threadVars, histVars

-----------------------------------------------------------------------------
(* Type correctness.                                                       *)

LEMMA Constants == /\ Cap \in Nat /\ MaxMade \in Nat /\ MaxArm \in Nat
                   /\ Spins \in Nat \ {0} /\ None \notin Callers /\ None \notin Sources
BY BoundsAssumption DEF Callers, Sources

LEMMA CreatingFinite == IsFiniteSet(Creating) /\ Cardinality(Creating) \in Nat
<1>1. IsFiniteSet(Callers)
  <2>1. Callers = ({} \cup {"engine"}) \cup {"handler"}
    BY DEF Callers
  <2>2. IsFiniteSet({} \cup {"engine"})
    BY FS_EmptySet, FS_AddElement
  <2>3. IsFiniteSet(({} \cup {"engine"}) \cup {"handler"})
    BY <2>2, FS_AddElement
  <2> QED
    BY <2>1, <2>3
<1>2. Creating \in SUBSET Callers
  BY DEF Creating
<1> QED
  BY <1>1, <1>2, FS_Subset, FS_CardinalityType

LEMMA InCreating ==
  ASSUME CallOK, Counted, SourceOK, HistOK, NEW c \in Callers, pc[c] = "create"
  PROVE  made + refused < MaxMade
<1>1. Cardinality(Creating) # 0
  BY FS_EmptySet, CreatingFinite DEF Creating
<1> QED
  BY <1>1, CreatingFinite, Constants DEF Counted, SourceOK, HistOK

TypeInv == TypeOK /\ Counted

\* The calls that change who is creating, and by how many.
LEMMA CreatingChanges ==
  ASSUME CallOK, NEW c \in Callers
  PROVE  /\ pc[c] = "idle" /\ pc' = [pc EXCEPT ![c] = "create"] =>
              Cardinality(Creating') = Cardinality(Creating) + 1
         /\ pc[c] = "create" /\ pc' = [pc EXCEPT ![c] = "idle"] =>
              Cardinality(Creating') = Cardinality(Creating) - 1
         /\ pc[c] # "create" /\ (\E p \in {"idle", "spawn", "publish", "signal", "retire"} :
                                    pc' = [pc EXCEPT ![c] = p]) =>
              Creating' = Creating
<1>1. ASSUME pc[c] = "idle", pc' = [pc EXCEPT ![c] = "create"]
      PROVE  Cardinality(Creating') = Cardinality(Creating) + 1
  <2>1. Creating' = Creating \cup {c} /\ c \notin Creating
    BY <1>1 DEF CallOK, Creating
  <2> QED
    BY <2>1, CreatingFinite, FS_AddElement
<1>2. ASSUME pc[c] = "create", pc' = [pc EXCEPT ![c] = "idle"]
      PROVE  Cardinality(Creating') = Cardinality(Creating) - 1
  <2>1. Creating' = Creating \ {c} /\ c \in Creating
    BY <1>2 DEF CallOK, Creating
  <2> QED
    BY <2>1, CreatingFinite, FS_RemoveElement
<1>3. ASSUME pc[c] # "create", NEW p \in {"idle", "spawn", "publish", "signal", "retire"},
             pc' = [pc EXCEPT ![c] = p]
      PROVE  Creating' = Creating
  BY <1>3 DEF CallOK, Creating
<1> QED
  BY <1>1, <1>2, <1>3

LEMMA InitTyped == Init => TypeInv
<1> SUFFICES ASSUME Init PROVE TypeInv
  OBVIOUS
<1>1. SlotOK
  BY Constants, BoundsAssumption DEF Init, SlotOK, Slots
<1>2. SourceOK /\ CallOK
  BY Constants DEF Init, SourceOK, CallOK
<1>3. ThreadOK /\ HistOK
  BY Constants DEF Init, ThreadOK, HistOK
<1>4. Counted
  <2>1. Creating = {}
    BY DEF Init, Creating
  <2> QED
    BY <2>1, FS_EmptySet, Constants DEF Init, Counted
<1> QED
  BY <1>1, <1>2, <1>3, <1>4 DEF TypeInv, TypeOK

\* The steps of a thread, whose source has a slot.
LEMMA ThreadTyped ==
  ASSUME TypeInv, Lives, NEW g \in Sources, Thread(g)
  PROVE  TypeInv'
<1> USE Constants DEF TypeInv, TypeOK, Step, sourceVars, callVars, slotVars, histVars
<1>1. (SourceOK /\ CallOK /\ Counted)'
  <2>1. UNCHANGED <<sourceVars, callVars, refused>>
    BY ThreadFrame
  <2>2. Creating' = Creating
    BY <2>1 DEF Creating
  <2> QED
    BY <2>1, <2>2 DEF SourceOK, CallOK, Counted
<1>2. SlotOK'
  <2>1. CASE Top(g)
    BY <2>1 DEF Top, SlotOK
  <2>4. CASE Woken(g)
    BY <2>4 DEF Woken, SlotOK
  <2>2. CASE Expire(g) \/ After(g) \/ End(g)
    BY <2>2 DEF Expire, After, End, SlotOK
  <2>3. CASE Timeout(g) \/ Deliver(g) \/ Take(g) \/ Enter(g) \/ Return(g)
    BY <2>3 DEF Timeout, Deliver, Take, Enter, Return, SlotOK
  <2> QED
    BY <2>1, <2>2, <2>3, <2>4 DEF Thread
<1>3. ThreadOK'
  <2>1. CASE Top(g)
    <3>1. armed[slotOf[g]] \in BOOLEAN /\ now[slotOf[g]] \in BOOLEAN
      <4>1. slotOf[g] \in 1 .. used
        BY <2>1 DEF Top, Lives, SourceOK, Sources
      <4> QED
        BY <4>1 DEF SlotOK, Slots
    <3> QED
      BY <2>1, <3>1 DEF Top, ThreadOK
  <2>2. CASE Woken(g) \/ Timeout(g) \/ Expire(g) \/ Return(g) \/ After(g) \/ End(g)
    BY <2>2 DEF Woken, Timeout, Expire, Return, After, End, ThreadOK
  <2>3. CASE Deliver(g)
    BY <2>3 DEF Deliver, ThreadOK
  <2>4. CASE Take(g)
    <3>1. tpc' = [tpc EXCEPT ![g] = "enter"] /\ UNCHANGED <<timed, cleanup>>
      BY <2>4 DEF Take
    <3>2. queue' \in Seq(Sources) /\ current' \in Sources \cup {None}
      <4>1. queue \in Seq(Sources) /\ current \in Sources \cup {None} BY DEF ThreadOK
      <4>2. \/ queue # <<>> /\ queue' = Tail(queue) /\ current' = g
            \/ UNCHANGED <<queue, current>>
        BY ONLY <2>4 DEF Take
      <4> QED BY ONLY <4>1, <4>2, g \in Sources
    <3> QED
      BY <3>1, <3>2 DEF ThreadOK
  <2>5. CASE Enter(g)
    BY <2>5 DEF Enter, ThreadOK
  <2> QED
    BY <2>1, <2>2, <2>3, <2>4, <2>5 DEF Thread
<1>4. HistOK'
  <2>1. CASE Enter(g) \/ Top(g) \/ Expire(g)
    BY <2>1 DEF Enter, Top, Expire, HistOK
  <2>2. CASE ~(Enter(g) \/ Top(g) \/ Expire(g))
    BY <2>2 DEF Thread, Woken, Timeout, Deliver, Take, Return, After, End, HistOK
  <2> QED
    BY <2>1, <2>2
<1> QED
  BY <1>1, <1>2, <1>3, <1>4

\* The steps of a call.
LEMMA CallTyped ==
  ASSUME TypeInv, NEW c \in Callers, Caller(c)
  PROVE  TypeInv'
<1> USE Constants DEF TypeInv, TypeOK, slotVars, sourceVars, callVars, threadVars, histVars
<1>1. CASE Create(c)
  <2>1. made + refused + Cardinality(Creating) < MaxMade
    BY <1>1 DEF Create, Creating
  <2>2. Cardinality(Creating') = Cardinality(Creating) + 1
    BY <1>1, CreatingChanges DEF Create, MayCall
  <2>3. (SlotOK /\ SourceOK /\ ThreadOK /\ HistOK)'
    BY <1>1 DEF Create, SlotOK, SourceOK, ThreadOK, HistOK
  <2>4. CallOK'
    BY <1>1 DEF Create, CallOK
  <2>5. Counted'
    BY <1>1, <2>1, <2>2, CreatingFinite DEF Create, Counted, SourceOK, HistOK
  <2> QED
    BY <2>3, <2>4, <2>5
<1>2. CASE Claim(c)
  <2>1. made + refused < MaxMade
    BY <1>2, InCreating DEF Claim
  <2>2. PICK s \in Choice, t \in Targets :
          /\ used' = IF s > used THEN s ELSE used
          /\ made' = made + 1
          /\ slotOf' = [slotOf EXCEPT ![made + 1] = s]
          /\ target' = [target EXCEPT ![made + 1] = t]
          /\ phase' = [phase EXCEPT ![made + 1] = "made"]
          /\ running' = [running EXCEPT ![s] = FALSE]
          /\ armed' = [armed EXCEPT ![s] = FALSE] /\ now' = [now EXCEPT ![s] = TRUE]
          /\ repeat' = [repeat EXCEPT ![s] = FALSE]
          /\ rearm' = [rearm EXCEPT ![s] = FALSE]
          /\ retired' = [retired EXCEPT ![s] = FALSE]
          /\ retiredAt' = [retiredAt EXCEPT ![s] = 0]
          /\ starting' = [starting EXCEPT ![s] = FALSE]
          /\ thread' = [thread EXCEPT ![s] = None]
          /\ delivered' = [delivered EXCEPT ![s] = FALSE]
    BY <1>2 DEF Claim
  <2>3. s \in Slots
    BY DEF Choice, Oldest
  <2>4. SlotOK'
    <3>1. UNCHANGED <<lock, retireSeq>>
      BY <1>2 DEF Claim
    <3>2. (used \in 0 .. Cap)' /\ retiredAt' \in [Slots -> 0 .. retireSeq']
      BY <2>2, <2>3, <3>1 DEF SlotOK, Slots
    <3> QED
      BY <2>2, <3>1, <3>2 DEF SlotOK
  <2>5. SourceOK'
    <3>1. UNCHANGED cancelled
      BY <1>2 DEF Claim
    <3>2. made' \in 0 .. MaxMade
      BY <2>1, <2>2 DEF SourceOK, HistOK
    <3>3. slotOf' \in [Sources -> Slots \cup {None}]
      BY <2>2, <2>3 DEF SourceOK
    <3>4. target' \in [Sources -> Targets \cup {None}]
      BY <2>2 DEF SourceOK
    <3>5. phase' \in [Sources -> {"none", "made", "resuming", "resumed"}]
      BY <2>2 DEF SourceOK
    <3> QED
      BY <3>1, <3>2, <3>3, <3>4, <3>5 DEF SourceOK
  <2>6. (ThreadOK /\ HistOK)' /\ CallOK'
    BY <1>2 DEF Claim, ThreadOK, HistOK, CallOK
  <2>7. Counted'
    <3>1. Cardinality(Creating') = Cardinality(Creating) - 1
      BY <1>2, CreatingChanges DEF Claim
    <3>2. UNCHANGED refused
      BY <1>2 DEF Claim
    <3> QED
      BY <2>2, <3>1, <3>2, CreatingFinite DEF Counted, SourceOK, HistOK
  <2> QED
    BY <2>4, <2>5, <2>6, <2>7
<1>3. CASE AwaitSlot(c)
  <2>1. (SlotOK /\ SourceOK /\ ThreadOK /\ HistOK)'
    BY <1>3 DEF AwaitSlot, SlotOK, SourceOK, ThreadOK, HistOK
  <2>2. CallOK'
    BY <1>3 DEF AwaitSlot, CallOK
  <2>3. Creating' = Creating
    BY <1>3 DEF AwaitSlot, Creating
  <2>4. Counted'
    BY <1>3, <2>3 DEF AwaitSlot, Counted
  <2> QED
    BY <2>1, <2>2, <2>4
<1>4. CASE Refuse(c)
  <2>1. made + refused < MaxMade
    BY <1>4, InCreating DEF Refuse
  <2>2. (SlotOK /\ SourceOK /\ ThreadOK)' /\ CallOK'
    BY <1>4 DEF Refuse, SlotOK, SourceOK, ThreadOK, CallOK
  <2>3. HistOK'
    BY <1>4, <2>1 DEF Refuse, SourceOK, HistOK
  <2>4. Cardinality(Creating') = Cardinality(Creating) - 1
    BY <1>4, CreatingChanges DEF Refuse
  <2>5. Counted'
    BY <1>4, <2>4, CreatingFinite DEF Refuse, Counted, SourceOK, HistOK
  <2> QED
    BY <2>2, <2>3, <2>5
<1>5. CASE SetTimer(c) \/ Signal(c) \/ Disarm(c)
  <2>1. SlotOK'
    <3>1. CASE SetTimer(c)
      <4>1. PICK g \in Sources, soon \in BOOLEAN, again \in Repeats :
              /\ now' = [now EXCEPT ![slotOf[g]] = soon]
              /\ repeat' = [repeat EXCEPT ![slotOf[g]] = again]
              /\ armed' = [armed EXCEPT ![slotOf[g]] = TRUE]
        BY <3>1 DEF SetTimer
      <4>2. again \in BOOLEAN
        BY BoundsAssumption
      <4> QED
        BY <3>1, <4>1, <4>2 DEF SetTimer, SlotOK
    <3>2. CASE Signal(c)
      BY <3>2 DEF Signal, Signalled, SlotOK
    <3>3. CASE Disarm(c)
      <4>1. PICK g \in Sources, again \in Repeats :
              /\ repeat' = [repeat EXCEPT ![slotOf[g]] = again]
              /\ armed' = [armed EXCEPT ![slotOf[g]] = FALSE]
              /\ now' = [now EXCEPT ![slotOf[g]] = TRUE]
        BY <3>3 DEF Disarm
      <4>2. again \in BOOLEAN
        BY BoundsAssumption
      <4> QED
        BY <3>3, <4>1, <4>2 DEF Disarm, SlotOK
    <3> QED
      BY <1>5, <3>1, <3>2, <3>3
  <2>2. SourceOK' /\ ThreadOK' /\ HistOK'
    BY <1>5 DEF SetTimer, Signal, Disarm, SourceOK, ThreadOK, HistOK
  <2>3. CallOK' /\ Creating' = Creating /\ UNCHANGED <<made, refused>>
    <3>1. CASE SetTimer(c)
      BY <3>1 DEF SetTimer, MayCall, CallOK, Creating
    <3>2. CASE Signal(c) \/ Disarm(c)
      BY <3>2 DEF Signal, Disarm, CallOK, Creating
    <3> QED
      BY <1>5, <3>1, <3>2
  <2> QED
    BY <2>1, <2>2, <2>3 DEF Counted
<1>6. CASE Resume(c) \/ Spawn(c) \/ Publish(c)
  <2>1. SlotOK'
    <3>1. CASE Resume(c) \/ Spawn(c)
      BY <3>1 DEF Resume, Spawn, SlotOK
    <3>2. CASE Publish(c)
      BY <3>2 DEF Publish, SlotOK, CallOK
    <3> QED
      BY <1>6, <3>1, <3>2
  <2>2. SourceOK' /\ HistOK'
    BY <1>6 DEF Resume, Spawn, Publish, SourceOK, HistOK
  <2>3. ThreadOK'
    BY <1>6 DEF Resume, Spawn, Publish, ThreadOK
  <2>4. CallOK'
    BY <1>6 DEF Resume, Spawn, Publish, CallOK
  <2>5. Creating' = Creating /\ UNCHANGED <<made, refused>>
    BY <1>6 DEF Resume, Spawn, Publish, MayCall, CallOK, Creating
  <2> QED
    BY <2>1, <2>2, <2>3, <2>4, <2>5 DEF Counted
<1>7. CASE Cancel(c) \/ Retire(c)
  <2>1. SlotOK'
    <3>1. CASE Cancel(c)
      BY <3>1 DEF Cancel, SlotOK
    <3>2. CASE Retire(c)
      <4>1. retireSeq' = retireSeq + 1 /\ retireSeq \in Nat
        BY <3>2 DEF Retire, SlotOK
      <4>2. retiredAt \in [Slots -> 0 .. retireSeq']
        BY <4>1 DEF SlotOK
      <4>3. retiredAt' \in [Slots -> 0 .. retireSeq']
        <5>1. retiredAt' = [retiredAt EXCEPT ![slotOf[arg[c]]] = retireSeq']
          BY <3>2 DEF Retire
        <5>2. retireSeq' \in 0 .. retireSeq'
          BY <4>1
        <5> HIDE DEF TypeInv, TypeOK
        <5> QED
          BY <4>2, <5>1, <5>2
      <4> QED
        BY <3>2, <4>1, <4>3 DEF Retire, SlotOK
    <3> QED
      BY <1>7, <3>1, <3>2
  <2>2. SourceOK' /\ ThreadOK'
    BY <1>7 DEF Cancel, Retire, SourceOK, ThreadOK
  <2>3. HistOK'
    BY <1>7 DEF Cancel, Retire, HistOK
  <2>4. CallOK' /\ Creating' = Creating /\ UNCHANGED <<made, refused>>
    BY <1>7 DEF Cancel, Retire, MayCall, CallOK, Creating
  <2> QED
    BY <2>1, <2>2, <2>3, <2>4 DEF Counted
<1> QED
  BY <1>1, <1>2, <1>3, <1>4, <1>5, <1>6, <1>7 DEF Caller, Finish

-----------------------------------------------------------------------------
(* Whose a slot is.                                                         *)

LEMMA InitOwned == Init => SlotInv /\ Stopped
<1> SUFFICES ASSUME Init PROVE SlotInv /\ Stopped
  OBVIOUS
<1>1. 1 .. made = {}
  BY DEF Init
<1>2. Lives /\ Claims
  BY Constants DEF Init, Lives, Claims, Sources
<1>3. Marked /\ SlotIsItsOwn /\ Stopped
  BY <1>1 DEF Init, Marked, SlotIsItsOwn, Stopped
<1> QED
  BY <1>2, <1>3 DEF SlotInv

\* A thread only goes on or ends, so it takes nothing from another source.
LEMMA ThreadOwned ==
  ASSUME TypeInv, SlotInv, NEW g \in Sources, Thread(g)
  PROVE  SlotInv'
<1>1. UNCHANGED <<lock, used, running, retired, retiredAt, retireSeq, starting, thread,
                  made, slotOf, target, phase, cancelled, pc, arg, tries, arms>>
  BY ThreadFrame DEF sourceVars, callVars
<1>2. PICK label \in {"top", "now", "wait", "timeout", "deliver", "queued", "enter", "in",
                      "after", "end", "dead"} : Step(g, label)
  BY ThreadFrame
<1>3. tpc[g] \notin {"unborn", "dead"}
  BY ThreadFrame
<1>4. tpc \in [Sources -> {"unborn", "top", "now", "wait", "timeout", "deliver", "queued",
                          "enter", "in", "after", "end", "dead"}]
  BY DEF TypeInv, TypeOK, ThreadOK
<1>5. \A h \in Sources : /\ tpc'[h] = "unborn" <=> tpc[h] = "unborn"
                         /\ tpc[h] = "dead" => tpc'[h] = "dead"
  BY <1>2, <1>3, <1>4 DEF Step
<1>6. 1 .. made \subseteq Sources
  BY Constants DEF TypeInv, TypeOK, SourceOK, Sources
<1>7. \A h \in Sources : /\ Known(h)' <=> Known(h)
                         /\ Alive(h)' => Alive(h)
  BY <1>1, <1>5 DEF Known, Alive
<1>8. Lives'
  BY <1>1, <1>5 DEF SlotInv, Lives
<1>9. Claims'
  BY <1>1, <1>5, <1>6, <1>7 DEF SlotInv, Claims
<1>10. Marked'
  BY <1>1, <1>5, <1>6, <1>7 DEF SlotInv, Marked
<1>11. SlotIsItsOwn'
  BY <1>1, <1>6, <1>7 DEF SlotInv, SlotIsItsOwn
<1> QED
  BY <1>8, <1>9, <1>10, <1>11 DEF SlotInv

\* The scan: whoever had the slot it finds is cancelled and its thread is over.
LEMMA ChoiceIsFree ==
  ASSUME TypeInv, SlotInv, NEW s \in Choice, NEW g \in 1 .. made, slotOf[g] = s
  PROVE  ~Known(g) /\ ~Alive(g)
<1>1. g \in Sources /\ g <= made
  BY Constants DEF TypeInv, TypeOK, SourceOK, Sources
<1>2. CASE Oldest = {}
  <2>1. s = used + 1
    BY <1>2 DEF Choice
  <2>2. slotOf[g] \in 1 .. used /\ used \in Nat
    BY <1>1, Constants DEF SlotInv, Lives, TypeInv, TypeOK, SlotOK
  <2> QED
    BY <2>1, <2>2
<1>3. CASE Oldest # {}
  <2>1. retired[s] /\ ~starting[s] /\ Gone(s)
    BY <1>3 DEF Choice, Oldest, Reusable
  <2>2. ~Known(g) /\ phase[g] # "resuming"
    BY <2>1 DEF SlotInv, Marked
  <2>3. phase[g] \in {"made", "resumed"}
    BY <1>1, <2>2 DEF SlotInv, Lives, TypeInv, TypeOK, SourceOK
  <2>4. CASE phase[g] = "made"
    BY <1>1, <2>2, <2>4 DEF SlotInv, Lives, Alive
  <2>5. CASE phase[g] = "resumed"
    <3>1. tpc[g] = "dead" \/ thread[s] = g
      BY <2>5 DEF SlotInv, Marked
    <3>2. tpc[g] = "dead"
      BY <2>1, <3>1, <1>1, Constants DEF Gone
    <3> QED
      BY <2>2, <3>2 DEF Alive
  <2> QED
    BY <2>3, <2>4, <2>5
<1> QED
  BY <1>2, <1>3

\* A source is made in a slot that is nobody's.
LEMMA ClaimOwned ==
  ASSUME TypeInv, SlotInv, NEW c \in Callers, Claim(c)
  PROVE  SlotInv'
<1> DEFINE n == made + 1
<1>1. PICK s \in Choice :
        /\ used' = (IF s > used THEN s ELSE used) /\ made' = n
        /\ slotOf' = [slotOf EXCEPT ![n] = s]
        /\ phase' = [phase EXCEPT ![n] = "made"]
        /\ retired' = [retired EXCEPT ![s] = FALSE]
        /\ starting' = [starting EXCEPT ![s] = FALSE]
        /\ thread' = [thread EXCEPT ![s] = None]
  BY DEF Claim
<1>2. /\ pc[c] = "create" /\ lock = None /\ pc' = [pc EXCEPT ![c] = "idle"]
      /\ UNCHANGED <<lock, cancelled, arg, tpc>>
  BY DEF Claim, threadVars
<1>3. made \in Nat /\ n \in Sources /\ 1 .. made \subseteq Sources /\ 1 .. n \subseteq Sources
  BY <1>2, InCreating, Constants DEF TypeInv, TypeOK, SourceOK, HistOK, Sources
<1>4. s \in Slots /\ used \in Nat
  BY Constants DEF Choice, Oldest, TypeInv, TypeOK, SlotOK
<1>5. phase[n] = "none" /\ tpc[n] = "unborn" /\ ~cancelled[n]
  BY <1>3 DEF SlotInv, Lives
<1>6. \A g \in 1 .. made : slotOf[g] = s => ~Known(g) /\ ~Alive(g)
  BY ChoiceIsFree
<1>7. /\ slotOf \in [Sources -> Slots \cup {None}]
      /\ phase \in [Sources -> {"none", "made", "resuming", "resumed"}]
      /\ retired \in [Slots -> BOOLEAN] /\ starting \in [Slots -> BOOLEAN]
      /\ thread \in [Slots -> Sources \cup {None}]
      /\ pc \in [Callers -> {"idle", "create", "spawn", "publish", "signal", "retire"}]
  BY DEF TypeInv, TypeOK, SlotOK, SourceOK, CallOK
<1>8. \A g \in 1 .. made : /\ slotOf'[g] = slotOf[g] /\ phase'[g] = phase[g]
                           /\ Known(g)' <=> Known(g)
                           /\ Alive(g)' <=> Alive(g)
  BY <1>1, <1>2, <1>3, <1>7 DEF Known, Alive
<1>9. slotOf'[n] = s /\ phase'[n] = "made"
  BY <1>1, <1>3, <1>7
<1>10. Lives'
  <2> SUFFICES ASSUME NEW g \in Sources
               PROVE  /\ g > n => phase'[g] = "none" /\ tpc'[g] = "unborn" /\ ~cancelled'[g]
                      /\ g <= n => phase'[g] # "none" /\ slotOf'[g] \in 1 .. used'
                      /\ phase'[g] \in {"none", "made"} => tpc'[g] = "unborn"
                      /\ phase'[g] = "resumed" => tpc'[g] # "unborn"
    BY <1>1 DEF Lives
  <2>1. CASE g = n
    BY <2>1, <1>1, <1>2, <1>3, <1>4, <1>5, <1>9 DEF Slots, Sources
  <2>2. CASE g # n
    <3>1. phase'[g] = phase[g] /\ slotOf'[g] = slotOf[g] /\ g \in Nat
      BY <2>2, <1>1, <1>7 DEF Sources
    <3>2. g <= n => g <= made
      BY <2>2, <3>1, <1>3
    <3>3. slotOf[g] \in 1 .. used => slotOf[g] \in 1 .. used'
      BY <1>1, <1>4 DEF Slots
    <3> QED
      BY <3>1, <3>2, <3>3, <1>2, <1>3 DEF SlotInv, Lives
  <2> QED
    BY <2>1, <2>2
<1>11. Claims'
  <2>1. \A d \in Callers : pc[d] # "retire"
    BY <1>2, Constants DEF SlotInv, Claims
  <2>2. \A d \in Callers : pc'[d] \in {"spawn", "publish"} => pc'[d] = pc[d]
    BY <1>2, <1>7
  <2>3. \A d \in Callers : pc'[d] # "retire"
    BY <2>1, <1>2, <1>7
  <2>4. \A d \in Callers : pc[d] \in {"spawn", "publish"} =>
          arg[d] \in 1 .. made /\ arg[d] \in 1 .. n
    BY <1>3 DEF SlotInv, Claims
  <2>5. \A d \in Callers : pc'[d] \in {"spawn", "publish"} =>
          arg'[d] \in 1 .. made' /\ phase'[arg'[d]] = "resuming"
    BY <2>2, <2>4, <1>1, <1>2, <1>8 DEF SlotInv, Claims
  <2>6. \A d \in Callers : pc'[d] = "publish" => tpc'[arg'[d]] # "unborn"
    BY <2>2, <1>2 DEF SlotInv, Claims
  <2>7. \A d, e \in Callers :
          {pc'[d], pc'[e]} \subseteq {"spawn", "publish"} /\ arg'[d] = arg'[e] => d = e
    BY <2>2, <1>2 DEF SlotInv, Claims
  <2> QED
    BY <2>3, <2>5, <2>6, <2>7 DEF Claims
<1>12. Marked'
  <2> SUFFICES ASSUME NEW g \in 1 .. n
               PROVE  /\ Known(g)' => ~retired'[slotOf'[g]]
                      /\ phase'[g] = "resuming" => starting'[slotOf'[g]]
                      /\ phase'[g] = "resumed" /\ tpc'[g] # "dead" => thread'[slotOf'[g]] = g
    BY <1>1 DEF Marked
  <2>1. CASE g = n
    BY <2>1, <1>1, <1>4, <1>7, <1>9
  <2>2. CASE g # n /\ slotOf[g] = s
    <3>1. g \in 1 .. made
      BY <2>2, <1>3
    <3>2. ~Known(g) /\ ~Alive(g) /\ phase'[g] = phase[g]
      BY <2>2, <3>1, <1>6, <1>8
    <3>3. phase[g] = "resumed" => tpc[g] # "unborn"
      BY <3>1, <1>3 DEF SlotInv, Lives
    <3> QED
      BY <3>1, <3>2, <3>3, <1>2, <1>8 DEF Alive
  <2>3. CASE g # n /\ slotOf[g] # s
    <3>1. g \in 1 .. made
      BY <2>3, <1>3
    <3>2. slotOf[g] \in Slots
      <4>1. slotOf[g] \in 1 .. used
        BY <3>1, <1>3 DEF SlotInv, Lives
      <4>2. used \in 0 .. Cap
        BY DEF TypeInv, TypeOK, SlotOK
      <4> QED
        BY <4>1, <4>2, Constants DEF Slots
    <3> QED
      BY <2>3, <3>1, <3>2, <1>1, <1>2, <1>7, <1>8 DEF SlotInv, Marked
  <2> QED
    BY <2>1, <2>2, <2>3
<1>13. SlotIsItsOwn'
  <2> SUFFICES ASSUME NEW g \in 1 .. n, NEW h \in 1 .. n, g # h, slotOf'[g] = slotOf'[h]
               PROVE  ~((Known(g)' \/ Alive(g)') /\ (Known(h)' \/ Alive(h)'))
    BY <1>1 DEF SlotIsItsOwn
  <2>1. CASE g = n \/ h = n
    <3>1. PICK k \in {g, h} : k # n /\ slotOf'[k] = s
      BY <2>1, <1>9
    <3>2. k \in 1 .. made
      BY <3>1, <1>3
    <3> QED
      BY <3>1, <3>2, <1>6, <1>8
  <2>2. CASE g # n /\ h # n
    <3>1. g \in 1 .. made /\ h \in 1 .. made
      BY <2>2, <1>3
    <3> QED
      BY <3>1, <1>8 DEF SlotInv, SlotIsItsOwn
  <2> QED
    BY <2>1, <2>2
<1> QED
  BY <1>10, <1>11, <1>12, <1>13 DEF SlotInv
\* What the other steps of a call rely on: the types of what they read, and
\* that nobody is publishing a cancellation while the lock is free.
LEMMA Facts ==
  ASSUME TypeInv, SlotInv
  PROVE  /\ made \in Nat /\ 1 .. made \subseteq Sources
         /\ \A g \in Sources : phase[g] # "none" => g \in 1 .. made
         /\ \A g \in 1 .. made : slotOf[g] \in Slots
         /\ phase \in [Sources -> {"none", "made", "resuming", "resumed"}]
         /\ cancelled \in [Sources -> BOOLEAN]
         /\ tpc \in [Sources -> {"unborn", "top", "now", "wait", "timeout", "deliver", "queued",
                                 "enter", "in", "after", "end", "dead"}]
         /\ pc \in [Callers -> {"idle", "create", "spawn", "publish", "signal", "retire"}]
         /\ arg \in [Callers -> Sources \cup {None}]
         /\ running \in [Slots -> BOOLEAN] /\ retired \in [Slots -> BOOLEAN]
         /\ starting \in [Slots -> BOOLEAN] /\ thread \in [Slots -> Sources \cup {None}]
         /\ lock = None => \A d \in Callers : pc[d] # "retire"
<1>1. made \in Nat /\ 1 .. made \subseteq Sources
  BY Constants DEF TypeInv, TypeOK, SourceOK, Sources
<1>2. \A g \in Sources : phase[g] # "none" => g \in 1 .. made
  BY <1>1 DEF SlotInv, Lives, Sources
<1>3. \A g \in 1 .. made : slotOf[g] \in Slots
  <2>1. \A g \in 1 .. made : slotOf[g] \in 1 .. used
    BY <1>1 DEF SlotInv, Lives
  <2>2. used \in 0 .. Cap
    BY DEF TypeInv, TypeOK, SlotOK
  <2> QED
    BY <2>1, <2>2, Constants DEF Slots
<1>4. lock = None => \A d \in Callers : pc[d] # "retire"
  BY Constants DEF SlotInv, Claims
<1> QED
  BY <1>1, <1>2, <1>3, <1>4 DEF TypeInv, TypeOK, SlotOK, SourceOK, CallOK, ThreadOK

LEMMA ResumeOwned ==
  ASSUME TypeInv, SlotInv, NEW c \in Callers, Resume(c)
  PROVE  SlotInv'
<1>1. PICK g \in Sources :
        /\ Known(g) /\ phase[g] = "made"
        /\ phase' = [phase EXCEPT ![g] = "resuming"]
        /\ starting' = [starting EXCEPT ![slotOf[g]] = TRUE]
        /\ arg' = [arg EXCEPT ![c] = g]
  BY DEF Resume
<1>2. /\ pc[c] = "idle" /\ lock = None /\ pc' = [pc EXCEPT ![c] = "spawn"]
      /\ UNCHANGED <<lock, used, retired, thread, made, slotOf, cancelled, tpc>>
  BY DEF Resume, MayCall, threadVars
<1>3. g \in 1 .. made
  BY <1>1, Facts
<1>4. \A h \in Sources : /\ Known(h)' <=> Known(h)
                         /\ Alive(h)' => Alive(h) \/ h = g
  BY <1>1, <1>2, Facts DEF Known, Alive
<1>5. Lives'
  BY <1>1, <1>2, <1>3, Facts DEF SlotInv, Lives
<1>6. Claims'
  <2>1. \A d \in Callers : pc'[d] # "retire"
    BY <1>2, Facts
  <2>2. \A d \in Callers : pc[d] \in {"spawn", "publish"} => arg[d] # g
    BY <1>1 DEF SlotInv, Claims
  <2>3. \A d \in Callers : d # c => pc'[d] = pc[d] /\ arg'[d] = arg[d]
    BY <1>1, <1>2, Facts
  <2>4. pc'[c] = "spawn" /\ arg'[c] = g /\ phase'[g] = "resuming"
    BY <1>1, <1>2, Facts
  <2>5. \A d \in Callers : pc'[d] \in {"spawn", "publish"} =>
          arg'[d] \in 1 .. made /\ phase'[arg'[d]] = "resuming"
    BY <2>2, <2>3, <2>4, <1>1, <1>3, Facts DEF SlotInv, Claims
  <2>6. \A d \in Callers : pc'[d] = "publish" => tpc[arg'[d]] # "unborn"
    BY <2>3, <2>4 DEF SlotInv, Claims
  <2>7. \A d, e \in Callers :
          {pc'[d], pc'[e]} \subseteq {"spawn", "publish"} /\ arg'[d] = arg'[e] => d = e
    BY <2>2, <2>3, <2>4 DEF SlotInv, Claims
  <2> QED
    BY <2>1, <2>5, <2>6, <2>7, <1>2 DEF Claims
<1>7. Marked'
  BY <1>1, <1>2, <1>3, <1>4, Facts DEF SlotInv, Marked
<1>8. SlotIsItsOwn'
  BY <1>1, <1>2, <1>4, Facts DEF SlotInv, SlotIsItsOwn
<1> QED
  BY <1>5, <1>6, <1>7, <1>8 DEF SlotInv

LEMMA SpawnOwned ==
  ASSUME TypeInv, SlotInv, NEW c \in Callers, Spawn(c)
  PROVE  SlotInv'
<1> DEFINE g == arg[c]
<1>1. /\ pc[c] = "spawn" /\ tpc' = [tpc EXCEPT ![g] = "top"]
      /\ pc' = [pc EXCEPT ![c] = "publish"]
      /\ UNCHANGED <<lock, used, retired, starting, thread, made, slotOf, phase, cancelled, arg>>
  BY DEF Spawn, slotVars, sourceVars
<1>2. g \in 1 .. made /\ g \in Sources /\ phase[g] = "resuming"
  BY <1>1, Facts DEF SlotInv, Claims
<1>3. \A h \in Sources : /\ Known(h)' <=> Known(h)
                         /\ Alive(h)' => Alive(h)
                         /\ h # g => tpc'[h] = tpc[h]
  BY <1>1, <1>2, Facts DEF Known, Alive
<1>4. tpc'[g] = "top"
  BY <1>1, <1>2, Facts
<1>5. Lives'
  BY <1>1, <1>2, <1>3, <1>4, Facts DEF SlotInv, Lives
<1>6. Claims'
  <2>1. \A d \in Callers : d # c => pc'[d] = pc[d]
    BY <1>1, Facts
  <2>2. pc'[c] = "publish"
    BY <1>1, Facts
  <2>3. \A d \in Callers : /\ pc'[d] \in {"spawn", "publish"} => pc[d] \in {"spawn", "publish"}
                           /\ pc'[d] = "retire" => pc[d] = "retire"
                           /\ pc'[d] = "publish" /\ d # c => pc[d] = "publish"
    BY <1>1, <2>1, <2>2
  <2>4. \A d \in Callers : pc'[d] = "publish" => tpc'[arg[d]] # "unborn"
    BY <1>3, <1>4, <2>3, Facts DEF SlotInv, Claims
  <2>5. \A d \in Callers : pc'[d] = "retire" =>
          /\ lock = d /\ arg[d] \in 1 .. made
          /\ \A h \in 1 .. made : Known(h)' => slotOf[h] # slotOf[arg[d]]
    BY <1>3, <2>3, Facts DEF SlotInv, Claims
  <2> QED
    BY <1>1, <2>3, <2>4, <2>5 DEF SlotInv, Claims
<1>7. Marked'
  BY <1>1, <1>2, <1>3, Facts DEF SlotInv, Marked
<1>8. SlotIsItsOwn'
  BY <1>1, <1>3, Facts DEF SlotInv, SlotIsItsOwn
<1> QED
  BY <1>5, <1>6, <1>7, <1>8 DEF SlotInv

\* The handle is known: from here the scan sees this source's thread, and no
\* other that the slot could have meant.
LEMMA PublishOwned ==
  ASSUME TypeInv, SlotInv, NEW c \in Callers, Publish(c)
  PROVE  SlotInv'
<1> DEFINE g == arg[c]
<1>1. /\ pc[c] = "publish" /\ lock = None /\ pc' = [pc EXCEPT ![c] = "idle"]
      /\ arg' = [arg EXCEPT ![c] = None]
      /\ thread' = [thread EXCEPT ![slotOf[g]] = g]
      /\ starting' = [starting EXCEPT ![slotOf[g]] = FALSE]
      /\ phase' = [phase EXCEPT ![g] = "resumed"]
      /\ UNCHANGED <<lock, used, retired, made, slotOf, cancelled, tpc>>
  BY DEF Publish, threadVars
<1>2. g \in 1 .. made /\ g \in Sources /\ phase[g] = "resuming" /\ tpc[g] # "unborn"
  BY <1>1, Facts DEF SlotInv, Claims
<1>3. \A h \in Sources : /\ Known(h)' <=> Known(h)
                         /\ Alive(h)' => Alive(h)
                         /\ h # g => phase'[h] = phase[h]
  BY <1>1, <1>2, Facts DEF Known, Alive
<1>4. phase'[g] = "resumed"
  BY <1>1, <1>2, Facts
<1>5. Lives'
  BY <1>1, <1>2, <1>3, <1>4, Facts DEF SlotInv, Lives
<1>6. Claims'
  <2>1. \A d \in Callers : d # c => pc'[d] = pc[d] /\ arg'[d] = arg[d]
    BY <1>1, Facts
  <2>2. pc'[c] = "idle"
    BY <1>1, Facts
  <2>3. \A d \in Callers : pc'[d] # "retire"
    BY <1>1, <2>1, <2>2, Facts
  <2>4. \A d \in Callers : pc'[d] \in {"spawn", "publish"} =>
          d # c /\ pc'[d] = pc[d] /\ arg'[d] = arg[d] /\ arg[d] # g
    BY <1>1, <2>1, <2>2 DEF SlotInv, Claims
  <2>5. \A d \in Callers : pc'[d] \in {"spawn", "publish"} =>
          arg'[d] \in 1 .. made /\ phase'[arg'[d]] = "resuming"
    BY <2>4, <1>3, Facts DEF SlotInv, Claims
  <2>6. \A d \in Callers : pc'[d] = "publish" => tpc[arg'[d]] # "unborn"
    BY <2>4 DEF SlotInv, Claims
  <2>7. \A d, e \in Callers :
          {pc'[d], pc'[e]} \subseteq {"spawn", "publish"} /\ arg'[d] = arg'[e] => d = e
    BY <2>4 DEF SlotInv, Claims
  <2> QED
    BY <1>1, <2>3, <2>5, <2>6, <2>7 DEF Claims
<1>7. Marked'
  <2> SUFFICES ASSUME NEW h \in 1 .. made
               PROVE  /\ Known(h)' => ~retired[slotOf[h]]
                      /\ phase'[h] = "resuming" => starting'[slotOf[h]]
                      /\ phase'[h] = "resumed" /\ tpc[h] # "dead" => thread'[slotOf[h]] = h
    BY <1>1 DEF Marked
  <2>1. CASE h = g
    BY <2>1, <1>1, <1>2, <1>3, <1>4, Facts DEF SlotInv, Marked
  <2>2. CASE h # g /\ slotOf[h] = slotOf[g]
    <3>1. ~Alive(h)
      BY <2>2, <1>2 DEF Alive, SlotInv, SlotIsItsOwn
    <3>2. phase[h] # "resuming" /\ (phase[h] = "resumed" => tpc[h] = "dead")
      BY <3>1, Facts DEF Alive, SlotInv, Lives
    <3> QED
      BY <2>2, <3>2, <1>3, Facts DEF SlotInv, Marked
  <2>3. CASE h # g /\ slotOf[h] # slotOf[g]
    BY <2>3, <1>1, <1>2, <1>3, Facts DEF SlotInv, Marked
  <2> QED
    BY <2>1, <2>2, <2>3
<1>8. SlotIsItsOwn'
  BY <1>1, <1>3, Facts DEF SlotInv, SlotIsItsOwn
<1> QED
  BY <1>5, <1>6, <1>7, <1>8 DEF SlotInv

LEMMA CancelOwned ==
  ASSUME TypeInv, SlotInv, NEW c \in Callers, Cancel(c)
  PROVE  SlotInv'
<1>1. PICK g \in Sources :
        /\ Known(g) /\ cancelled' = [cancelled EXCEPT ![g] = TRUE]
        /\ arg' = [arg EXCEPT ![c] = g]
  BY DEF Cancel
<1>2. /\ pc[c] = "idle" /\ lock = None /\ lock' = c /\ pc' = [pc EXCEPT ![c] = "retire"]
      /\ UNCHANGED <<used, retired, starting, thread, made, slotOf, phase, tpc>>
  BY DEF Cancel, MayCall, threadVars
<1>3. g \in 1 .. made
  BY <1>1, Facts DEF Known
<1>4. \A h \in Sources : /\ Known(h)' <=> Known(h) /\ h # g
                         /\ Alive(h)' <=> Alive(h)
  BY <1>1, <1>2, Facts DEF Known, Alive
<1>5. Lives'
  <2>1. \A h \in Sources : h # g => cancelled'[h] = cancelled[h]
    BY <1>1, Facts
  <2> QED
    BY <1>1, <1>2, <1>3, <2>1, Facts DEF SlotInv, Lives
<1>6. Claims'
  <2>1. \A d \in Callers : d # c => pc'[d] = pc[d] /\ arg'[d] = arg[d] /\ pc[d] # "retire"
    BY <1>1, <1>2, Facts
  <2>2. pc'[c] = "retire" /\ arg'[c] = g
    BY <1>1, <1>2, Facts
  <2>3. \A h \in 1 .. made : Known(h)' => slotOf[h] # slotOf[g]
    BY <1>1, <1>3, <1>4, Facts DEF SlotInv, SlotIsItsOwn
  <2>4. \A d \in Callers : pc'[d] \in {"spawn", "publish"} =>
          d # c /\ pc'[d] = pc[d] /\ arg'[d] = arg[d]
    BY <2>1, <2>2
  <2>5. \A d \in Callers : pc'[d] = "retire" => d = c
    BY <2>1
  <2>6. \A d, e \in Callers :
          {pc'[d], pc'[e]} \subseteq {"spawn", "publish"} /\ arg'[d] = arg'[e] => d = e
    BY <2>4 DEF SlotInv, Claims
  <2>7. \A d \in Callers : pc'[d] \in {"spawn", "publish"} =>
          arg'[d] \in 1 .. made /\ phase[arg'[d]] = "resuming"
    BY <2>4 DEF SlotInv, Claims
  <2>8. \A d \in Callers : pc'[d] = "publish" => tpc[arg'[d]] # "unborn"
    BY <2>4 DEF SlotInv, Claims
  <2> QED
    BY <1>2, <1>3, <2>2, <2>3, <2>5, <2>6, <2>7, <2>8 DEF Claims
<1>7. Marked'
  BY <1>2, <1>4, Facts DEF SlotInv, Marked
<1>8. SlotIsItsOwn'
  BY <1>2, <1>4, Facts DEF SlotInv, SlotIsItsOwn
<1> QED
  BY <1>5, <1>6, <1>7, <1>8 DEF SlotInv

LEMMA RetireOwned ==
  ASSUME TypeInv, SlotInv, NEW c \in Callers, Retire(c)
  PROVE  SlotInv'
<1> DEFINE g == arg[c]
<1>1. /\ pc[c] = "retire" /\ lock' = None /\ pc' = [pc EXCEPT ![c] = "idle"]
      /\ arg' = [arg EXCEPT ![c] = None]
      /\ retired' = [retired EXCEPT ![slotOf[g]] = TRUE]
      /\ UNCHANGED <<used, starting, thread, made, slotOf, phase, cancelled, tpc>>
  BY DEF Retire, sourceVars, threadVars
<1>2. \A h \in Sources : /\ Known(h)' <=> Known(h)
                         /\ Alive(h)' <=> Alive(h)
  BY <1>1 DEF Known, Alive
<1>3. \A h \in 1 .. made : Known(h) => slotOf[h] # slotOf[g]
  BY <1>1 DEF SlotInv, Claims
<1>4. Lives'
  BY <1>1 DEF SlotInv, Lives
<1>5. Claims'
  <2>1. \A d \in Callers : d # c => pc'[d] = pc[d] /\ arg'[d] = arg[d] /\ pc[d] # "retire"
    BY <1>1, Facts DEF SlotInv, Claims
  <2>2. pc'[c] = "idle"
    BY <1>1, Facts
  <2> QED
    BY <1>1, <2>1, <2>2 DEF SlotInv, Claims
<1>6. Marked'
  BY <1>1, <1>2, <1>3, Facts DEF SlotInv, Marked
<1>7. SlotIsItsOwn'
  BY <1>1, <1>2, Facts DEF SlotInv, SlotIsItsOwn
<1> QED
  BY <1>4, <1>5, <1>6, <1>7 DEF SlotInv
LEMMA CallOwned ==
  ASSUME TypeInv, SlotInv, NEW c \in Callers, Caller(c)
  PROVE  SlotInv'
<1>1. CASE Claim(c)
  BY <1>1, ClaimOwned
<1>2. CASE Resume(c)
  BY <1>2, ResumeOwned
<1>3. CASE Spawn(c)
  BY <1>3, SpawnOwned
<1>4. CASE Publish(c)
  BY <1>4, PublishOwned
<1>5. CASE Cancel(c)
  BY <1>5, CancelOwned
<1>6. CASE Retire(c)
  BY <1>6, RetireOwned
<1>7. ASSUME UNCHANGED <<lock, used, retired, starting, thread, sourceVars, tpc>>,
             \/ pc[c] = "idle" /\ pc' = [pc EXCEPT ![c] = "create"] /\ UNCHANGED arg
             \/ /\ pc[c] = "idle" /\ pc' = [pc EXCEPT ![c] = "signal"]
                /\ \E g \in Sources : arg' = [arg EXCEPT ![c] = g]
             \/ pc[c] = "create" /\ pc' = [pc EXCEPT ![c] = "idle"] /\ UNCHANGED arg
             \/ /\ pc[c] = "signal" /\ pc' = [pc EXCEPT ![c] = "idle"]
                /\ arg' = [arg EXCEPT ![c] = None]
             \/ UNCHANGED <<pc, arg>>
      PROVE  SlotInv'
  <2>1. UNCHANGED <<made, slotOf, phase, cancelled>>
    BY <1>7 DEF sourceVars
  <2>2. Lives' /\ Marked' /\ SlotIsItsOwn'
    BY <1>7, <2>1 DEF SlotInv, Lives, Marked, SlotIsItsOwn, Known, Alive
  <2>3. \A d \in Callers : pc'[d] \in {"spawn", "publish", "retire"} =>
          pc'[d] = pc[d] /\ arg'[d] = arg[d]
    BY <1>7, Facts
  <2>4. Claims'
    BY <1>7, <2>1, <2>3 DEF SlotInv, Claims, Known
  <2> QED
    BY <2>2, <2>4 DEF SlotInv
<1> QED
  BY <1>1, <1>2, <1>3, <1>4, <1>5, <1>6, <1>7, CallFrame

-----------------------------------------------------------------------------
(* A cancelled source is stopped.                                          *)

LEMMA ThreadStopped ==
  ASSUME TypeInv, SlotInv, Stopped, NEW g \in Sources, Thread(g)
  PROVE  Stopped'
<1>1. UNCHANGED <<running, made, slotOf, phase, cancelled, revoked>>
  BY ThreadFrame DEF sourceVars
<1>2. PICK label \in {"top", "now", "wait", "timeout", "deliver", "queued", "enter", "in",
                      "after", "end", "dead"} : Step(g, label)
  BY ThreadFrame
<1>3. tpc[g] \notin {"unborn", "dead"}
  BY ThreadFrame
<1>4. \A h \in Sources : Alive(h)' => Alive(h)
  BY <1>1, <1>2, <1>3, Facts DEF Step, Alive
<1> QED
  BY <1>1, <1>4, Facts DEF Stopped

\* A resumption runs a slot that no cancelled source is still about in.
LEMMA CallStopped ==
  ASSUME TypeInv, SlotInv, Stopped, NEW c \in Callers, Caller(c)
  PROVE  Stopped'
<1>1. CASE Claim(c)
  <2>1. PICK s \in Choice :
          /\ made' = made + 1 /\ slotOf' = [slotOf EXCEPT ![made + 1] = s]
          /\ phase' = [phase EXCEPT ![made + 1] = "made"]
          /\ running' = [running EXCEPT ![s] = FALSE]
    BY <1>1 DEF Claim
  <2>2. UNCHANGED <<cancelled, revoked, tpc>>
    BY <1>1 DEF Claim, threadVars, histVars
  <2>3. made + 1 \in Sources
    BY <1>1, InCreating, Constants DEF Claim, TypeInv, TypeOK, SourceOK, HistOK, Sources
  <2>4. ~cancelled[made + 1]
    BY <2>3, Facts DEF SlotInv, Lives
  <2>5. \A g \in 1 .. made : slotOf'[g] = slotOf[g] /\ phase'[g] = phase[g]
    BY <2>1, Facts DEF TypeInv, TypeOK, SourceOK
  <2>6. \A g \in 1 .. made : running'[slotOf[g]] => running[slotOf[g]]
    BY <2>1, Facts
  <2>7. \A g \in 1 .. made + 1 : g \in 1 .. made \/ g = made + 1
    BY Facts
  <2> QED
    BY <2>1, <2>2, <2>4, <2>5, <2>6, <2>7 DEF Stopped, Alive
<1>2. CASE Resume(c)
  <2>1. PICK g \in Sources :
          /\ Known(g) /\ phase[g] = "made" /\ phase' = [phase EXCEPT ![g] = "resuming"]
          /\ running' = [running EXCEPT ![slotOf[g]] = TRUE]
    BY <1>2 DEF Resume
  <2>2. UNCHANGED <<made, slotOf, cancelled, revoked, tpc>>
    BY <1>2 DEF Resume, threadVars, histVars
  <2>3. g \in 1 .. made /\ ~cancelled[g]
    BY <2>1, Facts DEF Known
  <2>4. ASSUME NEW h \in 1 .. made, cancelled[h], Alive(h)' PROVE ~running'[slotOf[h]]
    <3>1. h # g /\ Alive(h)
      BY <2>1, <2>2, <2>3, <2>4, Facts DEF Alive
    <3>2. slotOf[h] # slotOf[g]
      BY <2>1, <2>3, <3>1 DEF SlotInv, SlotIsItsOwn
    <3> QED
      BY <2>1, <2>3, <2>4, <3>1, <3>2, Facts DEF Stopped
  <2> QED
    BY <2>2, <2>4 DEF Stopped
<1>3. CASE Spawn(c) \/ Publish(c)
  <2>1. UNCHANGED <<running, made, slotOf, cancelled, revoked>>
    BY <1>3 DEF Spawn, Publish, slotVars, sourceVars, histVars
  <2>2. arg[c] \in 1 .. made /\ phase[arg[c]] = "resuming"
    BY <1>3 DEF Spawn, Publish, SlotInv, Claims
  <2>3. \A h \in 1 .. made : Alive(h)' => Alive(h)
    BY <1>3, <2>2, Facts DEF Spawn, Publish, sourceVars, threadVars, Alive
  <2> QED
    BY <2>1, <2>3 DEF Stopped
<1>4. CASE Cancel(c)
  <2>1. PICK g \in Sources :
          /\ Known(g) /\ cancelled' = [cancelled EXCEPT ![g] = TRUE]
          /\ running' = [running EXCEPT ![slotOf[g]] = FALSE]
          /\ \E b \in BOOLEAN : revoked' = [revoked EXCEPT ![g] = b]
    BY <1>4 DEF Cancel
  <2>2. UNCHANGED <<made, slotOf, phase, tpc>>
    BY <1>4 DEF Cancel, threadVars
  <2>3. g \in 1 .. made
    BY <2>1, Facts DEF Known
  <2>4. \A h \in 1 .. made : /\ Alive(h)' <=> Alive(h)
                             /\ h # g => cancelled'[h] = cancelled[h]
                             /\ running'[slotOf[h]] => running[slotOf[h]]
    BY <2>1, <2>2, Facts DEF Alive
  <2>5. ~running'[slotOf[g]] /\ cancelled'[g]
    BY <2>1, <2>3, Facts
  <2>6. revoked \in [Sources -> BOOLEAN]
    BY DEF TypeInv, TypeOK, HistOK
  <2>7. \A h \in Sources : revoked'[h] => cancelled'[h]
    BY <2>1, <2>6, Facts DEF Stopped
  <2> QED
    BY <2>2, <2>4, <2>5, <2>7 DEF Stopped
<1>5. CASE Retire(c)
  BY <1>5 DEF Retire, sourceVars, threadVars, histVars, Stopped, Alive
<1>6. ASSUME UNCHANGED <<running, sourceVars, tpc, revoked>> PROVE Stopped'
  BY <1>6 DEF sourceVars, Stopped, Alive
<1> QED
  BY <1>1, <1>2, <1>3, <1>4, <1>5, <1>6, CallFrame

-----------------------------------------------------------------------------
(* The theorems.                                                           *)

IInv == TypeInv /\ SlotInv /\ Stopped

LEMMA Inductive == IInv /\ [Next]_vars => IInv'
<1> SUFFICES ASSUME IInv, [Next]_vars PROVE IInv'
  OBVIOUS
<1>1. CASE UNCHANGED vars
  BY <1>1 DEF vars, slotVars, sourceVars, callVars, threadVars, histVars, IInv, TypeInv,
    TypeOK, SlotOK, SourceOK, CallOK, ThreadOK, HistOK, Counted, Creating, SlotInv, Lives,
    Claims, Marked, SlotIsItsOwn, Stopped, Known, Alive
<1>2. ASSUME NEW c \in Callers, Caller(c) PROVE IInv'
  BY <1>2, CallTyped, CallOwned, CallStopped DEF IInv
<1>3. ASSUME NEW g \in Sources, Thread(g) PROVE IInv'
  BY <1>3, ThreadTyped, ThreadOwned, ThreadStopped DEF IInv, SlotInv
<1> QED
  BY <1>1, <1>2, <1>3 DEF Next

LEMMA AlwaysIInv == Spec => []IInv
<1>1. Init => IInv
  BY InitTyped, InitOwned DEF IInv
<1> QED
  BY <1>1, Inductive, PTL DEF Spec

\* Every variable of the source table keeps its type, however many sources
\* are made and cancelled.
THEOREM SourcesTyped == Spec => []TypeOK
<1>1. IInv => TypeOK
  BY DEF IInv, TypeInv
<1> QED
  BY <1>1, AlwaysIInv, PTL

\* pool_acquire gives no slot to a source while another may still use it.
THEOREM SlotsOwned == Spec => []SlotIsItsOwn
<1>1. IInv => SlotIsItsOwn
  BY DEF IInv, SlotInv
<1> QED
  BY <1>1, AlwaysIInv, PTL

\* source_job_run starts no event handler of a source cancelled from its queue.
THEOREM CancelledNeverRun == Spec => CancelledEventNeverRuns
<1> DEFINE Never == \A g \in Sources : tpc[g] = "enter" /\ tpc'[g] = "in" /\ ~cleanup[g]
                      /\ target[g] = "serial" => ~revoked[g]
<1>1. IInv /\ [Next]_vars => [Never]_vars
  <2> SUFFICES ASSUME IInv, Next, NEW g \in Sources, tpc[g] = "enter", tpc'[g] = "in",
                      ~cleanup[g]
               PROVE  ~revoked[g]
    OBVIOUS
  <2>1. Enter(g)
    <3>1. ASSUME NEW c \in Callers, Caller(c) PROVE FALSE
      <4>1. tpc'[g] = tpc[g] \/ tpc'[g] = "top"
        <5>1. CASE Spawn(c)
          BY <5>1, Facts DEF Spawn, IInv
        <5>2. CASE Claim(c) \/ Resume(c) \/ Publish(c) \/ Cancel(c) \/ Retire(c)
          BY <5>2 DEF Claim, Resume, Publish, Cancel, Retire, threadVars
        <5> QED
          BY <3>1, <5>1, <5>2, CallFrame
      <4> QED
        BY <4>1
    <3>2. ASSUME NEW h \in Sources, Thread(h) PROVE Enter(g)
      <4>1. h = g
        <5>1. \E label : Step(h, label)
          BY <3>2, ThreadFrame
        <5> QED
          BY <5>1, Facts DEF Step, IInv
      <4> QED
        BY <3>2, <4>1 DEF Thread, Top, Woken, Timeout, Expire, Deliver, Take, Return,
          After, End
    <3> QED
      BY <3>1, <3>2 DEF Next
  <2>2. running[slotOf[g]]
    BY <2>1, Facts DEF Enter, Step, Runs, IInv
  <2>3. Alive(g) /\ g \in 1 .. made
    BY Facts DEF Alive, IInv, SlotInv, Lives
  <2> QED
    BY <2>2, <2>3, Facts DEF IInv, Stopped
<1> QED
  BY <1>1, AlwaysIInv, PTL DEF Spec, CancelledEventNeverRuns
=============================================================================
