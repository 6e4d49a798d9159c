------------------------------ MODULE SqlHandles ------------------------------
(* The SQLite bridge of tiger_host_sqlite.c on a host whose pointers are wider  *)
(* than the guest's: every database and statement of the system's library is    *)
(* boxed in guest memory, and the guest knows the box.                          *)
EXTENDS Naturals, FiniteSets

CONSTANTS Natives,      \* handles the library can hand out
          Boxes         \* cells of guest memory there is room for

NoOne == "nothing"

VARIABLES
  tried, ok,    \* g_sql: whether the library was looked for, and has what is needed
  box,          \* the handle each box holds
  live,         \* the library's open handles
  stmtOf,       \* the database a statement was prepared on
  known,        \* boxes the guest was given and has not closed
  rc            \* what the last call returned

sqlVars == << tried, ok, box, live, stmtOf, known, rc >>

Init == /\ tried = FALSE /\ ok = FALSE /\ box = [b \in Boxes |-> NoOne] /\ live = {}
        /\ stmtOf = [n \in Natives |-> NoOne] /\ known = {} /\ rc = "ok"

\* sqlite_ready: looked for once, with the variables that may forbid it.
Ready == IF tried THEN UNCHANGED << tried, ok >> ELSE tried' = TRUE /\ ok' \in BOOLEAN
Usable == ok'

Free == {b \in Boxes : box[b] = NoOne}
Fail(code) == rc' = code /\ UNCHANGED << box, live, stmtOf, known >>

\* sql_guest of what the library returned: the box the guest gets, or the
\* library's handle given back at once.
Boxed(n, db) ==
  \/ /\ n \notin live
     /\ \E b \in Free : /\ box' = [box EXCEPT ![b] = n] /\ known' = known \union {b}
                        /\ live' = live \union {n} /\ stmtOf' = [stmtOf EXCEPT ![n] = db]
                        /\ rc' \in {"ok"} \union (IF db = NoOne THEN {"error"} ELSE {})
  \/ Free = {} /\ Fail("nomem")

\* sqlite3_open: the library may return a handle even where it fails.
Open == Ready /\ \/ ~Usable /\ Fail("error")
                 \/ Usable /\ \/ Fail("error")
                              \/ \E n \in Natives : Boxed(n, NoOne)

Databases == {b \in known : stmtOf[box[b]] = NoOne}
Statements == known \ Databases

\* sql_prepare, on a database; a statement of nothing is no statement.
Prepare(d) == Ready /\ \/ ~Usable /\ Fail("error")
                       \/ Usable /\ \/ rc' \in {"ok", "error"} /\ UNCHANGED << box, live, stmtOf, known >>
                                    \/ \E n \in Natives : Boxed(n, box[d])

\* bind_text, step, column_int, column_int64 and reset: the library's answer.
Use(s) == Ready /\ Usable /\ rc' \in {"ok", "row", "done"} /\ box[s] \in live
          /\ UNCHANGED << box, live, stmtOf, known >>

\* finalize frees the box with the handle.
Unboxed(b) == box' = [box EXCEPT ![b] = NoOne] /\ known' = known \ {b}
Finalize(s) ==
  /\ Ready /\ Usable
  /\ live' = live \ {box[s]} /\ stmtOf' = [stmtOf EXCEPT ![box[s]] = NoOne]
  /\ Unboxed(s) /\ rc' = "ok"

\* close: a database with statements is busy and stays open, box and all.
Close(d) ==
  /\ Ready /\ Usable
  /\ IF \E n \in live : stmtOf[n] = box[d]
       THEN Fail("busy")
       ELSE live' = live \ {box[d]} /\ Unboxed(d) /\ rc' = "ok" /\ UNCHANGED stmtOf

Next == \/ Open
        \/ \E d \in Databases : Prepare(d) \/ Close(d)
        \/ \E s \in Statements : Use(s) \/ Finalize(s)

-----------------------------------------------------------------------------
\* The guest's boxes are exactly the library's open handles, one each: none is
\* left open when memory for its box ran out, and none is freed while the
\* library still has it (sql_guest, sql_free_handle and their callers).
HandlesBoxed ==
  /\ {box[b] : b \in known} = live
  /\ \A b \in Boxes : box[b] # NoOne <=> b \in known
  /\ Cardinality(known) = Cardinality(live)
  /\ \A n \in live : stmtOf[n] # NoOne => stmtOf[n] \in live
=============================================================================
