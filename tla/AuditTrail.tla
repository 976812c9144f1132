------------------------------- MODULE AuditTrail -------------------------------
(***************************************************************************)
(* How the logs and the list of known subjects are written: the audit     *)
(* transaction of a tool call (meta_store.py), /api/me, and the           *)
(* transactions of the console that name a subject, statement by          *)
(* statement, any number at once, over Postgres's row locks.              *)
(*                                                                        *)
(* A row of known_subjects that a transaction has written is locked until *)
(* the transaction ends; INSERT ... ON CONFLICT waits for the lock and    *)
(* then sees what was committed.  An id is drawn when the row of a log is *)
(* inserted and is visible, out of order perhaps, once it is committed.   *)
(***************************************************************************)
EXTENDS AtomicAudit

CONSTANT Writers  \* transactions open at once

VARIABLES
    at,           \* per writer: "idle", "notes", "row" or "commit"
    job,          \* per writer: what it records
    left,         \* per writer: the subjects it has still to remember
    written,      \* per writer: the name it wrote for a subject, None if it has not
    since,        \* per writer: now(), the start of its transaction
    row,          \* per writer: the row it has inserted, None if it has not
    drawn         \* ids each log has given out

writers == <<at, job, left, written, since, row, drawn>>
trail == <<subjects, logged, writers>>

Logs == {"calls", "admin"}
Rows == [log : Logs, id : 1 .. MaxRows, at : 0 .. MaxRows, sub : Users, success : {0, 1}]
ASSUME NoneIsNoRow == None \notin Rows

RowsLeft == drawn["calls"] + drawn["admin"] < MaxRows
NothingWritten == [x \in Subjects |-> None]

Init ==
    /\ AtomicInit
    /\ at = [w \in Writers |-> "idle"]
    /\ job = [w \in Writers |-> None]
    /\ left = [w \in Writers |-> {}]
    /\ written = [w \in Writers |-> NothingWritten]
    /\ since = [w \in Writers |-> 0]
    /\ row = [w \in Writers |-> None]
    /\ drawn = [l \in Logs |-> IF l = "calls" THEN OldCalls ELSE 0]

--------------------------------------------------------------------------------
\* write_audit, me, add_subject, change_table_access: the transaction begins.  The rows drawn
\* so far are its clock: one that begins later has no earlier now().
Begin(w, j) ==
    /\ at[w] = "idle"
    /\ LogOf(j) # None => RowsLeft
    /\ at' = [at EXCEPT ![w] = "notes"]
    /\ job' = [job EXCEPT ![w] = j]
    /\ left' = [left EXCEPT ![w] = Notes(j)]
    /\ since' = [since EXCEPT ![w] = IF LogOf(j) = None THEN 0 ELSE drawn[LogOf(j)]]
    /\ UNCHANGED <<subjects, logged, written, row, drawn>>

\* Mistake: The roles are remembered in the order the token happens to have them.
EarlierUnsorted(x, y) == x[1] = "user" /\ y[1] = "role"

\* The caller first, then the roles, which audit_service has sorted.
Earlier(x, y) ==
    \/ x[1] = "user" /\ y[1] = "role"
    \/ x[1] = "role" /\ y[1] = "role" /\ x[2] < y[2]

\* The statement w comes to next.
NextNote(w, x) == at[w] = "notes" /\ x \in left[w] /\ \A y \in left[w] : ~Earlier(y, x)

\* _remember_subject's DO NOTHING leaves a committed row alone, and does not wait for it.
Ignores(w, x) == job[w].op = "grant" /\ subjects[x] # Absent

Holds(w, x) == written[w][x] # None
Blocks(v, w, x) == v # w /\ Holds(v, x) /\ ~Ignores(w, x)
WaitsFor(w, v) == \E x \in Subjects : NextNote(w, x) /\ Blocks(v, w, x)

\* INSERT INTO known_subjects ... ON CONFLICT
Note(w, x) ==
    /\ NextNote(w, x)
    /\ \A v \in Writers : ~Blocks(v, w, x)
    /\ left' = [left EXCEPT ![w] = @ \ {x}]
    /\ written' = IF Ignores(w, x) THEN written
                  ELSE [written EXCEPT ![w][x] = Named(subjects[x], NameIn(job[w], x))]
    /\ UNCHANGED <<subjects, logged, at, job, since, row, drawn>>

NotesDone(w) ==
    /\ at[w] = "notes" /\ left[w] = {}
    /\ at' = [at EXCEPT ![w] = IF LogOf(job[w]) = None THEN "commit" ELSE "row"]
    /\ UNCHANGED <<subjects, logged, job, left, written, since, row, drawn>>

\* INSERT INTO audit_log, or log_change
InsertRow(w) ==
    LET l == LogOf(job[w]) IN
    /\ at[w] = "row" /\ RowsLeft
    /\ at' = [at EXCEPT ![w] = "commit"]
    /\ drawn' = [drawn EXCEPT ![l] = @ + 1]
    /\ row' = [row EXCEPT ![w] = Row(job[w], drawn[l] + 1, since[w])]
    /\ UNCHANGED <<subjects, logged, job, left, written, since>>

\* The end of a transaction, either way: its locks are released.
Ends(w) ==
    /\ at' = [at EXCEPT ![w] = "idle"]
    /\ job' = [job EXCEPT ![w] = None]
    /\ left' = [left EXCEPT ![w] = {}]
    /\ written' = [written EXCEPT ![w] = NothingWritten]
    /\ since' = [since EXCEPT ![w] = 0]
    /\ row' = [row EXCEPT ![w] = None]
    /\ UNCHANGED drawn

\* Mistake: The row is committed by a transaction of its own, before the subjects' is.
AbortLeavesRow(w) ==
    /\ at[w] # "idle"
    /\ logged' = IF row[w] = None THEN logged ELSE logged \cup {row[w]}
    /\ Ends(w)
    /\ UNCHANGED subjects

\* The database gives up, or the call is cancelled: CancelledError leaves the block as well.
Abort(w) ==
    /\ at[w] # "idle"
    /\ Ends(w)
    /\ UNCHANGED <<subjects, logged>>

Commit(w) ==
    /\ at[w] = "commit"
    /\ subjects' = [x \in Subjects |-> IF Holds(w, x) THEN written[w][x] ELSE subjects[x]]
    /\ logged' = IF row[w] = None THEN logged ELSE logged \cup {row[w]}
    /\ Ends(w)

Write(w) ==
    \/ \E j \in Jobs : Begin(w, j)
    \/ \E x \in Subjects : Note(w, x)
    \/ NotesDone(w)
    \/ InsertRow(w)
    \/ Abort(w)
    \/ Commit(w)

Next == \E w \in Writers : Write(w)
Spec == Init /\ [][Next]_trail
--------------------------------------------------------------------------------
(* Properties *)

\* What is committed, what is open and what is locked keep their types, and the rows of
\* transactions that ended are nobody's any more.
TrailTypeOK ==
    /\ subjects \in [Subjects -> Names \cup {Absent, Nameless}]
    /\ logged \subseteq Rows
    /\ at \in [Writers -> {"idle", "notes", "row", "commit"}]
    /\ \A w \in Writers :
          /\ (at[w] = "idle") = (job[w] = None)
          /\ at[w] = "idle" => written[w] = NothingWritten /\ row[w] = None
    /\ job \in [Writers -> Jobs \cup {None}]
    /\ left \in [Writers -> SUBSET Subjects]
    /\ written \in [Writers -> [Subjects -> Names \cup {Nameless, None}]]
    /\ since \in [Writers -> 0 .. MaxRows]
    /\ row \in [Writers -> Rows \cup {None}]
    /\ drawn \in [Logs -> 0 .. MaxRows]

\* No two audit writes, sign-ins and changes of the console ever wait for each other, round
\* in a circle: Postgres would abort one, and a tool call whose audit write is aborted
\* withholds its result.  (_note_subjects over the roles audit_service sorts.)
NoWaitInACircle ==
    ~ \E S \in SUBSET Writers :
        S # {} /\ \A w \in S : \E v \in S : WaitsFor(w, v)

\* Every transaction, whatever the others write meanwhile, leaves its row and the subjects it
\* names at once or leaves nothing, and forgets no name.  (write_audit, me, log_change.)
RecordsAtOnce == AtomicSpec
================================================================================
