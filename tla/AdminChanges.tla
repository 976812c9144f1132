------------------------------ MODULE AdminChanges ------------------------------
(***************************************************************************)
(* The requests of the admin console that change something, running       *)
(* concurrently: each first reads what it is about to change, then opens  *)
(* a transaction that makes the change and writes its admin_log row, and  *)
(* after the commit announces it to the caches of the MCP servers.        *)
(*                                                                        *)
(* Postgres is modelled as far as these requests can tell (READ           *)
(* COMMITTED): a statement sees what is committed when it runs, waits for *)
(* another transaction that has written its row, and checks foreign keys. *)
(***************************************************************************)
EXTENDS Naturals, Sequences, SequencesExt, FiniteSets

CONSTANTS
    Requests,     \* requests to the console, by any number of admins
    Connections,
    Subjects,     \* users and roles who may use a connection
    Tables,       \* tables or tools of one subject's grid; numbers, so they sort
    Reports,
    Asks,         \* what the requests ask for
    Faults,       \* which happen: "abort" (the database or the client gives up), "die",
                  \* "bump" (an announcement fails)
    Present,      \* a row of which only matters that it is there
    None

VARIABLES
    db,         \* the committed rows: None where there is none
    log,        \* admin_log
    ask,        \* per request: what it asks for
    at,         \* per request: where it is
    seen,       \* per request: what it read before it wrote
    todo,       \* per request: the statements its transaction still has to run
    wrote,      \* per request: the rows its transaction has written
    shares,     \* per request: the connections its transaction locks as parents
    reply,      \* per request: "ok", "error", or None
    unannounced, \* history: per family, the requests with changes no bump has followed
    lost        \* history: per family, the requests whose bump failed, and none has followed

caches == <<unannounced, lost>>
vars == <<db, log, ask, at, seen, todo, wrote, shares, reply, caches>>

Connection(k) == <<"connection", k>>
Access(k, s) == <<"access", k, s>>
Grant(k, t) == <<"grant", k, t>>        \* a tool belongs to no connection
Description(k) == <<"description", k>>
Report(r) == <<"report", r>>
Known == <<"known">>

Owned(k) ==
    {Access(k, s) : s \in Subjects} \cup {Grant(k, t) : t \in Tables} \cup {Description(k)}
Rows ==
    (UNION {Owned(k) : k \in Connections}) \cup {Grant(None, t) : t \in Tables}
        \cup {Connection(k) : k \in Connections} \cup {Report(r) : r \in Reports} \cup {Known}

\* What admins edit; the health check keeps its result in the same row.
Edited == {"active", "details", "secret"}
Settings == [Edited \cup {"checked"} -> 0 .. 1]

\* What may be asked for.  The two lists of a grid have nothing in common, and an edit gives
\* new values to some of the settings.
MayAsk(a) ==
    CASE a.op = "create" -> a.conn \in Connections /\ a.val \in Settings
      [] a.op = "update" ->
            a.conn \in Connections /\ \E F \in SUBSET Edited : a.val \in [F -> 0 .. 1]
      [] a.op \in {"tables", "tools"} ->
            /\ a.conn \in IF a.op = "tables" THEN Connections ELSE {None}
            /\ a.granted \subseteq Tables /\ a.revoked \subseteq Tables
            /\ a.granted \cap a.revoked = {}
      [] a.op = "access" -> a.conn \in Connections /\ a.granted \subseteq Subjects
      [] a.op \in {"report_create", "report_update", "report_delete"} ->
            a.conn \in Connections /\ a.val \in Reports
      [] a.op \in {"check", "delete", "describe", "clear"} -> a.conn \in Connections
      [] OTHER -> a.op = "subject_add"

ASSUME AdminAssumption ==
    /\ IsFiniteSet(Rows) /\ Tables \subseteq Nat
    /\ \A a \in Asks : MayAsk(a)
    /\ None \notin Settings \cup Connections \cup Requests \cup Asks \cup {Present}
    /\ None # "ok"

\* The families of what the MCP servers keep in their caches: what admins decide, and
\* the structure of the databases that the connections lead to.
Families == {"meta", "schema"}
Keeps(f, x) ==
    x[1] = "connection" \/ (f = "meta" /\ x[1] \in {"access", "grant", "description"})

\* The foreign key of a row, if it has one.
Parent(x, v) ==
    IF x[1] = "report" THEN v
    ELSE IF x[1] \in {"access", "grant", "description"} THEN x[2]
    ELSE None

Nothing == [x \in {} |-> None]

Init ==
    /\ \E k0 \in Connections, ss \in SUBSET Subjects, ts \in SUBSET Tables,
          used, text, known \in BOOLEAN :
          db = [x \in Rows |->
              IF x = Connection(k0)
              THEN [c \in Edited \cup {"checked"} |-> IF c = "active" THEN 1 ELSE 0]
              ELSE IF \/ x \in {Access(k0, s) : s \in ss}
                      \/ x \in {Grant(k0, t) : t \in ts}
                      \/ x = Description(k0) /\ text
                      \/ x = Known /\ known
              THEN Present
              ELSE IF x[1] = "report" /\ used THEN k0
              ELSE None]
    /\ log = <<>>
    /\ ask = [q \in Requests |-> None]
    /\ at = [q \in Requests |-> "new"]
    /\ seen = [q \in Requests |-> None]
    /\ todo = [q \in Requests |-> <<>>]
    /\ wrote = [q \in Requests |-> Nothing]
    /\ shares = [q \in Requests |-> {}]
    /\ reply = [q \in Requests |-> None]
    /\ unannounced = [f \in Families |-> {}]
    /\ lost = [f \in Families |-> {}]

--------------------------------------------------------------------------------
(* What each request runs, in the order of its code *)

Sql(do, x, v) == [do |-> do, row |-> x, val |-> v]
Each(do, rows) == [i \in DOMAIN rows |-> Sql(do, rows[i], Present)]

\* The rows of a grid, by the names of their tables or tools.
Grants(k, ts) == {Grant(k, t) : t \in ts}
Sorted(k, ts) ==
    {rows \in SetToSeqs(Grants(k, ts)) :
        \A i, j \in DOMAIN rows : i < j => rows[i][3] < rows[j][3]}

\* Mistake: What is revoked is deleted before what is granted is inserted.
GridRevokesFirst(a) ==
    {Each("delete", r) \o Each("ignore", g) :
        r \in Sorted(a.conn, a.revoked), g \in Sorted(a.conn, a.granted)}

\* The tables or tools of one subject: grants, then revocations.
Grid(a) ==
    {Each("ignore", g) \o Each("delete", r) :
        g \in Sorted(a.conn, a.granted), r \in Sorted(a.conn, a.revoked)}

Statements(q, a) ==
    CASE a.op = "create"        -> {<<Sql("insert", Connection(a.conn), a.val)>>}
      [] a.op = "update"        -> {<<Sql("update", Connection(a.conn), a.val)>>}
      [] a.op = "check"         -> {<<Sql("update", Connection(a.conn), [c \in {"checked"} |-> 1])>>}
      [] a.op = "delete"        -> {<<Sql("delete", Connection(a.conn), None)>>}
      [] a.op \in {"tables", "tools"} -> {<<Sql("ignore", Known, Present)>> \o g : g \in Grid(a)}
      [] a.op = "describe"      -> {<<Sql("upsert", Description(a.conn), q)>>}
      [] a.op = "clear"         -> {<<Sql("delete", Description(a.conn), None)>>}
      [] a.op = "report_create" -> {<<Sql("insert", Report(a.val), a.conn)>>}
      [] a.op = "report_update" -> {<<Sql("update", Report(a.val), a.conn)>>}
      [] a.op = "report_delete" -> {<<Sql("delete", Report(a.val), None)>>}
      [] a.op = "subject_add"   -> {<<Sql("upsert", Known, Present)>>}
      [] OTHER                  -> {<<>>}  \* set_access: see ReadAccess

\* set_access deletes and inserts in the order Python's sets happen to have.
AccessStatements(gone, new) ==
    {Each("delete", d) \o Each("insert", i) : d \in SetToSeqs(gone), i \in SetToSeqs(new)}

--------------------------------------------------------------------------------
(* A request, up to its transaction *)

GoTo(q, place) == at' = [at EXCEPT ![q] = place]

Receive(q) ==
    /\ at[q] = "new"
    /\ \E a \in Asks :
          /\ ask' = [ask EXCEPT ![q] = a]
          /\ \E stmts \in Statements(q, a) : todo' = [todo EXCEPT ![q] = stmts]
          /\ GoTo(q, IF a.op \in {"create", "tools", "subject_add"} THEN "tx" ELSE "fetch")
    /\ UNCHANGED <<db, log, seen, wrote, shares, reply, caches>>

\* The row a request reads before it begins its transaction.
Target(a) ==
    IF a.op \in {"report_update", "report_delete"} THEN Report(a.val) ELSE Connection(a.conn)

\* Not there (404, 422), or the target database doesn't answer (404, 502).
Refuse(q) ==
    /\ GoTo(q, "over")
    /\ reply' = [reply EXCEPT ![q] = "error"]
    /\ UNCHANGED <<db, log, ask, seen, todo, wrote, shares, caches>>

Fetch(q) ==
    /\ at[q] = "fetch"
    /\ \/ /\ db[Target(ask[q])] # None
          /\ seen' = [seen EXCEPT ![q] = db[Target(ask[q])]]
          /\ GoTo(q, IF ask[q].op \in {"access", "delete"} THEN "read"
                     ELSE IF ask[q].op = "report_update" THEN "sql" ELSE "tx")
          /\ UNCHANGED <<db, log, ask, todo, wrote, shares, reply, caches>>
       \/ /\ db[Target(ask[q])] = None \/ ask[q].op = "describe"
          /\ Refuse(q)

\* _check_sql: the report's connection must exist.
CheckSql(q) ==
    /\ at[q] = "sql"
    /\ IF db[Connection(ask[q].conn)] = None THEN Refuse(q)
       ELSE /\ GoTo(q, "tx")
            /\ UNCHANGED <<db, log, ask, seen, todo, wrote, shares, reply, caches>>

\* set_access: the first statement of the transaction reads the current list.
ReadAccess(q) ==
    /\ at[q] = "read" /\ ask[q].op = "access"
    /\ LET k == ask[q].conn
           existing == {s \in Subjects : db[Access(k, s)] # None}
           rows(subjects) == {Access(k, s) : s \in subjects}
       IN  /\ seen' = [seen EXCEPT ![q] = existing]
           /\ \E stmts \in AccessStatements(rows(existing \ ask[q].granted),
                                            rows(ask[q].granted \ existing)) :
                 todo' = [todo EXCEPT ![q] = stmts]
    /\ GoTo(q, "tx")
    /\ UNCHANGED <<db, log, ask, wrote, shares, reply, caches>>

\* delete_connection counts the reports first, to refuse with a reason.
CountReports(q) ==
    /\ at[q] = "read" /\ ask[q].op = "delete"
    /\ IF \E r \in Reports : db[Report(r)] = ask[q].conn THEN Refuse(q)
       ELSE /\ GoTo(q, "tx")
            /\ UNCHANGED <<db, log, ask, seen, todo, wrote, shares, reply, caches>>

--------------------------------------------------------------------------------
(* Postgres: one statement of a transaction *)

Others(q) == Requests \ {q}

\* A row as the transaction sees it: its own writes, and what is committed.
Sees(q, x) == IF x \in DOMAIN wrote[q] THEN wrote[q][x] ELSE db[x]

\* The rows the next statement locks if it writes them, deleting a connection takes
\* what it owns, and the rows it writes: ON CONFLICT DO NOTHING leaves one it finds alone.
Targets(q) ==
    LET st == Head(todo[q])
    IN  IF st.do \in {"insert", "ignore", "upsert"} THEN {st.row}
        ELSE {x \in {st.row} \cup (IF st.do = "delete" /\ st.row[1] = "connection"
                                   THEN Owned(st.row[2]) ELSE {}) : Sees(q, x) # None}

Writes(q) == {x \in Targets(q) : Head(todo[q]).do = "ignore" => Sees(q, x) = None}

\* The parent whose existence the next statement depends on, if any.
Needs(q) ==
    LET st == Head(todo[q])
        now == Sees(q, st.row)
        same == now # None /\ Parent(st.row, now) = Parent(st.row, st.val)
    IN  IF Writes(q) = {} \/ st.do = "delete" \/ same THEN None ELSE Parent(st.row, st.val)

\* q's next statement has to wait until p's transaction ends.
WaitsFor(q, p) ==
    /\ at[q] = "tx" /\ todo[q] # <<>>
    /\ \/ Targets(q) \cap DOMAIN wrote[p] # {}
       \/ /\ Needs(q) # None /\ Connection(Needs(q)) \in DOMAIN wrote[p]
          /\ wrote[p][Connection(Needs(q))] = None
       \/ \E k \in shares[p] : Head(todo[q]).do = "delete" /\ Head(todo[q]).row = Connection(k)

\* Mistake: Reports do not keep their connection from being deleted.
ViolatesNoRestrict(q) ==
    LET st == Head(todo[q])
    IN  \/ st.do = "insert" /\ Sees(q, st.row) # None
        \/ Needs(q) # None /\ Sees(q, Connection(Needs(q))) = None

\* Unique keys, foreign keys, and ON DELETE RESTRICT for reports.
Violates(q) ==
    LET st == Head(todo[q])
    IN  \/ st.do = "insert" /\ Sees(q, st.row) # None
        \/ Needs(q) # None /\ Sees(q, Connection(Needs(q))) = None
        \/ /\ st.do = "delete" /\ st.row[1] = "connection"
           /\ \E r \in Reports : Sees(q, Report(r)) = st.row[2]

\* UPDATE row SET vals
Set(row, vals) == [c \in DOMAIN row |-> IF c \in DOMAIN vals THEN vals[c] ELSE row[c]]

\* Mistake: An update saves the whole row as the request had read it.
BecomesAsRead(q, x) ==
    LET st == Head(todo[q])
    IN  IF st.do = "delete" THEN None
        ELSE IF st.do = "update" /\ x[1] = "connection" THEN Set(seen[q], st.val)
        ELSE st.val

\* An UPDATE sets some columns of the row as it is when the lock is granted.
Becomes(q, x) ==
    LET st == Head(todo[q])
    IN  IF st.do = "delete" THEN None
        ELSE IF st.do = "update" /\ x[1] = "connection" THEN Set(Sees(q, x), st.val)
        ELSE st.val

Rollback(q) ==
    /\ wrote' = [wrote EXCEPT ![q] = Nothing]
    /\ shares' = [shares EXCEPT ![q] = {}]
    /\ todo' = [todo EXCEPT ![q] = <<>>]
    /\ GoTo(q, "over")
    /\ reply' = [reply EXCEPT ![q] = "error"]
    /\ UNCHANGED <<db, log, ask, seen, caches>>

\* delete_descriptions: nothing to remove is a 404 from inside the transaction.
NothingRemoved(q) == ask[q].op = "clear" /\ Writes(q) = {}

Execute(q) ==
    /\ at[q] = "tx" /\ todo[q] # <<>>
    /\ \A p \in Others(q) : ~WaitsFor(q, p)
    /\ IF Violates(q) \/ NothingRemoved(q) THEN Rollback(q)
       ELSE /\ wrote' = [wrote EXCEPT ![q] = [x \in DOMAIN wrote[q] \cup Writes(q) |->
                  IF x \in Writes(q) THEN Becomes(q, x) ELSE wrote[q][x]]]
            /\ shares' = [shares EXCEPT ![q] =
                  IF Needs(q) # None THEN @ \cup {Needs(q)} ELSE @]
            /\ todo' = [todo EXCEPT ![q] = Tail(@)]
            /\ UNCHANGED <<db, log, ask, at, seen, reply, caches>>

\* The database or the client gives up; a deadlock is broken this way too.
Abort(q) ==
    /\ "abort" \in Faults
    /\ at[q] = "tx"
    /\ Rollback(q)

--------------------------------------------------------------------------------
(* The end of a transaction: its admin_log row, and what follows *)

\* What update_connection finds changed, against the row it read beforehand.
Changed(q) ==
    {f \in DOMAIN ask[q].val : f = "secret" \/ seen[q][f] # ask[q].val[f]}

\* Mistake: A list that is replaced is logged with what was added to it only.
NamesGrantedOnly(q) ==
    LET a == ask[q]
    IN  CASE a.op = "update" -> Changed(q)
          [] a.op \in {"tables", "tools"} ->
                 {<<Grant(a.conn, t), t \in a.granted>> : t \in a.granted \cup a.revoked}
          [] a.op = "access" -> {<<Access(a.conn, s), TRUE>> : s \in a.granted \ seen[q]}
          [] a.op \in {"describe", "clear"} -> {<<Description(a.conn), a.op = "describe">>}
          [] OTHER -> {}

\* What the log entry of a request says has changed.
Names(q) ==
    LET a == ask[q]
    IN  CASE a.op = "update" -> Changed(q)
          [] a.op \in {"tables", "tools"} ->
                 {<<Grant(a.conn, t), t \in a.granted>> : t \in a.granted \cup a.revoked}
          [] a.op = "access" ->
                 {<<Access(a.conn, s), s \in a.granted>> :
                     s \in (a.granted \ seen[q]) \cup (seen[q] \ a.granted)}
          [] a.op \in {"describe", "clear"} -> {<<Description(a.conn), a.op = "describe">>}
          [] OTHER -> {}

\* Some handlers log only when they believe something has changed.
Logs(q) ==
    CASE ask[q].op \in {"update", "access"} -> Names(q) # {}
      [] ask[q].op = "check" -> FALSE
      [] OTHER -> TRUE

\* A row is not what it was to the MCP servers, which are not told of health checks.
Altered(x, old, new) ==
    IF x[1] = "connection" /\ old # None /\ new # None
    THEN \E f \in Edited : old[f] # new[f]
    ELSE old # new

Commit(q) ==
    /\ at[q] = "tx" /\ todo[q] = <<>>
    /\ db' = [x \in Rows |-> Sees(q, x)]
    /\ log' = IF Logs(q) THEN Append(log, [by |-> q, op |-> ask[q].op, names |-> Names(q),
                                           conn |-> ask[q].conn])
              ELSE log
    /\ wrote' = [wrote EXCEPT ![q] = Nothing]
    /\ shares' = [shares EXCEPT ![q] = {}]
    /\ unannounced' = [f \in Families |->
          IF \E x \in Rows : Keeps(f, x) /\ Altered(x, db[x], db'[x])
          THEN unannounced[f] \cup {q} ELSE unannounced[f]]
    /\ GoTo(q, "committed")
    /\ UNCHANGED <<ask, seen, todo, reply, lost>>

\* The handlers that bump once their change is committed, and what.
Announces(q) ==
    CASE ask[q].op \in {"create", "update", "delete"} -> Families
      [] ask[q].op \in {"access", "tables", "tools", "describe", "clear"} -> {"meta"}
      [] OTHER -> {}

\* The version of a family is counted up, and the servers leave all entries behind.
Counted(f) ==
    /\ unannounced' = [unannounced EXCEPT ![f] = {}]
    /\ lost' = [lost EXCEPT ![f] = {}]

\* The INCR fails: that is logged and swallowed, and the request goes on.  One that is
\* applied although its answer never came is one that succeeded.
Fails(q, f) ==
    /\ "bump" \in Faults
    /\ lost' = [lost EXCEPT ![f] = @ \cup ({q} \cap unannounced[f])]
    /\ UNCHANGED unannounced

\* Mistake: What was not worth a log entry is not announced.
BumpsLogged(q, f) == IF Logs(q) THEN Counted(f) \/ Fails(q, f) ELSE UNCHANGED caches

Bumps(q, f) == Counted(f) \/ Fails(q, f)

\* First the permissions, then the structure.
Announce(q) ==
    /\ \/ /\ at[q] = "committed"
          /\ IF "meta" \in Announces(q) THEN Bumps(q, "meta") ELSE UNCHANGED caches
          /\ GoTo(q, IF "schema" \in Announces(q) THEN "bumped" ELSE "answer")
       \/ /\ at[q] = "bumped"
          /\ Bumps(q, "schema")
          /\ GoTo(q, "answer")
    /\ UNCHANGED <<db, log, ask, seen, todo, wrote, shares, reply>>

\* Several handlers read the row again to answer, and it may be gone.
Answer(q) ==
    /\ at[q] = "answer"
    /\ LET x == IF ask[q].op = "report_create" THEN Report(ask[q].val) ELSE Target(ask[q])
           again == ask[q].op \in {"create", "update", "access", "report_create", "report_update"}
       IN  reply' = [reply EXCEPT ![q] = IF again /\ db[x] = None THEN "error" ELSE "ok"]
    /\ GoTo(q, "over")
    /\ UNCHANGED <<db, log, ask, seen, todo, wrote, shares, caches>>

\* The console stops between the commit and the end of the announcement.
Die(q) ==
    /\ "die" \in Faults
    /\ at[q] \in {"committed", "bumped"}
    /\ GoTo(q, "over")
    /\ UNCHANGED <<db, log, ask, seen, todo, wrote, shares, reply, caches>>

--------------------------------------------------------------------------------

Next ==
    \E q \in Requests :
        \/ Receive(q) \/ Fetch(q) \/ CheckSql(q) \/ ReadAccess(q) \/ CountReports(q)
        \/ Execute(q) \/ Abort(q) \/ Commit(q) \/ Announce(q) \/ Answer(q) \/ Die(q)

Spec == Init /\ [][Next]_vars

--------------------------------------------------------------------------------
(* Properties *)

\* What a row of each kind holds.
Contents(x) ==
    CASE x[1] = "connection"  -> Settings
      [] x[1] = "report"      -> Connections
      [] x[1] = "description" -> Requests \cup {Present}
      [] OTHER                -> {Present}

\* Only an open transaction has written or locked anything, and only its statements run.
TypeOK ==
    /\ DOMAIN db = Rows /\ \A x \in Rows : db[x] \in Contents(x) \cup {None}
    /\ ask \in [Requests -> Asks \cup {None}]
    /\ at \in [Requests -> {"new", "fetch", "sql", "read", "tx", "committed", "bumped",
                            "answer", "over"}]
    /\ DOMAIN seen = Requests /\ DOMAIN todo = Requests /\ DOMAIN wrote = Requests
    /\ shares \in [Requests -> SUBSET Connections]
    /\ reply \in [Requests -> {"ok", "error", None}]
    /\ unannounced \in [Families -> SUBSET Requests]
    /\ lost \in [Families -> SUBSET Requests]
    /\ \A q \in Requests :
          /\ at[q] = "new" <=> ask[q] = None
          /\ DOMAIN wrote[q] \subseteq Rows
          /\ \A x \in DOMAIN wrote[q] : wrote[q][x] \in Contents(x) \cup {None}
          /\ at[q] # "tx" => DOMAIN wrote[q] = {} /\ shares[q] = {}
          /\ at[q] \in {"committed", "bumped", "answer"} => todo[q] = <<>>

(* Rows and requests have their types, and what references a connection has it:
   neither a grant nor a report is left dangling, however a delete and the
   requests that add such rows interleave.  The count of reports in
   delete_connection alone would not be enough. *)
NothingDangles ==
    /\ TypeOK
    /\ \A x \in Rows :
          db[x] # None /\ Parent(x, db[x]) # None => db[Connection(Parent(x, db[x]))] # None

(* Every grant, revocation and description is on record with the change itself
   (changes.py): the transaction that made it wrote a row that names it, also
   when two admins change the same list at once. *)
GrantsAreLogged ==
    [][\A x \in Rows :
          (x[1] \in {"access", "grant", "description"} /\ db'[x] # db[x])
             => /\ Len(log') > Len(log)
                /\ \/ <<x, db'[x] # None>> \in log'[Len(log')].names
                   \/ log'[Len(log')].op = "delete" /\ log'[Len(log')].conn = x[2]]_vars

(* "Every change made through the GUI writes a row to admin_log" (changes.py): a
   setting of a connection that an update changes is named in its log row. *)
SettingsAreLogged ==
    [][\A k \in Connections :
          (db[Connection(k)] # None /\ db'[Connection(k)] # None)
             => \A f \in Edited : db'[Connection(k)][f] # db[Connection(k)][f] =>
                    Len(log') > Len(log) /\ f \in log'[Len(log')].names]_vars

(* Recording the result of a health check does not count as an edit (migration
   0002) and takes none back: the settings only change with an admin's edit. *)
ChecksAreNoEdits ==
    [][\A q \in Requests :
          (at[q] = "tx" /\ at'[q] = "committed" /\ ask[q].op = "check") =>
              \A k \in Connections : db[Connection(k)] # None =>
                  \A f \in Edited : db'[Connection(k)][f] = db[Connection(k)][f]]_vars

(* "Called after the change has been committed" (changes.py): when a request is
   answered, every change it made to what the MCP servers keep, be it a grant, a
   description or a connection with all that goes with it, has been followed by
   a bump of the version that is in their keys: its own, somebody else's, or none
   because its own failed.  This goes by the rows it changed, not by what it
   found to be different or wrote into the log. *)
AnsweredIsAnnounced ==
    \A f \in Families : \A q \in unannounced[f] : reply[q] # None => q \in lost[f]

(* The grids change their rows in sorted order, grants first, so that among any
   number of them in their transactions there is one that waits for none of the
   others: no two, and no longer circle, wait for each other. *)
Saving == {q \in Requests : at[q] = "tx" /\ ask[q].op \in {"tables", "tools"}}

GridsDoNotDeadlock ==
    \A S \in SUBSET Saving : S # {} => \E q \in S : \A p \in S \ {q} : ~WaitsFor(q, p)
================================================================================
