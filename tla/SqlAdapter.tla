------------------------------- MODULE SqlAdapter -------------------------------
(***************************************************************************)
(* Queries and schema reads on one target database                        *)
(* (adapters/sqlalchemy_adapter.py): the pool of connections they share,  *)
(* the time limit each engine puts on a query and what is left of it on   *)
(* the connection, the client's own timer, cancellation, and how the      *)
(* outcome is reported.                                                    *)
(*                                                                        *)
(* A call is one or two uses of a connection: a "reflect" looks up or     *)
(* reads a table's structure, a "run" is a query under its time limit.    *)
(* Time is counted in ticks.  A limit on a connection is                  *)
(*   postgresql  a setting of the transaction, gone when it ends;         *)
(*   mysql       a setting of the session, which stays in the pool;       *)
(*   sqlite      a progress handler with a deadline, to be taken off;     *)
(*   mssql       none: only the client keeps the time.                    *)
(* SQLAlchemy's pool and the databases are modelled from how the adapter  *)
(* uses them.  SQLAlchemy drops a connection whose statement is abandoned.*)
(***************************************************************************)
EXTENDS Naturals, Sequences

CONSTANTS
    Calls,       \* tool calls in progress at once
    Slots,       \* connections the pool may have open: pool_size and its overflow
    Dialects,    \* the engines looked at
    Limit,       \* timeout_s
    Grace,       \* _CLIENT_TIMEOUT_GRACE_S
    max_rows,    \* the row cap of a query
    Faults,      \* which happen: "cancel", "down" (the database), "close" (the adapter)
    None,
    Unlimited    \* a statement that nothing but its end stops

ServerEnforced == {"postgresql", "sqlite", "mysql"}

AdapterAssumption ==
    /\ Limit \in Nat \ {0} /\ Grace \in Nat \ {0} /\ max_rows \in Nat
    /\ Dialects \subseteq ServerEnforced \cup {"mssql"}
    /\ None \notin Calls \cup Slots \cup Nat
    /\ Unlimited \notin Nat \cup {None}

ASSUME AdapterAssumption

VARIABLES
    _dialect,   \* the engine
    _engine,    \* "none" before connect, then "open", "closing", "closed"
    open,       \* per slot: there is a connection
    limit,      \* per slot: the limit on it (sqlite: ticks to its deadline), or None
    holder,     \* per slot: the call it is checked out to, or None
    pc,         \* per call: the await it is in
    todo,       \* per call: the uses of a connection ahead, the present one included
    slot,       \* per call: its connection, or None
    deadline,   \* per call: ticks until its query is late
    timer,      \* per call: ticks until asyncio.timeout fires, or None
    stmt,       \* database: per call, ticks until its statement is stopped, Unlimited,
                \* or None when none of its statements is running
    ran,        \* history: per call, ticks its query has been running
    there,      \* history: per call, the rows its statement had
    rows,       \* per call: the rows it returns
    truncated,  \* per call: and whether it says that there were more
    silent,     \* history: per call, whether the network timed out on it
    result      \* per call: how it ended

pool == <<open, limit, holder>>
clocks == <<deadline, timer, ran>>
data == <<there, rows, truncated>>
outcome == <<silent, result>>
vars == <<_dialect, _engine, pool, pc, todo, slot, clocks, stmt, data, outcome>>

Program == [list_tables |-> <<"reflect">>, describe_table |-> <<"reflect", "reflect">>,
            execute |-> <<"run">>, explain |-> <<"run">>, sample_rows |-> <<"reflect", "run">>]

Running == {"inspect", "stream", "fetch"}
Holding == Running \cup {"set", "clear", "back"}
Awaits == Holding \cup {"idle", "start", "wait", "over"}
Results == {"none", "ok", "timeout", "failed", "raised", "not_found", "unsupported", "cancelled"}
MostTicks == 2 * Limit + Grace + 1

Init ==
    /\ _dialect \in Dialects
    /\ _engine = "none"
    /\ open = [s \in Slots |-> FALSE]
    /\ limit = [s \in Slots |-> None]
    /\ holder = [s \in Slots |-> None]
    /\ pc = [k \in Calls |-> "idle"]
    /\ todo = [k \in Calls |-> <<>>]
    /\ slot = [k \in Calls |-> None]
    /\ deadline = [k \in Calls |-> 0]
    /\ timer = [k \in Calls |-> None]
    /\ stmt = [k \in Calls |-> None]
    /\ ran = [k \in Calls |-> 0]
    /\ there = [k \in Calls |-> 0]
    /\ rows = [k \in Calls |-> 0]
    /\ truncated = [k \in Calls |-> FALSE]
    /\ silent = [k \in Calls |-> FALSE]
    /\ result = [k \in Calls |-> "none"]

--------------------------------------------------------------------------------
(* Time, and the adapter's life *)

IsRun(k) == todo[k] # <<>> /\ Head(todo[k]) = "run"

Less(t) == IF t \in Nat \ {0} THEN t - 1 ELSE t

\* Timers and limits are prompt: time waits for what is due.
Tick ==
    /\ \A k \in Calls : stmt[k] # 0 /\ timer[k] # 0
    /\ deadline' = [k \in Calls |-> Less(deadline[k])]
    /\ timer' = [k \in Calls |-> Less(timer[k])]
    /\ stmt' = [k \in Calls |-> Less(stmt[k])]
    /\ ran' = [k \in Calls |->
          IF stmt[k] # None /\ IsRun(k) /\ ran[k] < MostTicks THEN ran[k] + 1 ELSE ran[k]]
    /\ limit' = IF _dialect = "sqlite" THEN [s \in Slots |-> Less(limit[s])] ELSE limit
    /\ UNCHANGED <<_dialect, _engine, open, holder, pc, todo, slot, data, outcome>>

\* connect: the pool and its first connection, or nothing at all.
Connect ==
    /\ _engine = "none"
    /\ _engine' = "open"
    /\ \E s \in Slots : open' = [open EXCEPT ![s] = TRUE]
    /\ UNCHANGED <<_dialect, limit, holder, pc, todo, slot, clocks, stmt, data, outcome>>

Idle(s) == open[s] /\ holder[s] = None

\* close, when the connection was edited or the server stops.
Close ==
    /\ "close" \in Faults
    /\ _engine = "open"
    /\ _engine' = "closing"
    /\ UNCHANGED <<_dialect, pool, pc, todo, slot, clocks, stmt, data, outcome>>

\* dispose closes the connections that are in the pool, one after the other, while calls
\* still come and go ...
Dispose ==
    /\ _engine = "closing"
    /\ \E s \in Slots :
          /\ Idle(s)
          /\ open' = [open EXCEPT ![s] = FALSE]
          /\ limit' = [limit EXCEPT ![s] = None]
    /\ UNCHANGED <<_dialect, _engine, holder, pc, todo, slot, clocks, stmt, data, outcome>>

\* ... and leaves alone those that are in use.
Closed ==
    /\ _engine = "closing"
    /\ ~\E s \in Slots : Idle(s)
    /\ _engine' = "closed"
    /\ UNCHANGED <<_dialect, pool, pc, todo, slot, clocks, stmt, data, outcome>>

\* They go back to the pool they are from, and are closed with it when it is collected as
\* garbage, which is when no call uses it or waits for it any more.
Collect ==
    /\ _engine = "closed"
    /\ \A k \in Calls : pc[k] \notin Holding \cup {"wait"}
    /\ open' = [s \in Slots |-> FALSE]
    /\ limit' = [s \in Slots |-> None]
    /\ UNCHANGED <<_dialect, _engine, holder, pc, todo, slot, clocks, stmt, data, outcome>>

--------------------------------------------------------------------------------
(* A use of a connection: checking out and setting the limit *)

GoTo(k, await) == pc' = [pc EXCEPT ![k] = await]

End(k, how) == GoTo(k, "over") /\ result' = [result EXCEPT ![k] = how]

Begin(k) ==
    /\ pc[k] = "idle"
    /\ _engine # "none"
    /\ \E op \in DOMAIN Program :
          /\ todo' = [todo EXCEPT ![k] = Program[op]]
          /\ IF op = "explain" /\ _dialect = "mssql"
             THEN End(k, "unsupported")
             ELSE GoTo(k, "start") /\ UNCHANGED result
    /\ UNCHANGED <<_dialect, _engine, pool, slot, clocks, stmt, data, silent>>

\* _require_engine, and the deadline of a query.
Start(k) ==
    /\ pc[k] = "start"
    /\ IF _engine \in {"open", "closing"} THEN GoTo(k, "wait") /\ UNCHANGED result
       ELSE End(k, "raised")
    /\ deadline' = [deadline EXCEPT ![k] = IF IsRun(k) THEN Limit ELSE 0]
    /\ UNCHANGED <<_dialect, _engine, pool, todo, slot, timer, ran, stmt, data, silent>>

\* A statement starts under the limit of its connection.
Issue(k, s) ==
    /\ stmt' = [stmt EXCEPT ![k] = IF limit'[s] = None THEN Unlimited ELSE limit'[s]]
    /\ ran' = [ran EXCEPT ![k] = 0]

\* Mistake: The client waits for the grace only.
GraceOnly == IF _dialect \in ServerEnforced THEN Grace ELSE Limit

\* Mistake: Without a limit on the server there is none at all.
NoTimeout == IF _dialect \in ServerEnforced THEN Limit + Grace ELSE None

\* The client's timer: _query_connection's client_timeout.
ClientTimeout == IF _dialect \in ServerEnforced THEN Limit + Grace ELSE Limit

StartTimer(k) == timer' = [timer EXCEPT ![k] = ClientTimeout]

\* The pool hands out an idle connection (or replaces it, if it does not answer a ping)
\* and opens a new one only if there is none.
CheckOut(k) ==
    /\ pc[k] = "wait"
    /\ \E s \in Slots :
          /\ holder[s] = None
          /\ open[s] \/ \A t \in Slots : ~Idle(t)
          /\ open' = [open EXCEPT ![s] = TRUE]
          /\ \/ limit' = [limit EXCEPT ![s] = None] /\ (open[s] => "down" \in Faults)
             \/ open[s] /\ UNCHANGED limit
          /\ holder' = [holder EXCEPT ![s] = k]
          /\ slot' = [slot EXCEPT ![k] = s]
          /\ IF ~IsRun(k)
             THEN GoTo(k, "inspect") /\ Issue(k, s) /\ UNCHANGED timer
             ELSE IF _dialect = "mssql"
                  THEN GoTo(k, "stream") /\ Issue(k, s) /\ StartTimer(k)
                  ELSE GoTo(k, "set") /\ UNCHANGED <<stmt, ran, timer>>
    /\ UNCHANGED <<_dialect, _engine, todo, deadline, data, outcome>>

\* No connection: the pool's own timeout, or a database that is down.  What the driver
\* says becomes a failure, and what the pool or the network says is passed on.
NoConnection(k) ==
    /\ pc[k] = "wait"
    /\ \/ (\A s \in Slots : holder[s] # None) /\ End(k, "raised")
       \/ "down" \in Faults /\ (End(k, "failed") \/ End(k, "raised"))
    /\ UNCHANGED <<_dialect, _engine, pool, todo, slot, clocks, stmt, data, silent>>

\* Mistake: A connection that has a limit keeps it.
OwnLimitOnce(k) == IF limit[slot[k]] # None THEN limit[slot[k]]
                   ELSE IF _dialect = "sqlite" THEN deadline[k] ELSE Limit

\* Mistake: MariaDB is given milliseconds for seconds, which is no limit at all.
OwnLimitInMilliseconds(k) ==
    CASE _dialect = "sqlite" -> deadline[k]
      [] _dialect = "mysql" -> None
      [] OTHER -> Limit

\* set_config, SET SESSION, set_progress_handler
OwnLimit(k) == IF _dialect = "sqlite" THEN deadline[k] ELSE Limit

SetLimit(k) ==
    /\ pc[k] = "set"
    /\ limit' = [limit EXCEPT ![slot[k]] = OwnLimit(k)]
    /\ GoTo(k, "stream") /\ Issue(k, slot[k]) /\ StartTimer(k)
    /\ UNCHANGED <<_dialect, _engine, open, holder, todo, slot, deadline, data, outcome>>

--------------------------------------------------------------------------------
(* The statement *)

\* It is over, one way or the other: its progress handler is taken off, if there is one.
Finish(k, how) ==
    /\ GoTo(k, IF IsRun(k) /\ _dialect = "sqlite" /\ open'[slot[k]] THEN "clear" ELSE "back")
    /\ result' = [result EXCEPT ![k] = how]
    /\ timer' = [timer EXCEPT ![k] = None]

\* conn.stream has its answer, or fetchmany some of the rows.  Postgres counts the time
\* of every message anew.
Stream(k) ==
    /\ pc[k] = "stream" \/ (pc[k] = "fetch" /\ _dialect = "postgresql")
    /\ GoTo(k, "fetch")
    /\ stmt' = [stmt EXCEPT ![k] = IF _dialect = "postgresql" THEN limit[slot[k]] ELSE @]
    /\ UNCHANGED <<_dialect, _engine, pool, todo, slot, clocks, data, outcome>>

\* result.fetchmany(max_rows + 1), of n rows
Fetched(n) == IF n <= max_rows THEN n ELSE max_rows + 1

Fetch(k) ==
    /\ pc[k] = "fetch"
    /\ \E n \in 0 .. max_rows + 2 :
          /\ there' = [there EXCEPT ![k] = n]
          /\ rows' = [rows EXCEPT ![k] = IF Fetched(n) > max_rows THEN max_rows ELSE Fetched(n)]
          /\ truncated' = [truncated EXCEPT ![k] = Fetched(n) > max_rows]
    /\ stmt' = [stmt EXCEPT ![k] = None]
    /\ UNCHANGED <<_dialect, _engine, pool, todo, slot, deadline, ran, silent>>
    /\ Finish(k, "ok")

\* _reflect ends: with what it read, without the table, or, when a table that was looked up
\* is gone by now, with SQLAlchemy's own error.
Inspect(k) ==
    /\ pc[k] = "inspect"
    /\ stmt' = [stmt EXCEPT ![k] = None]
    /\ UNCHANGED <<_dialect, _engine, pool, todo, slot, deadline, ran, data, silent>>
    /\ \/ Finish(k, "ok")
       \/ Len(todo[k]) = 2 /\ Finish(k, "not_found")
       \/ Len(todo[k]) = 1 /\ Finish(k, "raised")

\* _translate: what is said of a statement that the server stopped at its limit.  What
\* MariaDB says of one is not among the words it looks for.
Translated(k) ==
    IF _dialect = "sqlite" /\ (~IsRun(k) \/ deadline[k] > 0) THEN {"failed"}
    ELSE IF _dialect = "mysql" THEN {"timeout", "failed"}
    ELSE {"timeout"}

\* The server stops a statement at its limit.
ServerStops(k) ==
    /\ stmt[k] = 0
    /\ stmt' = [stmt EXCEPT ![k] = None]
    /\ UNCHANGED <<_dialect, _engine, pool, todo, slot, deadline, ran, data, silent>>
    /\ IF pc[k] \in Running
       THEN \E how \in Translated(k) : Finish(k, how)
       ELSE UNCHANGED <<pc, result, timer>>   \* nobody waits for it any more

\* A statement that nobody waits for ends, because it is done or was told to.
OrphanEnds(k) ==
    /\ stmt[k] # None /\ pc[k] \notin Running
    /\ stmt' = [stmt EXCEPT ![k] = None]
    /\ UNCHANGED <<_dialect, _engine, pool, pc, todo, slot, clocks, data, outcome>>

\* The wait for a statement is abandoned: its connection is dropped, it may run on.
Abandon(k, how) ==
    /\ open' = [open EXCEPT ![slot[k]] = FALSE]
    /\ Finish(k, how)
    /\ UNCHANGED <<limit, holder, stmt>>

\* asyncio.timeout fires.
ClientStops(k) ==
    /\ timer[k] = 0
    /\ Abandon(k, "timeout")
    /\ UNCHANGED <<_dialect, _engine, todo, slot, deadline, ran, data, silent>>

\* The database refuses the statement or the setting of the limit, or is gone.
DbError(k) ==
    /\ "down" \in Faults
    /\ pc[k] \in Running \cup {"set"}
    /\ open' = [open EXCEPT ![slot[k]] = FALSE] \/ UNCHANGED open
    /\ IF pc[k] = "set"
       THEN GoTo(k, "back") /\ result' = [result EXCEPT ![k] = "failed"] /\ UNCHANGED timer
       ELSE Finish(k, "failed")
    /\ stmt' = [stmt EXCEPT ![k] = None]
    /\ UNCHANGED <<_dialect, _engine, limit, holder, todo, slot, deadline, ran, data, silent>>

\* The network times out while a connection is made, set up or read from: a TimeoutError too,
\* which `except TimeoutError` does not tell from the client's timer.
NetworkTimesOut(k) ==
    /\ "down" \in Faults /\ _dialect # "sqlite"
    /\ silent' = [silent EXCEPT ![k] = TRUE]
    /\ LET said == IF IsRun(k) THEN "timeout" ELSE "raised"
       IN  \/ /\ pc[k] = "wait"
              /\ End(k, said)
              /\ UNCHANGED <<pool, timer, stmt>>
           \/ /\ pc[k] = "set"
              /\ open' = [open EXCEPT ![slot[k]] = FALSE]
              /\ GoTo(k, "back") /\ result' = [result EXCEPT ![k] = said]
              /\ UNCHANGED <<limit, holder, timer, stmt>>
           \/ pc[k] \in Running /\ Abandon(k, said)
    /\ UNCHANGED <<_dialect, _engine, todo, slot, deadline, ran, data>>

--------------------------------------------------------------------------------
(* Giving the connection back, and cancellation *)

\* cleanup(): the progress handler is taken off.
Clear(k) ==
    /\ pc[k] = "clear"
    /\ limit' = [limit EXCEPT ![slot[k]] = None]
    /\ GoTo(k, "back")
    /\ UNCHANGED <<_dialect, _engine, open, holder, todo, slot, clocks, stmt, data, outcome>>

\* What is left on a connection when its transaction is rolled back.
LeftOn(s) == IF open'[s] /\ _dialect # "postgresql" THEN limit[s] ELSE None

\* The connection goes back to the pool it is from.
Return(k) ==
    /\ holder' = [holder EXCEPT ![slot[k]] = None]
    /\ UNCHANGED open
    /\ limit' = [limit EXCEPT ![slot[k]] = LeftOn(slot[k])]
    /\ slot' = [slot EXCEPT ![k] = None]

\* The use is over, and with it the call unless there is another.
NextUse(k) ==
    /\ IF result[k] = "ok" /\ Len(todo[k]) > 1
       THEN /\ GoTo(k, "start")
            /\ todo' = [todo EXCEPT ![k] = Tail(@)]
            /\ result' = [result EXCEPT ![k] = "none"]
       ELSE GoTo(k, "over") /\ UNCHANGED <<todo, result>>

\* Mistake: Only a connection whose use went well is given back.
BackIfOk(k) ==
    /\ pc[k] = "back"
    /\ IF result[k] = "ok" THEN Return(k) ELSE UNCHANGED <<pool, slot>>
    /\ NextUse(k)
    /\ UNCHANGED <<_dialect, _engine, clocks, stmt, data, silent>>

Back(k) ==
    /\ pc[k] = "back"
    /\ Return(k)
    /\ NextUse(k)
    /\ UNCHANGED <<_dialect, _engine, clocks, stmt, data, silent>>

\* The request is cancelled.  A progress handler that was asked for is installed, and one
\* that was asked to go goes, but nobody takes off the former.
Cancel(k) ==
    /\ "cancel" \in Faults
    /\ result[k] # "cancelled"
    /\ \/ /\ pc[k] = "wait"
          /\ End(k, "cancelled")
          /\ UNCHANGED <<pool, timer, stmt>>
       \/ /\ pc[k] = "set"
          /\ IF _dialect = "sqlite"
             THEN limit' = [limit EXCEPT ![slot[k]] = OwnLimit(k)] /\ UNCHANGED open
             ELSE open' = [open EXCEPT ![slot[k]] = FALSE] /\ UNCHANGED limit
          /\ GoTo(k, "back") /\ result' = [result EXCEPT ![k] = "cancelled"]
          /\ UNCHANGED <<holder, timer, stmt>>
       \/ pc[k] \in Running /\ Abandon(k, "cancelled")
       \/ /\ pc[k] = "clear"
          /\ limit' = [limit EXCEPT ![slot[k]] = None]
          /\ GoTo(k, "back") /\ result' = [result EXCEPT ![k] = "cancelled"]
          /\ UNCHANGED <<open, holder, timer, stmt>>
       \/ /\ pc[k] = "back"
          /\ result' = [result EXCEPT ![k] = "cancelled"]
          /\ UNCHANGED <<pool, timer, stmt, pc>>
    /\ UNCHANGED <<_dialect, _engine, todo, slot, deadline, ran, data, silent>>

\* The caller has its answer; the process will make other calls.
Leave(k) ==
    /\ pc[k] = "over" /\ stmt[k] = None
    /\ GoTo(k, "idle") /\ result' = [result EXCEPT ![k] = "none"]
    /\ todo' = [todo EXCEPT ![k] = <<>>]
    /\ deadline' = [deadline EXCEPT ![k] = 0] /\ ran' = [ran EXCEPT ![k] = 0]
    /\ there' = [there EXCEPT ![k] = 0] /\ rows' = [rows EXCEPT ![k] = 0]
    /\ truncated' = [truncated EXCEPT ![k] = FALSE]
    /\ silent' = [silent EXCEPT ![k] = FALSE]
    /\ UNCHANGED <<_dialect, _engine, pool, slot, timer, stmt>>

--------------------------------------------------------------------------------

\* What the adapter and the timers do by themselves.
Proceed(k) ==
    \/ Start(k) \/ CheckOut(k) \/ NoConnection(k) \/ SetLimit(k)
    \/ ServerStops(k) \/ ClientStops(k) \/ Clear(k) \/ Back(k)

\* What the database does.
Serve(k) == Stream(k) \/ Fetch(k) \/ Inspect(k) \/ OrphanEnds(k) \/ DbError(k) \/ NetworkTimesOut(k)

Next ==
    \/ Tick
    \/ Connect
    \/ Close \/ Dispose \/ Closed \/ Collect
    \/ \E k \in Calls : Begin(k) \/ Proceed(k) \/ Serve(k) \/ Cancel(k) \/ Leave(k)

Spec == Init /\ [][Next]_vars

\* Time passes, timers fire, the pool serves its waiters, and the database answers all that
\* the client keeps no time for: a ping, the setting of a limit, a rollback, a schema read.
\* A query it may leave without an answer for ever.
FairSpec ==
    /\ Spec
    /\ WF_vars(Tick)
    /\ \A k \in Calls : WF_vars(Proceed(k)) /\ WF_vars(Inspect(k)) /\ WF_vars(OrphanEnds(k))

--------------------------------------------------------------------------------
(* Properties *)

TypeOK ==
    /\ _dialect \in Dialects
    /\ _engine \in {"none", "open", "closing", "closed"}
    /\ open \in [Slots -> BOOLEAN]
    /\ limit \in [Slots -> 0 .. Limit \cup {None}]
    /\ holder \in [Slots -> Calls \cup {None}]
    /\ pc \in [Calls -> Awaits]
    /\ todo \in [Calls -> {<<>>, <<"reflect">>, <<"run">>} \cup {Program[op] : op \in DOMAIN Program}]
    /\ slot \in [Calls -> Slots \cup {None}]
    /\ deadline \in [Calls -> 0 .. Limit]
    /\ timer \in [Calls -> 0 .. Limit + Grace \cup {None}]
    /\ stmt \in [Calls -> 0 .. Limit \cup {None, Unlimited}]
    /\ ran \in [Calls -> 0 .. MostTicks]
    /\ there \in [Calls -> 0 .. max_rows + 2]
    /\ rows \in [Calls -> 0 .. max_rows]
    /\ truncated \in [Calls -> BOOLEAN]
    /\ silent \in [Calls -> BOOLEAN]
    /\ result \in [Calls -> Results]

\* A connection is checked out to a call exactly as long as the call uses it: whatever
\* ends the use, a timeout, a cancellation or a database error, it is given back, also when
\* the adapter is closed between any two steps of the call.
SlotsAreHeld ==
    \A s \in Slots : \A k \in Calls : holder[s] = k <=> (slot[k] = s /\ pc[k] \in Holding)

\* On an engine that keeps a time limit, a query runs under its own limit, whatever an
\* earlier query left on the pooled connection it got; and a schema read on Postgres or SQL
\* Server never runs under the limit of a query.  (On MySQL it may, and on SQLite after a
\* cancellation.)
LimitIsItsOwn ==
    \A k \in Calls :
        /\ pc[k] \in {"stream", "fetch"} /\ _dialect \in ServerEnforced =>
              limit[slot[k]] = IF _dialect = "sqlite" THEN deadline[k] ELSE Limit
        /\ pc[k] = "inspect" /\ _dialect \in {"postgresql", "mssql"} => stmt[k] = Unlimited

\* The database stops a query in the end, also one that nobody waits for any more.  On
\* Postgres its messages may take until the client's timer, and the last one its full time.
StatementsEnd ==
    \A k \in Calls :
        /\ _dialect = "postgresql" => ran[k] <= 2 * Limit + Grace
        /\ _dialect \in {"mysql", "sqlite"} => ran[k] <= Limit

\* What is reported of a query is true.  It is said to have exceeded its limit only when that
\* much time has gone by since it asked for its connection, or the network timed out, which
\* is reported in the same words: not for a cancellation, the limit of another query or a
\* database that is down.  A result says that it leaves rows out exactly if it does.  (Of a
\* schema read this is not so: one that MySQL stops at the limit an earlier query has left
\* is said to have exceeded a limit of 0 seconds.)
ReportsAreTrue ==
    [][\A k \in Calls : IsRun(k) /\ result'[k] # result[k] =>
          /\ result'[k] = "timeout" => deadline[k] = 0 \/ silent'[k]
          /\ result'[k] = "ok" => (truncated'[k] <=> rows'[k] < there'[k])]_vars

\* Every call comes to an end, although the database may never answer a query that has
\* begun, nobody gives way in the pool and the adapter may be closed meanwhile.
QueriesEnd == \A k \in Calls : pc[k] = "start" ~> pc[k] = "over"
================================================================================
