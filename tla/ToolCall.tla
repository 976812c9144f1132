-------------------------------- MODULE ToolCall --------------------------------
(***************************************************************************)
(* A tool call from the model, through the services to the audit log:     *)
(* authorize the tool, the connection and the tables, open an adapter,    *)
(* check the request, touch the target database, and write one audit row  *)
(* before the caller gets anything back.                                  *)
(*                                                                        *)
(* Grants change while a call runs.  history is every state the grants of *)
(* the caller have been in, the last one being what Postgres says now and *)
(* the announced one what every cache has been told.  A cached lookup     *)
(* returns any state from the one announced when it began to the current  *)
(* one: that is what FreshLookup promises and MetaCache implements.       *)
(***************************************************************************)
EXTENDS Naturals, Sequences, FiniteSets

CONSTANTS
    Calls,        \* tool calls of one caller
    Tables,       \* tables of the one connection
    Existing,     \* those the target database has
    References,   \* References[t]: tables t has a foreign key to
    ToolsUsed,    \* the tools these calls use
    MaxChanges,   \* bound: how many grants are given or taken away
    Faults,       \* which happen: "database" and "audit" fail, "cancel"
    None

Tools == {"list_connections", "list_tables", "describe_table", "get_relationships",
          "search_schema", "run_query", "explain_query", "get_sample_rows"}

Refusals == {"ToolNotPermitted", "ConnectionNotFound", "TableNotFound"}
Errors == Refusals \cup {"InvalidArgument", "QueryRejected", "DatabaseError"}

ToolCallAssumption ==
    /\ None \notin Errors \cup {"result", "cancelled", "error"}
    /\ Existing \subseteq Tables
    /\ References \in [Tables -> SUBSET Tables]
    /\ ToolsUsed \subseteq Tools
    /\ MaxChanges \in Nat
    /\ Faults \subseteq {"database", "audit", "cancel"}

ASSUME ToolCallAssumption

\* What a caller can hold: the tool of the call, the connection, tables on it.
Grants == {"tool", "connection"} \cup Tables

SqlTools == {"run_query", "explain_query"}
DataTools == SqlTools \cup {"get_sample_rows"}
OneTableTools == {"describe_table", "get_relationships", "get_sample_rows"}

\* The awaits of each tool, in order.
Awaits(tool) ==
    LET open == <<"allowed_tools", "get_connection", "allowed_tables", "adapter_for">>
    IN  CASE tool = "list_connections"  -> <<"allowed_tools", "connections">>
          [] tool = "list_tables"       -> open \o <<"descriptions", "list_tables">>
          [] tool = "describe_table"    -> open \o <<"describe_table", "descriptions">>
          [] tool = "get_relationships" -> open \o <<"describe_table", "list_tables", "others">>
          [] tool = "search_schema"     -> open \o <<"search">>
          [] OTHER                      -> open \o <<"execute">>

VARIABLES
    history,    \* every state of the caller's grants, oldest first
    announced,  \* the position in history the caches have been told of
    ask,        \* per call: the tool, the tables named, whether arguments and SQL are valid
    at,         \* per call: the await it is at, 0 before the service is asked
    phase,      \* per call: "new", "body", "audit" or "over"
    floor,      \* per call: announced when the current lookup began
    began,      \* history: announced when the call began
    access,     \* per call: ConnectionAccess.tables
    outcome,    \* per call: None, "result", "cancelled" or an error
    touched,    \* history: tables the call read from in the target database
    shown,      \* per call: tables its result speaks of
    recorded,   \* per call: AuditRecorder.tables
    rows,       \* the audit log: the rows written for each call
    reply       \* per call: what the caller got

grants == <<history, announced>>
vars == <<grants, ask, at, phase, floor, began, access, outcome, touched, shown, recorded,
          rows, reply>>

Asks == [tool : ToolsUsed, tables : SUBSET Tables, args : BOOLEAN, sql : BOOLEAN]

Init ==
    /\ history \in {<<g>> : g \in SUBSET Grants}
    /\ announced = 1
    /\ ask = [c \in Calls |-> None]
    /\ at = [c \in Calls |-> 0]
    /\ phase = [c \in Calls |-> "new"]
    /\ floor = [c \in Calls |-> 1]
    /\ began = [c \in Calls |-> 1]
    /\ access = [c \in Calls |-> {}]
    /\ outcome = [c \in Calls |-> None]
    /\ touched = [c \in Calls |-> {}]
    /\ shown = [c \in Calls |-> {}]
    /\ recorded = [c \in Calls |-> {}]
    /\ rows = [c \in Calls |-> <<>>]
    /\ reply = [c \in Calls |-> None]

--------------------------------------------------------------------------------
(* The admin console: a grant is given or taken away, and then announced *)

Change ==
    /\ Len(history) <= MaxChanges
    /\ \E g \in Grants :
          LET now == history[Len(history)]
          IN  history' = Append(history, IF g \in now THEN now \ {g} ELSE now \cup {g})
    /\ UNCHANGED <<announced, ask, at, phase, floor, began, access, outcome, touched, shown,
                   recorded, rows, reply>>

Announce ==
    /\ announced < Len(history)
    /\ announced' = Len(history)
    /\ UNCHANGED <<history, ask, at, phase, floor, began, access, outcome, touched, shown,
                   recorded, rows, reply>>

--------------------------------------------------------------------------------
(* The body of a tool *)

Await(c) == Awaits(ask[c].tool)[at[c]]

\* A state of the grants a cached lookup of this call may answer from.
Answers(c) == {history[i] : i \in floor[c] .. Len(history)}

\* The body of the tool ends: with a result, or with an exception.
EndBody(c, how) ==
    /\ phase' = [phase EXCEPT ![c] = "audit"]
    /\ outcome' = [outcome EXCEPT ![c] = how]
    /\ UNCHANGED <<at, floor>>

\* The current await is over: on to the next, or the body ends with a result.
GoOn(c) ==
    IF at[c] = Len(Awaits(ask[c].tool)) THEN EndBody(c, "result")
    ELSE /\ at' = [at EXCEPT ![c] = @ + 1]
         /\ floor' = [floor EXCEPT ![c] = announced]
         /\ UNCHANGED <<phase, outcome>>

\* What the caller gets is an error, before a service is asked: the arguments do not
\* fit the schema of the tool, or there is no caller in the request.
SchemaRejects(c) ==
    /\ phase[c] = "new"
    /\ phase' = [phase EXCEPT ![c] = "over"]
    /\ reply' = [reply EXCEPT ![c] = "error"]
    /\ UNCHANGED <<grants, ask, at, floor, began, access, outcome, touched, shown, recorded,
                   rows>>

\* What the schema lets through and the service refuses before it does anything.
ArgumentsFit(a) == a.tool = "search_schema" => a.args

\* search_schema is the one tool that checks its arguments before anything else.
Begin(c) ==
    /\ phase[c] = "new"
    /\ \E a \in Asks :
          /\ a.tool \in OneTableTools => Cardinality(a.tables) = 1
          /\ a.tool \notin SqlTools \cup OneTableTools => a.tables = {}
          /\ a.tool \notin {"run_query", "get_sample_rows", "search_schema"} => a.args
          /\ a.tool \notin SqlTools => a.sql
          /\ ask' = [ask EXCEPT ![c] = a]
          /\ at' = [at EXCEPT ![c] = 1]
          /\ phase' = [phase EXCEPT ![c] = IF ArgumentsFit(a) THEN "body" ELSE "audit"]
          /\ outcome' = [outcome EXCEPT ![c] = IF ArgumentsFit(a) THEN None
                                              ELSE "InvalidArgument"]
    /\ floor' = [floor EXCEPT ![c] = announced]
    /\ began' = [began EXCEPT ![c] = announced]
    /\ UNCHANGED <<grants, access, touched, shown, recorded, rows, reply>>

In(c, await) == phase[c] = "body" /\ Await(c) = await

\* require_tool, through the cache.
RequireTool(c) ==
    /\ In(c, "allowed_tools")
    /\ \E g \in Answers(c) :
          IF "tool" \in g THEN GoOn(c) ELSE EndBody(c, "ToolNotPermitted")
    /\ UNCHANGED <<grants, ask, began, access, touched, shown, recorded, rows, reply>>

\* get_connection is not cached: it answers from what Postgres says now.
GetConnection(c) ==
    /\ In(c, "get_connection")
    /\ IF "connection" \in history[Len(history)] THEN GoOn(c)
       ELSE EndBody(c, "ConnectionNotFound")
    /\ UNCHANGED <<grants, ask, began, access, touched, shown, recorded, rows, reply>>

AllowedTables(c) ==
    /\ In(c, "allowed_tables")
    /\ \E g \in Answers(c) : access' = [access EXCEPT ![c] = g \cap Tables]
    /\ GoOn(c)
    /\ UNCHANGED <<grants, ask, began, touched, shown, recorded, rows, reply>>

\* Mistake: Only a query's tables are checked, not a table named as an argument.
ObjectionSqlOnly(c) ==
    LET a == ask[c]
    IN  IF ~a.args THEN "InvalidArgument"
        ELSE IF ~a.sql THEN "QueryRejected"
        ELSE IF a.tool \in SqlTools /\ ~(a.tables \subseteq access[c]) THEN "TableNotFound"
        ELSE None

\* What the checks between opening the adapter and using it raise, if anything.
Objection(c) ==
    LET a == ask[c]
    IN  IF ~a.args THEN "InvalidArgument"
        ELSE IF ~a.sql THEN "QueryRejected"
        ELSE IF ~(a.tables \subseteq access[c]) THEN "TableNotFound"
        ELSE None

\* What they leave in the recorder: a query's tables are noted before they are
\* checked, a table named as an argument only afterwards.
Noted(c) ==
    IF Objection(c) = None \/ (ask[c].tool \in SqlTools /\ Objection(c) = "TableNotFound")
    THEN ask[c].tables ELSE {}

AdapterFor(c) ==
    /\ In(c, "adapter_for")
    /\ \/ /\ recorded' = [recorded EXCEPT ![c] = Noted(c)]
          /\ IF Objection(c) = None THEN GoOn(c) ELSE EndBody(c, Objection(c))
       \/ /\ "database" \in Faults
          /\ EndBody(c, "DatabaseError")
          /\ UNCHANGED recorded
    /\ UNCHANGED <<grants, ask, began, access, touched, shown, rows, reply>>

ListConnections(c) ==
    /\ In(c, "connections") \/ In(c, "descriptions")
    /\ GoOn(c)
    /\ UNCHANGED <<grants, ask, began, access, touched, shown, recorded, rows, reply>>

\* The adapter lists every table; the service keeps those the caller may see.
ListTables(c) ==
    /\ In(c, "list_tables")
    /\ GoOn(c)
    /\ IF ask[c].tool = "list_tables"
       THEN /\ shown' = [shown EXCEPT ![c] = Existing \cap access[c]]
            /\ recorded' = [recorded EXCEPT ![c] = Existing \cap access[c]]
       ELSE UNCHANGED <<shown, recorded>>
    /\ UNCHANGED <<grants, ask, began, access, touched, rows, reply>>

Visible(c, ts) == ts \cap access[c]

\* A granted table need not exist.  That the adapter then answers TableNotFound
\* is an error of the database here, not a refusal for want of a grant.
DescribeTable(c) ==
    /\ In(c, "describe_table")
    /\ \E t \in ask[c].tables :
          IF t \in Existing
          THEN /\ touched' = [touched EXCEPT ![c] = @ \cup {t}]
               /\ shown' = [shown EXCEPT ![c] = {t} \cup Visible(c, References[t])]
               /\ GoOn(c)
          ELSE EndBody(c, "DatabaseError") /\ UNCHANGED <<touched, shown>>
    /\ UNCHANGED <<grants, ask, began, access, recorded, rows, reply>>

\* get_relationships then describes each table the caller can see, in turn.
DescribeOthers(c) ==
    /\ In(c, "others")
    /\ touched' = [touched EXCEPT ![c] = @ \cup Visible(c, Existing)]
    /\ shown' = [shown EXCEPT ![c] =
          @ \cup {o \in Visible(c, Existing) : References[o] \cap ask[c].tables # {}}]
    /\ GoOn(c)
    /\ UNCHANGED <<grants, ask, began, access, recorded, rows, reply>>

\* Descriptions of the tables the caller may see, straight from Postgres.
Search(c) ==
    /\ In(c, "search")
    /\ \E hits \in SUBSET access[c] :
          /\ shown' = [shown EXCEPT ![c] = hits]
          /\ recorded' = [recorded EXCEPT ![c] = hits]
    /\ GoOn(c)
    /\ UNCHANGED <<grants, ask, began, access, touched, rows, reply>>

Execute(c) ==
    /\ In(c, "execute")
    /\ IF ask[c].tables \subseteq Existing
       THEN /\ touched' = [touched EXCEPT ![c] = @ \cup ask[c].tables]
            /\ shown' = [shown EXCEPT ![c] = ask[c].tables]
            /\ GoOn(c)
       ELSE EndBody(c, "DatabaseError") /\ UNCHANGED <<touched, shown>>
    /\ UNCHANGED <<grants, ask, began, access, recorded, rows, reply>>

\* The tables the current await reads from.
Reach(c) ==
    IF In(c, "execute") \/ In(c, "describe_table") THEN ask[c].tables \cap Existing
    ELSE IF In(c, "others") THEN Visible(c, Existing)
    ELSE {}

\* The body is broken off at an await, which may have read something by then.
BrokenOff(c, how) ==
    /\ phase[c] = "body"
    /\ EndBody(c, how)
    /\ \E ts \in SUBSET Reach(c) : touched' = [touched EXCEPT ![c] = @ \cup ts]
    /\ UNCHANGED <<grants, ask, began, access, shown, recorded, rows, reply>>

\* Any await on the target database or the metadata store may raise.
Fails(c) == "database" \in Faults /\ ~In(c, "adapter_for") /\ BrokenOff(c, "DatabaseError")

\* The call is cancelled at one of its awaits.
Cancelled(c) == "cancel" \in Faults /\ BrokenOff(c, "cancelled")

--------------------------------------------------------------------------------
(* AuditService.record, after the body *)

\* Mistake: A refusal is an answer, not a failure.
FailureNotRefusal(c) == IF outcome[c] \in Errors \ Refusals THEN outcome[c] ELSE None

\* `except Exception` does not see a cancellation, so failure stays None.
Failure(c) == IF outcome[c] \in Errors THEN outcome[c] ELSE None

Row(c) == [success |-> Failure(c) = None, tables |-> recorded[c]]

Over(c, what) ==
    /\ phase' = [phase EXCEPT ![c] = "over"]
    /\ reply' = [reply EXCEPT ![c] = what]
    /\ UNCHANGED <<grants, ask, at, floor, began, access, outcome, touched, shown, recorded>>

\* What the caller gets once the row is written.
Deserved(c) ==
    IF outcome[c] \in Errors THEN "error" ELSE IF outcome[c] = "cancelled" THEN "none" ELSE "result"

\* Mistake: Only calls that returned are recorded.
WriteAuditOnSuccess(c) ==
    /\ phase[c] = "audit"
    /\ rows' = IF Failure(c) = None THEN [rows EXCEPT ![c] = Append(@, Row(c))] ELSE rows
    /\ Over(c, Deserved(c))

WriteAudit(c) ==
    /\ phase[c] = "audit"
    /\ rows' = [rows EXCEPT ![c] = Append(@, Row(c))]
    /\ Over(c, Deserved(c))

\* Mistake: A failed audit write is only logged.
AuditFailsQuietly(c) ==
    /\ phase[c] = "audit"
    /\ "audit" \in Faults
    /\ UNCHANGED rows
    /\ Over(c, Deserved(c))

\* The write raises; the transaction may have been committed all the same.  An
\* error is passed on, and only the server log tells that its row is missing.
AuditFails(c) ==
    /\ phase[c] = "audit"
    /\ "audit" \in Faults
    /\ \/ UNCHANGED rows
       \/ rows' = [rows EXCEPT ![c] = Append(@, Row(c))]
    /\ Over(c, IF Failure(c) = None THEN "withheld" ELSE "logged_error")

\* The write is itself cancelled: with the rest of a cancelled request, or
\* because the client goes away while the row is being written.
AuditCancelled(c) ==
    /\ phase[c] = "audit"
    /\ "cancel" \in Faults
    /\ \/ UNCHANGED rows
       \/ rows' = [rows EXCEPT ![c] = Append(@, Row(c))]
    /\ Over(c, "none")

--------------------------------------------------------------------------------

Step(c) ==
    \/ RequireTool(c) \/ GetConnection(c) \/ AllowedTables(c) \/ AdapterFor(c)
    \/ ListConnections(c) \/ ListTables(c) \/ DescribeTable(c) \/ DescribeOthers(c)
    \/ Search(c) \/ Execute(c) \/ Fails(c) \/ Cancelled(c)

Audit(c) == WriteAudit(c) \/ AuditFails(c) \/ AuditCancelled(c)

Next ==
    \/ Change \/ Announce
    \/ \E c \in Calls : SchemaRejects(c) \/ Begin(c) \/ Step(c) \/ Audit(c)

Spec == Init /\ [][Next]_vars

--------------------------------------------------------------------------------
(* Properties *)

TypeOK ==
    /\ history \in Seq(SUBSET Grants) /\ announced \in 1 .. Len(history)
    /\ ask \in [Calls -> Asks \cup {None}]
    /\ at \in [Calls -> 0 .. 7]
    /\ phase \in [Calls -> {"new", "body", "audit", "over"}]
    /\ \A f \in {began, floor} : f \in [Calls -> Nat \ {0}]
    /\ \A c \in Calls : began[c] <= floor[c] /\ floor[c] <= announced
    /\ outcome \in [Calls -> Errors \cup {"result", "cancelled", None}]
    /\ \A f \in {access, touched, shown, recorded} : f \in [Calls -> SUBSET Tables]
    /\ rows \in [Calls -> Seq([success : BOOLEAN, tables : SUBSET Tables])]
    /\ reply \in [Calls -> {"result", "error", "logged_error", "withheld", "none", None}]

\* Granted at some moment that a call which began with call c could still see.
HeldSince(c, g) == \E i \in began[c] .. Len(history) : g \in history[i]

(* A result speaks of, and was computed from, only tables that were granted at
   some moment of the call, and the tool and the connection were granted too: a
   grant revoked and announced before the call began is worth nothing, although
   the three lookups are separate and two of them are cached. *)
ResultsWithinGrants ==
    \A c \in Calls :
        /\ \A t \in touched[c] : HeldSince(c, "connection") /\ HeldSince(c, t)
        /\ reply[c] = "result" =>
              /\ HeldSince(c, "tool")
              /\ ask[c].tool # "list_connections" => HeldSince(c, "connection")
              /\ \A t \in shown[c] : HeldSince(c, t)

(* The caller never has a result without a row that says so and, when the
   result is data, names every table it came from: a failing audit store
   withholds the result. *)
NoResultOffTheRecord ==
    \A c \in Calls : reply[c] = "result" =>
        \E i \in DOMAIN rows[c] :
            /\ rows[c][i].success
            /\ ask[c].tool \in DataTools => touched[c] \subseteq rows[c][i].tables

(* A call that was refused for want of a grant never reached the target
   database, and if its row was saved the row says it was refused and, for a
   query, which tables it was reaching for. *)
RefusedUntouched ==
    \A c \in Calls : outcome[c] \in Refusals =>
        /\ touched[c] = {}
        /\ \A i \in DOMAIN rows[c] :
              /\ ~rows[c][i].success
              /\ outcome[c] = "TableNotFound" /\ ask[c].tool \in SqlTools
                     => rows[c][i].tables = ask[c].tables

(* The audit log against what was done.  Whoever got an answer while the audit
   store worked is on record exactly once, unless no service was asked.  However
   a call ended, cancelled ones included, it left one row at most, which names
   every table data was read from and calls a failure what raised: a call that
   was cancelled is down as a success. *)
AnswersAreRecorded ==
    \A c \in Calls :
        /\ reply[c] \in {"result", "error"} => Len(rows[c]) = IF at[c] = 0 THEN 0 ELSE 1
        /\ \A i \in DOMAIN rows[c] :
              /\ i = 1
              /\ rows[c][i].success <=> outcome[c] \in {"result", "cancelled"}
              /\ ask[c].tool \in DataTools => touched[c] \subseteq rows[c][i].tables
================================================================================
