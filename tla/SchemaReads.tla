------------------------------ MODULE SchemaReads ------------------------------
(***************************************************************************)
(* What the MCP tools and the console's description editor say of the     *)
(* tables of one connection: the structure cache of cached_adapter.py     *)
(* over the target database, keyed by the connection's edit and by the    *)
(* SCHEMA version, and the operations that put several reads together     *)
(* (schema_service.py, the GUI's routers/schema.py), while the target's   *)
(* structure changes, the connection is edited and entries expire.        *)
(*                                                                        *)
(* The pool, the drivers and the time limits below are SqlAdapter's, the  *)
(* grants and the audit above ToolCall's, the breaker of the cache        *)
(* MetaCache's: a read here may fail, and the cache may not answer.       *)
(* One counter, clock, counts the changes of structure: the tables made,  *)
(* dropped and altered, in any database.                                   *)
(***************************************************************************)
EXTENDS Naturals, FiniteSets, SequencesExt

CONSTANTS
    Tools,        \* tool calls in progress at once, in any MCP server
    Pages,        \* requests in progress at once in the console
    Databases,    \* target databases the connection may be pointed to
    Tables,       \* names of tables
    casefold,     \* the case-insensitive form of a name
    Initially,    \* the sets of tables a database may have at first
    Described,    \* the tables that have had a description at first
    MaxEdits,     \* bound: edits of the connection
    MaxChanges,   \* bound: changes of structure
    MaxRequests,  \* bound: requests
    Faults,       \* which happen: "redis", "target": either fails
    None

ASSUME SchemaReadsAssumption ==
    /\ MaxEdits \in Nat /\ MaxChanges \in Nat /\ MaxRequests \in Nat
    /\ IsFiniteSet(Tables) /\ DOMAIN casefold = Tables /\ Initially \subseteq SUBSET Tables
    /\ Described \subseteq Tables
    /\ Faults \subseteq {"redis", "target"}
    /\ "tables" \notin Tables \cup {casefold[t] : t \in Tables}
    /\ Tools \cap Pages = {} /\ None \notin Nat

VARIABLES
    clock,       \* changes of structure so far
    has,         \* has[d][t]: when table t of database d was made, None if it is not there
    edits,       \* the database each version of the record (updated_at) points to
    owed,        \* the console has an edit to announce
    version,     \* Redis: the SCHEMA version
    entry,       \* Redis: what is stored, by full key
    described,   \* app_meta.schema_descriptions: the tables that have one
    req,         \* the requests, see Requests
    requests,    \* bound: how many there have been
    announced,   \* history: the clock at the last announcement
    real         \* history: tables there have been in the databases of the connection

target == <<clock, has, real>>
redis == <<version, entry>>
console == <<edits, owed, announced>>
vars == <<target, redis, console, described, req, requests>>

Readers == Tools \cup Pages
ToolOps == {"list_tables", "describe_table", "get_relationships"}
PageOps == {"tables_page", "get_table", "set_description"}
Reading == {"get", "load", "reflect"}
Versions == 0 .. MaxEdits
Clocks == 0 .. MaxChanges
Fold(x) == IF x = "tables" THEN x ELSE casefold[x]
FullKeys == Versions \X (1 .. MaxEdits + 1) \X {Fold(x) : x \in Tables \cup {"tables"}}

\* A read gives the list of the tables, or one table, as of the clock when it was loaded.
Lists == [db : Databases, at : Clocks, names : SUBSET Tables]
Structures == [db : Databases, at : Clocks, name : Tables]

\* A request: the await it is in, its operation, the record version of its adapter, the
\* reads it has ahead, the version its cache key is stamped with, what the read gave, the
\* descriptions it had before, and how it ended, with the tables it calls missing.  History:
\* whether there was a time in its read without such a table, and announced as it began.
Requests ==
    [pc : {"idle", "version", "store", "use"} \cup Reading,
     op : ToolOps \cup PageOps \cup {None}, rec : 1 .. MaxEdits + 1,
     ahead : Seq(Tables \cup {"tables"}), ver : Versions \cup {None}, got : Lists \cup Structures \cup {None},
     curated : SUBSET Tables, answer : {"none", "ok", "not_found", "raised"},
     missing : SUBSET Tables, lacked : BOOLEAN, floor : Clocks]

NoRequest ==
    [pc |-> "idle", op |-> None, rec |-> 1, ahead |-> <<>>, ver |-> None, got |-> None,
     curated |-> {}, answer |-> "none", missing |-> {}, lacked |-> FALSE, floor |-> 0]

There(d) == {t \in Tables : has[d][t] # None}

Init ==
    /\ clock = 0
    /\ \E at \in [Databases -> Initially] :
          has = [d \in Databases |-> [t \in Tables |-> IF t \in at[d] THEN 0 ELSE None]]
    /\ described = Described
    /\ \E d \in Databases : edits = <<d>> /\ real = There(d) \cup Described
    /\ owed = FALSE
    /\ version = 0
    /\ entry = <<>>
    /\ req = [r \in Readers |-> NoRequest]
    /\ requests = 0
    /\ announced = 0

--------------------------------------------------------------------------------
(* The target database and the connection *)

\* _lookup: the exact name, else the others that differ from it in case only.
Matches(tables, t) ==
    LET there == {u \in Tables : tables[u] # None}
    IN IF t \in there THEN {t} ELSE {u \in there : casefold[u] = casefold[t]}

Lacks(tables, x) == x # "tables" /\ Cardinality(Matches(tables, x)) # 1

Item(r) == Head(req[r].ahead)

\* The database of the adapter a request was given, which is that of its record.
Adapter(r) == edits[req[r].rec]

\* Somebody creates, alters or drops a table.
Change(d, t) ==
    /\ clock < MaxChanges
    /\ clock' = clock + 1
    /\ has' \in IF has[d][t] = None THEN {[has EXCEPT ![d][t] = clock + 1]}
                 ELSE {has, [has EXCEPT ![d][t] = None]}
    /\ real' = IF (\E v \in DOMAIN edits : edits[v] = d) /\ has'[d][t] # None
               THEN real \cup {t} ELSE real
    /\ req' = [r \in Readers |-> [req[r] EXCEPT
          !.lacked = @ \/ (req[r].pc \in Reading /\ Adapter(r) = d /\ Lacks(has'[d], Item(r)))]]
    /\ UNCHANGED <<redis, console, described, requests>>

\* update_connection commits settings that point elsewhere.
Edit(d) ==
    /\ ~owed /\ Len(edits) <= MaxEdits /\ d # edits[Len(edits)]
    /\ edits' = Append(edits, d)
    /\ owed' = TRUE
    /\ real' = real \cup There(d)
    /\ UNCHANGED <<clock, has, redis, announced, described, req, requests>>

\* announce(schema=True): the version is bumped, unless Redis does not answer.
\* Entries that no request can look up any more are left out of the model.
Announce ==
    /\ owed
    /\ owed' = FALSE
    /\ \/ /\ version' = version + 1 /\ announced' = clock
          /\ entry' = Restrict(entry,
                {k \in DOMAIN entry : \E r \in Readers : req[r].ver = k[1]})
       \/ "redis" \in Faults /\ UNCHANGED <<redis, announced>>
    /\ UNCHANGED <<target, edits, described, req, requests>>

--------------------------------------------------------------------------------
(* One cached read, await by await *)

unread == <<target, console, described, requests>>

\* What an operation reads at first, when it is about table t.
FirstReads(o, t) ==
    CASE o \in {"list_tables", "tables_page"} -> <<"tables">>
      [] o = "get_relationships" -> <<t, "tables">>
      [] OTHER -> <<t>>

\* A request: the pages read the record anew, a tool may be given an older one.
Begin(r) ==
    /\ req[r].pc = "idle"
    /\ requests < MaxRequests
    /\ requests' = requests + 1
    /\ \E o \in IF r \in Pages THEN PageOps ELSE ToolOps, t \in Tables, v \in 1 .. Len(edits) :
          /\ r \in Pages => v = Len(edits)
          /\ req' = [req EXCEPT ![r] = [NoRequest EXCEPT
                !.pc = "version", !.op = o, !.rec = v, !.floor = announced,
                !.ahead = FirstReads(o, t),
                !.curated = IF o = "tables_page" THEN described ELSE {}]]
    /\ UNCHANGED <<target, redis, console, described>>

\* It ends, with an answer or without.
Ended(how, lacked) == [NoRequest EXCEPT !.answer = how, !.lacked = lacked]

\* cache.version: without it the cache is skipped.
Version(r) ==
    /\ req[r].pc = "version"
    /\ \E asked \in {TRUE} \cup {"redis" \notin Faults} :
          req' = [req EXCEPT ![r].pc = IF asked THEN "get" ELSE "load",
                             ![r].ver = IF asked THEN version ELSE None,
                             ![r].lacked = Lacks(has[Adapter(r)], Item(r))]
    /\ UNCHANGED <<unread, redis>>

\* Mistake: The key is stamped when it is used.
FullKeyLate(r) == <<version, req[r].rec, Fold(Item(r))>>

\* full_key: the version, the namespace "<id>:<updated_at>", and what is read
FullKey(r) == <<req[r].ver, req[r].rec, Fold(Item(r))>>

Hit(r) ==
    /\ req[r].pc = "get" /\ FullKey(r) \in DOMAIN entry
    /\ req' = [req EXCEPT ![r].pc = "use", ![r].got = entry[FullKey(r)]]
    /\ UNCHANGED <<unread, redis>>

\* Nothing is stored, it has expired, or Redis does not say.
Miss(r) ==
    /\ req[r].pc = "get"
    /\ \/ entry' = Restrict(entry, DOMAIN entry \ {FullKey(r)})
       \/ "redis" \in Faults /\ UNCHANGED entry
    /\ req' = [req EXCEPT ![r].pc = "load"]
    /\ UNCHANGED <<unread, version>>

\* Mistake: What was loaded without a version is stored all the same.
LoadedStores(r) == "store"

\* Without a version, nothing is stored.
Loaded(r) == IF req[r].ver = None THEN "use" ELSE "store"

LoadTables(r) ==
    /\ req[r].pc = "load" /\ Item(r) = "tables"
    /\ req' = [req EXCEPT ![r].pc = Loaded(r),
          ![r].got = [db |-> Adapter(r), at |-> clock, names |-> There(Adapter(r))]]
    /\ UNCHANGED <<unread, redis>>

\* Mistake: A table that is not in the cached list is not looked up.
KnownCached(r) ==
    LET list == <<req[r].ver, req[r].rec, "tables">>
    IN Matches(has[Adapter(r)], Item(r)) \cap
          IF list \in DOMAIN entry THEN entry[list].names ELSE Tables

\* The tables that the name may stand for, in the list of this moment.
Known(r) == Matches(has[Adapter(r)], Item(r))

\* _lookup: the name becomes the database's own; an unknown or ambiguous one is an error.
LookUp(r) ==
    /\ req[r].pc = "load" /\ Item(r) # "tables"
    /\ IF Cardinality(Known(r)) = 1
       THEN \E t \in Known(r) : req' = [req EXCEPT ![r].pc = "reflect",
               ![r].got = [db |-> Adapter(r), at |-> clock, name |-> t]]
       ELSE req' = [req EXCEPT ![r] = Ended("not_found", @.lacked)]
    /\ UNCHANGED <<unread, redis>>

\* describe_table reads the table on another connection, when it may be gone.
Reflect(r) ==
    /\ req[r].pc = "reflect"
    /\ req' = IF has[Adapter(r)][req[r].got.name] = None
              THEN [req EXCEPT ![r] = Ended("raised", FALSE)]
              ELSE [req EXCEPT ![r].pc = Loaded(r), ![r].got = [@ EXCEPT !.at = clock]]
    /\ UNCHANGED <<unread, redis>>

\* The database does not answer, or the registry has closed the adapter of an old record.
Fails(r) ==
    /\ req[r].pc \in {"load", "reflect"}
    /\ "target" \in Faults \/ req[r].rec < Len(edits)
    /\ req' = [req EXCEPT ![r] = Ended("raised", FALSE)]
    /\ UNCHANGED <<unread, redis>>

\* cache.set
Store(r) ==
    /\ req[r].pc = "store"
    /\ \/ entry' = [k \in DOMAIN entry \cup {FullKey(r)} |->
                       IF k = FullKey(r) THEN req[r].got ELSE entry[k]]
       \/ "redis" \in Faults /\ UNCHANGED entry
    /\ req' = [req EXCEPT ![r].pc = "use"]
    /\ UNCHANGED <<unread, version>>

--------------------------------------------------------------------------------
(* What the operations make of their reads *)

\* get_relationships describes the table, lists the tables, and describes each of them.
Rest(r) ==
    IF req[r].op = "get_relationships" /\ Item(r) = "tables"
    THEN SetToSeq(req[r].got.names) ELSE Tail(req[r].ahead)

Use(r) ==
    /\ req[r].pc = "use"
    /\ req[r].op \notin {"set_description", "tables_page"}
    /\ req' = IF Rest(r) = <<>> THEN [req EXCEPT ![r] = Ended("ok", FALSE)]
              ELSE [req EXCEPT ![r].pc = "version", ![r].ahead = Rest(r),
                               ![r].ver = None, ![r].got = None]
    /\ UNCHANGED <<unread, redis>>

\* Mistake: The description is written under the name that was asked for.
WrittenAsAsked(r) == Item(r)

\* set_description writes under the name the database gives the table.
Written(r) == req[r].got.name

SetDescription(r) ==
    /\ req[r].pc = "use" /\ req[r].op = "set_description"
    /\ described' = described \cup {Written(r)}
    /\ req' = [req EXCEPT ![r] = Ended("ok", FALSE)]
    /\ UNCHANGED <<target, redis, console, requests>>

\* The console's list: described tables that are not listed are called missing.
ShowTables(r) ==
    /\ req[r].pc = "use" /\ req[r].op = "tables_page"
    /\ req' = [req EXCEPT ![r] = [Ended("ok", FALSE) EXCEPT
          !.rec = req[r].rec, !.floor = req[r].floor,
          !.missing = {t \in req[r].curated :
                          \A u \in req[r].got.names : casefold[u] # casefold[t]}]]
    /\ UNCHANGED <<unread, redis>>

--------------------------------------------------------------------------------

Proceed(r) ==
    \/ Version(r) \/ Hit(r) \/ Miss(r) \/ LoadTables(r) \/ LookUp(r) \/ Reflect(r)
    \/ Fails(r) \/ Store(r) \/ Use(r) \/ SetDescription(r) \/ ShowTables(r)

Next ==
    \/ \E d \in Databases : Edit(d) \/ \E t \in Tables : Change(d, t)
    \/ Announce
    \/ \E r \in Readers : Begin(r) \/ Proceed(r)

Spec == Init /\ [][Next]_vars

--------------------------------------------------------------------------------
(* Properties *)

TypeOK ==
    /\ clock \in Clocks /\ announced \in Clocks
    /\ has \in [Databases -> [Tables -> Clocks \cup {None}]]
    /\ edits \in Seq(Databases) /\ Len(edits) \in 1 .. MaxEdits + 1
    /\ owed \in BOOLEAN /\ version \in Versions
    /\ DOMAIN entry \subseteq FullKeys
    /\ \A k \in DOMAIN entry : entry[k] \in IF k[3] = "tables" THEN Lists ELSE Structures
    /\ described \subseteq Tables /\ real \subseteq Tables
    /\ req \in [Readers -> Requests]
    /\ requests \in 0 .. MaxRequests

\* What is said of a connection's tables was read in the database that the record used for
\* the request points to, also while others use the record before or after an edit; and
\* bumping the version forces a re-read: nothing that was loaded before it is served to a
\* request that begins after it, however late the load is stored.
ReadsAreCurrent ==
    \A r \in Readers : req[r].pc = "use" =>
        req[r].got.db = Adapter(r) /\ req[r].got.at >= req[r].floor

\* What is said not to be there was not there.  A table is called not found only if, at some
\* time while it was read, it was not there or its name was ambiguous: errors are never cached.
\* A described table is called missing only if there was a time, since the structures were
\* last announced to have changed before the request began, when the database did not have
\* it: one that was there all along is not, whatever is cached.  (One that was made in that
\* time may be, until the list of the time before it expires.)
AbsenceIsTrue ==
    \A r \in Readers :
        /\ req[r].answer = "not_found" => req[r].lacked
        /\ \A t \in req[r].missing :
              has[Adapter(r)][t] = None \/ has[Adapter(r)][t] > req[r].floor

\* Descriptions do not pile up for names that were never real.
DescriptionsWereReal == described \subseteq real
================================================================================
