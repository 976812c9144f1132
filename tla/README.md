# Formal verification of the MCP server for SQL agents

TLA+ modules, TLC configurations and TLAPS proofs about the program in `src/`: an
MCP server that lets language models query databases within the grants an admin
gives them, and the admin console that gives them. Paths below are relative to `src/`;
`mcp/` stands for `mcp-server/mcp_sql_server/`, `gui/` for
`gui-backend/gui_backend/`, `web/` for `gui-frontend/src/`.

- [The system](#the-system)
- [Modules, and how they correspond to the code](#modules-and-how-they-correspond-to-the-code)
- [Runs: what is asked and what comes out](#runs-what-is-asked-and-what-comes-out)
- [Bounds](#bounds) · [Fairness](#fairness) · [Proofs](#proofs)
- [What is only model-checked](#what-is-only-model-checked) · [What is not modelled](#what-is-not-modelled)
- [Plan](#plan)

## The system

Two processes share a Postgres database (`app_meta`) and a Redis.

```
 model ──HTTP/stdio──> MCP server (N replicas) ──> target databases
                         │  │  └─ identity provider (keys, introspection)
                         │  └──── Redis: cached metadata, schemas, token answers
                         └─────── Postgres: connections, grants, audit_log
 admin ──browser──> console (React) ──HTTP──> GUI backend ──> Postgres, then Redis (bump)
```

| Component | State it keeps | Operations | What makes it correct |
|---|---|---|---|
| Metadata cache, `mcp/cache/` | Redis: a version counter per family, entries with a TTL under versioned keys; per replica: the circuit breaker | `cached_json`, `version`, `get`, `set`, `bump` | a lookup begun after a change was announced does not miss it; after any loss an outdated answer lives no longer than its TTL |
| Tool services, `mcp/tools`, `mcp/services/{tool,schema,query,permission,audit}_service.py` | none between calls; per call the access it looked up and the audit recorder | eight tools | no result outside the grants, none off the record, refusals before the database |
| Connection registry, `services/connection_registry.py` | dictionary id → (updated_at, adapter), one lock | `adapter_for`, `close` | the adapter fits the record; pools neither leak nor close without cause |
| Token verification, `auth/token_verifier.py` | key set, its age, the JWKS URL, one lock | `verify_token` | how long a withdrawn key is believed, a new one unknown; how often keys are fetched |
| Token introspection, `auth/introspection.py` | Redis: answers with a TTL | `verify_token` | how long a revoked token is believed; never past its expiry |
| Console backend, `gui/routers`, `gui/changes.py` | Postgres rows, `admin_log` | create/update/delete/check of connections; access lists; table and tool grids; descriptions; reports; subjects | grants are logged with the change; a change is announced before it is answered, unless Redis loses the bump; nothing dangles; no deadlock between grids |
| SQL adapter, `mcp/adapters/` | a pool of connections, what is left on each of them, a timer per query | connect, close, query, explain, sample, list, describe | a connection is checked out only to who uses it; a query has its own limit and ends; timeouts and left out rows are reported truly |
| Schema cache, `mcp/cache/cached_adapter.py` | Redis: lists and structures by connection, edit and SCHEMA version | `list_tables`, `describe_table`, what tools and console make of them | nothing from before an announcement or from another database; what was there all along is not called missing |
| Audit store and logs, `services/meta_store.py`, `gui/routers/{audit,me}.py` | `audit_log`, `admin_log`, `known_subjects` | the audit transaction, sign-in, the pages of the log | recorded at once or not at all; no deadlock; paging loses no row |
| Console, `web/` | per page: staged edits, the list they are staged over, requests in flight | stage, save, discard, reload, choose | what it shows is in effect; what it says it saved is saved |
| Validator, sanitizer, serialization, secrets, caller identity | none | pure functions | not concurrent; tested as functions |

Interactions that matter: the console commits a change and *then* bumps a counter in
Redis, and every replica stamps the keys of what it caches with that counter; a tool call
makes three separate lookups (tool, connection, tables), two of them cached, before it
asks the registry for an adapter; the audit row is written after the work and before the
answer, in one transaction with the subjects it names, whose rows the console writes too;
the query runs on a connection that carries what earlier calls left on it; console requests
read what they are about to change before their transaction begins.

Hard behaviours, each listed with its line under `hazards` in `PROJECT.json`: awaits
between a check and its use; answers stored after they have become outdated; calls to
Redis or to the provider that fail, or time out and are applied anyway; processes that
stop between commit and announcement; cancelled calls; one lock across slow I/O; two
admins with overlapping edits; database locks taken in different orders; client and server
timers that race; rows that are committed in another order than they were numbered in.

## Modules, and how they correspond to the code

`map` in `PROJECT.json` gives the lines of every definition.

**FreshLookup** is the abstract specification of a lookup: between a change and its
announcement an answer may be either, after it only the new one. It has no cache in it.

**MetaCache** is the implementation: `cached_json` with one action per await (`Begin`,
`ReadVersion`, `Get…`, `Load`, `Store…`), over a Redis in which a call of a replica can fail
and trip the breaker, or fail at the client and still be applied; `Commit` and `Announce`
are the console's two steps; a crash can lose the second. Redis can restart from a
snapshot. An answer is represented by how often it had changed when it was read, so
"older" is "smaller". Entries age by `Tick`. The refinement mapping `Shown` hides the
cache: a reader is idle, has asked, or has been answered.

**ToolCall** is a tool call end to end. `Awaits` gives the awaits of each of the eight
tools in order; each is a step in which the grants may have changed. A cached lookup may
return any state of the grants from the one announced when it began to the current one:
that is `FreshLookup`, so this module stands on what MetaCache is proved to give. The
audit recorder, the refusals, the database's failures, cancellation anywhere and a failing
audit store are in it. A call whose arguments do not fit the tool's schema is answered before a
service is asked, and leaves no row (`SchemaRejects`). The run has one call at a time: calls of one caller share only the
grants, which the environment changes freely; the theorems are for any number. What it takes
as one await is a module of its own below: the registry, the adapter, the cached structures,
the audit transaction.

**ConnectionRegistry** is the dictionary of adapters and its lock: reading the record,
taking the lock, closing the outdated pool, opening a new one, using it, with failures and
cancellation at every await, edits by the admin and the shutdown. An adapter is named
after the call that opened it. `close()` at shutdown is one step.

**AdminChanges** is every request of the console that writes. A request is the list of
statements its handler runs, executed one at a time against a Postgres that is modelled
as far as the handlers can tell (READ COMMITTED, row locks, foreign keys, waiting, aborts);
then the commit, then the announcement: one bump for each cache family that keeps the row, each of which
Redis may lose (`RedisCache.bump` swallows the error, and the request succeeds), and the process may stop
before either. A cascading delete takes its rows in one step.
`updated_at` is in ConnectionRegistry instead.

**SqlAdapter** is one adapter: the pool (an idle connection, else a new one, else wait), the
limit a query sets on its connection and what the end of the transaction leaves of it on each
of the four engines, the server that stops a statement at its limit, the client's
`asyncio.timeout`, the network's own timeouts, cancellation in every await, `_translate`, and `close`
while calls are under way: it disposes of the connections that are idle, and those in use go back to the
pool that was disposed of, and stay open until it is garbage (`Collect`). A call is one or two *uses* of a connection (`sample_rows` looks the table up and
then queries). Time is counted in ticks, and waits for timers that are due.

**SchemaReads** is `cached_adapter.py` and those who read through it: the model's tools, the console's
tables page and description editor. A key carries the SCHEMA version, the edit of the record and
the case-folded name; entries expire at any moment; the target's tables are created, altered and dropped
by somebody else, each at its own time (`clock`), and the connection is pointed to another database.

**AtomicAudit, AuditTrail, AuditPages**: what the logs promise (a row and the subjects it
names, at once or not at all); the transactions that write them, statement by statement over the row
locks of `known_subjects`, with `INSERT … ON CONFLICT` doing nothing, or waiting and then seeing what
was committed; and the audit page that reads them, one statement for the count
and one for the rows. AuditTrail EXTENDS AtomicAudit, because it has the same variables and
more: the refinement mapping is the identity, and a step is the commit or a stutter.

**VerifierSettings, JwtVerifier, IntrospectionVerifier, TokenVerification**: the two ways
to verify a token, and the choice between them (`build_token_verifier`), composed by
INSTANCE under a variable `mode`. `FlightTime` bounds how long an answer of the provider
is under way, which in the code is the HTTP client's timeout.

**GrantsPage** is the console's permission page in one browser tab: `useStagedGrid.ts`
over `useAsync.ts`, for the grids of tables and of tools alike (a *place* is a database or
the tools; a cell is a subject and what it may use). Its state is React's: the list that was
loaded, the load under way, the changes staged over it, the dialog, busy, failed. A save
goes on as a list of requests whether or not its grid is still there; requests fail, or
take effect and their answer is lost; `Leave` goes to the other tab or to another page
and back; `Elsewhere` is another admin. A new load aborts the one before it, so one load is
under way at most. `behind`, `applied`, `contested` and `named` are history: what was
changed behind the page, and what the dialog said.

**…Proofs** modules extend the module they are about and TLAPS. **MC…** modules give the
small constants.

## Runs: what is asked and what comes out

| Run | Question | Result |
|---|---|---|
| `meta_cache_fresh` | Is a change in effect for every lookup that begins after it was announced, whatever interleaves and whichever Redis calls fail? Does the cache refine `FreshLookup`? | yes |
| `meta_cache_stale` | When announcements are lost or Redis goes back in time: how long can an outdated answer be served, and does it end? | at most its TTL; yes |
| `tool_call` | Are results within the grants and on record, who got an answer recorded once and as it went, and refusals stopped short of the database? | yes |
| `registry` | Is an adapter ever the wrong one, lost, or closed without cause; does every caller get an answer? | no; yes |
| `admin_changes` | Two concurrent requests of every kind, with bumps that Redis loses and a console that dies: integrity, logging of grants, announcement (unless the request's own bump failed), checks that take back no edit, deadlock of grids | all hold |
| `admin_unlogged_edit` | Is every changed setting in the log? | no: the log row is computed from a row read before the transaction |
| `token_verification` | How outdated can either verifier be, how often does it fetch keys, is every token decided? | within the bounds the settings give; every one |
| `grants_page` | Does a loaded page show what is in effect; do tables and tools change only as staged and named, is what is called saved saved, and does saving end, when loads and saves fail and the page is left in between? | yes |
| `grants_page_unnamed` | Is every withdrawal of a database named before it is made? | no: the whole list is written as it was loaded, over what others have granted since |
| `sql_adapter` | Two calls on one connection of each engine, with cancellation, a failing database and the adapter closed meanwhile: is a connection held by the call that uses it and no longer, is a query's limit its own, does it end, is what is reported true? | yes |
| `schema_reads` | What a tool and a console page say of a database that changes, through a cache whose calls fail: nothing outdated, nothing missing that was there all along, no description of a table that never was? | yes |
| `audit_pages` | Transactions of calls, sign-ins and admins, statement by statement: do they record at once (refining `AtomicAudit`), never wait in a circle, and does paging through the log meanwhile show every row? | yes |

The two runs that end in a counterexample quote, in `findings`, the line of the
documentation or comment they contradict.

Every property of a passing run has a mutant in `PROJECT.json`: a plausible slip in the
code under which TLC finds that property violated.

### Bounds

- *MetaCache*: two lookups in two replicas (or in one), two admin requests, one key,
  two changes. What goes wrong in a cache takes a reader with an old load, a reader that
  finds what it stored and a change in between; keys interact only through the shared version
  counter, which one key exercises. The theorems have no such bound.
- *ToolCall*: one call, two tables with a foreign key between them (a result can mention a table through
  another), two changes of grants, which is one between any two of three lookups.
- *ConnectionRegistry*: three calls, two connections, one edit: an old and a new record
  and a third caller waiting. The theorems are for any numbers.
- *AdminChanges*: two requests, one connection, two subjects, two tables. Two rows are
  the least with which two requests can lock in opposite orders; a circle of more grids needs more requests
  and is excluded by the theorem only. The theorems are for any numbers.
- *TokenVerification*: two requests, two keys, one token, durations of one or two ticks,
  ordered as the real ones are (refetch interval < maximal age; negative TTL < TTL < lifetime). Counters stop
  one past the largest value they are compared with.
- *SqlAdapter*: two calls and one connection, so that one waits for what the other leaves;
  a limit of two ticks and a grace of one, which puts every timer before, at and after every other one;
  a row cap of one, with results below, at and above it. The theorems have no such bounds.
- *SchemaReads*: two databases, two names that differ in case only, one tool call and one page
  at a time, two requests, one edit and one change of structure; one table has a description at first, whether
  or not it is there: an entry that is wrong takes one
  reader that loads it, one that finds it and one change between them. The theorems have no such bounds.
- *AuditPages*: two transactions, five kinds of job over three roles (two shared, one
  built in) and two users, four rows of which two are there before, two rows a page, one opening. Two lock orders can
  differ over two roles. The theorems have no such bounds.
- *GrantsPage*: two databases, one with a table and one without, one subject, one
  save under way (which may be one that was left behind), one change elsewhere. What goes
  wrong takes a save of two requests, a grid that is replaced while it runs and a change
  made in between. `grants_page_unnamed` has two subjects and one database.

`MaxChanges`, `MaxEdits`, `MaxUpdates`, `MaxElsewhere`, `MaxRequests`, `MaxRows`, `MaxOpens` and `Lifetime` are the only
bounds on otherwise unbounded counters.

### Fairness

Only liveness properties use it. `FairSpec` asks for

- *MetaCache*: time passes, a lookup that can take its next step takes it, and an
  announcement that can be made is made (each is a coroutine whose await ends, as the Redis
  client has a socket timeout);
- *ConnectionRegistry*: each call inside `adapter_for`, and the use of an adapter, goes on,
  because connecting and closing raise in the end. Taking the lock needs no more than this
  in the runs, as every call takes it once;
- *TokenVerification*: calls to the provider and Redis end (5 s timeout in
  `introspection.py`, the client's in `token_verifier.py`), and a request that keeps finding
  the lock free gets it: strong fairness, because `asyncio.Lock` serves its waiters in
  order;
- *SqlAdapter*: time passes; the pool serves its waiters or times out, and timers fire; a database
  answers all that the client keeps no time for (the ping, setting the limit, the rollback, a schema read) and drops a statement
  nobody waits for. That is an assumption about the database: those awaits are outside `asyncio.timeout`
  (`adapters/sqlalchemy_adapter.py:312-324`), and one that falls silent in them holds the call until the network gives up.
  A query may be left without an answer for ever. That it ends is then the work of the timers. Weak fairness is enough for a waiter, because
  the pool's own timeout can end its wait at any moment at which it has no connection for it;
- *GrantsPage*: a save that is running takes its next step: the browser answers or fails every request.

## Proofs

All are checked by `tlapm` for every value of the constants that satisfies the
assumptions named in the modules.

- **MetaCacheProofs**. `TypeCorrect`. `LookupsAreFresh` and `BumpOrphans`, if Redis does not go back in time, by
  the inductive invariant `FreshInv`: `Fresh` alone says only what a finished lookup
  returned, so it is strengthened with what can still be found and with what is on its
  way. Nothing is stored above the current version; whatever a lookup under way will store or find under the version
  it read is new enough for every lookup that read the same version. A bump then takes every later
  lookup to keys nobody has written. Both are about changes that were
  announced: `bump` swallows its errors, the request then succeeds unannounced, and what `meta_cache_stale`
  shows is all that is left of the promise. `CacheKeepsPromise`: the
  initial states and the steps of the cache are those of `FreshLookup`; `RealInv` (nothing is
  cached that Postgres never said) gives the upper bound of what an answer may be.
  `ServedOnlyWithinTtl` holds whatever fails, restarts of Redis included, by `AgesInv`: how long a stored
  value has been outdated and how long its entry still lives add up to no more than its TTL,
  in Redis and in its snapshot. That a load and its store fall in one tick is in the model (`Tick`).
- **ConnectionProofs** is about two modules. ConnectionRegistry: `RegistryTypeCorrect`, `PoolsDoNotLeak`,
  `AdapterMatchesRecord` and `InterruptionsHaveACause`, from `RegistryInv`: what is registered is open, and the lock is held
  exactly by the call between looking up the dictionary and writing it, so what it saw
  there is still there. The last one adds that a closed pool has its reason, the call that came
  with another edit, and that whoever is closing one has it already (`ClosedForCause`).
  SchemaReads: `ReadsTypeCorrect`, `NothingStaleIsRead`, `NothingIsMissed` and `DescribedTablesAreReal`,
  from `ReadsInv`. What was read and what is stored is true of its database as of when it was read
  (`ToldTrue`: a list has every table that is there but those made since); what is stored under the
  present version is from after the last announcement (`EntriesTrue`); and whatever is, or is
  about to be, stored under the version that a request has read is new enough for that request
  (`HitsOwed`). A load that is stored late goes under the version read before it, which no later request
  looks up. `NothingIsMissed` follows: what a list that is not
  older than the last announcement lacks was not there when it was read. That the version never runs ahead of the edits (`Bumps`) is the bound of its type.
- **TokenVerificationProofs**. `WithdrawnExpire`, `NewKeysKnown`, `FetchesAreSpaced` and `RevokedTokensExpire`,
  from `VerifiersKeepTime`: whichever verifier was built satisfies its own invariant, and the other
  is never asked. Of the key set: the process holds the keys the provider had at most `age + FlightTime`
  ago, and an answer in flight is as old as its flight; the two properties about keys follow because
  `verify_token` looks at the age before it believes a key, and again before it says that there
  is none (`WhereItEnds`, `MissingIsNew`). The spacing of fetches needs that the age since the last answer and the time
  since the last fetch do not drift apart (`QuietSince`). Of introspection: an answer
  under way that says "active" is out of date by no more than it has been under way, and a cached one
  by no more than what is missing from its time to live, plus one flight: so a late store over a
  newer answer is harmless. Needs `MinRefetch <= MaxAge` (10 s and 10 min in the code).
- **ToolCallProofs**. `ToolCallTypeCorrect`, `CallsStayWithinGrants`, `ResultsAreOnRecord`,
  `RefusalsTouchNothing`, `AnswersAreOnRecord` (an answer has its row, unless the audit store failed or the
  arguments did not fit the schema; no call, cancelled or not, has two), for any number of calls and changes, from `ToolCallInv`: the
  types and, per call, what its phase says of it, that every lookup behind it found what
  was granted at a moment the call could see (`Held`; once so, always so, as the grants' history only
  grows), that it touches and shows only what it found (`Kept`), and that row and reply tell the outcome (`Told`).
- **SqlAdapterProofs**. `AdapterTypeCorrect`, `SlotsAreGivenBack`, `QueriesKeepTheirLimit`, `StatementsAreStopped`,
  `ReportsTellTheTruth`, for any pool, limit, grace and row cap, from `AdapterInv`. What a pooled connection
  carries (`PoolLimits`), that the client's timer does not run ahead of the deadline (`Timed`) and the server does not
  either (`Asked`), and that what a query has run and what it is still allowed add up to no more than
  its bound (`Bounded`): the race of the two timers cannot be lost by the truth, whoever wins. A timeout
  of the network is the one that is reported without the time having passed (`silent`).
- **AuditTrailProofs**. `TransactionsRecordAtOnce` is the refinement of `AtomicAudit` by `AuditInv`: a
  transaction holds the name that is due for each subject it has passed, or had nothing to write, and
  ids are drawn once. `NobodyWaitsInACircle`: what a transaction holds comes before what it waits for
  (`NotesInOrder`), so whoever waits for the last role that is waited for waits for somebody who waits for
  a later one; for any number of writers, and finitely many roles. `TrailTypeCorrect` is `AuditInv` itself.
  `PagingMissesNothing`: a row that was there when the log was opened, and has not been seen, has
  at least as many rows before it as the pages so far had places for (`Unseen`). Rows that are committed meanwhile
  only push it back, and on the last page there is nothing left behind it, unless a row was committed between its count and
  its rows: the count is then outdated, and the pager may stop one page early. It needs that a page of the console is no longer than what the backend gives at most
  (`PAGE_SIZE <= max_page_size`, 50 and 200 in the code).
- **AdminChangesProofs**. `NoReferenceDangles` from `RowsInv` (`RowsStay`): a row is written by one transaction at a time;
  a transaction that depends on a connection sees it, and nobody is deleting it (`ParentsStay`); what
  it adds below one depends on that one (`ChildrenDepend`); and who deletes a connection deletes
  all there is below it (`DeletesTakeAll`). `AnnouncedFirst`: a committed change that is still
  `unannounced` belongs to a request that has the bump ahead, or has lost it (`NotYetAnnounced`). `ChecksEditNothing`: a check that waits for the row
  of an edit sees what the edit committed (`ChecksKeep`). `GridsNeverDeadlock`: a
  grid changes its rows in the order of `Earlier`, and only rows that it really changes (`GridsInOrder`), so whoever waits
  is to write a row after all it has written; of any set of grids, the one that has written the last row waits for
  none of the others: no circle, of any length. `GrantsGoOnRecord`:
  a grid commits with a longer log and what it was asked for. For any number of requests of every
  kind, connections, subjects and tables, if there are finitely many rows and every request that
  may be made is one of the handlers' (`AdminAssumption`).
- **GrantsPageProofs**. `GrantsTypeCorrect`, `PageShowsWhatIsInEffect`, `SavesChangeAsStaged`
  and `SaidSavedIsSaved`, from `GrantsInv`, for any number of saves at once, where the run
  has one. A save is described by what it was started with (`SavesAsConfirmed`: what it
  revokes was named, the list it sends is what it wants), by what its finished requests have
  done (`DoneIsInEffect`, while nobody else writes), and by what it leaves the page with
  (`LoadsCurrent`: unless a save has changed the place and goes on, the load under way and the
  list on screen are right, because a save that ends either loads again or leaves `behind`
  set). Two parts are only there to make these inductive: a grid saves once at a time, and
  the dialog goes with its grid. Assumes that no subject is the `Use` column.

## What is only model-checked

Liveness under fairness (`Converges`, `EveryCallEnds`, `EveryVerifyEnds`, `QueriesEnd`,
`SavingEnds`) and anything about ENABLED are beyond the prover, as are induction over data and RECURSIVE operators;
the proved modules use neither. Every other property of a passing run is a theorem. The two findings
are counterexamples, so there is nothing to prove about them.

## What is not modelled

`components` in `PROJECT.json` lists every part. Left out for good: the SQL validator's
walk over the syntax tree (a verdict in ToolCall), the sanitizer's regular expressions, serialization,
encryption, claim mapping, rendering, charts, single reads of the console (health, filter values, one log entry), set-up
scripts and proxies: they are pure or do no more than I/O. SQLAlchemy, Redis,
Postgres and the identity provider are modelled from how the code uses them.

Details left out of modelled parts: a `dispose()` that fails during shutdown; a Redis `set` of the
introspection cache that is applied after its caller gave up (MetaCache has that fault);
conversion of column types and query plans; on the permission page, the lists of
databases and of subjects (fixed), a request that is sent once more after a 401 (no
different from a slow one), what labels and counts say.

Where the code and what the repository says of it part, in the models but without a run that ends in the counterexample:

- `mcp-server/README.md:42` says "One row per call, refused ones included": a call whose arguments do not fit the
  schema of its tool leaves none (`SchemaRejects`), and a call that is cancelled while its row is written may leave none
  (`services/audit_service.py:54`); one that is cancelled in its body is recorded as a success;
- `gui-backend/README.md:60` says "Changes take effect immediately": after a lost bump (`cache/redis_cache.py:92`) they do
  when the entries expire, which `meta_cache_stale` bounds;
- `gui/routers/schema.py:39` says that `missing` is for "a table the database no longer has": one that was made and described since
  is called missing for as long as an older list is cached (`:145`), and so is one that was described for the database before
  an edit (`:278`), which the present one never had;
- the comment at `adapters/sqlalchemy_adapter.py:368` says "MySQL / MariaDB": MariaDB's message, "(max_statement_time exceeded)",
  does not have the words that are looked for, and is reported as a failure.

What the models have and no property asks about:

- a timeout of the network, while connecting or setting the limit too, is said to be one of the query (`adapters/sqlalchemy_adapter.py:332`); a schema
  read that MySQL stops at a limit left on the connection is said to have exceeded 0 s (`:199`). What a driver's message says otherwise is left out: any
  error whose text has "statement timeout" in it would be reported as a timeout (`:367`);
- a connection that is in use when its adapter is closed stays open until the pool is garbage (`:110`); a schema read
  has no timer of its own (`:194`);
- a caller with an older record closes the newer pool, which is opened again by the next one
  (`services/connection_registry.py:97`); the pool of a connection that was deleted stays open until the
  process stops (`:89`);
- of two replacements of one access list the outcome can be a mixture, and Postgres may abort one
  for a deadlock (`gui/routers/connections.py:399`); two deletions of one connection are both logged (`:304`);
- after a save of which a part failed, Discard leaves the list from before it
  (`web/features/permissions/useStagedGrid.ts:50`); cells staged while a save runs are dropped with it (`:47`); a cell that equals what is
  saved after another load still counts (`staging.ts:27`);
- `get_relationships` fails on a list with a table that is gone (`services/schema_service.py:148`);
- count and rows of a page of the log are read apart (`gui/routers/audit.py:138`), and a `max_page_size` set below the page's
  50 would hide rows (`web/features/audit/AuditPage.tsx:48`).

## Plan

Done: metadata cache; tool call; registry; console changes; token verification; permission page; SQL
adapter; schema cache; audit transaction and log pages; proofs about all of them.

Next, in this order:

1. **AuthProvider**: token refresh in the browser, with the requests that wait for it (`web/auth/AuthProvider.tsx`, `web/api/client.tsx`).
2. An abstract read of a database, without a cache, that SchemaReads is shown to implement, as MetaCache
   is shown to implement `FreshLookup`.
