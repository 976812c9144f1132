------------------------------- MODULE MetaCache -------------------------------
(***************************************************************************)
(* The metadata cache between the MCP server replicas and Postgres: the   *)
(* one look-up pattern cached_json (cache/helpers.py) over a Redis shared *)
(* by every replica and by the admin GUI (cache/redis_cache.py), with the *)
(* GUI's commit-then-announce on the writing side (changes.py).           *)
(*                                                                        *)
(* Only the META family is here: it holds what the CachedMetaStore caches *)
(* and what every announcement bumps.  The SCHEMA counter, which announce *)
(* bumps afterwards for some changes, is read by no lookup of this module.*)
(*                                                                        *)
(* A cached answer is represented by how many times that answer had been  *)
(* changed when it was read: comparing numbers says which is newer.       *)
(***************************************************************************)
EXTENDS Naturals, FiniteSets

CONSTANTS
    Readers,      \* lookups that can be in progress at once (asyncio tasks)
    Replicas,     \* MCP server processes, each with one RedisCache
    ReplicaOf,    \* the process a reader runs in
    Admins,       \* admin GUI requests that can be in progress at once
    Keys,         \* the cache keys: one per (question, subjects fingerprint)
    Ttl,          \* ticks an entry of each key lives
    Cooldown,     \* ticks the circuit breaker stays open
    MaxChanges,   \* bound: how many changes are made in a behaviour
    Faults,       \* which happen: "call" and "bump" fail, the GUI dies ("die"),
                  \* Redis restarts ("crash"), an old entry does not parse ("shape")
    None

MetaCacheAssumption ==
    /\ ReplicaOf \in [Readers -> Replicas]
    /\ Ttl \in [Keys -> Nat \ {0}]
    /\ Cooldown \in Nat \ {0}
    /\ MaxChanges \in Nat
    /\ Faults \subseteq {"call", "bump", "die", "crash", "shape"}
    /\ None \notin Nat \cup [val : Nat, left : Nat]

ASSUME MetaCacheAssumption

VARIABLES
    truth,      \* truth[k]: how often the answer to k has changed in Postgres
    version,    \* Redis: the META version counter; a missing key reads as 0
    entry,      \* Redis: entry[w][k], what is stored for k under version w
    saved,      \* Redis: the last snapshot on disk
    downFor,    \* per replica: ticks until the breaker closes again
    pc,         \* per reader: the await cached_json is at
    key,        \* per reader: the key it looks up
    ver,        \* per reader: the version its full_key is stamped with
    val,        \* per reader: the value it loaded or returns
    admin,      \* per admin request: "idle" or "committed"
    mark,       \* history: what was committed when the admin request committed
    announced,  \* history: the newest change announced, per key
    floor,      \* history: per reader, announced[key] when it began
    staleFor    \* history: staleFor[k][n], ticks since value n was replaced

redis == <<version, entry, saved>>
lookups == <<pc, key, ver, val, floor>>
changes == <<truth, admin, mark, announced>>
vars == <<redis, downFor, lookups, changes, staleFor>>

Changes == 0 .. MaxChanges
Versions == 0 .. MaxChanges
Entries == [val : Changes, left : Nat]
Steps == {"idle", "version", "get", "load", "store", "done"}

Max2(a, b) == IF a >= b THEN a ELSE b
Minus1(n) == IF n = 0 THEN 0 ELSE n - 1
Empty == [w \in Versions |-> [k \in Keys |-> None]]

Init ==
    /\ truth = [k \in Keys |-> 0]
    /\ version = 0
    /\ entry = Empty
    /\ saved = [version |-> 0, entry |-> Empty]
    /\ downFor = [p \in Replicas |-> 0]
    /\ pc = [r \in Readers |-> "idle"]
    /\ key \in [Readers -> Keys]
    /\ ver = [r \in Readers |-> None]
    /\ val = [r \in Readers |-> 0]
    /\ admin = [a \in Admins |-> "idle"]
    /\ mark = [a \in Admins |-> [k \in Keys |-> 0]]
    /\ announced = [k \in Keys |-> 0]
    /\ floor = [r \in Readers |-> 0]
    /\ staleFor = [k \in Keys |-> [n \in Changes |-> 0]]

--------------------------------------------------------------------------------
(* RedisCache: the circuit breaker *)

_available(p) == downFor[p] = 0

\* A Redis call of this replica failed: skip Redis for the cool-down.
_failed(p) ==
    /\ "call" \in Faults
    /\ downFor' = [downFor EXCEPT ![p] = Cooldown]

\* A call that does not reach Redis: the breaker is open, or the call fails.
Unanswered(p) ==
    \/ ~_available(p) /\ UNCHANGED downFor
    \/ _available(p) /\ _failed(p)

--------------------------------------------------------------------------------
(* cached_json, one action per await *)

GoTo(r, step) == pc' = [pc EXCEPT ![r] = step]

\* The coroutine ends: what is left of it is its answer.
End(r, step, v) ==
    /\ GoTo(r, step)
    /\ ver' = [ver EXCEPT ![r] = None]
    /\ val' = [val EXCEPT ![r] = v]

Begin(r) ==
    /\ pc[r] \in {"idle", "done"}
    /\ GoTo(r, "version")
    /\ \E k \in Keys :
          /\ key' = [key EXCEPT ![r] = k]
          /\ floor' = [floor EXCEPT ![r] = announced[k]]
    /\ val' = [val EXCEPT ![r] = 0]
    /\ UNCHANGED <<redis, downFor, ver, changes, staleFor>>

ReadVersion(r) ==
    /\ pc[r] = "version"
    /\ _available(ReplicaOf[r])
    /\ ver' = [ver EXCEPT ![r] = version]
    /\ GoTo(r, "get")
    /\ UNCHANGED <<redis, downFor, key, val, floor, changes, staleFor>>

\* The cache can't say what the version is: it is skipped entirely.
NoVersion(r) ==
    /\ pc[r] = "version"
    /\ Unanswered(ReplicaOf[r])
    /\ GoTo(r, "load")
    /\ UNCHANGED <<redis, key, ver, val, floor, changes, staleFor>>

\* What Redis holds under a reader's full_key.
Found(r) == entry[ver[r]][key[r]]

\* Mistake: Every hit renews the TTL of the entry.
HitRenews(r) ==
    /\ pc[r] = "get"
    /\ _available(ReplicaOf[r])
    /\ Found(r) # None
    /\ End(r, "done", Found(r).val)
    /\ entry' = [entry EXCEPT ![ver[r]] = [@ EXCEPT ![key[r]] = [@ EXCEPT !.left = Ttl[key[r]]]]]
    /\ UNCHANGED <<version, saved, downFor, key, floor, changes, staleFor>>

Hit(r) ==
    /\ pc[r] = "get"
    /\ _available(ReplicaOf[r])
    /\ Found(r) # None
    /\ End(r, "done", Found(r).val)
    /\ UNCHANGED <<redis, downFor, key, floor, changes, staleFor>>

\* Nothing there, no answer, or (after an upgrade) a shape that no longer parses.
Miss(r) ==
    /\ pc[r] = "get"
    /\ \/ Unanswered(ReplicaOf[r])
       \/ /\ _available(ReplicaOf[r])
          /\ Found(r) = None \/ "shape" \in Faults
          /\ UNCHANGED downFor
    /\ GoTo(r, "load")
    /\ UNCHANGED <<redis, key, ver, val, floor, changes, staleFor>>

\* The Postgres query.  A lookup that skipped the cache returns at once.
Load(r) ==
    /\ pc[r] = "load"
    /\ \/ ver[r] = None /\ End(r, "done", truth[key[r]])
       \/ /\ ver[r] # None
          /\ val' = [val EXCEPT ![r] = truth[key[r]]]
          /\ GoTo(r, "store")
          /\ UNCHANGED ver
    /\ UNCHANGED <<redis, downFor, key, floor, changes, staleFor>>

\* Mistake: The entry is stamped with the version at the time of the set.
StoredByLate(r) ==
    [entry EXCEPT ![version] =
        [@ EXCEPT ![key[r]] = [val |-> val[r], left |-> Ttl[key[r]]]]]

\* The write Redis performs for a reader: under the version read before the load.
StoredBy(r) ==
    [entry EXCEPT ![ver[r]] =
        [@ EXCEPT ![key[r]] = [val |-> val[r], left |-> Ttl[key[r]]]]]

Store(r) ==
    /\ pc[r] = "store"
    /\ _available(ReplicaOf[r])
    /\ entry' = StoredBy(r)
    /\ End(r, "done", val[r])
    /\ UNCHANGED <<version, saved, downFor, key, floor, changes, staleFor>>

\* The set is skipped or fails; one that timed out may have been applied.
StoreLost(r) ==
    /\ pc[r] = "store"
    /\ Unanswered(ReplicaOf[r])
    /\ \/ UNCHANGED entry
       \/ _available(ReplicaOf[r]) /\ entry' = StoredBy(r)
    /\ End(r, "done", val[r])
    /\ UNCHANGED <<version, saved, key, floor, changes, staleFor>>

\* The load raises, or the caller cancels the task at one of its awaits.
Abandon(r) ==
    /\ pc[r] \in {"version", "get", "load", "store"}
    /\ End(r, "idle", 0)
    /\ floor' = [floor EXCEPT ![r] = 0]
    /\ UNCHANGED <<redis, downFor, key, changes, staleFor>>

--------------------------------------------------------------------------------
(* An admin GUI request: the transaction commits, then announce() bumps *)

\* MaxChanges bounds the changes and, with them, the version counter.
Commit(a) ==
    /\ admin[a] = "idle"
    /\ \A k \in Keys : truth[k] < MaxChanges
    /\ version + Cardinality({b \in Admins : admin[b] # "idle"}) < MaxChanges
    /\ \E ks \in SUBSET Keys \ {{}} :
          truth' = [k \in Keys |-> IF k \in ks THEN truth[k] + 1 ELSE truth[k]]
    /\ mark' = [mark EXCEPT ![a] = truth']
    /\ admin' = [admin EXCEPT ![a] = "committed"]
    /\ UNCHANGED <<redis, downFor, lookups, announced, staleFor>>

\* The request is over.
Finish(a) ==
    /\ admin' = [admin EXCEPT ![a] = "idle"]
    /\ mark' = [mark EXCEPT ![a] = [k \in Keys |-> 0]]

\* Mistake: The request answers without bumping META.
BumpForgotten(a) ==
    /\ admin[a] = "committed"
    /\ announced' = [k \in Keys |-> Max2(announced[k], mark[a][k])]
    /\ Finish(a)
    /\ UNCHANGED <<redis, downFor, lookups, truth, staleFor>>

Bump(a) ==
    /\ admin[a] = "committed"
    /\ version < MaxChanges
    /\ version' = version + 1
    /\ announced' = [k \in Keys |-> Max2(announced[k], mark[a][k])]
    /\ Finish(a)
    /\ UNCHANGED <<entry, saved, downFor, lookups, truth, staleFor>>

\* The bump fails.  The failure is logged and swallowed, and the request
\* succeeds.  An INCR that timed out may still have been applied.
BumpLost(a) ==
    /\ admin[a] = "committed"
    /\ "bump" \in Faults
    /\ version' \in {version, version + 1} \cap Versions
    /\ Finish(a)
    /\ UNCHANGED <<entry, saved, downFor, lookups, truth, announced, staleFor>>

\* The GUI process stops after the commit: nothing is announced or answered.
Die(a) ==
    /\ admin[a] = "committed"
    /\ "die" \in Faults
    /\ Finish(a)
    /\ UNCHANGED <<redis, downFor, lookups, truth, announced, staleFor>>

--------------------------------------------------------------------------------
(* Time, and the Redis server *)

\* Mistake: Entries are set without a TTL.
AgedNever(e) == e

Aged(e) ==
    [w \in Versions |-> [k \in Keys |->
        IF e[w][k] = None \/ e[w][k].left <= 1 THEN None
        ELSE [e[w][k] EXCEPT !.left = @ - 1]]]

\* Assumed: a tick is longer than the time from a load to its set, which the
\* code bounds by SOCKET_TIMEOUT_S; the TTLs are over a hundred times that.
Tick ==
    /\ \A r \in Readers : pc[r] # "store"
    /\ entry' = Aged(entry)
    /\ saved' = [saved EXCEPT !.entry = Aged(@)]
    /\ downFor' = [p \in Replicas |-> Minus1(downFor[p])]
    /\ staleFor' = [k \in Keys |-> [n \in Changes |->
          IF n < truth[k] /\ staleFor[k][n] < Ttl[k] THEN staleFor[k][n] + 1
          ELSE staleFor[k][n]]]
    /\ UNCHANGED <<version, lookups, changes>>

\* The stock Redis configuration snapshots now and then, and a killed server
\* restarts from its last snapshot (or from nothing, the initial one).
Save ==
    /\ "crash" \in Faults
    /\ saved' = [version |-> version, entry |-> entry]
    /\ UNCHANGED <<version, entry, downFor, lookups, changes, staleFor>>

Crash ==
    /\ "crash" \in Faults
    /\ version' = saved.version
    /\ entry' = saved.entry
    /\ UNCHANGED <<saved, downFor, lookups, changes, staleFor>>

--------------------------------------------------------------------------------

Lookup(r) ==
    \/ ReadVersion(r) \/ NoVersion(r) \/ Hit(r) \/ Miss(r)
    \/ Load(r) \/ Store(r) \/ StoreLost(r)

Announce(a) == Bump(a) \/ BumpLost(a)

Next ==
    \/ \E r \in Readers : Begin(r) \/ Lookup(r) \/ Abandon(r)
    \/ \E a \in Admins : Commit(a) \/ Announce(a) \/ Die(a)
    \/ Tick \/ Save \/ Crash

Spec == Init /\ [][Next]_vars

\* Time passes, an awaited call ends (every Redis and Postgres call has a
\* timeout), and an admin request that committed goes on to announce.
FairSpec ==
    /\ Spec
    /\ WF_vars(Tick)
    /\ \A r \in Readers : WF_vars(Lookup(r))
    /\ \A a \in Admins : WF_vars(Announce(a))

--------------------------------------------------------------------------------
(* Properties *)

TypeOK ==
    /\ truth \in [Keys -> Changes]
    /\ version \in Versions
    /\ entry \in [Versions -> [Keys -> Entries \cup {None}]]
    /\ saved \in [version : Versions, entry : [Versions -> [Keys -> Entries \cup {None}]]]
    /\ downFor \in [Replicas -> 0 .. Cooldown]
    /\ pc \in [Readers -> Steps]
    /\ key \in [Readers -> Keys]
    /\ ver \in [Readers -> Versions \cup {None}]
    /\ \A r \in Readers : pc[r] \in {"get", "store"} => ver[r] # None
    /\ val \in [Readers -> Changes]
    /\ admin \in [Admins -> {"idle", "committed"}]
    /\ mark \in [Admins -> [Keys -> Changes]]
    /\ announced \in [Keys -> Changes]
    /\ floor \in [Readers -> Changes]
    /\ staleFor \in [Keys -> [Changes -> Nat]]

(* A lookup that begins after a change was announced does not miss it, however
   its awaits interleave with other lookups, other changes and failing Redis
   calls: cached_json stamps what it stores with the version read before the
   load, so a stale load never lands under the new version. *)
Fresh == \A r \in Readers : pc[r] = "done" => val[r] >= floor[r]

(* What can be found under the current version is at least as new as the last
   announced change: bumping orphans every older entry at once (base.py). *)
NothingOldReachable ==
    \A k \in Keys : entry[version][k] # None => entry[version][k].val >= announced[k]

(* When a bump is lost or Redis restarts from an old snapshot, an outdated
   answer is served no longer than its TTL after it was replaced. *)
ServedWithinTtl ==
    [][\A r \in Readers :
          (pc[r] = "get" /\ pc'[r] = "done" /\ val'[r] < truth[key[r]])
             => staleFor[key[r]][val'[r]] < Ttl[key[r]]]_vars

(* Whatever was lost on the way, once the changes are over the cache comes to
   agree with Postgres: nothing outdated stays readable for ever. *)
Converges ==
    <>[](\A w \in Versions : \A k \in Keys :
            w = version /\ entry[w][k] # None => entry[w][k].val = truth[k])

(* Why Fresh holds, as one inductive invariant.  A bump moves every lookup of
   the new version to entries nobody has written, so what must be shown is that
   whatever is written under a version, now or later, is new enough for every
   lookup that read that version. *)
LevelsInOrder ==
    /\ \A k \in Keys : announced[k] <= truth[k]
    /\ \A a \in Admins : \A k \in Keys : mark[a][k] <= truth[k]
    /\ \A r \in Readers : floor[r] <= announced[key[r]]

VersionsKnown ==
    /\ \A w \in Versions : \A k \in Keys : w > version => entry[w][k] = None
    /\ \A r \in Readers : ver[r] # None => ver[r] <= version

\* A value on its way into the current version is as new as an entry there.
LoadsCurrent ==
    \A q \in Readers : pc[q] = "store" /\ ver[q] = version => val[q] >= announced[key[q]]

\* No lookup can hit something too old for it, now or after a store under way.
HitsOwed ==
    \A r \in Readers : pc[r] = "get" =>
        /\ Found(r) # None => Found(r).val >= floor[r]
        /\ \A q \in Readers :
              (pc[q] = "store" /\ ver[q] = ver[r] /\ key[q] = key[r]) => val[q] >= floor[r]

LoadsOwed == \A r \in Readers : pc[r] \in {"store", "done"} => val[r] >= floor[r]

FreshInv ==
    /\ LevelsInOrder
    /\ VersionsKnown
    /\ NothingOldReachable
    /\ LoadsCurrent
    /\ HitsOwed
    /\ LoadsOwed

\* Nothing is stored or returned that Postgres never said.
RealInv ==
    /\ \A w \in Versions : \A k \in Keys : entry[w][k] # None => entry[w][k].val <= truth[k]
    /\ \A r \in Readers : pc[r] = "store" => val[r] <= truth[key[r]]

(* The cache implements the lookup the rest of the server is written against. *)
Shown ==
    [r \in Readers |->
        IF pc[r] = "idle" THEN [state |-> "idle"]
        ELSE IF pc[r] = "done"
             THEN [state |-> "answered", key |-> key[r], floor |-> floor[r], val |-> val[r]]
             ELSE [state |-> "asked", key |-> key[r], floor |-> floor[r]]]

Promise == INSTANCE FreshLookup WITH lookup <- Shown

KeepsPromise == Promise!ASpec
================================================================================
