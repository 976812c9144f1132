--------------------------- MODULE ConnectionRegistry ---------------------------
(***************************************************************************)
(* The registry of live database adapters of one MCP server process       *)
(* (services/connection_registry.py): a dictionary from connection id to  *)
(* the updated_at of the record and the adapter opened from it, behind    *)
(* one asyncio lock that is held across the awaits that close an old pool *)
(* and open a new one.                                                    *)
(*                                                                        *)
(* A call has read its record before it reaches the lock, so an edit may  *)
(* come in between.  An adapter is named after the call that opened it.   *)
(* asyncio serves waiters in order; here any waiter may be next, which    *)
(* allows more and needs less.                                            *)
(***************************************************************************)
EXTENDS Naturals

CONSTANTS
    Calls,        \* tool calls that need an adapter, one each
    Connections,
    MaxUpdates,   \* bound: how often each connection is edited
    Failures,     \* which happen: "connect" and "close" raise, "cancel", "shutdown"
    Null          \* no adapter, nobody

Stamps == 0 .. MaxUpdates
Records == [id : Connections, updated_at : Stamps]
Pools == [id : Connections, updated_at : Stamps, open : BOOLEAN]

RegistryAssumption ==
    /\ MaxUpdates \in Nat
    /\ Null \notin Calls
    /\ Null \notin Pools
    /\ Failures \subseteq {"connect", "close", "cancel", "shutdown"}

ASSUME RegistryAssumption

VARIABLES
    updated,    \* Postgres: the updated_at of each connection, as a number of edits
    _adapters,  \* the dictionary: whose adapter is registered for a connection
    pool,       \* the adapter each call opened, if any
    _lock,      \* the call that holds the lock, or Null
    at,         \* per call: where it is
    record,     \* per call: the connection record it read
    using,      \* per call: the adapter it was handed (the call that opened it)
    result,     \* per call: how it ended
    shut        \* history: close() has been called

registry == <<updated, _adapters, pool, _lock, at, record, using, result, shut>>

Places == {"new", "authorizing", "closing", "opening", "using", "over"}
Results == {"ok", "ConnectionUnavailable", "RuntimeError", "CloseError", "cancelled", "none"}

RegistryInit ==
    /\ updated = [k \in Connections |-> 0]
    /\ _adapters = [k \in Connections |-> Null]
    /\ pool = [c \in Calls |-> Null]
    /\ _lock = Null
    /\ at = [c \in Calls |-> "new"]
    /\ record \in [Calls -> [id : Connections, updated_at : {0}]]
    /\ using = [c \in Calls |-> Null]
    /\ result = [c \in Calls |-> "none"]
    /\ shut = FALSE

\* An admin saves new settings: the trigger sets updated_at.
EditRecord(k) ==
    /\ updated[k] < MaxUpdates
    /\ updated' = [updated EXCEPT ![k] = @ + 1]
    /\ UNCHANGED <<_adapters, pool, _lock, at, record, using, result, shut>>

\* get_connection; the allowed tables are looked up before adapter_for is called.
GetRecord(c) ==
    /\ at[c] = "new"
    /\ \E k \in Connections :
          record' = [record EXCEPT ![c] = [id |-> k, updated_at |-> updated[k]]]
    /\ at' = [at EXCEPT ![c] = "authorizing"]
    /\ UNCHANGED <<updated, _adapters, pool, _lock, using, result, shut>>

--------------------------------------------------------------------------------
(* adapter_for *)

Registered(c) == _adapters[record[c].id]

\* Mistake: The version of what is registered is not compared.
CurrentAny(c) == Registered(c) # Null

\* The registered adapter was opened from the same edit of the record.
Current(c) ==
    /\ Registered(c) # Null
    /\ pool[Registered(c)].updated_at = record[c].updated_at

GoTo(c, place) == at' = [at EXCEPT ![c] = place]

End(c, how) ==
    /\ GoTo(c, "over")
    /\ result' = [result EXCEPT ![c] = how]

\* Up to the first await under the lock.  A hit returns without one.
Enter(c) ==
    /\ at[c] = "authorizing"
    /\ _lock = Null
    /\ \/ /\ Current(c)
          /\ using' = [using EXCEPT ![c] = Registered(c)]
          /\ GoTo(c, "using")
          /\ UNCHANGED _lock
       \/ /\ ~Current(c)
          /\ GoTo(c, IF Registered(c) = Null THEN "opening" ELSE "closing")
          /\ _lock' = c
          /\ UNCHANGED using
    /\ UNCHANGED <<updated, _adapters, pool, record, result, shut>>

\* Mistake: The old pool is forgotten without being closed.
CloseOldForgets(c) ==
    /\ at[c] = "closing"
    /\ _adapters' = [_adapters EXCEPT ![record[c].id] = Null]
    /\ GoTo(c, "opening")
    /\ UNCHANGED <<updated, pool, _lock, record, using, result, shut>>

\* The record was edited: the old pool is closed and forgotten.
CloseOld(c) ==
    /\ at[c] = "closing"
    /\ pool' = [pool EXCEPT ![Registered(c)].open = FALSE]
    /\ _adapters' = [_adapters EXCEPT ![record[c].id] = Null]
    /\ GoTo(c, "opening")
    /\ UNCHANGED <<updated, _lock, record, using, result, shut>>

\* close() raises: the entry stays, and the lock is released on the way out.
CloseFails(c) ==
    /\ at[c] = "closing"
    /\ "close" \in Failures
    /\ _lock' = Null
    /\ End(c, "CloseError")
    /\ UNCHANGED <<updated, _adapters, pool, record, using, shut>>

Open(c) ==
    /\ at[c] = "opening"
    /\ pool' = [pool EXCEPT ![c] = [id |-> record[c].id,
                                   updated_at |-> record[c].updated_at, open |-> TRUE]]
    /\ _adapters' = [_adapters EXCEPT ![record[c].id] = c]
    /\ _lock' = Null
    /\ using' = [using EXCEPT ![c] = c]
    /\ GoTo(c, "using")
    /\ UNCHANGED <<updated, record, result, shut>>

\* Mistake: The lock is acquired and released by hand, and not on this error path.
OpenFailsLocked(c) ==
    /\ at[c] = "opening"
    /\ "connect" \in Failures
    /\ End(c, "ConnectionUnavailable")
    /\ UNCHANGED <<updated, _adapters, pool, _lock, record, using, shut>>

\* Anything that goes wrong while opening is one error; connect() disposes of
\* what it had opened.
OpenFails(c) ==
    /\ at[c] = "opening"
    /\ "connect" \in Failures
    /\ _lock' = Null
    /\ End(c, "ConnectionUnavailable")
    /\ UNCHANGED <<updated, _adapters, pool, record, using, shut>>

\* Mistake: A call closes the adapter it was handed when it is done with it.
UseAdapterCloses(c) ==
    /\ at[c] = "using"
    /\ End(c, IF pool[using[c]].open THEN "ok" ELSE "RuntimeError")
    /\ pool' = [pool EXCEPT ![using[c]].open = FALSE]
    /\ UNCHANGED <<updated, _adapters, _lock, record, using, shut>>

\* The call's next operation on its adapter: a closed one has no engine.
UseAdapter(c) ==
    /\ at[c] = "using"
    /\ End(c, IF pool[using[c]].open THEN "ok" ELSE "RuntimeError")
    /\ UNCHANGED <<updated, _adapters, pool, _lock, record, using, shut>>

Cancel(c) ==
    /\ "cancel" \in Failures
    /\ at[c] \in {"authorizing", "closing", "opening", "using"}
    /\ _lock' = IF _lock = c THEN Null ELSE _lock
    /\ End(c, "cancelled")
    /\ UNCHANGED <<updated, _adapters, pool, record, using, shut>>

\* close(), at shutdown: every adapter, under the lock.
Close ==
    /\ "shutdown" \in Failures
    /\ _lock = Null
    /\ pool' = [c \in Calls |->
          IF \E k \in Connections : _adapters[k] = c THEN [pool[c] EXCEPT !.open = FALSE]
          ELSE pool[c]]
    /\ _adapters' = [k \in Connections |-> Null]
    /\ shut' = TRUE
    /\ UNCHANGED <<updated, _lock, at, record, using, result>>

--------------------------------------------------------------------------------

AdapterFor(c) == Enter(c) \/ CloseOld(c) \/ CloseFails(c) \/ Open(c) \/ OpenFails(c)

RegistryNext ==
    \/ \E k \in Connections : EditRecord(k)
    \/ \E c \in Calls : GetRecord(c) \/ AdapterFor(c) \/ UseAdapter(c) \/ Cancel(c)
    \/ Close

RegistrySpec == RegistryInit /\ [][RegistryNext]_registry

\* Closing a pool and connecting come to an end, well or badly, and the event
\* loop runs what is ready.
RegistryFairSpec ==
    RegistrySpec /\ \A c \in Calls : WF_registry(AdapterFor(c)) /\ WF_registry(UseAdapter(c))

--------------------------------------------------------------------------------
(* Properties *)

RegistryTypeOK ==
    /\ updated \in [Connections -> Stamps]
    /\ _adapters \in [Connections -> Calls \cup {Null}]
    /\ pool \in [Calls -> Pools \cup {Null}]
    /\ _lock \in Calls \cup {Null}
    /\ at \in [Calls -> Places]
    /\ record \in [Calls -> Records]
    /\ using \in [Calls -> Calls \cup {Null}]
    /\ result \in [Calls -> Results]
    /\ shut \in BOOLEAN

(* No pool leaks: an adapter that is open is the one registered for its
   connection, so there is never more than one per connection, whatever raises
   or is cancelled on the way. *)
NoLeak ==
    \A c \in Calls : pool[c] # Null /\ pool[c].open => _adapters[pool[c].id] = c

\* What is registered for a connection is an open adapter of that connection.
RegisteredIsOpen ==
    \A k \in Connections : _adapters[k] # Null =>
        /\ pool[_adapters[k]] # Null
        /\ pool[_adapters[k]].id = k
        /\ pool[_adapters[k]].open

\* The lock is held exactly by the call that is closing or opening a pool, and
\* what that call saw in the dictionary is still there.
LockInv ==
    /\ \A c \in Calls : at[c] \in {"closing", "opening"} <=> _lock = c
    /\ \A c \in Calls : at[c] = "closing" => Registered(c) # Null
    /\ \A c \in Calls : at[c] = "opening" => Registered(c) = Null
    /\ \A c \in Calls : at[c] \in {"new", "authorizing", "closing", "opening"} => pool[c] = Null

(* A call talks to the database its own record describes: an adapter opened
   from another connection, or from another edit of it, is never handed out. *)
HandedTheRecord ==
    \A c \in Calls : at[c] = "using" =>
        /\ using[c] # Null /\ pool[using[c]] # Null
        /\ pool[using[c]].id = record[c].id
        /\ pool[using[c]].updated_at = record[c].updated_at

(* A pool is only closed under a call by a call that came with another edit of
   the same connection, or by the shutdown. *)
InterruptedByEdit ==
    \A c \in Calls : result[c] = "RuntimeError" =>
        \/ shut
        \/ \E d \in Calls : /\ at[d] # "new"
                            /\ record[d].id = record[c].id
                            /\ record[d].updated_at # record[c].updated_at

(* Every call that asks for an adapter is served or told why not, although all
   connections share the one lock: no error path keeps it. *)
EveryCallEnds == \A c \in Calls : at[c] = "authorizing" ~> at[c] = "over"

RegistryInv == RegistryTypeOK /\ LockInv /\ NoLeak /\ RegisteredIsOpen /\ HandedTheRecord
================================================================================
