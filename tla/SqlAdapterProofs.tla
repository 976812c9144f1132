---------------------------- MODULE SqlAdapterProofs ----------------------------
(***************************************************************************)
(* The safety properties of SqlAdapter, proved for any number of calls and *)
(* of connections in the pool, any limit, grace and row cap, every engine, *)
(* and with every failure, cancellation and closing of the adapter.        *)
(***************************************************************************)
EXTENDS SqlAdapter, TLAPS

\* What a connection carries when nobody holds it: nothing on Postgres, never anything on
\* SQL Server.
PoolLimits ==
    \A s \in Slots :
        /\ _dialect = "mssql" => limit[s] = None
        /\ _dialect = "postgresql" /\ holder[s] = None => limit[s] = None

Querying == {"stream", "fetch"}

\* Which use a call is in, by the await it is at.
Uses(k) ==
    /\ pc[k] \in Querying \cup {"set", "clear"} => IsRun(k)
    /\ pc[k] = "inspect" => ~IsRun(k)
    /\ pc[k] = "set" => _dialect \in ServerEnforced
    /\ pc[k] = "clear" => _dialect = "sqlite"

\* The client's timer runs with the query and not ahead of its deadline.
Timed(k) ==
    /\ timer[k] # None => pc[k] \in Querying
    /\ pc[k] \in Querying => timer[k] \in Nat /\ deadline[k] <= timer[k]
    /\ pc[k] \in Querying /\ _dialect = "postgresql" => ran[k] + timer[k] <= Limit + Grace

\* A statement is running while its answer is awaited, and may be after; the server does not
\* stop a query ahead of its deadline.
Asked(k) ==
    /\ pc[k] \in {"idle", "start", "wait", "set"} => stmt[k] = None
    /\ pc[k] \in {"back", "clear"} /\ result[k] = "ok" => stmt[k] = None
    /\ pc[k] \in Running => stmt[k] # None
    /\ pc[k] \in Querying => stmt[k] = Unlimited \/ deadline[k] <= stmt[k]

\* LimitIsItsOwn, of one call.
Own(k) ==
    /\ pc[k] \in Querying /\ _dialect \in ServerEnforced =>
          limit[slot[k]] = IF _dialect = "sqlite" THEN deadline[k] ELSE Limit
    /\ pc[k] = "inspect" /\ _dialect \in {"postgresql", "mssql"} => stmt[k] = Unlimited

\* How long a query may run on a server that keeps a limit.
Bound == IF _dialect = "postgresql" THEN 2 * Limit + Grace ELSE Limit

Bounded(k) ==
    _dialect \in ServerEnforced =>
        /\ ran[k] <= Bound
        /\ IsRun(k) /\ stmt[k] # None => stmt[k] \in Nat /\ ran[k] + stmt[k] <= Bound

CallInv(k) == Uses(k) /\ Timed(k) /\ Asked(k) /\ Own(k) /\ Bounded(k)

HasSlot == \A k \in Calls : pc[k] \in Holding => slot[k] \in Slots

HeldInv == TypeOK /\ SlotsAreHeld /\ HasSlot

AdapterInv == HeldInv /\ PoolLimits /\ \A k \in Calls : CallInv(k)

--------------------------------------------------------------------------------
(* Types, and who holds what *)

Todos == {<<>>, <<"reflect">>, <<"run">>} \cup {Program[op] : op \in DOMAIN Program}

LEMMA TodoTail ==
    ASSUME NEW t \in Todos, Len(t) > 1
    PROVE  Tail(t) \in Todos
<1>1. Todos = {<<>>, <<"reflect">>, <<"run">>, <<"reflect", "reflect">>, <<"reflect", "run">>}
  BY DEF Todos, Program
<1>2. CASE t = <<"reflect", "reflect">>
  <2>1. Tail(t) = <<"reflect">>
    BY <1>2
  <2> QED  BY <1>1, <2>1
<1>3. CASE t = <<"reflect", "run">>
  <2>1. Tail(t) = <<"run">>
    BY <1>3
  <2> QED  BY <1>1, <2>1
<1>4. t # <<>> /\ t # <<"reflect">> /\ t # <<"run">>
  <2>1. ASSUME t = <<>> PROVE FALSE
    BY <2>1
  <2>2. ASSUME t = <<"reflect">> PROVE FALSE
    BY <2>2
  <2>3. ASSUME t = <<"run">> PROVE FALSE
    BY <2>3
  <2> QED  BY <2>1, <2>2, <2>3
<1> QED  BY <1>1, <1>2, <1>3, <1>4

\* What an action of one call leaves of another.
Same(j) ==
    /\ pc'[j] = pc[j] /\ todo'[j] = todo[j] /\ slot'[j] = slot[j] /\ deadline'[j] = deadline[j]
    /\ timer'[j] = timer[j] /\ stmt'[j] = stmt[j] /\ ran'[j] = ran[j] /\ result'[j] = result[j]

LEMMA OtherCalls ==
    ASSUME TypeOK, NEW k \in Calls, NEW j \in Calls, j # k,
           Begin(k) \/ Proceed(k) \/ Serve(k) \/ Cancel(k) \/ Leave(k)
    PROVE  Same(j)
<1> USE DEF TypeOK, Same, GoTo, End, Finish, Issue, StartTimer, Abandon, Return, clocks, pool, data,
            outcome
<1>1. CASE Begin(k)
  BY <1>1 DEF Begin
<1>2. CASE Start(k)
  BY <1>2 DEF Start
<1>3. CASE CheckOut(k)
  BY <1>3 DEF CheckOut
<1>4. CASE NoConnection(k)
  BY <1>4 DEF NoConnection
<1>5. CASE SetLimit(k)
  BY <1>5 DEF SetLimit
<1>6. CASE ServerStops(k)
  BY <1>6 DEF ServerStops
<1>7. CASE ClientStops(k)
  BY <1>7 DEF ClientStops
<1>8. CASE Clear(k)
  BY <1>8 DEF Clear
<1>9. CASE Back(k)
  BY <1>9 DEF Back, NextUse
<1>10. CASE Stream(k)
  BY <1>10 DEF Stream
<1>11. CASE Fetch(k)
  BY <1>11 DEF Fetch
<1>12. CASE Inspect(k)
  BY <1>12 DEF Inspect
<1>13. CASE OrphanEnds(k)
  BY <1>13 DEF OrphanEnds
<1>14. CASE DbError(k)
  BY <1>14 DEF DbError
<1>15. CASE Cancel(k)
  BY <1>15 DEF Cancel
<1>16. CASE Leave(k)
  BY <1>16 DEF Leave
<1>17. CASE NetworkTimesOut(k)
  BY <1>17 DEF NetworkTimesOut
<1> QED  BY <1>1, <1>2, <1>3, <1>4, <1>5, <1>6, <1>7, <1>8, <1>9, <1>10, <1>11, <1>12, <1>13,
           <1>14, <1>15, <1>16, <1>17 DEF Proceed, Serve

LEMMA FinishTyped ==
    ASSUME TypeOK, NEW k \in Calls, NEW how \in Results, Finish(k, how)
    PROVE  /\ pc' \in [Calls -> Awaits] /\ timer' \in [Calls -> 0 .. Limit + Grace \cup {None}]
           /\ result' \in [Calls -> Results]
  BY DEF TypeOK, Finish, GoTo, Awaits, Holding

LEMMA TypeKept ==
    ASSUME TypeOK, NEW k \in Calls,
           Begin(k) \/ Proceed(k) \/ Serve(k) \/ Cancel(k) \/ Leave(k),
           pc[k] \in Holding => slot[k] \in Slots
    PROVE  TypeOK'
<1> USE AdapterAssumption DEF AdapterAssumption, Awaits, Holding, Running, Results, GoTo, End,
        StartTimer, clocks, pool, data, outcome
<1>a. /\ _dialect \in Dialects /\ _engine \in {"none", "open", "closing", "closed"}
      /\ open \in [Slots -> BOOLEAN] /\ limit \in [Slots -> 0 .. Limit \cup {None}]
      /\ holder \in [Slots -> Calls \cup {None}] /\ pc \in [Calls -> Awaits]
      /\ todo \in [Calls -> Todos] /\ slot \in [Calls -> Slots \cup {None}]
      /\ deadline \in [Calls -> 0 .. Limit]
      /\ timer \in [Calls -> 0 .. Limit + Grace \cup {None}]
      /\ stmt \in [Calls -> 0 .. Limit \cup {None, Unlimited}]
      /\ ran \in [Calls -> 0 .. MostTicks] /\ there \in [Calls -> 0 .. max_rows + 2]
      /\ rows \in [Calls -> 0 .. max_rows] /\ truncated \in [Calls -> BOOLEAN]
      /\ silent \in [Calls -> BOOLEAN] /\ result \in [Calls -> Results]
  BY DEF TypeOK, Todos
<1>b. ClientTimeout \in 0 .. Limit + Grace
  BY DEF ClientTimeout
<1>c. OwnLimit(k) \in 0 .. Limit
  <2>1. deadline[k] \in 0 .. Limit
    BY <1>a
  <2>2. Limit \in 0 .. Limit
    OBVIOUS
  <2> QED  BY <2>1, <2>2 DEF OwnLimit
<1>d. 0 \in 0 .. MostTicks
  BY DEF MostTicks
<1>e. \A s \in Slots : LeftOn(s) \in 0 .. Limit \cup {None}
  BY <1>a DEF LeftOn
<1>f. /\ 0 \in 0 .. Limit /\ Limit \in 0 .. Limit /\ 0 \in 0 .. max_rows /\ 0 \in 0 .. max_rows + 2
  OBVIOUS
<1>1. CASE Begin(k)
  <2>1. \A op \in DOMAIN Program : Program[op] \in Todos
    BY DEF Todos
  <2>2. PICK op \in DOMAIN Program : todo' = [todo EXCEPT ![k] = Program[op]]
    BY <1>1 DEF Begin
  <2>3. todo' \in [Calls -> Todos]
    BY <1>a, <2>1, <2>2
  <2>4. \/ result' = [result EXCEPT ![k] = "unsupported"] /\ pc' = [pc EXCEPT ![k] = "over"]
        \/ result' = result /\ pc' = [pc EXCEPT ![k] = "start"]
    BY <1>1 DEF Begin
  <2>5. pc' \in [Calls -> Awaits] /\ result' \in [Calls -> Results]
    BY <1>a, <2>4
  <2>6. UNCHANGED <<_dialect, _engine, pool, slot, clocks, stmt, data, silent>>
    BY <1>1 DEF Begin
  <2> QED  BY <1>a, <2>3, <2>5, <2>6 DEF TypeOK, Todos
<1>2. CASE Start(k)
  <2>1. deadline' \in [Calls -> 0 .. Limit]
    BY <1>2, <1>a, <1>f DEF Start
  <2> QED  BY <1>2, <1>a, <2>1, ZenonT(30) DEF Start, TypeOK, Todos
<1>3. CASE CheckOut(k)
  <2>1. PICK s \in Slots :
           /\ open' = [open EXCEPT ![s] = TRUE]
           /\ limit' = [limit EXCEPT ![s] = None] \/ limit' = limit
           /\ holder' = [holder EXCEPT ![s] = k]
           /\ slot' = [slot EXCEPT ![k] = s]
           /\ \E w \in {"inspect", "stream", "set"} : pc' = [pc EXCEPT ![k] = w]
           /\ Issue(k, s) \/ (stmt' = stmt /\ ran' = ran)
           /\ timer' = timer \/ timer' = [timer EXCEPT ![k] = ClientTimeout]
    BY <1>3 DEF CheckOut
  <2>2. limit' \in [Slots -> 0 .. Limit \cup {None}] /\ open' \in [Slots -> BOOLEAN]
    BY <1>a, <2>1
  <2>3. holder' \in [Slots -> Calls \cup {None}] /\ slot' \in [Calls -> Slots \cup {None}]
    BY <1>a, <2>1
  <2>4. pc' \in [Calls -> Awaits]
    BY <1>a, <2>1
  <2>5. timer' \in [Calls -> 0 .. Limit + Grace \cup {None}]
    BY <1>a, <1>b, <2>1
  <2>6. ran' \in [Calls -> 0 .. MostTicks]
    BY <1>a, <1>d, <2>1 DEF Issue
  <2>7. stmt' \in [Calls -> 0 .. Limit \cup {None, Unlimited}]
    <3>1. limit'[s] \in 0 .. Limit \cup {None}
      BY <2>2
    <3> QED  BY <1>a, <2>1, <3>1 DEF Issue
  <2> QED  BY <1>3, <1>a, <2>2, <2>3, <2>4, <2>5, <2>6, <2>7 DEF CheckOut, TypeOK, Todos
<1>4. CASE NoConnection(k)
  BY <1>4, <1>a DEF NoConnection, TypeOK, Todos
<1>5. CASE SetLimit(k)
  <2>1. limit' \in [Slots -> 0 .. Limit \cup {None}] /\ slot[k] \in Slots
    BY <1>5, <1>a, <1>c DEF SetLimit
  <2>2. ran' \in [Calls -> 0 .. MostTicks] /\ stmt' \in [Calls -> 0 .. Limit \cup {None, Unlimited}]
    BY <1>5, <1>a, <1>d, <2>1 DEF SetLimit, Issue
  <2>3. timer' \in [Calls -> 0 .. Limit + Grace \cup {None}]
    BY <1>5, <1>a, <1>b DEF SetLimit
  <2> QED  BY <1>5, <1>a, <2>1, <2>2, <2>3 DEF SetLimit, TypeOK, Todos
<1>6. CASE ServerStops(k)
  <2>1. Translated(k) \subseteq Results
    BY DEF Translated
  <2>2. /\ pc' \in [Calls -> Awaits] /\ timer' \in [Calls -> 0 .. Limit + Grace \cup {None}]
        /\ result' \in [Calls -> Results]
    <3>1. CASE pc[k] \in Running
      <4>1. PICK how \in Translated(k) : Finish(k, how)
        BY <1>6, <3>1 DEF ServerStops
      <4> QED  BY <2>1, <4>1, FinishTyped
    <3>2. CASE pc[k] \notin Running
      BY <1>6, <1>a, <3>2 DEF ServerStops
    <3> QED  BY <3>1, <3>2
  <2> QED  BY <1>6, <1>a, <2>2 DEF ServerStops, TypeOK, Todos
<1>7. CASE ClientStops(k)
  <2>1. /\ pc' \in [Calls -> Awaits] /\ timer' \in [Calls -> 0 .. Limit + Grace \cup {None}]
        /\ result' \in [Calls -> Results]
    BY <1>7, FinishTyped DEF ClientStops, Abandon
  <2> QED  BY <1>7, <1>a, <2>1 DEF ClientStops, Abandon, TypeOK, Todos
<1>8. CASE Clear(k)
  BY <1>8, <1>a DEF Clear, TypeOK, Todos
<1>9. CASE Back(k)
  <2>1. /\ holder' \in [Slots -> Calls \cup {None}] /\ open' \in [Slots -> BOOLEAN]
        /\ limit' \in [Slots -> 0 .. Limit \cup {None}] /\ slot' \in [Calls -> Slots \cup {None}]
    BY <1>9, <1>a, <1>e DEF Back, Return
  <2>2. todo' \in [Calls -> Todos]
    <3>1. Len(todo[k]) > 1 => Tail(todo[k]) \in Todos
      BY <1>a, TodoTail
    <3>2. todo' = todo \/ (Len(todo[k]) > 1 /\ todo' = [todo EXCEPT ![k] = Tail(todo[k])])
      BY <1>9 DEF Back, NextUse
    <3>3. ASSUME NEW t \in Todos PROVE [todo EXCEPT ![k] = t] \in [Calls -> Todos]
      BY <1>a
    <3> QED  BY <1>a, <3>1, <3>2, <3>3, ZenonT(30)
  <2>3. pc' \in [Calls -> Awaits] /\ result' \in [Calls -> Results]
    BY <1>9, <1>a DEF Back, NextUse
  <2> QED  BY <1>9, <1>a, <2>1, <2>2, <2>3 DEF Back, TypeOK, Todos
<1>10. CASE Stream(k)
  <2>1. stmt' \in [Calls -> 0 .. Limit \cup {None, Unlimited}]
    BY <1>10, <1>a DEF Stream
  <2> QED  BY <1>10, <1>a, <2>1 DEF Stream, TypeOK, Todos
<1>11. CASE Fetch(k)
  <2>1. /\ there' \in [Calls -> 0 .. max_rows + 2] /\ rows' \in [Calls -> 0 .. max_rows]
        /\ truncated' \in [Calls -> BOOLEAN]
    <3>1. PICK n \in 0 .. max_rows + 2 :
             /\ there' = [there EXCEPT ![k] = n]
             /\ rows' = [rows EXCEPT ![k] = IF Fetched(n) > max_rows THEN max_rows ELSE Fetched(n)]
             /\ truncated' = [truncated EXCEPT ![k] = Fetched(n) > max_rows]
      BY <1>11 DEF Fetch
    <3>2. (IF Fetched(n) > max_rows THEN max_rows ELSE Fetched(n)) \in 0 .. max_rows
      BY DEF Fetched
    <3>3. (Fetched(n) > max_rows) \in BOOLEAN
      OBVIOUS
    <3>4. there' \in [Calls -> 0 .. max_rows + 2]
      BY <1>a, <3>1
    <3>5. rows' \in [Calls -> 0 .. max_rows]
      BY <1>a, <3>1, <3>2
    <3>6. truncated' \in [Calls -> BOOLEAN]
      BY <1>a, <3>1, <3>3
    <3> QED  BY <3>4, <3>5, <3>6
  <2>2. /\ pc' \in [Calls -> Awaits] /\ timer' \in [Calls -> 0 .. Limit + Grace \cup {None}]
        /\ result' \in [Calls -> Results]
    BY <1>11, FinishTyped DEF Fetch
  <2>3. stmt' \in [Calls -> 0 .. Limit \cup {None, Unlimited}]
    BY <1>11, <1>a DEF Fetch
  <2> QED  BY <1>11, <1>a, <2>1, <2>2, <2>3 DEF Fetch, TypeOK, Todos
<1>12. CASE Inspect(k)
  <2>1. /\ pc' \in [Calls -> Awaits] /\ timer' \in [Calls -> 0 .. Limit + Grace \cup {None}]
        /\ result' \in [Calls -> Results]
    BY <1>12, FinishTyped DEF Inspect
  <2> QED  BY <1>12, <1>a, <2>1 DEF Inspect, TypeOK, Todos
<1>13. CASE OrphanEnds(k)
  BY <1>13, <1>a DEF OrphanEnds, TypeOK, Todos
<1>14. CASE DbError(k)
  <2>1. /\ pc' \in [Calls -> Awaits] /\ timer' \in [Calls -> 0 .. Limit + Grace \cup {None}]
        /\ result' \in [Calls -> Results]
    BY <1>14, <1>a, FinishTyped DEF DbError
  <2> QED  BY <1>14, <1>a, <2>1 DEF DbError, TypeOK, Todos
<1>15. CASE Cancel(k)
  <2>1. pc[k] \in Running /\ Abandon(k, "cancelled") =>
           /\ pc' \in [Calls -> Awaits] /\ timer' \in [Calls -> 0 .. Limit + Grace \cup {None}]
           /\ result' \in [Calls -> Results] /\ open' \in [Slots -> BOOLEAN]
           /\ UNCHANGED <<limit, holder, stmt>>
    BY <1>a, FinishTyped DEF Abandon
  <2>2. /\ pc' \in [Calls -> Awaits] /\ timer' \in [Calls -> 0 .. Limit + Grace \cup {None}]
        /\ result' \in [Calls -> Results] /\ open' \in [Slots -> BOOLEAN]
        /\ limit' \in [Slots -> 0 .. Limit \cup {None}] /\ UNCHANGED <<holder, stmt>>
    <3>1. CASE pc[k] \in Running /\ Abandon(k, "cancelled")
      BY <1>a, <2>1, <3>1
    <3>2. CASE ~(pc[k] \in Running /\ Abandon(k, "cancelled"))
      <4>1. pc' = pc \/ pc' = [pc EXCEPT ![k] = "over"] \/ pc' = [pc EXCEPT ![k] = "back"]
        BY <1>15, <3>2 DEF Cancel
      <4>2. result' = [result EXCEPT ![k] = "cancelled"] /\ UNCHANGED <<timer, holder, stmt>>
        BY <1>15, <3>2 DEF Cancel
      <4>3. limit' = limit \/ limit' = [limit EXCEPT ![slot[k]] = OwnLimit(k)]
            \/ limit' = [limit EXCEPT ![slot[k]] = None]
        BY <1>15, <3>2 DEF Cancel
      <4>4. open' = open \/ open' = [open EXCEPT ![slot[k]] = FALSE]
        BY <1>15, <3>2 DEF Cancel
      <4>5. pc' \in [Calls -> Awaits] /\ result' \in [Calls -> Results]
        BY <1>a, <4>1, <4>2
      <4>6. limit' \in [Slots -> 0 .. Limit \cup {None}]
        BY <1>a, <1>c, <4>3
      <4>7. open' \in [Slots -> BOOLEAN]
        BY <1>a, <4>4
      <4> QED  BY <1>a, <4>2, <4>5, <4>6, <4>7
    <3> QED  BY <3>1, <3>2
  <2> QED  BY <1>15, <1>a, <2>2 DEF Cancel, TypeOK, Todos
<1>16. CASE Leave(k)
  <2>1. <<>> \in Todos
    BY DEF Todos
  <2>2. todo' \in [Calls -> Todos] /\ ran' \in [Calls -> 0 .. MostTicks]
    BY <1>16, <1>a, <1>d, <2>1 DEF Leave
  <2> QED  BY <1>16, <1>a, <1>f, <2>2 DEF Leave, TypeOK, Todos
<1>17. CASE NetworkTimesOut(k)
  <2>1. PICK said \in {"timeout", "raised"} :
           \/ pc' = [pc EXCEPT ![k] = "over"] /\ result' = [result EXCEPT ![k] = said]
              /\ UNCHANGED <<open, limit, holder, timer, stmt>>
           \/ /\ open' = [open EXCEPT ![slot[k]] = FALSE]
              /\ pc' = [pc EXCEPT ![k] = "back"] /\ result' = [result EXCEPT ![k] = said]
              /\ UNCHANGED <<limit, holder, timer, stmt>>
           \/ Abandon(k, said)
    BY <1>17 DEF NetworkTimesOut
  <2>2. said \in Results
    OBVIOUS
  <2>3. silent' \in [Calls -> BOOLEAN]
    BY <1>17, <1>a DEF NetworkTimesOut
  <2>4. /\ pc' \in [Calls -> Awaits] /\ timer' \in [Calls -> 0 .. Limit + Grace \cup {None}]
        /\ result' \in [Calls -> Results] /\ open' \in [Slots -> BOOLEAN]
        /\ UNCHANGED <<limit, holder, stmt>>
    <3>1. CASE Abandon(k, said)
      <4>1. Finish(k, said) /\ open' = [open EXCEPT ![slot[k]] = FALSE]
            /\ UNCHANGED <<limit, holder, stmt>>
        BY <3>1 DEF Abandon
      <4>2. /\ pc' \in [Calls -> Awaits] /\ result' \in [Calls -> Results]
            /\ timer' \in [Calls -> 0 .. Limit + Grace \cup {None}]
        BY <2>2, <4>1, FinishTyped
      <4>3. open' \in [Slots -> BOOLEAN]
        BY <1>a, <4>1
      <4> QED  BY <4>1, <4>2, <4>3
    <3>2. CASE ~Abandon(k, said)
      <4>1. /\ pc' = [pc EXCEPT ![k] = "over"] \/ pc' = [pc EXCEPT ![k] = "back"]
            /\ result' = [result EXCEPT ![k] = said]
            /\ open' = open \/ open' = [open EXCEPT ![slot[k]] = FALSE]
            /\ UNCHANGED <<limit, holder, timer, stmt>>
        BY <2>1, <3>2, Zenon
      <4>2. pc' \in [Calls -> Awaits]
        BY <1>a, <4>1
      <4>3. result' \in [Calls -> Results]
        BY <1>a, <2>2, <4>1
      <4>4. open' \in [Slots -> BOOLEAN]
        BY <1>a, <4>1
      <4> QED  BY <1>a, <4>1, <4>2, <4>3, <4>4
    <3> QED  BY <3>1, <3>2
  <2> QED  BY <1>17, <1>a, <2>3, <2>4 DEF NetworkTimesOut, TypeOK, Todos
<1> QED  BY <1>1, <1>2, <1>3, <1>4, <1>5, <1>6, <1>7, <1>8, <1>9, <1>10, <1>11, <1>12, <1>13,
           <1>14, <1>15, <1>16, <1>17 DEF Proceed, Serve

\* A call that holds a connection holds the one it has.
LEMMA HoldsItsSlot ==
    ASSUME HeldInv, NEW k \in Calls, pc[k] \in Holding
    PROVE  slot[k] \in Slots /\ holder[slot[k]] = k /\ holder[slot[k]] # None
  BY AdapterAssumption DEF HeldInv, HasSlot, SlotsAreHeld, AdapterAssumption

LEMMA TickTyped == TypeOK /\ Tick => TypeOK'
<1> SUFFICES ASSUME TypeOK, Tick PROVE TypeOK'
  OBVIOUS
<1> USE AdapterAssumption DEF AdapterAssumption
<1>1. \A n \in Nat : \A t \in 0 .. n : Less(t) \in 0 .. n
  BY DEF Less
<1>2. Less(None) = None /\ Less(Unlimited) = Unlimited
  BY DEF Less
<1>3. deadline' \in [Calls -> 0 .. Limit]
  BY <1>1 DEF Tick, TypeOK
<1>4. timer' \in [Calls -> 0 .. Limit + Grace \cup {None}]
  <2>1. Limit + Grace \in Nat
    OBVIOUS
  <2> QED  BY <1>1, <1>2, <2>1 DEF Tick, TypeOK
<1>5. stmt' \in [Calls -> 0 .. Limit \cup {None, Unlimited}]
  BY <1>1, <1>2 DEF Tick, TypeOK
<1>6. ran' \in [Calls -> 0 .. MostTicks]
  <2>1. MostTicks \in Nat
    BY DEF MostTicks
  <2>2. \A k \in Calls : ran[k] \in 0 .. MostTicks
    BY DEF TypeOK
  <2>3. \A n \in 0 .. MostTicks : n < MostTicks => n + 1 \in 0 .. MostTicks
    BY <2>1
  <2> QED  BY <2>2, <2>3 DEF Tick
<1>7. limit' \in [Slots -> 0 .. Limit \cup {None}]
  BY <1>1, <1>2 DEF Tick, TypeOK
<1> QED  BY <1>3, <1>4, <1>5, <1>6, <1>7 DEF Tick, TypeOK, pool, data, outcome

\* Moving on within the holding awaits, or outside of them, changes nobody's hold.
LEMMA StaysHeld ==
    ASSUME HeldInv, NEW k \in Calls, holder' = holder, slot' = slot,
           pc' = pc \/ \E w : pc' = [pc EXCEPT ![k] = w] /\ (w \in Holding <=> pc[k] \in Holding)
    PROVE  SlotsAreHeld' /\ HasSlot'
<1>1. \A j \in Calls : pc'[j] \in Holding <=> pc[j] \in Holding
  BY DEF HeldInv, TypeOK
<1> QED  BY <1>1 DEF HeldInv, HasSlot, SlotsAreHeld

LEMMA InitHeld == Init => HeldInv
<1> SUFFICES ASSUME Init PROVE HeldInv
  OBVIOUS
<1> USE AdapterAssumption DEF AdapterAssumption
<1>1. TypeOK
  <2>1. "idle" \in Awaits /\ "none" \in Results
    BY DEF Awaits, Results
  <2>2. 0 \in 0 .. MostTicks
    BY DEF MostTicks
  <2> QED  BY <2>1, <2>2 DEF Init, TypeOK
<1>2. SlotsAreHeld /\ HasSlot
  BY DEF Init, HasSlot, SlotsAreHeld, Holding, Running
<1> QED  BY <1>1, <1>2 DEF HeldInv

LEMMA CallHeld ==
    ASSUME HeldInv, NEW k \in Calls, timer[k] # None => pc[k] \in Querying,
           Begin(k) \/ Proceed(k) \/ Serve(k) \/ Cancel(k) \/ Leave(k)
    PROVE  HeldInv'
<1>1. TypeOK
  BY DEF HeldInv
<1>2. pc[k] \in Holding => slot[k] \in Slots
  BY HoldsItsSlot
<1>3. TypeOK'
  BY <1>1, <1>2, TypeKept
<1> USE DEF GoTo, End, pool, clocks, data, outcome
<1>h. /\ Holding = {"inspect", "stream", "fetch", "set", "clear", "back"}
      /\ Running = {"inspect", "stream", "fetch"}
  BY DEF Holding, Running
<1>s. ASSUME holder' = holder, slot' = slot,
             NEW w, pc' = [pc EXCEPT ![k] = w], w \in Holding <=> pc[k] \in Holding
      PROVE  SlotsAreHeld' /\ HasSlot'
  BY <1>s, StaysHeld
<1>4. CASE Begin(k)
  <2>1. pc[k] = "idle" /\ \E w \in {"over", "start"} : pc' = [pc EXCEPT ![k] = w]
    BY <1>4 DEF Begin
  <2> QED  BY <1>3, <1>4, <1>h, <1>s, <2>1 DEF Begin, HeldInv
<1>5. CASE Start(k)
  <2>1. pc[k] = "start" /\ \E w \in {"wait", "over"} : pc' = [pc EXCEPT ![k] = w]
    BY <1>5 DEF Start
  <2> QED  BY <1>3, <1>5, <1>h, <1>s, <2>1 DEF Start, HeldInv
<1>6. CASE NoConnection(k)
  <2>1. pc[k] = "wait" /\ pc' = [pc EXCEPT ![k] = "over"]
    BY <1>6 DEF NoConnection
  <2> QED  BY <1>3, <1>6, <1>h, <1>s, <2>1 DEF NoConnection, HeldInv
<1>7. CASE SetLimit(k)
  <2>1. pc[k] = "set" /\ pc' = [pc EXCEPT ![k] = "stream"]
    BY <1>7 DEF SetLimit
  <2> QED  BY <1>3, <1>7, <1>h, <1>s, <2>1 DEF SetLimit, HeldInv
<1>8. ASSUME NEW how, Finish(k, how), pc[k] \in Running, holder' = holder, slot' = slot
      PROVE  SlotsAreHeld' /\ HasSlot'
  <2>1. \E w \in {"clear", "back"} : pc' = [pc EXCEPT ![k] = w]
    BY <1>8 DEF Finish
  <2> QED  BY <1>8, <1>h, <1>s, <2>1
<1>9. CASE ServerStops(k)
  <2>1. CASE pc[k] \in Running
    BY <1>3, <1>8, <1>9, <2>1 DEF ServerStops, HeldInv
  <2>2. CASE pc[k] \notin Running
    BY <1>3, <1>9, <2>2, StaysHeld DEF ServerStops, HeldInv
  <2> QED  BY <2>1, <2>2
<1>10. ASSUME NEW how, Abandon(k, how), pc[k] \in Running, slot' = slot
       PROVE  SlotsAreHeld' /\ HasSlot'
  BY <1>8, <1>10 DEF Abandon
<1>11. CASE ClientStops(k)
  <2>1. pc[k] \in Running
    BY <1>11, AdapterAssumption DEF ClientStops, AdapterAssumption, Querying, Running
  <2> QED  BY <1>3, <1>10, <1>11, <2>1 DEF ClientStops, HeldInv
<1>12. CASE Stream(k)
  <2>1. pc[k] \in Running /\ pc' = [pc EXCEPT ![k] = "fetch"]
    BY <1>12, <1>h DEF Stream
  <2> QED  BY <1>3, <1>12, <1>h, <1>s, <2>1 DEF Stream, HeldInv
<1>13. CASE Fetch(k)
  BY <1>3, <1>8, <1>13, <1>h DEF Fetch, HeldInv
<1>14. CASE Inspect(k)
  BY <1>3, <1>8, <1>14, <1>h DEF Inspect, HeldInv
<1>15. CASE OrphanEnds(k)
  BY <1>3, <1>15, StaysHeld DEF OrphanEnds, HeldInv
<1>16. CASE DbError(k)
  <2>1. CASE pc[k] = "set"
    <3>1. pc' = [pc EXCEPT ![k] = "back"]
      BY <1>16, <2>1 DEF DbError
    <3> QED  BY <1>3, <1>16, <1>h, <1>s, <2>1, <3>1 DEF DbError, HeldInv
  <2>2. CASE pc[k] # "set"
    BY <1>3, <1>8, <1>16, <2>2 DEF DbError, HeldInv
  <2> QED  BY <2>1, <2>2
<1>17. CASE Clear(k)
  <2>1. pc[k] = "clear" /\ pc' = [pc EXCEPT ![k] = "back"]
    BY <1>17 DEF Clear
  <2> QED  BY <1>3, <1>17, <1>h, <1>s, <2>1 DEF Clear, HeldInv
<1>18. CASE Leave(k)
  <2>1. pc[k] = "over" /\ pc' = [pc EXCEPT ![k] = "idle"]
    BY <1>18 DEF Leave
  <2> QED  BY <1>3, <1>18, <1>h, <1>s, <2>1 DEF Leave, HeldInv
<1>19. CASE Cancel(k)
  <2>1. CASE pc[k] \in Running /\ Abandon(k, "cancelled")
    BY <1>3, <1>10, <1>19, <2>1 DEF Cancel, HeldInv
  <2>2. CASE ~(pc[k] \in Running /\ Abandon(k, "cancelled"))
    <3>2. /\ UNCHANGED <<holder, slot>>
          /\ \/ pc[k] = "wait" /\ pc' = [pc EXCEPT ![k] = "over"]
             \/ pc[k] \in {"set", "clear"} /\ pc' = [pc EXCEPT ![k] = "back"]
             \/ pc' = pc
      BY <1>19, <2>2 DEF Cancel
    <3>3. CASE pc[k] = "wait" /\ pc' = [pc EXCEPT ![k] = "over"]
      BY <1>3, <1>h, <1>s, <3>2, <3>3 DEF HeldInv
    <3>4. CASE pc[k] \in {"set", "clear"} /\ pc' = [pc EXCEPT ![k] = "back"]
      BY <1>3, <1>h, <1>s, <3>2, <3>4 DEF HeldInv
    <3>5. CASE pc' = pc
      BY <1>3, <3>2, <3>5, StaysHeld DEF HeldInv
    <3> QED  BY <3>2, <3>3, <3>4, <3>5
  <2> QED  BY <2>1, <2>2
<1>20. CASE CheckOut(k)
  <2>1. PICK s \in Slots : /\ holder[s] = None /\ open' = [open EXCEPT ![s] = TRUE]
                           /\ holder' = [holder EXCEPT ![s] = k]
                           /\ slot' = [slot EXCEPT ![k] = s]
                           /\ \E w \in {"inspect", "stream", "set"} : pc' = [pc EXCEPT ![k] = w]
    BY <1>20 DEF CheckOut
  <2>2. /\ pc[k] = "wait" /\ pc'[k] \in Holding /\ slot'[k] = s /\ holder'[s] = k
        /\ \A j \in Calls \ {k} : pc'[j] = pc[j] /\ slot'[j] = slot[j]
        /\ \A t \in Slots \ {s} : holder'[t] = holder[t] /\ open'[t] = open[t]
        /\ _engine' = _engine
    BY <1>1, <1>20, <1>h, <2>1 DEF CheckOut, TypeOK
  <2>3. None \notin Calls
    BY AdapterAssumption DEF AdapterAssumption
  <2>4. HasSlot'
    BY <2>2 DEF HeldInv, HasSlot
  <2>5. SlotsAreHeld'
    BY <1>h, <2>1, <2>2, <2>3 DEF HeldInv, SlotsAreHeld
  <2> QED  BY <1>3, <2>4, <2>5 DEF HeldInv
<1>21. CASE Back(k)
  <2>1. /\ pc[k] = "back" /\ slot[k] \in Slots /\ holder[slot[k]] = k /\ pc[k] \in Holding
    BY <1>21, <1>h, HoldsItsSlot DEF Back
  <2>2. /\ holder' = [holder EXCEPT ![slot[k]] = None] /\ slot' = [slot EXCEPT ![k] = None]
        /\ \E w \in {"start", "over"} : pc' = [pc EXCEPT ![k] = w]
    BY <1>21 DEF Back, Return, NextUse
  <2>3. /\ pc'[k] \notin Holding /\ holder'[slot[k]] = None
        /\ \A j \in Calls \ {k} : pc'[j] = pc[j] /\ slot'[j] = slot[j]
        /\ \A t \in Slots \ {slot[k]} : holder'[t] = holder[t]
    BY <1>1, <1>h, <2>1, <2>2 DEF TypeOK
  <2>4. None \notin Calls
    BY AdapterAssumption DEF AdapterAssumption
  <2>5. HasSlot'
    BY <2>3 DEF HeldInv, HasSlot
  <2>6. SlotsAreHeld'
    BY <2>1, <2>2, <2>3, <2>4 DEF HeldInv, SlotsAreHeld
  <2> QED  BY <1>3, <2>5, <2>6 DEF HeldInv
<1>22. CASE NetworkTimesOut(k)
  <2>1. PICK said : \/ pc[k] = "wait" /\ pc' = [pc EXCEPT ![k] = "over"] /\ holder' = holder
                    \/ pc[k] = "set" /\ pc' = [pc EXCEPT ![k] = "back"] /\ holder' = holder
                    \/ pc[k] \in Running /\ Abandon(k, said)
    BY <1>22 DEF NetworkTimesOut
  <2>2. slot' = slot
    BY <1>22 DEF NetworkTimesOut
  <2>3. CASE pc[k] \in Running /\ Abandon(k, said)
    BY <1>3, <1>10, <2>2, <2>3 DEF HeldInv
  <2>4. CASE ~(pc[k] \in Running /\ Abandon(k, said))
    BY <1>3, <1>h, <1>s, <2>1, <2>2, <2>4 DEF HeldInv
  <2> QED  BY <2>3, <2>4
<1> QED  BY <1>4, <1>5, <1>6, <1>7, <1>9, <1>11, <1>12, <1>13, <1>14, <1>15, <1>16, <1>17, <1>18,
           <1>19, <1>20, <1>21, <1>22 DEF Proceed, Serve

--------------------------------------------------------------------------------
(* Limits, timers and statements *)

\* A call that is not moved keeps its part of the invariant.
LEMMA SameKeeps ==
    ASSUME NEW j \in Calls, CallInv(j), Same(j), _dialect' = _dialect,
           pc[j] \in Querying => limit'[slot[j]] = limit[slot[j]]
    PROVE  CallInv(j)'
<1> USE DEF Same, IsRun, CallInv
<1>1. Uses(j)'
  BY DEF Uses
<1>2. Timed(j)'
  BY DEF Timed
<1>3. Asked(j)'
  BY DEF Asked
<1>4. Own(j)'
  BY DEF Own
<1>5. Bounded(j)'
  BY DEF Bounded, Bound
<1> QED  BY <1>1, <1>2, <1>3, <1>4, <1>5

\* Which connections' limits a call can change: that of the one it has or gets.
LEMMA OtherLimits ==
    ASSUME HeldInv, NEW k \in Calls,
           Begin(k) \/ Proceed(k) \/ Serve(k) \/ Cancel(k) \/ Leave(k)
    PROVE  \A s \in Slots : holder[s] \notin {None, k} => limit'[s] = limit[s]
<1>1. TypeOK
  BY DEF HeldInv
<1>2. pc[k] \in Holding => holder[slot[k]] = k
  BY HoldsItsSlot
<1>3. pc[k] \in {"set", "clear", "back"} => pc[k] \in Holding
  BY DEF Holding
<1> USE DEF GoTo, End, pool, clocks, data, outcome
<1>4. CASE Begin(k) \/ Start(k) \/ NoConnection(k) \/ ServerStops(k) \/ ClientStops(k) \/ Stream(k)
           \/ Fetch(k) \/ Inspect(k) \/ OrphanEnds(k) \/ DbError(k) \/ NetworkTimesOut(k) \/ Leave(k)
  BY <1>4 DEF Begin, Start, NoConnection, ServerStops, ClientStops, Abandon, Stream, Fetch, Inspect,
              OrphanEnds, DbError, NetworkTimesOut, Leave
<1>5. CASE CheckOut(k)
  BY <1>1, <1>5 DEF CheckOut, TypeOK
<1>6. CASE SetLimit(k)
  BY <1>1, <1>2, <1>3, <1>6 DEF SetLimit, TypeOK
<1>7. CASE Clear(k)
  BY <1>1, <1>2, <1>3, <1>7 DEF Clear, TypeOK
<1>8. CASE Back(k)
  BY <1>1, <1>2, <1>3, <1>8 DEF Back, Return, TypeOK
<1>9. CASE Cancel(k)
  BY <1>1, <1>2, <1>3, <1>9 DEF Cancel, Abandon, TypeOK
<1> QED  BY <1>4, <1>5, <1>6, <1>7, <1>8, <1>9 DEF Proceed, Serve

LEMMA PoolLimitsKept ==
    ASSUME AdapterInv, NEW k \in Calls,
           Begin(k) \/ Proceed(k) \/ Serve(k) \/ Cancel(k) \/ Leave(k)
    PROVE  PoolLimits'
<1>1. TypeOK /\ HeldInv /\ PoolLimits /\ Uses(k)
  BY DEF AdapterInv, HeldInv, CallInv
<1>2. pc[k] \in {"set", "clear", "back"} => slot[k] \in Slots /\ holder[slot[k]] = k /\ k # None
  BY <1>1, HoldsItsSlot DEF Holding
<1> USE DEF GoTo, End, pool, clocks, data, outcome, PoolLimits
<1>3. CASE Begin(k) \/ Start(k) \/ NoConnection(k) \/ ServerStops(k) \/ ClientStops(k) \/ Stream(k)
           \/ Fetch(k) \/ Inspect(k) \/ OrphanEnds(k) \/ DbError(k) \/ NetworkTimesOut(k) \/ Leave(k)
  <2>1. _dialect' = _dialect /\ limit' = limit /\ holder' = holder
    BY <1>3 DEF Begin, Start, NoConnection, ServerStops, ClientStops, Abandon, Stream, Fetch,
                Inspect, OrphanEnds, DbError, NetworkTimesOut, Leave
  <2> QED  BY <1>1, <2>1
<1>4. CASE CheckOut(k)
  <2>1. /\ _dialect' = _dialect
        /\ \E s \in Slots : /\ limit' = [limit EXCEPT ![s] = None] \/ limit' = limit
                            /\ holder' = [holder EXCEPT ![s] = k]
                            /\ holder[s] = None
    BY <1>4 DEF CheckOut
  <2> QED  BY <1>1, <2>1 DEF TypeOK
<1>5. CASE SetLimit(k)
  <2>1. _dialect' = _dialect /\ holder' = holder /\ pc[k] = "set"
        /\ \A s \in Slots : s # slot[k] => limit'[s] = limit[s]
    BY <1>1, <1>5 DEF SetLimit, TypeOK
  <2>2. _dialect # "mssql" /\ holder[slot[k]] # None
    BY <1>1, <1>2, <2>1 DEF Uses, ServerEnforced
  <2> QED  BY <1>1, <2>1, <2>2
<1>6. CASE Clear(k)
  <2>1. _dialect' = _dialect /\ holder' = holder
        /\ \A s \in Slots : limit'[s] \in {limit[s], None}
    BY <1>1, <1>6 DEF Clear, TypeOK
  <2> QED  BY <1>1, <2>1
<1>7. CASE Back(k)
  <2>1. _dialect' = _dialect /\ slot[k] \in Slots
    BY <1>2, <1>7 DEF Back
  <2>2. \A s \in Slots : s # slot[k] => limit'[s] = limit[s] /\ holder'[s] = holder[s]
    BY <1>1, <1>7 DEF Back, Return, TypeOK
  <2>3. limit'[slot[k]] = LeftOn(slot[k])
    BY <1>1, <1>7, <2>1 DEF Back, Return, TypeOK
  <2>4. /\ _dialect = "postgresql" => limit'[slot[k]] = None
        /\ _dialect = "mssql" => limit'[slot[k]] = None
    BY <1>1, <2>1, <2>3 DEF LeftOn
  <2> QED  BY <1>1, <2>1, <2>2, <2>4
<1>8. CASE Cancel(k)
  <2>1. _dialect' = _dialect /\ holder' = holder
    BY <1>8 DEF Cancel, Abandon
  <2>2. \A s \in Slots : limit'[s] \in {limit[s], None} \/ _dialect = "sqlite"
    BY <1>1, <1>8 DEF Cancel, Abandon, TypeOK
  <2> QED  BY <1>1, <2>1, <2>2
<1> QED  BY <1>3, <1>4, <1>5, <1>6, <1>7, <1>8 DEF Proceed, Serve

\* The end of a statement, however it comes.
LEMMA FinishKeeps ==
    ASSUME TypeOK, NEW k \in Calls, CallInv(k), NEW how, Finish(k, how), pc[k] \in Running,
           _dialect' = _dialect, todo' = todo, ran' = ran, stmt'[k] \in {None, stmt[k]},
           how = "ok" => stmt'[k] = None
    PROVE  CallInv(k)'
<1>1. /\ pc'[k] \in {"clear", "back"} /\ timer'[k] = None /\ result'[k] = how
      /\ pc'[k] = "clear" => IsRun(k) /\ _dialect = "sqlite"
  BY DEF TypeOK, Finish, GoTo
<1>2. IsRun(k)' = IsRun(k)
  BY DEF IsRun
<1>3. Uses(k)'
  BY <1>1, <1>2 DEF Uses, Querying
<1>4. Timed(k)'
  BY <1>1 DEF Timed, Querying
<1>5. Asked(k)'
  BY <1>1 DEF Asked, Running, Querying
<1>6. Own(k)'
  BY <1>1 DEF Own, Querying
<1>7. Bounded(k)'
  BY <1>2 DEF CallInv, Bounded, Bound
<1> QED  BY <1>3, <1>4, <1>5, <1>6, <1>7 DEF CallInv

LEMMA CheckOutKeeps == ASSUME AdapterInv, NEW k \in Calls, CheckOut(k) PROVE CallInv(k)'
<1> USE AdapterAssumption DEF AdapterAssumption
<1>1. TypeOK /\ PoolLimits /\ CallInv(k)
  BY DEF AdapterInv, HeldInv
<1>2. PICK s \in Slots :
         /\ holder[s] = None
         /\ limit' = [limit EXCEPT ![s] = None] \/ limit' = limit
         /\ slot' = [slot EXCEPT ![k] = s]
         /\ IF ~IsRun(k)
            THEN GoTo(k, "inspect") /\ Issue(k, s) /\ UNCHANGED timer
            ELSE IF _dialect = "mssql"
                 THEN GoTo(k, "stream") /\ Issue(k, s) /\ StartTimer(k)
                 ELSE GoTo(k, "set") /\ UNCHANGED <<stmt, ran, timer>>
  BY DEF CheckOut
<1>3. /\ pc[k] = "wait" /\ _dialect' = _dialect /\ todo' = todo /\ deadline' = deadline
      /\ result' = result /\ slot'[k] = s /\ stmt[k] = None /\ timer[k] = None
      /\ IsRun(k)' = IsRun(k)
  BY <1>1, <1>2 DEF CheckOut, TypeOK, CallInv, Asked, Timed, Querying, data, outcome, IsRun
<1>4. limit'[s] \in 0 .. Limit \cup {None}
      /\ (_dialect \in {"postgresql", "mssql"} => limit'[s] = None)
  BY <1>1, <1>2 DEF PoolLimits, TypeOK
<1>5. ASSUME Issue(k, s)
      PROVE  /\ ran'[k] = 0 /\ stmt'[k] # None
             /\ _dialect \in {"postgresql", "mssql"} => stmt'[k] = Unlimited
  BY <1>1, <1>4, <1>5 DEF Issue, TypeOK
<1>6. Bound \in Nat
  BY DEF Bound
<1>7. CASE ~IsRun(k)
  <2>1. pc'[k] = "inspect" /\ Issue(k, s) /\ timer' = timer
    BY <1>1, <1>2, <1>7 DEF GoTo, TypeOK
  <2>2. Uses(k)' /\ Timed(k)'
    BY <1>3, <1>7, <2>1 DEF Uses, Timed, Querying
  <2>3. Asked(k)' /\ Own(k)'
    BY <1>3, <1>5, <2>1 DEF Asked, Own, Running, Querying
  <2>4. Bounded(k)'
    BY <1>3, <1>5, <1>6, <1>7, <2>1 DEF Bounded, Bound
  <2> QED  BY <2>2, <2>3, <2>4 DEF CallInv
<1>8. CASE IsRun(k) /\ _dialect = "mssql"
  <2>1. pc'[k] = "stream" /\ Issue(k, s) /\ timer'[k] = ClientTimeout
    BY <1>1, <1>2, <1>8 DEF GoTo, StartTimer, TypeOK
  <2>2. ClientTimeout = Limit /\ deadline[k] <= Limit
    BY <1>1, <1>8 DEF ClientTimeout, ServerEnforced, TypeOK
  <2>3. Uses(k)'
    BY <1>3, <1>8, <2>1 DEF Uses, Querying
  <2>4. Timed(k)'
    BY <1>3, <1>8, <2>1, <2>2 DEF Timed, Querying
  <2>5. Asked(k)' /\ Own(k)'
    BY <1>3, <1>5, <1>8, <2>1 DEF Asked, Own, Running, Querying, ServerEnforced
  <2>6. Bounded(k)'
    BY <1>3, <1>8 DEF Bounded, ServerEnforced
  <2> QED  BY <2>3, <2>4, <2>5, <2>6 DEF CallInv
<1>9. CASE IsRun(k) /\ _dialect # "mssql"
  <2>1. pc'[k] = "set" /\ stmt' = stmt /\ ran' = ran /\ timer' = timer
    BY <1>1, <1>2, <1>9 DEF GoTo, TypeOK
  <2>2. _dialect \in ServerEnforced
    BY <1>1, <1>9 DEF TypeOK
  <2>3. Uses(k)' /\ Timed(k)'
    BY <1>3, <1>9, <2>1, <2>2 DEF Uses, Timed, Querying
  <2>4. Asked(k)' /\ Own(k)'
    BY <1>3, <2>1 DEF Asked, Own, Running, Querying
  <2>5. Bounded(k)'
    BY <1>1, <1>3, <2>1 DEF CallInv, Bounded, Bound
  <2> QED  BY <2>3, <2>4, <2>5 DEF CallInv
<1> QED  BY <1>7, <1>8, <1>9

LEMMA SetLimitKeeps == ASSUME AdapterInv, NEW k \in Calls, SetLimit(k) PROVE CallInv(k)'
<1> USE AdapterAssumption DEF AdapterAssumption
<1>1. TypeOK /\ HeldInv /\ CallInv(k) /\ pc[k] = "set"
  BY DEF AdapterInv, HeldInv, SetLimit
<1>2. slot[k] \in Slots
  BY <1>1, HoldsItsSlot DEF Holding
<1>3. /\ IsRun(k) /\ _dialect \in ServerEnforced /\ deadline[k] \in 0 .. Limit
  BY <1>1 DEF CallInv, Uses, TypeOK
<1>4. OwnLimit(k) \in 0 .. Limit /\ deadline[k] <= OwnLimit(k)
  BY <1>3 DEF OwnLimit
<1>5. /\ _dialect' = _dialect /\ todo' = todo /\ deadline' = deadline /\ slot' = slot
      /\ pc'[k] = "stream" /\ limit'[slot[k]] = OwnLimit(k) /\ stmt'[k] = OwnLimit(k)
      /\ ran'[k] = 0 /\ timer'[k] = ClientTimeout
  BY <1>1, <1>2, <1>4 DEF SetLimit, Issue, GoTo, StartTimer, TypeOK
<1>6. ClientTimeout = Limit + Grace
  BY <1>3 DEF ClientTimeout
<1>7. Uses(k)'
  BY <1>3, <1>5 DEF Uses, IsRun
<1>8. Timed(k)'
  BY <1>3, <1>5, <1>6 DEF Timed, Querying
<1>9. Asked(k)'
  BY <1>4, <1>5 DEF Asked, Querying, Running
<1>10. Own(k)'
  BY <1>5 DEF Own, OwnLimit
<1>11. Bounded(k)'
  <2>1. Bound \in Nat /\ OwnLimit(k) <= Bound /\ Bound' = Bound
    BY <1>4, <1>5 DEF Bound
  <2> QED  BY <1>4, <1>5, <2>1 DEF Bounded
<1> QED  BY <1>7, <1>8, <1>9, <1>10, <1>11 DEF CallInv

LEMMA StreamKeeps == ASSUME AdapterInv, NEW k \in Calls, Stream(k) PROVE CallInv(k)'
<1> USE AdapterAssumption DEF AdapterAssumption
<1>1. TypeOK /\ CallInv(k) /\ pc[k] \in Querying
  BY DEF AdapterInv, HeldInv, Stream, Querying
<1>2. /\ _dialect' = _dialect /\ todo' = todo /\ deadline' = deadline /\ slot' = slot
      /\ pc'[k] = "fetch" /\ limit' = limit /\ ran' = ran /\ timer' = timer
      /\ stmt'[k] = IF _dialect = "postgresql" THEN limit[slot[k]] ELSE stmt[k]
  BY <1>1 DEF Stream, GoTo, TypeOK, pool, clocks
<1>3. IsRun(k) /\ deadline[k] \in 0 .. Limit /\ ran[k] \in Nat /\ IsRun(k)' = IsRun(k)
  BY <1>1, <1>2 DEF CallInv, Uses, TypeOK, IsRun
<1>4. /\ timer[k] \in Nat /\ deadline[k] <= timer[k] /\ stmt[k] # None
      /\ stmt[k] = Unlimited \/ deadline[k] <= stmt[k]
      /\ _dialect = "postgresql" => ran[k] + timer[k] <= Limit + Grace /\ limit[slot[k]] = Limit
  BY <1>1 DEF CallInv, Timed, Asked, Own, Querying, Running, ServerEnforced
<1>5. Uses(k)'
  BY <1>2, <1>3 DEF Uses
<1>6. Timed(k)'
  BY <1>2, <1>4 DEF Timed, Querying
<1>7. Asked(k)'
  BY <1>2, <1>3, <1>4 DEF Asked, Querying, Running
<1>8. Own(k)'
  BY <1>1, <1>2 DEF CallInv, Own, Querying
<1>9. Bounded(k)'
  <2>1. CASE _dialect = "postgresql"
    <3>1. stmt'[k] = Limit /\ ran'[k] + Limit <= 2 * Limit + Grace
      BY <1>2, <1>3, <1>4, <2>1
    <3>2. Bound' = 2 * Limit + Grace
      BY <1>2, <2>1 DEF Bound
    <3> QED  BY <1>2, <1>3, <3>1, <3>2 DEF Bounded
  <2>2. CASE _dialect # "postgresql"
    BY <1>1, <1>2, <1>3, <2>2 DEF CallInv, Bounded, Bound
  <2> QED  BY <2>1, <2>2
<1> QED  BY <1>5, <1>6, <1>7, <1>8, <1>9 DEF CallInv

LEMMA CallKeeps ==
    ASSUME AdapterInv, NEW k \in Calls,
           Begin(k) \/ Proceed(k) \/ Serve(k) \/ Cancel(k) \/ Leave(k)
    PROVE  CallInv(k)'
<1> USE AdapterAssumption DEF AdapterAssumption
<1>1. TypeOK /\ HeldInv /\ CallInv(k)
  BY DEF AdapterInv, HeldInv
<1>2. Bound \in Nat
  BY DEF Bound
<1> USE DEF GoTo, End, pool, clocks, data, outcome
<1>q. Querying = {"stream", "fetch"} /\ Running = {"inspect", "stream", "fetch"}
  BY DEF Querying, Running
\* Where the timer is off and no statement is awaited, little is to be shown.
<1>q1. ASSUME pc'[k] \notin Running \cup {"set", "clear"}, timer'[k] = None, _dialect' = _dialect,
              pc'[k] \in {"idle", "start", "wait"} => stmt'[k] = None,
              pc'[k] = "back" /\ result'[k] = "ok" => stmt'[k] = None,
              Bounded(k)'
       PROVE  CallInv(k)'
  <2>1. Uses(k)' /\ Timed(k)' /\ Asked(k)' /\ Own(k)'
    BY <1>q, <1>q1 DEF Uses, Timed, Asked, Own
  <2> QED  BY <1>q1, <2>1 DEF CallInv
<1>q2. ASSUME _dialect' = _dialect, ran'[k] \in {0, ran[k]}, stmt'[k] = None PROVE Bounded(k)'
  BY <1>1, <1>2, <1>q2 DEF CallInv, Bounded, Bound
<1>q3. ASSUME _dialect' = _dialect, ran' = ran, stmt' = stmt, todo' = todo PROVE Bounded(k)'
  BY <1>1, <1>q3 DEF CallInv, Bounded, Bound, IsRun
<1>q4. pc[k] \notin Running => timer[k] = None
  BY <1>1, <1>q DEF CallInv, Timed
<1>q5. pc[k] \in {"idle", "start", "wait", "set"} => stmt[k] = None
  BY <1>1 DEF CallInv, Asked
<1>3. CASE Begin(k)
  <2>1. /\ pc[k] = "idle" /\ pc'[k] \in {"over", "start"} /\ _dialect' = _dialect /\ timer' = timer
        /\ stmt' = stmt /\ ran' = ran
    BY <1>1, <1>3 DEF Begin, TypeOK
  <2> QED  BY <1>q, <1>q1, <1>q2, <1>q4, <1>q5, <2>1
<1>4. CASE Start(k) \/ NoConnection(k)
  <2>1. /\ pc[k] \in {"start", "wait"} /\ pc'[k] \in {"over", "wait"} /\ _dialect' = _dialect
        /\ timer' = timer /\ stmt' = stmt /\ ran' = ran
    BY <1>1, <1>4 DEF Start, NoConnection, TypeOK
  <2> QED  BY <1>q, <1>q1, <1>q2, <1>q4, <1>q5, <2>1
<1>5. CASE ServerStops(k)
  <2>1. CASE pc[k] \in Running
    <3>1. /\ \E how \in Results \ {"ok"} : Finish(k, how)
          /\ stmt'[k] = None /\ _dialect' = _dialect /\ todo' = todo /\ ran' = ran
      BY <1>1, <1>5, <2>1 DEF ServerStops, Translated, TypeOK, Results
    <3> QED  BY <1>1, <2>1, <3>1, FinishKeeps
  <2>2. CASE pc[k] \notin Running
    <3>1. /\ pc' = pc /\ result' = result /\ timer' = timer /\ stmt'[k] = None /\ ran' = ran
          /\ _dialect' = _dialect /\ stmt[k] = 0 /\ pc[k] \notin {"set"} /\ todo' = todo
      BY <1>1, <1>5, <1>q5, <2>2 DEF ServerStops, TypeOK
    <3>2. Bounded(k)'
      BY <1>q2, <3>1
    <3>3. Uses(k)' /\ Timed(k)' /\ Asked(k)' /\ Own(k)'
      BY <1>1, <1>q, <2>2, <3>1 DEF CallInv, Uses, Timed, Asked, Own, IsRun
    <3> QED  BY <3>2, <3>3 DEF CallInv
  <2> QED  BY <2>1, <2>2
<1>6. CASE OrphanEnds(k)
  <2>1. /\ pc' = pc /\ result' = result /\ timer' = timer /\ stmt'[k] = None /\ ran' = ran
        /\ _dialect' = _dialect /\ todo' = todo /\ pc[k] \notin Running
    BY <1>1, <1>6 DEF OrphanEnds, TypeOK
  <2>2. Bounded(k)'
    BY <1>q2, <2>1
  <2>3. Uses(k)' /\ Timed(k)' /\ Asked(k)' /\ Own(k)'
    BY <1>1, <1>q, <2>1 DEF CallInv, Uses, Timed, Asked, Own, IsRun
  <2> QED  BY <2>2, <2>3 DEF CallInv
<1>7. CASE ClientStops(k)
  <2>1. pc[k] \in Running
    <3>1. timer[k] = 0 /\ None # 0
      BY <1>7 DEF ClientStops
    <3> QED  BY <1>q4, <3>1
  <2>2. Finish(k, "timeout") /\ stmt' = stmt /\ _dialect' = _dialect /\ todo' = todo /\ ran' = ran
    BY <1>7 DEF ClientStops, Abandon
  <2> QED  BY <1>1, <2>1, <2>2, FinishKeeps
<1>8. CASE Fetch(k) \/ Inspect(k)
  <2>1. /\ pc[k] \in Running /\ stmt'[k] = None /\ _dialect' = _dialect /\ todo' = todo /\ ran' = ran
        /\ \E how \in Results : Finish(k, how)
    BY <1>1, <1>8 DEF Fetch, Inspect, TypeOK, Running, Results
  <2> QED  BY <1>1, <2>1, FinishKeeps
<1>9. CASE DbError(k)
  <2>1. stmt'[k] = None /\ _dialect' = _dialect /\ todo' = todo /\ ran' = ran
    BY <1>1, <1>9 DEF DbError, TypeOK
  <2>2. CASE pc[k] = "set"
    <3>1. pc'[k] = "back" /\ result'[k] = "failed" /\ timer' = timer
      BY <1>1, <1>9, <2>2 DEF DbError, TypeOK
    <3> QED  BY <1>q, <1>q1, <1>q2, <1>q4, <2>1, <2>2, <3>1
  <2>3. CASE pc[k] # "set"
    BY <1>1, <1>9, <2>1, <2>3, FinishKeeps DEF DbError
  <2> QED  BY <2>2, <2>3
<1>10. CASE Clear(k)
  <2>1. /\ pc[k] = "clear" /\ pc'[k] = "back" /\ result' = result /\ timer' = timer /\ stmt' = stmt
        /\ ran' = ran /\ todo' = todo /\ _dialect' = _dialect
    BY <1>1, <1>10 DEF Clear, TypeOK
  <2>2. result[k] = "ok" => stmt[k] = None
    BY <1>1, <2>1 DEF CallInv, Asked
  <2> QED  BY <1>q, <1>q1, <1>q3, <1>q4, <2>1, <2>2
<1>11. CASE Back(k)
  <2>1. /\ pc[k] = "back" /\ timer' = timer /\ stmt' = stmt /\ ran' = ran /\ _dialect' = _dialect
        /\ \/ pc'[k] = "start" /\ result[k] = "ok"
           \/ pc'[k] = "over" /\ todo' = todo
    BY <1>1, <1>11 DEF Back, NextUse, TypeOK
  <2>2. result[k] = "ok" => stmt[k] = None
    BY <1>1, <2>1 DEF CallInv, Asked
  <2>3. Bounded(k)'
    BY <1>q2, <1>q3, <2>1, <2>2
  <2> QED  BY <1>q, <1>q1, <1>q4, <2>1, <2>2, <2>3
<1>12. CASE Cancel(k)
  <2>1. _dialect' = _dialect /\ todo' = todo /\ ran' = ran /\ stmt' = stmt
    BY <1>12 DEF Cancel, Abandon
  <2>2. CASE pc[k] \in Running /\ Abandon(k, "cancelled")
    <3>1. Finish(k, "cancelled")
      BY <2>2 DEF Abandon
    <3> QED  BY <1>1, <2>1, <2>2, <3>1, FinishKeeps
  <2>3. CASE ~(pc[k] \in Running /\ Abandon(k, "cancelled"))
    <3>1. /\ pc[k] \notin Running /\ pc'[k] \in {"over", "back"} /\ result'[k] = "cancelled"
          /\ timer' = timer
      BY <1>1, <1>12, <2>3, <1>q DEF Cancel, TypeOK
    <3> QED  BY <1>q, <1>q1, <1>q3, <1>q4, <2>1, <3>1
  <2> QED  BY <2>2, <2>3
<1>13. CASE Leave(k)
  <2>1. /\ pc[k] = "over" /\ pc'[k] = "idle" /\ stmt'[k] = None /\ timer' = timer /\ ran'[k] = 0
        /\ _dialect' = _dialect
    BY <1>1, <1>13 DEF Leave, TypeOK
  <2> QED  BY <1>q, <1>q1, <1>q2, <1>q4, <2>1
<1>14. CASE NetworkTimesOut(k)
  <2>1. _dialect' = _dialect /\ todo' = todo /\ ran' = ran /\ stmt' = stmt
    BY <1>14 DEF NetworkTimesOut, Abandon
  <2>2. PICK said \in {"timeout", "raised"} :
           \/ /\ pc[k] \in {"wait", "set"} /\ pc'[k] \in {"over", "back"} /\ result'[k] = said
              /\ timer' = timer
           \/ pc[k] \in Running /\ Abandon(k, said)
    BY <1>1, <1>14 DEF NetworkTimesOut, TypeOK
  <2>3. CASE pc[k] \in Running /\ Abandon(k, said)
    <3>1. Finish(k, said)
      BY <2>3 DEF Abandon
    <3> QED  BY <1>1, <2>1, <2>3, <3>1, FinishKeeps
  <2>4. CASE ~(pc[k] \in Running /\ Abandon(k, said))
    <3>1. /\ pc[k] \in {"wait", "set"} /\ pc'[k] \in {"over", "back"} /\ result'[k] # "ok"
          /\ timer' = timer
      BY <2>2, <2>4
    <3> QED  BY <1>q, <1>q1, <1>q3, <1>q4, <2>1, <3>1
  <2> QED  BY <2>3, <2>4
<1> QED  BY <1>3, <1>4, <1>5, <1>6, <1>7, <1>8, <1>9, <1>10, <1>11, <1>12, <1>13, <1>14,
           CheckOutKeeps, SetLimitKeeps, StreamKeeps DEF Proceed, Serve

--------------------------------------------------------------------------------
(* Time, and the adapter's life *)

LEMMA TickKeeps == AdapterInv /\ Tick => AdapterInv'
<1> SUFFICES ASSUME AdapterInv, Tick PROVE AdapterInv'
  OBVIOUS
<1> USE AdapterAssumption DEF AdapterAssumption
<1>1. TypeOK /\ HeldInv
  BY DEF AdapterInv, HeldInv
<1>2. HeldInv'
  BY <1>1, TickTyped DEF HeldInv, SlotsAreHeld, HasSlot, Tick
<1>3. Less(None) = None /\ Less(Unlimited) = Unlimited /\ _dialect' = _dialect
  BY DEF Less, Tick
<1>4. PoolLimits'
  BY <1>3 DEF AdapterInv, PoolLimits, Tick
<1>5. ASSUME NEW k \in Calls PROVE CallInv(k)'
  <2>1. /\ pc'[k] = pc[k] /\ result'[k] = result[k] /\ slot'[k] = slot[k] /\ IsRun(k)' = IsRun(k)
        /\ deadline'[k] = Less(deadline[k]) /\ timer'[k] = Less(timer[k])
        /\ stmt'[k] = Less(stmt[k]) /\ stmt[k] # 0 /\ timer[k] # 0
        /\ ran'[k] = IF stmt[k] # None /\ IsRun(k) /\ ran[k] < MostTicks THEN ran[k] + 1 ELSE ran[k]
    BY DEF Tick, IsRun, outcome
  <2>2. /\ deadline[k] \in Nat /\ ran[k] \in Nat /\ timer[k] \in Nat \cup {None}
        /\ stmt[k] \in Nat \cup {None, Unlimited}
    BY <1>1 DEF TypeOK
  <2>3. \A m, n \in Nat : m <= n => Less(m) <= Less(n)
    BY DEF Less
  <2>4. \A n \in Nat : Less(n) \in Nat /\ (n # 0 => Less(n) + 1 = n)
    BY DEF Less
  <2>5. Uses(k) /\ Timed(k) /\ Asked(k) /\ Own(k) /\ Bounded(k)
    BY DEF AdapterInv, CallInv
  <2>6. Uses(k)'
    BY <1>3, <2>1, <2>5 DEF Uses
  <2>7. Timed(k)'
    <3>1. timer'[k] # None => timer[k] # None
      BY <1>3, <2>1
    <3>2. pc[k] \in Querying => timer'[k] \in Nat /\ deadline'[k] <= timer'[k]
      BY <2>1, <2>2, <2>3, <2>4, <2>5 DEF Timed
    <3>3. ASSUME pc[k] \in Querying, _dialect = "postgresql"
          PROVE  ran'[k] + timer'[k] <= Limit + Grace
      <4>1. timer[k] \in Nat /\ ran[k] + timer[k] <= Limit + Grace /\ timer[k] # 0
        BY <2>1, <2>5, <3>3 DEF Timed
      <4>2. timer'[k] + 1 = timer[k] /\ timer'[k] \in Nat
        BY <2>1, <2>4, <4>1
      <4>3. ran'[k] = ran[k] \/ ran'[k] = ran[k] + 1
        BY <2>1
      <4> QED  BY <2>2, <4>1, <4>2, <4>3
    <3> QED  BY <1>3, <2>1, <2>5, <3>1, <3>2, <3>3 DEF Timed
  <2>8. Asked(k)'
    <3>1. /\ stmt[k] = None => stmt'[k] = None
          /\ stmt[k] # None => stmt'[k] # None
      BY <1>3, <2>1, <2>2, <2>4
    <3>2. stmt[k] = Unlimited => stmt'[k] = Unlimited
      BY <1>3, <2>1
    <3>3. stmt[k] \in Nat /\ deadline[k] <= stmt[k] => deadline'[k] <= stmt'[k]
      BY <2>1, <2>2, <2>3
    <3>4. pc[k] \in Querying => stmt'[k] = Unlimited \/ deadline'[k] <= stmt'[k]
      BY <2>2, <2>5, <3>2, <3>3 DEF Asked, Querying, Running
    <3> QED  BY <2>1, <2>5, <3>1, <3>4 DEF Asked
  <2>9. Own(k)'
    <3>1. pc[k] \in Querying => slot[k] \in Slots
      BY <1>1 DEF HeldInv, HasSlot, Querying, Holding, Running
    <3>2. pc[k] \in Querying => limit'[slot[k]] = IF _dialect = "sqlite" THEN Less(limit[slot[k]])
                                                 ELSE limit[slot[k]]
      BY <3>1 DEF Tick
    <3> QED  BY <1>3, <2>1, <2>5, <3>2 DEF Own
  <2>10. Bounded(k)'
    <3> SUFFICES ASSUME _dialect \in ServerEnforced
                 PROVE  /\ ran'[k] <= Bound
                        /\ IsRun(k) /\ stmt'[k] # None => stmt'[k] \in Nat /\ ran'[k] + stmt'[k] <= Bound
      BY <1>3, <2>1 DEF Bounded, Bound
    <3>0. Bound \in Nat /\ ran[k] <= Bound
      BY <2>5 DEF Bounded, Bound
    <3>1. CASE IsRun(k) /\ stmt[k] # None
      <4>1. stmt[k] \in Nat /\ ran[k] + stmt[k] <= Bound /\ stmt[k] # 0
        BY <2>1, <2>5, <3>1 DEF Bounded
      <4>2. stmt'[k] \in Nat /\ stmt'[k] + 1 = stmt[k]
        BY <2>1, <2>4, <4>1
      <4>3. ran'[k] = ran[k] \/ ran'[k] = ran[k] + 1
        BY <2>1
      <4> QED  BY <2>2, <3>0, <4>1, <4>2, <4>3
    <3>2. CASE ~(IsRun(k) /\ stmt[k] # None)
      <4>1. ran'[k] = ran[k] /\ (IsRun(k) => stmt'[k] = None)
        BY <1>3, <2>1, <3>2
      <4> QED  BY <3>0, <4>1
    <3> QED  BY <3>1, <3>2
  <2> QED  BY <2>6, <2>7, <2>8, <2>9, <2>10 DEF CallInv
<1> QED  BY <1>2, <1>4, <1>5 DEF AdapterInv

\* The connections are made, closed one by one or all at once, or left alone.
Life == Connect \/ Close \/ Dispose \/ Closed \/ Collect \/ UNCHANGED vars

LEMMA LifeKeeps == AdapterInv /\ Life => AdapterInv'
<1> SUFFICES ASSUME AdapterInv, Life PROVE AdapterInv'
  OBVIOUS
<1>1. TypeOK /\ HeldInv /\ PoolLimits
  BY DEF AdapterInv, HeldInv
<1>2. /\ _dialect' = _dialect /\ pc' = pc /\ todo' = todo /\ slot' = slot /\ deadline' = deadline
      /\ timer' = timer /\ stmt' = stmt /\ ran' = ran /\ result' = result /\ holder' = holder
      /\ there' = there /\ rows' = rows /\ truncated' = truncated /\ silent' = silent
  BY DEF Life, Connect, Close, Dispose, Closed, Collect, vars, pool, clocks, data, outcome
<1>3. /\ _engine' \in {"none", "open", "closing", "closed"} /\ open' \in [Slots -> BOOLEAN]
      /\ limit' \in [Slots -> 0 .. Limit \cup {None}]
  BY <1>1 DEF Life, Connect, Close, Dispose, Closed, Collect, vars, pool, TypeOK
<1>4. TypeOK'
  BY <1>1, <1>2, <1>3 DEF TypeOK
<1>5. \A s \in Slots : \/ limit'[s] = limit[s]
                       \/ limit'[s] = None /\ \A k \in Calls : holder[s] # k
  <2>1. CASE Dispose
    BY <1>1, <2>1, AdapterAssumption DEF Dispose, Idle, TypeOK, AdapterAssumption
  <2>2. CASE Collect
    BY <1>1, <2>2 DEF Collect, HeldInv, SlotsAreHeld
  <2>3. CASE Connect \/ Close \/ Closed \/ UNCHANGED vars
    BY <2>3 DEF Connect, Close, Closed, vars, pool
  <2> QED  BY <2>1, <2>2, <2>3 DEF Life
<1>6. SlotsAreHeld' /\ HasSlot'
  BY <1>1, <1>2 DEF HeldInv, SlotsAreHeld, HasSlot
<1>7. PoolLimits'
  BY <1>1, <1>2, <1>5 DEF PoolLimits
<1>8. ASSUME NEW k \in Calls PROVE CallInv(k)'
  <2>1. Same(k)
    BY <1>2 DEF Same
  <2>2. pc[k] \in Querying => limit'[slot[k]] = limit[slot[k]]
    <3>1. pc[k] \in Querying => pc[k] \in Holding
      BY DEF Querying, Holding, Running
    <3> QED  BY <1>1, <1>2, <1>5, <3>1, HoldsItsSlot
  <2> QED  BY <1>2, <2>1, <2>2, SameKeeps DEF AdapterInv
<1> QED  BY <1>4, <1>6, <1>7, <1>8 DEF AdapterInv, HeldInv

LEMMA InitInv == Init => AdapterInv
<1> SUFFICES ASSUME Init PROVE AdapterInv
  OBVIOUS
<1> USE AdapterAssumption DEF AdapterAssumption
<1>1. PoolLimits
  BY DEF Init, PoolLimits
<1>2. ASSUME NEW k \in Calls PROVE CallInv(k)
  <2>1. /\ pc[k] = "idle" /\ timer[k] = None /\ stmt[k] = None /\ ran[k] = 0
    BY DEF Init
  <2>2. Bound \in Nat
    BY DEF Bound
  <2> QED  BY <2>1, <2>2 DEF CallInv, Uses, Timed, Asked, Own, Bounded, Querying, Running
<1> QED  BY <1>1, <1>2, InitHeld DEF AdapterInv

LEMMA NextInv == AdapterInv /\ [Next]_vars => AdapterInv'
<1> SUFFICES ASSUME AdapterInv, [Next]_vars PROVE AdapterInv'
  OBVIOUS
<1>1. ASSUME NEW k \in Calls, Begin(k) \/ Proceed(k) \/ Serve(k) \/ Cancel(k) \/ Leave(k)
      PROVE  AdapterInv'
  <2>1. TypeOK /\ HeldInv
    BY DEF AdapterInv, HeldInv
  <2>2. HeldInv'
    BY <1>1, <2>1, CallHeld DEF AdapterInv, CallInv, Timed
  <2>3. PoolLimits' /\ CallInv(k)'
    BY <1>1, PoolLimitsKept, CallKeeps
  <2>4. ASSUME NEW j \in Calls \ {k} PROVE CallInv(j)'
    <3>1. Same(j)
      BY <1>1, <2>1, OtherCalls
    <3>2. pc[j] \in Querying => limit'[slot[j]] = limit[slot[j]]
      <4>1. pc[j] \in Querying => pc[j] \in Holding
        BY DEF Querying, Holding, Running
      <4>2. pc[j] \in Querying => slot[j] \in Slots /\ holder[slot[j]] \notin {None, k}
        BY <2>1, <4>1, HoldsItsSlot
      <4> QED  BY <1>1, <2>1, <4>2, OtherLimits
    <3>3. _dialect' = _dialect
      BY <1>1 DEF Begin, Proceed, Serve, Cancel, Leave, Start, CheckOut, NoConnection, SetLimit,
                  ServerStops, ClientStops, Clear, Back, Stream, Fetch, Inspect, OrphanEnds, DbError,
                  NetworkTimesOut
    <3> QED  BY <3>1, <3>2, <3>3, SameKeeps DEF AdapterInv
  <2> QED  BY <2>2, <2>3, <2>4 DEF AdapterInv
<1>2. CASE Tick
  BY <1>2, TickKeeps
<1>3. CASE Life
  BY <1>3, LifeKeeps
<1> QED  BY <1>1, <1>2, <1>3 DEF Next, Life

--------------------------------------------------------------------------------
(* The theorems *)

(* Connections, calls, timers and statements keep their types. *)
THEOREM AdapterTypeCorrect == Spec => []TypeOK
<1>1. AdapterInv => TypeOK
  BY DEF AdapterInv, HeldInv
<1> QED  BY InitInv, NextInv, <1>1, PTL DEF Spec

(* Whatever ends a use of a connection, and whenever the adapter is closed, a connection is
   checked out to a call exactly while the call uses it: the calls never run out of slots
   but by using them. *)
THEOREM SlotsAreGivenBack == Spec => []SlotsAreHeld
<1>1. AdapterInv => SlotsAreHeld
  BY DEF AdapterInv, HeldInv
<1> QED  BY InitInv, NextInv, <1>1, PTL DEF Spec

(* A query runs under its own limit, whatever an earlier one left on the connection. *)
THEOREM QueriesKeepTheirLimit == Spec => []LimitIsItsOwn
<1>1. AdapterInv => LimitIsItsOwn
  BY DEF AdapterInv, CallInv, Own, LimitIsItsOwn, Querying
<1> QED  BY InitInv, NextInv, <1>1, PTL DEF Spec

(* On a server that keeps a limit no statement outlives it, abandoned or not. *)
THEOREM StatementsAreStopped == Spec => []StatementsEnd
<1>1. AdapterInv => StatementsEnd
  BY DEF AdapterInv, CallInv, Bounded, Bound, StatementsEnd, ServerEnforced
<1> QED  BY InitInv, NextInv, <1>1, PTL DEF Spec

\* What one step says of a query is true.
LEMMA StepTells ==
    ASSUME AdapterInv, NEW k \in Calls, IsRun(k), result'[k] # result[k],
           Begin(k) \/ Proceed(k) \/ Serve(k) \/ Cancel(k) \/ Leave(k)
    PROVE  /\ result'[k] = "timeout" => deadline[k] = 0 \/ silent'[k]
           /\ result'[k] = "ok" => (truncated'[k] <=> rows'[k] < there'[k])
<1> USE AdapterAssumption DEF AdapterAssumption
<1>1. TypeOK /\ Uses(k) /\ Timed(k) /\ Asked(k)
  BY DEF AdapterInv, HeldInv, CallInv
<1>2. deadline[k] \in Nat /\ Running = {"inspect", "stream", "fetch"} /\ Querying = {"stream", "fetch"}
  BY <1>1 DEF TypeOK, Running, Querying
<1> USE DEF GoTo, End, pool, clocks, data, outcome
<1>3. CASE Begin(k) \/ Start(k) \/ CheckOut(k) \/ SetLimit(k) \/ Clear(k) \/ Back(k) \/ Stream(k)
           \/ OrphanEnds(k) \/ Leave(k)
  <2>1. result'[k] \notin {"timeout", "ok"}
    BY <1>1, <1>3 DEF Begin, Start, CheckOut, SetLimit, Clear, Back, NextUse, Stream, OrphanEnds,
                      Leave, TypeOK
  <2> QED  BY <2>1
<1>4. CASE NoConnection(k)
  BY <1>1, <1>4 DEF NoConnection, TypeOK
<1>5. CASE ServerStops(k)
  <2>1. pc[k] \in Running /\ stmt[k] = 0 /\ result'[k] \in Translated(k)
    BY <1>1, <1>5 DEF ServerStops, Finish, TypeOK
  <2>2. pc[k] \in Querying /\ stmt[k] # Unlimited
    BY <1>1, <1>2, <2>1 DEF Uses
  <2>3. deadline[k] = 0
    BY <1>1, <1>2, <2>1, <2>2 DEF Asked
  <2>4. "ok" \notin Translated(k)
    BY DEF Translated
  <2> QED  BY <2>1, <2>3, <2>4
<1>6. CASE ClientStops(k)
  <2>1. timer[k] = 0 /\ result'[k] = "timeout"
    BY <1>1, <1>6 DEF ClientStops, Abandon, Finish, TypeOK
  <2>2. pc[k] \in Querying
    BY <1>1, <2>1 DEF Timed
  <2>3. deadline[k] = 0
    BY <1>1, <1>2, <2>1, <2>2 DEF Timed
  <2> QED  BY <2>1, <2>3
<1>7. CASE Fetch(k)
  <2>1. PICK n \in 0 .. max_rows + 2 :
           /\ there' = [there EXCEPT ![k] = n]
           /\ rows' = [rows EXCEPT ![k] = IF Fetched(n) > max_rows THEN max_rows ELSE Fetched(n)]
           /\ truncated' = [truncated EXCEPT ![k] = Fetched(n) > max_rows]
    BY <1>7 DEF Fetch
  <2>2. /\ there'[k] = n /\ rows'[k] = IF Fetched(n) > max_rows THEN max_rows ELSE Fetched(n)
        /\ truncated'[k] = (Fetched(n) > max_rows)
    BY <1>1, <2>1 DEF TypeOK
  <2>3. CASE n <= max_rows
    <3>1. Fetched(n) = n /\ ~(Fetched(n) > max_rows) /\ ~(n < n)
      BY <2>3 DEF Fetched
    <3>2. rows'[k] = n
      BY <2>2, <3>1
    <3>3. ~truncated'[k]
      BY <2>2, <3>1
    <3>4. result'[k] = "ok"
      BY <1>1, <1>7 DEF Fetch, Finish, TypeOK
    <3>5. ~(rows'[k] < there'[k])
      BY <2>2, <3>1, <3>2
    <3> QED  BY <3>3, <3>4, <3>5
  <2>4. CASE n > max_rows
    <3>1. Fetched(n) = max_rows + 1 /\ Fetched(n) > max_rows
      BY <2>4 DEF Fetched
    <3> QED  BY <1>1, <1>7, <2>2, <2>4, <3>1 DEF Fetch, Finish, TypeOK
  <2> QED  BY <2>3, <2>4
<1>8. CASE Inspect(k)
  BY <1>1, <1>8 DEF Inspect, Uses
<1>9. CASE DbError(k)
  BY <1>1, <1>9 DEF DbError, Finish, TypeOK
<1>10. CASE Cancel(k)
  BY <1>1, <1>10 DEF Cancel, Abandon, Finish, TypeOK
<1>11. CASE NetworkTimesOut(k)
  <2>1. silent'[k]
    BY <1>1, <1>11 DEF NetworkTimesOut, TypeOK
  <2>2. result'[k] # "ok"
    BY <1>1, <1>11 DEF NetworkTimesOut, Abandon, Finish, TypeOK
  <2> QED  BY <2>1, <2>2
<1> QED  BY <1>3, <1>4, <1>5, <1>6, <1>7, <1>8, <1>9, <1>10, <1>11 DEF Proceed, Serve

(* A query is reported timed out only if it had its time or the network timed out on it, and
   rows are said to be left out exactly when some are, whoever stops the statement first. *)
THEOREM ReportsTellTheTruth == Spec => ReportsAreTrue
<1>1. ASSUME AdapterInv, [Next]_vars, NEW k \in Calls, IsRun(k), result'[k] # result[k]
      PROVE  /\ result'[k] = "timeout" => deadline[k] = 0 \/ silent'[k]
             /\ result'[k] = "ok" => (truncated'[k] <=> rows'[k] < there'[k])
  <2>1. ASSUME NEW j \in Calls, Begin(j) \/ Proceed(j) \/ Serve(j) \/ Cancel(j) \/ Leave(j)
        PROVE  j = k
    <3>1. TypeOK
      BY <1>1 DEF AdapterInv, HeldInv
    <3>2. j # k => Same(k)
      BY <2>1, <3>1, OtherCalls
    <3> QED  BY <1>1, <3>2 DEF Same
  <2>2. Begin(k) \/ Proceed(k) \/ Serve(k) \/ Cancel(k) \/ Leave(k)
    <3>1. ~(Tick \/ Life)
      BY <1>1 DEF Tick, Life, Connect, Close, Dispose, Closed, Collect, vars, outcome
    <3> QED  BY <1>1, <2>1, <3>1 DEF Next, Life
  <2> QED  BY <1>1, <2>2, StepTells
<1>2. AdapterInv /\ [Next]_vars =>
         [\A k \in Calls : IsRun(k) /\ result'[k] # result[k] =>
            /\ result'[k] = "timeout" => deadline[k] = 0 \/ silent'[k]
            /\ result'[k] = "ok" => (truncated'[k] <=> rows'[k] < there'[k])]_vars
  BY <1>1
<1> QED  BY InitInv, NextInv, <1>2, PTL DEF Spec, ReportsAreTrue
================================================================================
