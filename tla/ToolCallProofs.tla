----------------------------- MODULE ToolCallProofs -----------------------------
(***************************************************************************)
(* The four properties of ToolCall, proved for any number of calls and     *)
(* changes of grants, any tables and foreign keys, and any failures.       *)
(***************************************************************************)
EXTENDS ToolCall, TLAPS

\* The n-th await of a call is over.
Passed(c, n) == at[c] > n \/ outcome[c] = "result"

\* A call in its phases: an await while in the body, then an outcome, then a row and a reply.
Phases(c) ==
    /\ at[c] = 0 => /\ phase[c] \in {"new", "over"} /\ outcome[c] = None
                   /\ access[c] = {} /\ rows[c] = <<>>
    /\ phase[c] = "new" => at[c] = 0
    /\ at[c] # 0 => ask[c] \in Asks /\ at[c] \in 1 .. Len(Awaits(ask[c].tool))
    /\ phase[c] = "body" => outcome[c] = None
    /\ at[c] # 0 /\ phase[c] \in {"audit", "over"} =>
          outcome[c] \in Errors \cup {"result", "cancelled"}
    /\ phase[c] # "over" => rows[c] = <<>> /\ reply[c] = None

\* What the lookups that are over have found was granted while the call could see it.
Held(c) ==
    /\ Passed(c, 1) => HeldSince(c, "tool")
    /\ Passed(c, 2) /\ ask[c].tool # "list_connections" => HeldSince(c, "connection")
    /\ \A t \in access[c] : HeldSince(c, t)

\* A call keeps to its access, and touches nothing before the checks are over.
Kept(c) ==
    /\ touched[c] \subseteq access[c] /\ shown[c] \subseteq access[c]
    /\ touched[c] \cup shown[c] # {} => Passed(c, 4) /\ ask[c].tool # "list_connections"
    /\ Passed(c, 4) /\ ask[c].tool # "list_connections" => ask[c].tables \subseteq access[c]
    /\ at[c] # 0 /\ ask[c].tool \in DataTools =>
          /\ touched[c] \subseteq ask[c].tables
          /\ Passed(c, 4) => recorded[c] = ask[c].tables
    /\ outcome[c] \in Refusals => ~Passed(c, 4)
    /\ outcome[c] = "TableNotFound" /\ ask[c].tool \in SqlTools => recorded[c] = ask[c].tables

\* The row and the reply tell the outcome.
Told(c) ==
    /\ \A i \in DOMAIN rows[c] : i = 1 /\ rows[c][i] = Row(c)
    /\ reply[c] \in {"result", "error"} /\ at[c] # 0 => Len(rows[c]) = 1
    /\ reply[c] = "result" => outcome[c] = "result" /\ at[c] # 0
    /\ reply[c] = "error" /\ at[c] # 0 => outcome[c] \in Errors

CallInv(c) == Phases(c) /\ Held(c) /\ Kept(c) /\ Told(c)

ToolCallInv == TypeOK /\ \A c \in Calls : CallInv(c)

--------------------------------------------------------------------------------
(* The awaits of a tool *)

\* Every tool but list_connections opens the connection by the same four awaits.
LEMMA AwaitsPlaced ==
    ASSUME NEW tool \in Tools, NEW n \in 1 .. Len(Awaits(tool))
    PROVE  /\ Len(Awaits(tool)) \in 1 .. 7
           /\ tool # "list_connections" => Len(Awaits(tool)) >= 5
           /\ Awaits(tool)[n] = "allowed_tools" => n = 1
           /\ Awaits(tool)[n] = "get_connection" => n = 2 /\ tool # "list_connections"
           /\ Awaits(tool)[n] = "allowed_tables" => n = 3 /\ tool # "list_connections"
           /\ Awaits(tool)[n] = "adapter_for" => n = 4 /\ tool # "list_connections"
           /\ Awaits(tool)[n] = "connections" => n = 2 /\ tool = "list_connections"
           /\ Awaits(tool)[n] \in {"descriptions", "list_tables", "describe_table", "others",
                                   "search"}
                 => n > 4 /\ tool \notin DataTools \cup {"list_connections"}
           /\ Awaits(tool)[n] = "execute" => n = 5 /\ tool \in DataTools
<1>1. CASE tool = "list_connections"
  BY <1>1 DEF Awaits, DataTools, SqlTools
<1>2. CASE tool = "list_tables"
  BY <1>2 DEF Awaits, DataTools, SqlTools
<1>3. CASE tool = "describe_table"
  BY <1>3 DEF Awaits, DataTools, SqlTools
<1>4. CASE tool = "get_relationships"
  BY <1>4 DEF Awaits, DataTools, SqlTools
<1>5. CASE tool = "search_schema"
  BY <1>5 DEF Awaits, DataTools, SqlTools
<1>6. CASE tool \in DataTools
  BY <1>6 DEF Awaits, DataTools, SqlTools
<1> QED  BY <1>1, <1>2, <1>3, <1>4, <1>5, <1>6 DEF Tools, DataTools, SqlTools

LEMMA AwaitsSome == ASSUME NEW tool \in Tools PROVE 1 \in 1 .. Len(Awaits(tool))
<1>1. CASE tool = "list_connections"
  BY <1>1 DEF Awaits
<1>2. CASE tool = "list_tables"
  BY <1>2 DEF Awaits
<1>3. CASE tool = "describe_table"
  BY <1>3 DEF Awaits
<1>4. CASE tool = "get_relationships"
  BY <1>4 DEF Awaits
<1>5. CASE tool = "search_schema"
  BY <1>5 DEF Awaits
<1>6. CASE tool \in DataTools
  BY <1>6 DEF Awaits, DataTools, SqlTools
<1> QED  BY <1>1, <1>2, <1>3, <1>4, <1>5, <1>6 DEF Tools, DataTools, SqlTools

--------------------------------------------------------------------------------
(* The frame of a step *)

\* What a step says of another call, and what it leaves of it.
Same(d) ==
    /\ ask'[d] = ask[d] /\ at'[d] = at[d] /\ phase'[d] = phase[d] /\ began'[d] = began[d]
    /\ access'[d] = access[d] /\ outcome'[d] = outcome[d] /\ touched'[d] = touched[d]
    /\ shown'[d] = shown[d] /\ recorded'[d] = recorded[d] /\ rows'[d] = rows[d]
    /\ reply'[d] = reply[d]

\* What was granted stays granted in the past, whatever the console does.
LEMMA HeldStays ==
    ASSUME TypeOK, NEW c \in Calls, NEW g, HeldSince(c, g), began'[c] = began[c],
           history' = history \/ \E now \in SUBSET Grants : history' = Append(history, now)
    PROVE  HeldSince(c, g)'
<1>1. PICK i \in began[c] .. Len(history) : g \in history[i]
  BY DEF HeldSince
<1>2. CASE history' = history
  BY <1>1, <1>2 DEF HeldSince
<1>3. CASE \E now \in SUBSET Grants : history' = Append(history, now)
  <2>1. PICK now \in SUBSET Grants : history' = Append(history, now)
    BY <1>3
  <2>2. began[c] \in Nat \ {0} /\ history \in Seq(SUBSET Grants)
    BY DEF TypeOK
  <2>3. i \in 1 .. Len(history) /\ i \in began[c] .. Len(history) + 1
    BY <2>2
  <2>4. history'[i] = history[i] /\ Len(history') = Len(history) + 1
    BY <2>1, <2>2, <2>3
  <2> QED  BY <1>1, <2>3, <2>4 DEF HeldSince
<1> QED  BY <1>2, <1>3

LEMMA SameKeeps ==
    ASSUME TypeOK, NEW d \in Calls, CallInv(d), Same(d),
           history' = history \/ \E now \in SUBSET Grants : history' = Append(history, now)
    PROVE  CallInv(d)'
<1>1. \A g : HeldSince(d, g) => HeldSince(d, g)'
  BY HeldStays DEF Same
<1>2. Phases(d)'
  BY DEF CallInv, Phases, Same
<1>3. Held(d)'
  BY <1>1 DEF CallInv, Held, Same, Passed
<1>4. Kept(d)'
  BY DEF CallInv, Kept, Same, Passed
<1>5. Told(d)'
  BY DEF CallInv, Told, Same, Row, Failure
<1> QED  BY <1>2, <1>3, <1>4, <1>5 DEF CallInv

--------------------------------------------------------------------------------
(* A step of the body *)

\* Where the body of a call goes.
Moves(c) == GoOn(c) \/ \E how \in Errors \cup {"cancelled"} : EndBody(c, how)

LEMMA InBody ==
    ASSUME TypeOK, NEW c \in Calls, CallInv(c), phase[c] = "body"
    PROVE  /\ ask[c] \in Asks /\ ask[c].tool \in Tools /\ ask[c].tables \subseteq Tables
           /\ at[c] \in 1 .. Len(Awaits(ask[c].tool))
           /\ at[c] \in 1 .. 7
           /\ Len(Awaits(ask[c].tool)) \in 1 .. 7
           /\ ask[c].tool # "list_connections" => Len(Awaits(ask[c].tool)) >= 5
           /\ outcome[c] = None /\ rows[c] = <<>> /\ reply[c] = None
           /\ \A n : Passed(c, n) <=> at[c] > n
<1>1. /\ ask[c] \in Asks /\ at[c] \in 1 .. Len(Awaits(ask[c].tool))
      /\ outcome[c] = None /\ rows[c] = <<>> /\ reply[c] = None
  BY DEF CallInv, Phases
<1>2. ask[c].tool \in Tools /\ ask[c].tables \subseteq Tables
  BY <1>1, ToolCallAssumption DEF Asks, ToolCallAssumption
<1>3. /\ Len(Awaits(ask[c].tool)) \in 1 .. 7
      /\ ask[c].tool # "list_connections" => Len(Awaits(ask[c].tool)) >= 5
  BY <1>1, <1>2, AwaitsPlaced
<1>4. at[c] \in 1 .. 7
  <2>1. \A l \in 1 .. 7 : \A a \in 1 .. l : a \in 1 .. 7
    OBVIOUS
  <2> QED  BY <1>1, <1>3, <2>1
<1>5. \A n : Passed(c, n) <=> at[c] > n
  BY <1>1, ToolCallAssumption DEF Passed, ToolCallAssumption
<1> QED  BY <1>1, <1>2, <1>3, <1>4, <1>5

\* How far the body is after a step.
LEMMA MovesFar ==
    ASSUME TypeOK, NEW c \in Calls, CallInv(c), phase[c] = "body", Moves(c), ask' = ask
    PROVE  /\ at' \in [Calls -> 0 .. 7] /\ floor' \in [Calls -> Nat \ {0}]
           /\ phase' \in [Calls -> {"new", "body", "audit", "over"}]
           /\ outcome' \in [Calls -> Errors \cup {"result", "cancelled", None}]
           /\ \A d \in Calls : floor'[d] \in {floor[d], announced}
           /\ \A d \in Calls \ {c} : /\ at'[d] = at[d] /\ phase'[d] = phase[d]
                                    /\ outcome'[d] = outcome[d]
           /\ phase'[c] = "body" => /\ outcome'[c] = None
                                    /\ at'[c] \in 1 .. Len(Awaits(ask[c].tool))
           /\ phase'[c] \in {"body", "audit"}
           /\ phase'[c] = "audit" => /\ outcome'[c] \in Errors \cup {"result", "cancelled"}
                                     /\ at'[c] = at[c]
           /\ GoOn(c) => /\ outcome'[c] \notin Errors
                         /\ \A n \in 1 .. 4 : n <= Len(Awaits(ask[c].tool))
                                               => (Passed(c, n)' <=> at[c] >= n)
           /\ \A how \in Errors \cup {"cancelled"} :
                 EndBody(c, how) => /\ outcome'[c] = how
                                    /\ \A n \in 1 .. 4 : Passed(c, n)' <=> at[c] > n
<1> DEFINE L == Len(Awaits(ask[c].tool))
<1>0. at[c] \in 1 .. L /\ L \in 1 .. 7 /\ outcome[c] = None
  BY InBody
<1>1. announced \in Nat \ {0}
  <2>1. history \in Seq(SUBSET Grants) /\ announced \in 1 .. Len(history)
    BY DEF TypeOK
  <2> QED  BY <2>1
<1>2. "result" \notin Errors /\ None \notin Errors /\ None # "result"
  BY ToolCallAssumption DEF ToolCallAssumption, Errors, Refusals
<1>t. /\ at \in [Calls -> 0 .. 7] /\ floor \in [Calls -> Nat \ {0}]
      /\ phase \in [Calls -> {"new", "body", "audit", "over"}]
      /\ outcome \in [Calls -> Errors \cup {"result", "cancelled", None}]
  BY DEF TypeOK
<1> DEFINE Typed ==
       /\ at' \in [Calls -> 0 .. 7] /\ floor' \in [Calls -> Nat \ {0}]
       /\ phase' \in [Calls -> {"new", "body", "audit", "over"}]
       /\ outcome' \in [Calls -> Errors \cup {"result", "cancelled", None}]
       /\ \A d \in Calls : floor'[d] \in {floor[d], announced}
       /\ \A d \in Calls \ {c} : /\ at'[d] = at[d] /\ phase'[d] = phase[d]
                                /\ outcome'[d] = outcome[d]
<1> HIDE DEF L
<1>3. ASSUME NEW how \in Errors \cup {"result", "cancelled"}, EndBody(c, how)
      PROVE  /\ at' = at /\ floor' = floor
             /\ phase' = [phase EXCEPT ![c] = "audit"] /\ phase'[c] = "audit"
             /\ outcome' = [outcome EXCEPT ![c] = how] /\ outcome'[c] = how
             /\ Typed
  BY <1>3, <1>t DEF EndBody
<1>4. CASE GoOn(c) /\ at[c] = L
  <2>1. EndBody(c, "result")
    BY <1>4 DEF GoOn, L
  <2>2. \A n \in 1 .. 4 : n <= L => (Passed(c, n)' <=> at[c] >= n)
    BY <1>0, <1>3, <1>4, <2>1 DEF Passed
  <2>3. ASSUME NEW how \in Errors \cup {"cancelled"}, EndBody(c, how) PROVE FALSE
    BY <1>2, <1>3, <2>1, <2>3
  <2>4. /\ Typed /\ phase'[c] = "audit" /\ outcome'[c] = "result" /\ at'[c] = at[c]
    BY <1>3, <2>1
  <2> QED  BY <1>2, <2>2, <2>3, <2>4 DEF L
<1>5. CASE GoOn(c) /\ at[c] # L
  <2>1. /\ at' = [at EXCEPT ![c] = @ + 1] /\ at'[c] = at[c] + 1
        /\ floor' = [floor EXCEPT ![c] = announced]
        /\ phase' = phase /\ outcome' = outcome
    BY <1>5 DEF GoOn, L, TypeOK
  <2>2. at[c] + 1 \in 1 .. L /\ at[c] + 1 \in 0 .. 7
    BY <1>0, <1>5
  <2>3. \A n \in 1 .. 4 : Passed(c, n)' <=> at[c] >= n
    BY <1>0, <1>2, <2>1 DEF Passed
  <2>4. ASSUME NEW how \in Errors \cup {"cancelled"}, EndBody(c, how) PROVE FALSE
    BY <1>3, <2>1, <2>4
  <2>5. Typed
    BY <1>1, <1>t, <2>1, <2>2
  <2>6. phase'[c] = "body" /\ outcome'[c] = None /\ at'[c] \in 1 .. L
    BY <1>0, <2>1, <2>2
  <2> QED  BY <1>2, <2>3, <2>4, <2>5, <2>6 DEF L
<1>6. CASE \E how \in Errors \cup {"cancelled"} : EndBody(c, how)
  <2>1. PICK how \in Errors \cup {"cancelled"} : EndBody(c, how)
    BY <1>6
  <2>2. ASSUME NEW w \in Errors \cup {"cancelled"}, EndBody(c, w)
        PROVE  /\ outcome'[c] = w
               /\ \A n \in 1 .. 4 : Passed(c, n)' <=> at[c] > n
    <3>1. outcome'[c] = w /\ at'[c] = at[c]
      BY <1>3, <2>2
    <3>2. w # "result"
      BY <1>2
    <3> QED  BY <3>1, <3>2 DEF Passed
  <2>3. ~GoOn(c)
    <3>1. phase'[c] = "audit" /\ outcome'[c] # "result"
      BY <1>2, <1>3, <2>1
    <3>2. ASSUME GoOn(c) PROVE FALSE
      BY <1>3, <3>1, <3>2 DEF GoOn
    <3> QED  BY <3>2
  <2>4. Typed /\ phase'[c] = "audit" /\ outcome'[c] = how /\ at'[c] = at[c]
    BY <1>3, <2>1
  <2> QED  BY <2>2, <2>3, <2>4 DEF L
<1> QED  BY <1>4, <1>5, <1>6 DEF Moves

\* A step of the body keeps the invariant if it keeps what it is about.
LEMMA StepKeeps ==
    ASSUME ToolCallInv, NEW c \in Calls, phase[c] = "body", Moves(c),
           UNCHANGED <<grants, ask, began, rows, reply>>,
           \A f \in {access', touched', shown', recorded'} : f \in [Calls -> SUBSET Tables],
           \A d \in Calls \ {c} : /\ access'[d] = access[d] /\ touched'[d] = touched[d]
                                 /\ shown'[d] = shown[d] /\ recorded'[d] = recorded[d],
           Held(c)', Kept(c)'
    PROVE  ToolCallInv'
<1>0. TypeOK /\ \A d \in Calls : CallInv(d)
  BY DEF ToolCallInv
<1>1. /\ history' = history /\ announced' = announced /\ ask' = ask /\ began' = began
      /\ rows' = rows /\ reply' = reply
  BY DEF grants
<1>2. TypeOK'
  <2>1. \A d \in Calls : began'[d] <= floor'[d] /\ floor'[d] <= announced'
    <3>1. \A d \in Calls : floor'[d] \in {floor[d], announced}
      BY <1>0, <1>1, MovesFar
    <3>2. \A d \in Calls : began[d] <= floor[d] /\ floor[d] <= announced
      BY <1>0 DEF TypeOK
    <3>3. announced \in Nat
      <4>1. history \in Seq(SUBSET Grants) /\ announced \in 1 .. Len(history)
        BY <1>0 DEF TypeOK
      <4> QED  BY <4>1
    <3>4. \A d \in Calls : began[d] \in Nat /\ floor[d] \in Nat
      BY <1>0 DEF TypeOK
    <3> QED  BY <1>1, <3>1, <3>2, <3>3, <3>4
  <2>2. /\ at' \in [Calls -> 0 .. 7] /\ floor' \in [Calls -> Nat \ {0}]
        /\ phase' \in [Calls -> {"new", "body", "audit", "over"}]
        /\ outcome' \in [Calls -> Errors \cup {"result", "cancelled", None}]
    BY <1>0, <1>1, MovesFar
  <2>3. /\ history' \in Seq(SUBSET Grants) /\ announced' \in 1 .. Len(history')
        /\ ask' \in [Calls -> Asks \cup {None}] /\ began' \in [Calls -> Nat \ {0}]
        /\ rows' \in [Calls -> Seq([success : BOOLEAN, tables : SUBSET Tables])]
        /\ reply' \in [Calls -> {"result", "error", "logged_error", "withheld", "none", None}]
    BY <1>0, <1>1 DEF TypeOK
  <2> QED  BY <2>1, <2>2, <2>3 DEF TypeOK
<1>3. ASSUME NEW d \in Calls \ {c} PROVE CallInv(d)'
  <2>1. Same(d)
    <3>1. at'[d] = at[d] /\ phase'[d] = phase[d] /\ outcome'[d] = outcome[d]
      BY <1>0, <1>1, MovesFar
    <3> QED  BY <1>1, <3>1 DEF Same
  <2> QED  BY <1>0, <1>1, <2>1, SameKeeps
<1>4. CallInv(c)'
  <2>1. ask[c] \in Asks /\ rows[c] = <<>> /\ reply[c] = None
        /\ at[c] \in 1 .. Len(Awaits(ask[c].tool))
    BY <1>0, InBody
  <2>2. /\ phase'[c] \in {"body", "audit"}
        /\ phase'[c] = "body" => /\ outcome'[c] = None
                                 /\ at'[c] \in 1 .. Len(Awaits(ask[c].tool))
        /\ phase'[c] = "audit" => /\ outcome'[c] \in Errors \cup {"result", "cancelled"}
                                  /\ at'[c] = at[c]
    BY <1>0, <1>1, MovesFar
  <2>3. Phases(c)'
    BY <1>1, <2>1, <2>2 DEF Phases
  <2>4. Told(c)'
    <3>1. rows'[c] = <<>> /\ reply'[c] = None
      BY <1>1, <2>1
    <3>2. None \notin {"result", "error"}
      BY ToolCallAssumption DEF ToolCallAssumption
    <3>3. \A i \in DOMAIN rows'[c] : FALSE
      BY <3>1
    <3> QED  BY <3>1, <3>2, <3>3 DEF Told
  <2> QED  BY <2>3, <2>4 DEF CallInv
<1> QED  BY <1>2, <1>3, <1>4 DEF ToolCallInv

\* What a call knows at one of its awaits, and what it may answer from.
LEMMA AtAwait ==
    ASSUME ToolCallInv, NEW c \in Calls, phase[c] = "body"
    PROVE  /\ TypeOK /\ CallInv(c)
           /\ ask[c].tool \in Tools /\ ask[c].tables \subseteq Tables
           /\ at[c] \in 1 .. 7
           /\ ask[c].tool # "list_connections" => Len(Awaits(ask[c].tool)) >= 5
           /\ Len(Awaits(ask[c].tool)) \in Nat /\ at[c] <= Len(Awaits(ask[c].tool))
           /\ Await(c) = "allowed_tools" => at[c] = 1
           /\ Await(c) = "get_connection" => at[c] = 2 /\ ask[c].tool # "list_connections"
           /\ Await(c) = "allowed_tables" => at[c] = 3 /\ ask[c].tool # "list_connections"
           /\ Await(c) = "adapter_for" => at[c] = 4 /\ ask[c].tool # "list_connections"
           /\ Await(c) = "connections" => at[c] = 2 /\ ask[c].tool = "list_connections"
           /\ Await(c) \in {"descriptions", "list_tables", "describe_table", "others", "search"}
                 => at[c] > 4 /\ ask[c].tool \notin DataTools \cup {"list_connections"}
           /\ Await(c) = "execute" => at[c] = 5 /\ ask[c].tool \in DataTools
           /\ outcome[c] = None
           /\ \A n : Passed(c, n) <=> at[c] > n
           /\ \A g \in Answers(c) : g \in SUBSET Grants /\ \A x \in g : HeldSince(c, x)
<1>1. TypeOK /\ CallInv(c)
  BY DEF ToolCallInv
<1>2. /\ ask[c].tool \in Tools /\ ask[c].tables \subseteq Tables
      /\ at[c] \in 1 .. Len(Awaits(ask[c].tool)) /\ at[c] \in 1 .. 7
      /\ Len(Awaits(ask[c].tool)) \in 1 .. 7
      /\ ask[c].tool # "list_connections" => Len(Awaits(ask[c].tool)) >= 5
      /\ outcome[c] = None /\ \A n : Passed(c, n) <=> at[c] > n
  BY <1>1, InBody
<1>3. \A g \in Answers(c) : g \in SUBSET Grants /\ \A x \in g : HeldSince(c, x)
  <2>0. /\ history \in Seq(SUBSET Grants)
        /\ began[c] \in Nat \ {0} /\ floor[c] \in Nat \ {0} /\ began[c] <= floor[c]
    BY <1>1 DEF TypeOK
  <2>1. Len(history) \in Nat
    BY <2>0
  <2>2. \A i \in floor[c] .. Len(history) : i \in began[c] .. Len(history)
                                          /\ history[i] \in SUBSET Grants
    BY <2>0, <2>1
  <2> QED  BY <2>2 DEF Answers, HeldSince
<1>4. at[c] <= Len(Awaits(ask[c].tool)) /\ Len(Awaits(ask[c].tool)) \in Nat
  BY <1>2
<1>5. /\ Await(c) = "allowed_tools" => at[c] = 1
      /\ Await(c) = "get_connection" => at[c] = 2 /\ ask[c].tool # "list_connections"
      /\ Await(c) = "allowed_tables" => at[c] = 3 /\ ask[c].tool # "list_connections"
      /\ Await(c) = "adapter_for" => at[c] = 4 /\ ask[c].tool # "list_connections"
      /\ Await(c) = "connections" => at[c] = 2 /\ ask[c].tool = "list_connections"
      /\ Await(c) \in {"descriptions", "list_tables", "describe_table", "others", "search"}
            => at[c] > 4 /\ ask[c].tool \notin DataTools \cup {"list_connections"}
      /\ Await(c) = "execute" => at[c] = 5 /\ ask[c].tool \in DataTools
  BY <1>2, AwaitsPlaced DEF Await
<1> QED  BY <1>1, <1>2, <1>3, <1>4, <1>5

\* A step that looks something up and keeps it to itself.
LEMMA LookupKeeps ==
    ASSUME ToolCallInv, NEW c \in Calls, phase[c] = "body", Moves(c), at[c] # 4,
           UNCHANGED <<grants, ask, began, access, touched, shown, recorded, rows, reply>>,
           outcome'[c] \in Refusals => at[c] < 4 /\ outcome'[c] # "TableNotFound",
           GoOn(c) /\ at[c] = 1 => HeldSince(c, "tool"),
           GoOn(c) /\ at[c] = 2 /\ ask[c].tool # "list_connections"
              => HeldSince(c, "connection")
    PROVE  ToolCallInv'
<1>0. /\ TypeOK /\ CallInv(c) /\ at[c] \in 1 .. 7 /\ outcome[c] = None
      /\ Len(Awaits(ask[c].tool)) \in Nat /\ at[c] <= Len(Awaits(ask[c].tool))
      /\ ask[c].tool # "list_connections" => Len(Awaits(ask[c].tool)) >= 5
      /\ \A n : Passed(c, n) <=> at[c] > n
  BY AtAwait
<1>1. /\ history' = history /\ ask' = ask /\ began' = began /\ access' = access
      /\ touched' = touched /\ shown' = shown /\ recorded' = recorded
  BY DEF grants
<1>2. \A g : HeldSince(c, g) => HeldSince(c, g)'
  BY <1>1 DEF HeldSince
<1>3. /\ GoOn(c) => \A n \in 1 .. 4 : n <= Len(Awaits(ask[c].tool))
                                      => (Passed(c, n)' <=> at[c] >= n)
      /\ \A how \in Errors \cup {"cancelled"} :
            EndBody(c, how) => \A n \in 1 .. 4 : Passed(c, n)' <=> at[c] > n
  BY <1>0, <1>1, MovesFar
<1>4. \A n \in 1 .. 4 : n <= Len(Awaits(ask[c].tool)) /\ Passed(c, n)'
                        => Passed(c, n) \/ (GoOn(c) /\ at[c] = n)
  <2> SUFFICES ASSUME NEW n \in 1 .. 4, n <= Len(Awaits(ask[c].tool)), Passed(c, n)'
               PROVE  at[c] > n \/ (GoOn(c) /\ at[c] = n)
    BY <1>0
  <2>1. CASE GoOn(c)
    <3>1. at[c] >= n
      BY <1>3, <2>1
    <3>2. at[c] \in 1 .. 7
      BY <1>0
    <3> QED  BY <2>1, <3>1, <3>2
  <2>2. CASE \E how \in Errors \cup {"cancelled"} : EndBody(c, how)
    <3>1. \A m \in 1 .. 4 : Passed(c, m)' <=> at[c] > m
      BY <1>3, <2>2
    <3> QED  BY <3>1
  <2> QED  BY <2>1, <2>2 DEF Moves
<1>5. Held(c)'
  <2>1. Passed(c, 1)' => HeldSince(c, "tool")
    BY <1>0, <1>4 DEF CallInv, Held
  <2>2. Passed(c, 2)' /\ ask[c].tool # "list_connections" => HeldSince(c, "connection")
    BY <1>0, <1>4 DEF CallInv, Held
  <2> QED  BY <1>0, <1>1, <1>2, <2>1, <2>2 DEF CallInv, Held
<1>6. Kept(c)'
  <2>1. ask[c].tool # "list_connections" => (Passed(c, 4)' <=> Passed(c, 4))
    BY <1>0, <1>3 DEF Moves
  <2>2. outcome'[c] \in Refusals => ~Passed(c, 4)'
    <3>1. ASSUME outcome'[c] \in Refusals PROVE ~Passed(c, 4)'
      <4>1. at[c] < 4
        BY <3>1
      <4>2. ~GoOn(c)
        BY <1>0, <1>1, <3>1, MovesFar DEF Errors
      <4> QED  BY <1>0, <1>3, <4>1, <4>2 DEF Moves
    <3> QED  BY <3>1
  <2>3. phase[c] # "new" /\ "list_connections" \notin DataTools
    BY DEF DataTools, SqlTools
  <2>4. outcome'[c] # "TableNotFound"
    BY DEF Refusals
  <2> QED  BY <1>0, <1>1, <2>1, <2>2, <2>3, <2>4 DEF CallInv, Kept
<1>7. \A f \in {access', touched', shown', recorded'} : f \in [Calls -> SUBSET Tables]
  BY <1>0, <1>1 DEF TypeOK
<1>8. UNCHANGED <<grants, ask, began, rows, reply>>
  BY DEF grants
<1> QED  BY <1>1, <1>5, <1>6, <1>7, <1>8, StepKeeps

\* A step past the checks: what it reads and shows is of the call's access.
LEMMA UseKeeps ==
    ASSUME ToolCallInv, NEW c \in Calls, phase[c] = "body", Moves(c),
           at[c] > 4, ask[c].tool # "list_connections",
           UNCHANGED <<grants, ask, began, access, rows, reply>>,
           outcome'[c] \notin Refusals,
           NEW ts \in SUBSET access[c], touched' = [touched EXCEPT ![c] = @ \cup ts],
           ask[c].tool \in DataTools => ts \subseteq ask[c].tables,
           NEW ss \in SUBSET access[c], shown' \in {shown, [shown EXCEPT ![c] = ss]},
           NEW rs \in SUBSET access[c], recorded' \in {recorded, [recorded EXCEPT ![c] = rs]},
           ask[c].tool \in DataTools => recorded' = recorded
    PROVE  ToolCallInv'
<1>0. /\ TypeOK /\ CallInv(c) /\ at[c] \in 1 .. 7
      /\ \A n : Passed(c, n) <=> at[c] > n
  BY AtAwait
<1>1. /\ history' = history /\ ask' = ask /\ began' = began /\ access' = access
  BY DEF grants
<1>2. \A g : HeldSince(c, g) => HeldSince(c, g)'
  BY <1>1 DEF HeldSince
<1>3. Passed(c, 1) /\ Passed(c, 2) /\ Passed(c, 4)
  BY <1>0
<1>4. Held(c)'
  BY <1>0, <1>1, <1>2, <1>3 DEF CallInv, Held
<1>t. /\ access \in [Calls -> SUBSET Tables] /\ touched \in [Calls -> SUBSET Tables]
      /\ shown \in [Calls -> SUBSET Tables] /\ recorded \in [Calls -> SUBSET Tables]
  BY <1>0 DEF TypeOK
<1>5. /\ access' \in [Calls -> SUBSET Tables] /\ touched' \in [Calls -> SUBSET Tables]
      /\ touched'[c] = touched[c] \cup ts
      /\ \A d \in Calls \ {c} : touched'[d] = touched[d]
  BY <1>1, <1>t
<1>6. /\ shown' \in [Calls -> SUBSET Tables] /\ shown'[c] \in {shown[c], ss}
      /\ \A d \in Calls \ {c} : shown'[d] = shown[d]
  BY <1>t
<1>7. /\ recorded' \in [Calls -> SUBSET Tables]
      /\ \A d \in Calls \ {c} : recorded'[d] = recorded[d]
  BY <1>t
<1>8. Passed(c, 4)'
  <2>1. CASE GoOn(c)
    <3>1. 4 <= Len(Awaits(ask[c].tool))
      <4>1. Len(Awaits(ask[c].tool)) \in Nat /\ Len(Awaits(ask[c].tool)) >= 5
        BY AtAwait
      <4> QED  BY <4>1
    <3>2. at[c] >= 4
      BY <1>0
    <3> QED  BY <1>0, <1>1, <2>1, <3>1, <3>2, MovesFar
  <2>2. CASE \E how \in Errors \cup {"cancelled"} : EndBody(c, how)
    BY <1>0, <1>1, <2>2, MovesFar
  <2> QED  BY <2>1, <2>2 DEF Moves
<1>9. Kept(c)'
  <2>1. /\ touched[c] \subseteq access[c] /\ shown[c] \subseteq access[c]
        /\ ask[c].tables \subseteq access[c]
        /\ ask[c].tool \in DataTools => /\ touched[c] \subseteq ask[c].tables
                                         /\ recorded[c] = ask[c].tables
    BY <1>0, <1>3 DEF CallInv, Kept
  <2>2. outcome'[c] # "TableNotFound"
    BY DEF Refusals
  <2> QED  BY <1>1, <1>5, <1>6, <1>8, <2>1, <2>2 DEF Kept
<1>10. \A f \in {access', touched', shown', recorded'} : f \in [Calls -> SUBSET Tables]
  BY <1>5, <1>6, <1>7
<1>11. UNCHANGED <<grants, ask, began, rows, reply>>
  BY DEF grants
<1> QED  BY <1>1, <1>4, <1>5, <1>6, <1>7, <1>9, <1>10, <1>11, StepKeeps

--------------------------------------------------------------------------------
(* Each await *)

LEMMA StepInv == ASSUME ToolCallInv, NEW c \in Calls, Step(c) PROVE ToolCallInv'
<1>0. phase[c] = "body"
  BY DEF Step, In, RequireTool, GetConnection, AllowedTables, AdapterFor, ListConnections,
         ListTables, DescribeTable, DescribeOthers, Search, Execute, Fails, Cancelled, BrokenOff
<1>1. /\ TypeOK /\ CallInv(c) /\ at[c] \in 1 .. 7 /\ outcome[c] = None
      /\ ask[c].tool \in Tools /\ ask[c].tables \subseteq Tables
      /\ \A n : Passed(c, n) <=> at[c] > n
      /\ \A g \in Answers(c) : g \in SUBSET Grants /\ \A x \in g : HeldSince(c, x)
  BY <1>0, AtAwait
<1>t. /\ access \in [Calls -> SUBSET Tables] /\ touched \in [Calls -> SUBSET Tables]
      /\ shown \in [Calls -> SUBSET Tables] /\ recorded \in [Calls -> SUBSET Tables]
      /\ touched[c] \subseteq access[c]
  BY <1>1 DEF TypeOK, CallInv, Kept
<1>2. "result" \notin Errors /\ None \notin Errors /\ Refusals \subseteq Errors
      /\ "ToolNotPermitted" \in Errors /\ "ConnectionNotFound" \in Errors
      /\ "DatabaseError" \in Errors \ Refusals /\ "cancelled" \notin Errors
      /\ {"InvalidArgument", "QueryRejected", "TableNotFound"} \subseteq Errors
      /\ "ToolNotPermitted" # "TableNotFound" /\ "ConnectionNotFound" # "TableNotFound"
  BY ToolCallAssumption DEF ToolCallAssumption, Errors, Refusals
<1>3. ASSUME ask' = ask, Moves(c)
      PROVE  /\ GoOn(c) => outcome'[c] \notin Errors
             /\ \A how \in Errors \cup {"cancelled"} : EndBody(c, how) => outcome'[c] = how
  BY <1>0, <1>1, <1>3, MovesFar
<1>4. ASSUME RequireTool(c) PROVE ToolCallInv'
  <2>1. at[c] = 1
    BY <1>0, <1>4, AtAwait DEF RequireTool, In
  <2>2. PICK g \in Answers(c) : IF "tool" \in g THEN GoOn(c) ELSE EndBody(c, "ToolNotPermitted")
    BY <1>4 DEF RequireTool
  <2>3. Moves(c) /\ (GoOn(c) => outcome'[c] \notin Errors)
    BY <1>2, <1>3, <1>4, <2>2 DEF Moves, RequireTool
  <2>4. GoOn(c) => "tool" \in g
    BY <1>2, <1>3, <1>4, <2>2, <2>3 DEF RequireTool
  <2>5. outcome'[c] \in Refusals => outcome'[c] # "TableNotFound"
    BY <1>2, <1>3, <1>4, <2>2, <2>3 DEF RequireTool
  <2> QED  BY <1>0, <1>1, <1>4, <2>1, <2>3, <2>4, <2>5, LookupKeeps DEF RequireTool
<1>5. ASSUME GetConnection(c) PROVE ToolCallInv'
  <2>1. at[c] = 2
    BY <1>0, <1>5, AtAwait DEF GetConnection, In
  <2>2. Moves(c)
    BY <1>2, <1>5 DEF Moves, GetConnection
  <2>3. GoOn(c) => outcome'[c] \notin Errors
    BY <1>3, <1>5, <2>2 DEF GetConnection
  <2>4. GoOn(c) => "connection" \in history[Len(history)]
    BY <1>2, <1>3, <1>5, <2>2, <2>3 DEF GetConnection
  <2>5. "connection" \in history[Len(history)] => HeldSince(c, "connection")
    <3>1. /\ announced \in 1 .. Len(history) /\ history \in Seq(SUBSET Grants)
          /\ began[c] \in Nat \ {0} /\ floor[c] \in Nat \ {0}
          /\ began[c] <= floor[c] /\ floor[c] <= announced
      BY <1>1 DEF TypeOK
    <3>2. Len(history) \in began[c] .. Len(history)
      <4>1. Len(history) \in Nat
        BY <3>1
      <4> QED  BY <3>1, <4>1
    <3> QED  BY <3>2 DEF HeldSince
  <2>6. outcome'[c] \in Refusals => outcome'[c] # "TableNotFound"
    BY <1>2, <1>3, <1>5, <2>2, <2>3 DEF GetConnection
  <2> QED  BY <1>0, <1>5, <2>1, <2>2, <2>4, <2>5, <2>6, LookupKeeps DEF GetConnection
<1>6. ASSUME ListConnections(c) PROVE ToolCallInv'
  <2>1. Moves(c) /\ GoOn(c) /\ ask' = ask
    BY <1>6 DEF Moves, ListConnections
  <2>2. outcome'[c] \notin Refusals
    BY <1>2, <1>3, <2>1
  <2>3. at[c] # 4 /\ at[c] # 1 /\ (at[c] = 2 => ask[c].tool = "list_connections")
    BY <1>0, <1>1, <1>6, AtAwait DEF ListConnections, In
  <2>4. UNCHANGED <<grants, ask, began, access, touched, shown, recorded, rows, reply>>
    BY <1>6 DEF ListConnections
  <2> QED  BY <1>0, <2>1, <2>2, <2>3, <2>4, LookupKeeps
<1>7. ASSUME AllowedTables(c) PROVE ToolCallInv'
  <2>1. at[c] = 3 /\ ask[c].tool # "list_connections"
    BY <1>0, <1>7, AtAwait DEF AllowedTables, In
  <2>2. PICK g \in Answers(c) : access' = [access EXCEPT ![c] = g \cap Tables]
    BY <1>7 DEF AllowedTables
  <2>3. /\ GoOn(c) /\ Moves(c) /\ history' = history /\ announced' = announced /\ ask' = ask
        /\ began' = began /\ touched' = touched /\ shown' = shown /\ recorded' = recorded
        /\ rows' = rows /\ reply' = reply
    BY <1>7 DEF AllowedTables, grants, Moves
  <2>4. outcome'[c] \notin Errors /\ Passed(c, 1)' /\ Passed(c, 2)' /\ ~Passed(c, 4)'
    <3>1. Len(Awaits(ask[c].tool)) >= 5 /\ Len(Awaits(ask[c].tool)) \in Nat
      BY <1>0, <2>1, AtAwait
    <3>2. \A n \in 1 .. 4 : Passed(c, n)' <=> at[c] >= n
      <4>1. \A n \in 1 .. 4 : n <= Len(Awaits(ask[c].tool))
        BY <3>1
      <4> QED  BY <1>0, <1>1, <2>3, <4>1, MovesFar
    <3> QED  BY <1>3, <2>1, <2>3, <3>2
  <2>5. access' \in [Calls -> SUBSET Tables] /\ access'[c] \subseteq g
        /\ \A d \in Calls \ {c} : access'[d] = access[d]
    BY <1>t, <2>2
  <2>6. Held(c)'
    <3>1. \A x : HeldSince(c, x) => HeldSince(c, x)'
      BY <2>3 DEF HeldSince
    <3>2. Passed(c, 1) /\ Passed(c, 2)
      BY <1>1, <2>1
    <3>3. HeldSince(c, "tool") /\ HeldSince(c, "connection")
      BY <1>1, <2>1, <3>2 DEF CallInv, Held
    <3> QED  BY <1>1, <2>2, <2>5, <3>1, <3>3 DEF Held
  <2>7. Kept(c)'
    <3>1. ~Passed(c, 4)
      BY <1>1, <2>1
    <3>2. touched[c] = {} /\ shown[c] = {}
      BY <1>1, <3>1 DEF CallInv, Kept
    <3> QED  BY <1>2, <2>3, <2>4, <3>2 DEF Kept
  <2>8. UNCHANGED <<grants, ask, began, rows, reply>>
    BY <2>3 DEF grants
  <2>9. \A f \in {access', touched', shown', recorded'} : f \in [Calls -> SUBSET Tables]
    BY <1>t, <2>3, <2>5
  <2> QED  BY <1>0, <2>3, <2>5, <2>6, <2>7, <2>8, <2>9, StepKeeps
<1>8. ASSUME AdapterFor(c) PROVE ToolCallInv'
  <2>1. at[c] = 4 /\ ask[c].tool # "list_connections"
    BY <1>0, <1>8, AtAwait DEF AdapterFor, In
  <2>2. /\ history' = history /\ announced' = announced /\ ask' = ask /\ began' = began
        /\ access' = access /\ touched' = touched /\ shown' = shown
        /\ rows' = rows /\ reply' = reply
    BY <1>8 DEF AdapterFor, grants
  <2>3. Held(c)'
    <3>1. \A x : HeldSince(c, x) => HeldSince(c, x)'
      BY <2>2 DEF HeldSince
    <3>2. Passed(c, 1) /\ Passed(c, 2)
      BY <1>1, <2>1
    <3>3. HeldSince(c, "tool") /\ HeldSince(c, "connection")
      BY <1>1, <2>1, <3>2 DEF CallInv, Held
    <3> QED  BY <1>1, <2>2, <3>1, <3>3 DEF CallInv, Held
  <2>4. touched[c] = {} /\ shown[c] = {}
    BY <1>1, <2>1 DEF CallInv, Kept
  <2>5. Objection(c) \in {None, "InvalidArgument", "QueryRejected", "TableNotFound"}
        /\ (Objection(c) = None => ask[c].tables \subseteq access[c])
    BY ToolCallAssumption DEF Objection, ToolCallAssumption, Errors, Refusals
  <2>6. recorded' \in {recorded, [recorded EXCEPT ![c] = Noted(c)]}
    BY <1>8 DEF AdapterFor
  <2>7. recorded' \in [Calls -> SUBSET Tables]
        /\ \A d \in Calls \ {c} : recorded'[d] = recorded[d]
    BY <1>1, <1>t, <2>6 DEF Noted
  <2>8. CASE Objection(c) = None /\ GoOn(c) /\ recorded' = [recorded EXCEPT ![c] = Noted(c)]
    <3>1. Moves(c) /\ outcome'[c] \notin Errors
      BY <1>3, <2>2, <2>8 DEF Moves
    <3>2. recorded'[c] = ask[c].tables
      BY <1>t, <2>8 DEF Noted
    <3>3. Kept(c)'
      BY <1>2, <2>2, <2>4, <2>5, <2>8, <3>1, <3>2 DEF Kept
    <3>4. UNCHANGED <<grants, ask, began, rows, reply>>
      BY <2>2 DEF grants
    <3>5. \A f \in {access', touched', shown', recorded'} : f \in [Calls -> SUBSET Tables]
      BY <1>t, <2>2, <2>7
    <3> QED  BY <1>0, <2>2, <2>3, <2>7, <3>1, <3>3, <3>4, <3>5, StepKeeps
  <2>9. ASSUME NEW how \in Errors, EndBody(c, how),
               how \in Refusals => /\ how = "TableNotFound" /\ Objection(c) = how
                                   /\ recorded' = [recorded EXCEPT ![c] = Noted(c)]
        PROVE  ToolCallInv'
    <3>1. Moves(c) /\ outcome'[c] = how
      BY <1>3, <2>2, <2>9 DEF Moves
    <3>2. ~Passed(c, 4)'
      <4>1. \A n \in 1 .. 4 : Passed(c, n)' <=> at[c] > n
        BY <1>0, <1>1, <2>2, <2>9, <3>1, MovesFar
      <4> QED  BY <2>1, <4>1
    <3>3. how = "TableNotFound" /\ ask[c].tool \in SqlTools => recorded'[c] = ask[c].tables
      BY <1>t, <2>9 DEF Noted, Refusals
    <3>4. Kept(c)'
      BY <2>2, <2>4, <3>1, <3>2, <3>3 DEF Kept
    <3>5. UNCHANGED <<grants, ask, began, rows, reply>>
      BY <2>2 DEF grants
    <3>6. \A f \in {access', touched', shown', recorded'} : f \in [Calls -> SUBSET Tables]
      BY <1>t, <2>2, <2>7
    <3> QED  BY <1>0, <2>2, <2>3, <2>7, <3>1, <3>4, <3>5, <3>6, StepKeeps
  <2>10. CASE Objection(c) # None /\ EndBody(c, Objection(c))
              /\ recorded' = [recorded EXCEPT ![c] = Noted(c)]
    <3>1. Objection(c) \in Errors
      BY <1>2, <2>5, <2>10
    <3>2. Objection(c) \in Refusals => Objection(c) = "TableNotFound"
      BY <2>5, <2>10 DEF Refusals
    <3> QED  BY <2>9, <2>10, <3>1, <3>2
  <2>11. CASE EndBody(c, "DatabaseError")
    BY <1>2, <2>9, <2>11
  <2> QED  BY <1>8, <2>8, <2>10, <2>11 DEF AdapterFor
<1>u. touched = [touched EXCEPT ![c] = @ \cup {}]
  BY <1>t
<1>9. ASSUME ListTables(c) PROVE ToolCallInv'
  <2>1. at[c] > 4 /\ ask[c].tool \notin DataTools \cup {"list_connections"}
    BY <1>0, <1>9, AtAwait DEF ListTables, In
  <2>2. Moves(c) /\ ask' = ask /\ GoOn(c)
    BY <1>9 DEF ListTables, Moves
  <2>3. outcome'[c] \notin Refusals
    BY <1>2, <1>3, <2>2
  <2> DEFINE ss == Existing \cap access[c]
  <2>4. /\ shown' \in {shown, [shown EXCEPT ![c] = ss]}
        /\ recorded' \in {recorded, [recorded EXCEPT ![c] = ss]}
    BY <1>9 DEF ListTables
  <2>5. UNCHANGED <<grants, ask, began, access, rows, reply>> /\ touched' = touched
    BY <1>9 DEF ListTables
  <2>6. ss \in SUBSET access[c] /\ {} \in SUBSET access[c]
    OBVIOUS
  <2> HIDE DEF ss
  <2> QED  BY <1>0, <1>u, <2>1, <2>2, <2>3, <2>4, <2>5, <2>6, UseKeeps
<1>10. ASSUME DescribeTable(c) PROVE ToolCallInv'
  <2>1. at[c] > 4 /\ ask[c].tool \notin DataTools \cup {"list_connections"}
    BY <1>0, <1>10, AtAwait DEF DescribeTable, In
  <2>2. ask[c].tables \subseteq access[c]
    BY <1>1, <2>1 DEF CallInv, Kept
  <2>3. UNCHANGED <<grants, ask, began, access, rows, reply>> /\ recorded' = recorded
    BY <1>10 DEF DescribeTable
  <2>4. PICK t \in ask[c].tables :
           IF t \in Existing
           THEN /\ touched' = [touched EXCEPT ![c] = @ \cup {t}]
                /\ shown' = [shown EXCEPT ![c] = {t} \cup Visible(c, References[t])]
                /\ GoOn(c)
           ELSE EndBody(c, "DatabaseError") /\ UNCHANGED <<touched, shown>>
    BY <1>10 DEF DescribeTable
  <2>5. Moves(c) /\ ask' = ask
    BY <1>2, <2>3, <2>4 DEF Moves
  <2>6. outcome'[c] \notin Refusals
    BY <1>2, <1>3, <2>4, <2>5
  <2>7. {t} \in SUBSET access[c] /\ {} \in SUBSET access[c]
        /\ {t} \cup Visible(c, References[t]) \in SUBSET access[c]
    BY <2>2 DEF Visible
  <2>8. CASE t \in Existing
    BY <1>0, <2>1, <2>3, <2>4, <2>5, <2>6, <2>7, <2>8, UseKeeps
  <2>9. CASE t \notin Existing
    BY <1>0, <1>u, <2>1, <2>3, <2>4, <2>5, <2>6, <2>7, <2>9, UseKeeps
  <2> QED  BY <2>8, <2>9
<1>11. ASSUME DescribeOthers(c) PROVE ToolCallInv'
  <2>1. at[c] > 4 /\ ask[c].tool \notin DataTools \cup {"list_connections"}
    BY <1>0, <1>11, AtAwait DEF DescribeOthers, In
  <2> DEFINE ts == Visible(c, Existing)
             ss == shown[c] \cup {o \in ts : References[o] \cap ask[c].tables # {}}
  <2>2. /\ UNCHANGED <<grants, ask, began, access, rows, reply>> /\ recorded' = recorded
        /\ touched' = [touched EXCEPT ![c] = @ \cup ts] /\ GoOn(c)
        /\ shown' = [shown EXCEPT ![c] = ss]
    BY <1>11, <1>t DEF DescribeOthers
  <2>3. ts \in SUBSET access[c] /\ ss \in SUBSET access[c] /\ {} \in SUBSET access[c]
    BY <1>1 DEF Visible, CallInv, Kept
  <2>4. Moves(c) /\ ask' = ask
    BY <2>2 DEF Moves
  <2>5. outcome'[c] \notin Refusals
    BY <1>2, <1>3, <2>2, <2>4
  <2> HIDE DEF ts, ss
  <2> QED  BY <1>0, <2>1, <2>2, <2>3, <2>4, <2>5, UseKeeps
<1>12. ASSUME Search(c) PROVE ToolCallInv'
  <2>1. at[c] > 4 /\ ask[c].tool \notin DataTools \cup {"list_connections"}
    BY <1>0, <1>12, AtAwait DEF Search, In
  <2>2. PICK hits \in SUBSET access[c] : /\ shown' = [shown EXCEPT ![c] = hits]
                                        /\ recorded' = [recorded EXCEPT ![c] = hits]
    BY <1>12 DEF Search
  <2>3. UNCHANGED <<grants, ask, began, access, rows, reply>> /\ touched' = touched
    BY <1>12 DEF Search
  <2>4. Moves(c) /\ ask' = ask /\ GoOn(c)
    BY <1>12 DEF Search, Moves
  <2>5. outcome'[c] \notin Refusals
    BY <1>2, <1>3, <2>4
  <2>6. {} \in SUBSET access[c]
    OBVIOUS
  <2> QED  BY <1>0, <1>u, <2>1, <2>2, <2>3, <2>4, <2>5, <2>6, UseKeeps
<1>13. ASSUME Execute(c) PROVE ToolCallInv'
  <2>1. at[c] > 4 /\ ask[c].tool \in DataTools /\ ask[c].tool # "list_connections"
    <3>1. "list_connections" \notin DataTools
      BY DEF DataTools, SqlTools
    <3>2. at[c] = 5 /\ ask[c].tool \in DataTools
      BY <1>0, <1>13, AtAwait DEF Execute, In
    <3> QED  BY <3>1, <3>2
  <2>2. ask[c].tables \in SUBSET access[c] /\ {} \in SUBSET access[c]
    BY <1>1, <2>1 DEF CallInv, Kept
  <2>3. UNCHANGED <<grants, ask, began, access, rows, reply>> /\ recorded' = recorded
    BY <1>13 DEF Execute
  <2>4. CASE ask[c].tables \subseteq Existing
    <3>1. /\ touched' = [touched EXCEPT ![c] = @ \cup ask[c].tables]
          /\ shown' = [shown EXCEPT ![c] = ask[c].tables] /\ GoOn(c)
      BY <1>13, <2>4 DEF Execute
    <3>2. Moves(c) /\ ask' = ask
      BY <2>3, <3>1 DEF Moves
    <3>3. outcome'[c] \notin Refusals
      BY <1>2, <1>3, <3>1, <3>2
    <3> QED  BY <1>0, <2>1, <2>2, <2>3, <3>1, <3>2, <3>3, UseKeeps
  <2>5. CASE ~(ask[c].tables \subseteq Existing)
    <3>1. EndBody(c, "DatabaseError") /\ touched' = touched /\ shown' = shown
      BY <1>13, <2>5 DEF Execute
    <3>2. Moves(c) /\ ask' = ask
      BY <1>2, <2>3, <3>1 DEF Moves
    <3>3. outcome'[c] \notin Refusals
      BY <1>2, <1>3, <3>1, <3>2
    <3> QED  BY <1>0, <1>u, <2>1, <2>2, <2>3, <3>1, <3>2, <3>3, UseKeeps
  <2> QED  BY <2>4, <2>5
<1>14. ASSUME NEW how \in {"DatabaseError", "cancelled"}, BrokenOff(c, how) PROVE ToolCallInv'
  <2>1. PICK ts \in SUBSET Reach(c) : touched' = [touched EXCEPT ![c] = @ \cup ts]
    BY <1>14 DEF BrokenOff
  <2>2. /\ UNCHANGED <<grants, ask, began, access, rows, reply>> /\ recorded' = recorded
        /\ shown' = shown /\ EndBody(c, how) /\ ask' = ask
    BY <1>14 DEF BrokenOff
  <2>3. Moves(c)
    BY <1>2, <2>2 DEF Moves
  <2>4. outcome'[c] = how /\ how \notin Refusals
    <3>1. "cancelled" \notin Refusals /\ "DatabaseError" \notin Refusals
      BY DEF Refusals
    <3> QED  BY <1>2, <1>3, <2>2, <2>3, <3>1
  <2>5. \A n \in 1 .. 4 : Passed(c, n)' <=> Passed(c, n)
    BY <1>0, <1>1, <1>2, <2>2, <2>3, MovesFar
  <2>6. /\ ts \subseteq access[c]
        /\ ts # {} => Passed(c, 4) /\ ask[c].tool # "list_connections"
        /\ ask[c].tool \in DataTools => ts \subseteq ask[c].tables
    <3>1. CASE In(c, "execute") \/ In(c, "describe_table")
      <4>1. at[c] > 4 /\ ask[c].tool # "list_connections"
        <5>1. "list_connections" \notin DataTools
          BY DEF DataTools, SqlTools
        <5>2. at[c] = 5 \/ at[c] > 4
          BY <1>0, <3>1, AtAwait DEF In
        <5>3. at[c] > 4
          BY <1>1, <5>2
        <5> QED  BY <1>0, <3>1, <5>1, <5>3, AtAwait DEF In
      <4>2. ask[c].tables \subseteq access[c] /\ Passed(c, 4)
        BY <1>1, <4>1 DEF CallInv, Kept
      <4>3. ts \subseteq ask[c].tables
        BY <2>1, <3>1 DEF Reach
      <4> QED  BY <4>1, <4>2, <4>3
    <3>2. CASE ~(In(c, "execute") \/ In(c, "describe_table")) /\ In(c, "others")
      <4>1. at[c] > 4 /\ ask[c].tool \notin DataTools \cup {"list_connections"}
        BY <1>0, <3>2, AtAwait DEF In
      <4>2. Passed(c, 4)
        BY <1>1, <4>1
      <4>3. ts \subseteq access[c]
        BY <2>1, <3>2 DEF Reach, Visible
      <4> QED  BY <4>1, <4>2, <4>3
    <3>3. CASE ~(In(c, "execute") \/ In(c, "describe_table")) /\ ~In(c, "others")
      BY <2>1, <3>3 DEF Reach
    <3> QED  BY <3>1, <3>2, <3>3
  <2>7. /\ history' = history /\ began' = began /\ access' = access
    BY <2>2 DEF grants
  <2>8. touched' \in [Calls -> SUBSET Tables] /\ touched'[c] = touched[c] \cup ts
        /\ \A d \in Calls \ {c} : touched'[d] = touched[d]
    BY <1>t, <2>1, <2>6
  <2>9. Held(c)'
    <3>1. \A x : HeldSince(c, x) => HeldSince(c, x)'
      BY <2>7 DEF HeldSince
    <3> QED  BY <1>1, <2>2, <2>5, <2>7, <3>1 DEF CallInv, Held
  <2>10. Kept(c)'
    <3>1. phase[c] # "new" /\ outcome'[c] # "TableNotFound"
      BY <1>0, <2>4
    <3> QED  BY <1>1, <2>2, <2>4, <2>5, <2>6, <2>7, <2>8, <3>1 DEF CallInv, Kept
  <2>11. \A f \in {access', touched', shown', recorded'} : f \in [Calls -> SUBSET Tables]
    BY <1>t, <2>2, <2>7, <2>8
  <2> QED  BY <1>0, <2>2, <2>3, <2>7, <2>8, <2>9, <2>10, <2>11, StepKeeps
<1>15. ASSUME Fails(c) \/ Cancelled(c) PROVE ToolCallInv'
  BY <1>14, <1>15 DEF Fails, Cancelled
<1> QED  BY <1>4, <1>5, <1>6, <1>7, <1>8, <1>9, <1>10, <1>11, <1>12, <1>13, <1>15 DEF Step

--------------------------------------------------------------------------------
(* Before and after the body *)

LEMMA InitInv == Init => ToolCallInv
<1> SUFFICES ASSUME Init PROVE ToolCallInv
  OBVIOUS
<1>1. TypeOK
  <2>1. PICK g \in SUBSET Grants : history = <<g>>
    BY DEF Init
  <2>2. history \in Seq(SUBSET Grants) /\ announced \in 1 .. Len(history)
    BY <2>1 DEF Init
  <2>3. <<>> \in Seq([success : BOOLEAN, tables : SUBSET Tables])
    OBVIOUS
  <2> QED  BY <2>2, <2>3 DEF Init, TypeOK
<1>2. ASSUME NEW c \in Calls PROVE CallInv(c)
  <2>0. /\ at[c] = 0 /\ phase[c] = "new" /\ outcome[c] = None /\ access[c] = {}
        /\ touched[c] = {} /\ shown[c] = {} /\ rows[c] = <<>> /\ reply[c] = None
    BY DEF Init
  <2>1. None # "result" /\ None # "error" /\ None \notin Errors /\ None \notin Refusals
        /\ None # "TableNotFound"
    BY ToolCallAssumption DEF ToolCallAssumption, Errors, Refusals
  <2>2. \A n \in 1 .. 4 : ~Passed(c, n)
    BY <2>0, <2>1 DEF Passed
  <2>3. \A i \in DOMAIN rows[c] : FALSE
    BY <2>0
  <2> QED  BY <2>0, <2>1, <2>2, <2>3 DEF CallInv, Phases, Held, Kept, Told
<1> QED  BY <1>1, <1>2 DEF ToolCallInv

LEMMA ConsoleInv == ToolCallInv /\ (Change \/ Announce) => ToolCallInv'
<1> SUFFICES ASSUME ToolCallInv, Change \/ Announce PROVE ToolCallInv'
  OBVIOUS
<1>0. TypeOK
  BY DEF ToolCallInv
<1>1. /\ UNCHANGED <<ask, at, phase, floor, began, access, outcome, touched, shown, recorded,
                     rows, reply>>
      /\ history' = history \/ \E now \in SUBSET Grants : history' = Append(history, now)
  <2>1. history \in Seq(SUBSET Grants) /\ announced \in 1 .. Len(history)
    BY <1>0 DEF TypeOK
  <2>2. history[Len(history)] \in SUBSET Grants
    BY <2>1
  <2>3. ASSUME NEW g \in Grants
        PROVE  (IF g \in history[Len(history)] THEN history[Len(history)] \ {g}
                ELSE history[Len(history)] \cup {g}) \in SUBSET Grants
    BY <2>2
  <2> QED  BY <2>3 DEF Change, Announce
<1>2. history' \in Seq(SUBSET Grants) /\ announced' \in 1 .. Len(history')
      /\ announced <= announced'
  <2>1. history \in Seq(SUBSET Grants) /\ announced \in 1 .. Len(history)
    BY <1>0 DEF TypeOK
  <2>2. CASE Change
    <3>1. PICK now \in SUBSET Grants : history' = Append(history, now) \/ history' = history
      BY <1>1
    <3> QED  BY <2>1, <2>2, <3>1 DEF Change
  <2>3. CASE Announce
    BY <2>1, <2>3 DEF Announce
  <2> QED  BY <2>2, <2>3
<1>3. TypeOK'
  <2>1. \A c \in Calls : floor'[c] <= announced'
    <3>1. announced \in Nat /\ announced' \in Nat
      <4>1. history \in Seq(SUBSET Grants) /\ announced \in 1 .. Len(history)
        BY <1>0 DEF TypeOK
      <4> QED  BY <1>2, <4>1
    <3>2. \A c \in Calls : floor[c] \in Nat /\ floor[c] <= announced
      BY <1>0 DEF TypeOK
    <3> QED  BY <1>1, <1>2, <3>1, <3>2
  <2> QED  BY <1>0, <1>1, <1>2, <2>1 DEF TypeOK
<1>4. ASSUME NEW c \in Calls PROVE CallInv(c)'
  <2>1. Same(c)
    BY <1>1 DEF Same
  <2> QED  BY <1>0, <1>1, <2>1, SameKeeps DEF ToolCallInv
<1> QED  BY <1>3, <1>4 DEF ToolCallInv

\* A call that never reached a service has done nothing but get its error.
LEMMA RejectInv == ASSUME ToolCallInv, NEW c \in Calls, SchemaRejects(c) PROVE ToolCallInv'
<1>0. TypeOK /\ CallInv(c)
  BY DEF ToolCallInv
<1>1. /\ phase[c] = "new" /\ phase' = [phase EXCEPT ![c] = "over"]
      /\ reply' = [reply EXCEPT ![c] = "error"]
      /\ history' = history /\ announced' = announced /\ ask' = ask /\ at' = at /\ floor' = floor
      /\ began' = began /\ access' = access /\ outcome' = outcome /\ touched' = touched
      /\ shown' = shown /\ recorded' = recorded /\ rows' = rows
  BY DEF SchemaRejects, grants
<1>t. /\ reply \in [Calls -> {"result", "error", "logged_error", "withheld", "none", None}]
      /\ phase \in [Calls -> {"new", "body", "audit", "over"}]
  BY <1>0 DEF TypeOK
<1>2. TypeOK'
  <2>1. phase' \in [Calls -> {"new", "body", "audit", "over"}]
    BY <1>1, <1>t
  <2>2. reply' \in [Calls -> {"result", "error", "logged_error", "withheld", "none", None}]
    BY <1>1, <1>t
  <2> QED  BY <1>0, <1>1, <2>1, <2>2 DEF TypeOK
<1>3. ASSUME NEW d \in Calls \ {c} PROVE CallInv(d)'
  <2>1. Same(d)
    BY <1>1, <1>t DEF Same
  <2> QED  BY <1>0, <1>1, <2>1, SameKeeps DEF ToolCallInv
<1>4. CallInv(c)'
  <2>1. at[c] = 0 /\ rows[c] = <<>> /\ outcome[c] = None /\ access[c] = {}
    BY <1>0, <1>1 DEF CallInv, Phases
  <2>2. phase'[c] = "over" /\ reply'[c] = "error"
    BY <1>1, <1>t
  <2>3. Phases(c)'
    BY <1>0, <1>1, <2>1, <2>2 DEF CallInv, Phases
  <2>4. Held(c)'
    BY <1>0, <1>1 DEF CallInv, Held, Passed, HeldSince
  <2>5. Kept(c)'
    BY <1>0, <1>1 DEF CallInv, Kept, Passed
  <2>6. Told(c)'
    <3>1. \A i \in DOMAIN rows'[c] : FALSE
      BY <1>1, <2>1
    <3>2. at'[c] = 0
      BY <1>1, <2>1
    <3> QED  BY <2>2, <3>1, <3>2 DEF Told
  <2> QED  BY <2>3, <2>4, <2>5, <2>6 DEF CallInv
<1> QED  BY <1>2, <1>3, <1>4 DEF ToolCallInv

LEMMA BeginInv == ASSUME ToolCallInv, NEW c \in Calls, Begin(c) PROVE ToolCallInv'
<1>0. TypeOK /\ CallInv(c)
  BY DEF ToolCallInv
<1>1. PICK a \in Asks :
         /\ ask' = [ask EXCEPT ![c] = a] /\ at' = [at EXCEPT ![c] = 1]
         /\ phase' = [phase EXCEPT ![c] = IF ArgumentsFit(a) THEN "body" ELSE "audit"]
         /\ outcome' = [outcome EXCEPT ![c] = IF ArgumentsFit(a) THEN None ELSE "InvalidArgument"]
  BY DEF Begin
<1>2. /\ phase[c] = "new" /\ floor' = [floor EXCEPT ![c] = announced]
      /\ began' = [began EXCEPT ![c] = announced] /\ history' = history
      /\ announced' = announced /\ access' = access /\ touched' = touched /\ shown' = shown
      /\ recorded' = recorded /\ rows' = rows /\ reply' = reply
  BY DEF Begin, grants
<1>3. announced \in Nat \ {0} /\ history \in Seq(SUBSET Grants)
  <2>1. history \in Seq(SUBSET Grants) /\ announced \in 1 .. Len(history)
    BY <1>0 DEF TypeOK
  <2> QED  BY <2>1
<1>4. "InvalidArgument" \in Errors \ Refusals /\ None \notin Errors \cup {"result", "error"}
  BY ToolCallAssumption DEF ToolCallAssumption, Errors, Refusals
<1>5. TypeOK'
  <2>1. ask' \in [Calls -> Asks \cup {None}] /\ at' \in [Calls -> 0 .. 7]
    <3>1. ask \in [Calls -> Asks \cup {None}] /\ at \in [Calls -> 0 .. 7]
      BY <1>0 DEF TypeOK
    <3> QED  BY <1>1, <3>1
  <2>2. /\ phase' \in [Calls -> {"new", "body", "audit", "over"}]
        /\ outcome' \in [Calls -> Errors \cup {"result", "cancelled", None}]
    BY <1>0, <1>1, <1>4 DEF TypeOK
  <2>3. floor' \in [Calls -> Nat \ {0}] /\ began' \in [Calls -> Nat \ {0}]
    BY <1>0, <1>2, <1>3 DEF TypeOK
  <2>4. \A d \in Calls : began'[d] <= floor'[d] /\ floor'[d] <= announced'
    <3>1. /\ floor \in [Calls -> Nat \ {0}] /\ began \in [Calls -> Nat \ {0}]
          /\ \A d \in Calls : began[d] <= floor[d] /\ floor[d] <= announced
      BY <1>0 DEF TypeOK
    <3>2. ASSUME NEW d \in Calls, d = c PROVE began'[d] <= floor'[d] /\ floor'[d] <= announced'
      BY <1>2, <1>3, <3>1, <3>2
    <3>3. ASSUME NEW d \in Calls, d # c PROVE began'[d] <= floor'[d] /\ floor'[d] <= announced'
      BY <1>2, <3>1, <3>3
    <3> QED  BY <3>2, <3>3
  <2>5. history' \in Seq(SUBSET Grants) /\ announced' \in 1 .. Len(history')
    BY <1>0, <1>2 DEF TypeOK
  <2> QED  BY <1>0, <1>2, <2>1, <2>2, <2>3, <2>4, <2>5 DEF TypeOK
<1>6. ASSUME NEW d \in Calls \ {c} PROVE CallInv(d)'
  <2>1. Same(d)
    BY <1>0, <1>1, <1>2 DEF Same, TypeOK
  <2> QED  BY <1>0, <1>2, <2>1, SameKeeps DEF ToolCallInv
<1>7. CallInv(c)'
  <2>1. /\ ask'[c] = a /\ at'[c] = 1 /\ phase'[c] \in {"body", "audit"}
        /\ phase'[c] = "body" => outcome'[c] = None
        /\ phase'[c] = "audit" => outcome'[c] = "InvalidArgument"
    BY <1>0, <1>1 DEF TypeOK
  <2>2. /\ touched[c] = {} /\ shown[c] = {} /\ \A t \in access[c] : FALSE
        /\ rows[c] = <<>> /\ reply[c] = None
    BY <1>0, <1>2 DEF CallInv, Phases, Held, Kept
  <2>3. 1 \in 1 .. Len(Awaits(a.tool))
    <3>1. a.tool \in Tools
      BY ToolCallAssumption DEF ToolCallAssumption, Asks
    <3> QED  BY <3>1, AwaitsSome
  <2>4. outcome'[c] \notin Refusals /\ outcome'[c] # "result"
    BY <1>4, <2>1 DEF Errors
  <2>5. \A n \in 1 .. 4 : ~Passed(c, n)'
    BY <2>1, <2>4 DEF Passed
  <2>6. Phases(c)'
    BY <1>2, <1>4, <2>1, <2>2, <2>3 DEF Phases
  <2>7. Held(c)'
    BY <1>2, <2>2, <2>5 DEF Held
  <2>8. Kept(c)'
    BY <1>2, <2>2, <2>4, <2>5 DEF Kept, Refusals
  <2>9. Told(c)'
    <3>1. \A i \in DOMAIN rows'[c] : FALSE
      BY <1>2, <2>2
    <3>2. reply'[c] = None /\ None # "result" /\ None # "error"
      BY <1>2, <1>4, <2>2
    <3> QED  BY <3>1, <3>2 DEF Told
  <2> QED  BY <2>6, <2>7, <2>8, <2>9 DEF CallInv
<1> QED  BY <1>5, <1>6, <1>7 DEF ToolCallInv

\* Adding a row to a log, and the log of one row.
LEMMA OneMore == ASSUME NEW S, NEW s \in Seq(S), NEW r \in S PROVE Append(s, r) \in Seq(S)
  OBVIOUS

LEMMA OneRow ==
    ASSUME NEW r
    PROVE  /\ Append(<<>>, r) = <<r>> /\ Len(<<r>>) = 1 /\ <<r>>[1] = r
           /\ \A i \in DOMAIN <<r>> : i = 1 /\ <<r>>[i] = r
           /\ \A i \in DOMAIN <<>> : FALSE
  OBVIOUS

LEMMA AuditInv == ASSUME ToolCallInv, NEW c \in Calls, Audit(c) PROVE ToolCallInv'
<1>0. TypeOK /\ CallInv(c)
  BY DEF ToolCallInv
<1>1. PICK what \in {"result", "error", "logged_error", "withheld", "none"} :
         /\ phase[c] = "audit" /\ Over(c, what)
         /\ rows' = rows \/ rows' = [rows EXCEPT ![c] = Append(@, Row(c))]
         /\ what \in {"result", "error"} => /\ rows' = [rows EXCEPT ![c] = Append(@, Row(c))]
                                            /\ what = Deserved(c)
  BY DEF Audit, WriteAudit, AuditFails, AuditCancelled, Deserved
<1>2. /\ phase' = [phase EXCEPT ![c] = "over"] /\ reply' = [reply EXCEPT ![c] = what]
      /\ history' = history /\ announced' = announced /\ ask' = ask /\ at' = at /\ floor' = floor
      /\ began' = began /\ access' = access /\ outcome' = outcome /\ touched' = touched
      /\ shown' = shown /\ recorded' = recorded
  BY <1>1 DEF Over, grants
<1>3. Row(c) \in [success : BOOLEAN, tables : SUBSET Tables]
  BY <1>0 DEF Row, TypeOK
<1>t. /\ rows \in [Calls -> Seq([success : BOOLEAN, tables : SUBSET Tables])]
      /\ reply \in [Calls -> {"result", "error", "logged_error", "withheld", "none", None}]
      /\ phase \in [Calls -> {"new", "body", "audit", "over"}]
  BY <1>0 DEF TypeOK
<1>4. /\ rows' \in [Calls -> Seq([success : BOOLEAN, tables : SUBSET Tables])]
      /\ \A d \in Calls \ {c} : rows'[d] = rows[d]
  <2>1. Append(rows[c], Row(c)) \in Seq([success : BOOLEAN, tables : SUBSET Tables])
    BY <1>3, <1>t, OneMore
  <2> QED  BY <1>1, <1>t, <2>1
<1>5. TypeOK'
  <2>1. phase' \in [Calls -> {"new", "body", "audit", "over"}]
    BY <1>2, <1>t
  <2>2. reply' \in [Calls -> {"result", "error", "logged_error", "withheld", "none", None}]
    BY <1>2, <1>t
  <2> QED  BY <1>0, <1>2, <1>4, <2>1, <2>2 DEF TypeOK
<1>6. ASSUME NEW d \in Calls \ {c} PROVE CallInv(d)'
  <2>1. Same(d)
    BY <1>2, <1>4, <1>t DEF Same
  <2> QED  BY <1>0, <1>2, <2>1, SameKeeps DEF ToolCallInv
<1>7. CallInv(c)'
  <2>1. phase'[c] = "over" /\ reply'[c] = what /\ rows[c] = <<>> /\ phase[c] = "audit"
    BY <1>0, <1>1, <1>2, <1>t DEF CallInv, Phases
  <2>0. rows' = [rows EXCEPT ![c] = Append(@, Row(c))] => rows'[c] = <<Row(c)>>
    <3>1. rows' = [rows EXCEPT ![c] = Append(@, Row(c))] => rows'[c] = Append(rows[c], Row(c))
      BY <1>t
    <3>2. Append(rows[c], Row(c)) = <<Row(c)>>
      BY <2>1, OneRow
    <3> QED  BY <3>1, <3>2
  <2>2. rows'[c] = <<>> \/ rows'[c] = <<Row(c)>>
    BY <1>1, <2>0, <2>1
  <2>3. what \in {"result", "error"} => rows'[c] = <<Row(c)>> /\ what = Deserved(c)
    BY <1>1, <2>0
  <2>4. Row(c)' = Row(c)
    BY <1>2 DEF Row, Failure
  <2>5. Phases(c)'
    BY <1>0, <1>2, <2>1 DEF CallInv, Phases
  <2>6. Held(c)'
    BY <1>0, <1>2 DEF CallInv, Held, Passed, HeldSince
  <2>7. Kept(c)'
    BY <1>0, <1>2, <2>1 DEF CallInv, Kept, Passed
  <2>8. Told(c)'
    <3>1. \A i \in DOMAIN rows'[c] : i = 1 /\ rows'[c][i] = Row(c)
      <4>1. CASE rows'[c] = <<>>
        BY <4>1
      <4>2. CASE rows'[c] = <<Row(c)>>
        BY <4>2, OneRow
      <4> QED  BY <2>2, <4>1, <4>2
    <3>2. what \in {"result", "error"} => Len(rows'[c]) = 1
      BY <2>3, OneRow
    <3>3. what = "result" => outcome[c] = "result"
      BY <1>0, <2>1, <2>3 DEF Deserved, CallInv, Phases
    <3>4. what = "error" => outcome[c] \in Errors
      BY <2>3 DEF Deserved
    <3>5. at[c] # 0
      BY <1>0, <2>1 DEF CallInv, Phases
    <3>6. at'[c] = at[c] /\ outcome'[c] = outcome[c] /\ Row(c)' = Row(c) /\ reply'[c] = what
      BY <1>2, <2>1, <2>4
    <3> QED  BY <3>1, <3>2, <3>3, <3>4, <3>5, <3>6 DEF Told
  <2> QED  BY <2>5, <2>6, <2>7, <2>8 DEF CallInv
<1> QED  BY <1>5, <1>6, <1>7 DEF ToolCallInv

LEMMA RowSays ==
    ASSUME NEW c
    PROVE  (Row(c).success <=> Failure(c) = None) /\ Row(c).tables = recorded[c]
<1>1. Row(c).tables = recorded[c]
  BY DEF Row
<1>2. Row(c).success <=> Failure(c) = None
  BY Zenon DEF Row
<1> QED  BY <1>1, <1>2

LEMMA NextInv == ToolCallInv /\ [Next]_vars => ToolCallInv'
<1> SUFFICES ASSUME ToolCallInv, [Next]_vars PROVE ToolCallInv'
  OBVIOUS
<1>1. CASE Change \/ Announce
  BY <1>1, ConsoleInv
<1>2. ASSUME NEW c \in Calls, SchemaRejects(c) \/ Begin(c) \/ Step(c) \/ Audit(c)
      PROVE  ToolCallInv'
  BY <1>2, RejectInv, BeginInv, StepInv, AuditInv
<1>3. CASE UNCHANGED vars
  <2>1. TypeOK'
    BY <1>3 DEF ToolCallInv, TypeOK, vars, grants
  <2>2. ASSUME NEW c \in Calls PROVE CallInv(c)'
    <3>1. Same(c) /\ history' = history
      BY <1>3 DEF Same, vars, grants
    <3> QED  BY <3>1, SameKeeps DEF ToolCallInv
  <2> QED  BY <2>1, <2>2 DEF ToolCallInv
<1> QED  BY <1>1, <1>2, <1>3 DEF Next

(* Everything a call, its log and the grants consist of keeps its type. *)
THEOREM ToolCallTypeCorrect == Spec => []TypeOK
<1>1. ToolCallInv => TypeOK
  BY DEF ToolCallInv
<1> QED  BY InitInv, NextInv, <1>1, PTL DEF Spec

(* Whatever changes while a call runs, and however its cached lookups are answered, it reads
   and shows only what was granted at some moment it could still see. *)
THEOREM CallsStayWithinGrants == Spec => []ResultsWithinGrants
<1>1. ToolCallInv => ResultsWithinGrants
  <2> SUFFICES ASSUME ToolCallInv, NEW c \in Calls
               PROVE  /\ \A t \in touched[c] : HeldSince(c, "connection") /\ HeldSince(c, t)
                      /\ reply[c] = "result" =>
                            /\ HeldSince(c, "tool")
                            /\ ask[c].tool # "list_connections" => HeldSince(c, "connection")
                            /\ \A t \in shown[c] : HeldSince(c, t)
    BY DEF ResultsWithinGrants
  <2>1. Held(c) /\ Kept(c) /\ Told(c) /\ at[c] \in 0 .. 7
    BY DEF ToolCallInv, CallInv, TypeOK
  <2>2. touched[c] # {} => Passed(c, 2) /\ ask[c].tool # "list_connections"
    BY <2>1 DEF Kept, Passed
  <2>3. \A t \in touched[c] : HeldSince(c, "connection") /\ HeldSince(c, t)
    BY <2>1, <2>2 DEF Held, Kept
  <2>4. reply[c] = "result" => Passed(c, 1) /\ Passed(c, 2)
    BY <2>1 DEF Told, Passed
  <2> QED  BY <2>1, <2>3, <2>4 DEF Held, Kept
<1> QED  BY InitInv, NextInv, <1>1, PTL DEF Spec

(* No result without its row, whether the audit store works, fails or the call is cancelled. *)
THEOREM ResultsAreOnRecord == Spec => []NoResultOffTheRecord
<1>1. ToolCallInv => NoResultOffTheRecord
  <2> SUFFICES ASSUME ToolCallInv, NEW c \in Calls, reply[c] = "result"
               PROVE  \E i \in DOMAIN rows[c] :
                         /\ rows[c][i].success
                         /\ ask[c].tool \in DataTools => touched[c] \subseteq rows[c][i].tables
    BY DEF NoResultOffTheRecord
  <2>1. Phases(c) /\ Kept(c) /\ Told(c) /\ TypeOK
    BY DEF ToolCallInv, CallInv
  <2>2. outcome[c] = "result" /\ Len(rows[c]) = 1 /\ Passed(c, 4)
    BY <2>1 DEF Told, Passed
  <2>3. 1 \in DOMAIN rows[c]
    <3>1. rows[c] \in Seq([success : BOOLEAN, tables : SUBSET Tables])
      BY <2>1 DEF TypeOK
    <3> QED  BY <2>2, <3>1
  <2>4. rows[c][1] = Row(c)
    BY <2>1, <2>3 DEF Told
  <2>5. Failure(c) = None
    BY <2>2 DEF Failure, Errors, Refusals
  <2>6. ask[c].tool \in DataTools => touched[c] \subseteq recorded[c]
    <3>1. at[c] # 0
      BY <2>1 DEF Told
    <3> QED  BY <2>1, <2>2, <3>1 DEF Kept
  <2>7. rows[c][1].success /\ rows[c][1].tables = recorded[c]
    BY <2>4, <2>5, RowSays
  <2> QED  BY <2>3, <2>6, <2>7
<1> QED  BY InitInv, NextInv, <1>1, PTL DEF Spec

(* A refused call reached nothing, and is on record as refused with what it reached for. *)
THEOREM RefusalsTouchNothing == Spec => []RefusedUntouched
<1>1. ToolCallInv => RefusedUntouched
  <2> SUFFICES ASSUME ToolCallInv, NEW c \in Calls, outcome[c] \in Refusals
               PROVE  /\ touched[c] = {}
                      /\ \A i \in DOMAIN rows[c] :
                            /\ ~rows[c][i].success
                            /\ outcome[c] = "TableNotFound" /\ ask[c].tool \in SqlTools
                                  => rows[c][i].tables = ask[c].tables
    BY DEF RefusedUntouched
  <2>1. Kept(c) /\ Told(c)
    BY DEF ToolCallInv, CallInv
  <2>2. touched[c] = {}
    BY <2>1 DEF Kept
  <2>3. Failure(c) # None
    BY ToolCallAssumption DEF Failure, Errors, ToolCallAssumption
  <2>4. ASSUME NEW i \in DOMAIN rows[c]
        PROVE  ~rows[c][i].success /\ rows[c][i].tables = recorded[c]
    <3>1. rows[c][i] = Row(c)
      BY <2>1 DEF Told
    <3> QED  BY <2>3, <3>1, RowSays
  <2> QED  BY <2>1, <2>2, <2>4 DEF Kept
<1> QED  BY InitInv, NextInv, <1>1, PTL DEF Spec

(* Who got an answer while the audit store worked is on record once, unless no service was
   asked; however a call ended, the one row it may have left tells what it read and whether
   it raised. *)
THEOREM AnswersAreOnRecord == Spec => []AnswersAreRecorded
<1>1. ToolCallInv => AnswersAreRecorded
  <2> SUFFICES ASSUME ToolCallInv, NEW c \in Calls
               PROVE  /\ reply[c] \in {"result", "error"} =>
                            Len(rows[c]) = IF at[c] = 0 THEN 0 ELSE 1
                      /\ \A i \in DOMAIN rows[c] :
                            /\ i = 1
                            /\ rows[c][i].success <=> outcome[c] \in {"result", "cancelled"}
                            /\ ask[c].tool \in DataTools =>
                                  touched[c] \subseteq rows[c][i].tables
    BY DEF AnswersAreRecorded
  <2>1. Told(c) /\ Kept(c) /\ Phases(c) /\ TypeOK
    BY DEF ToolCallInv, CallInv
  <2>2. at[c] = 0 => Len(rows[c]) = 0
    BY <2>1 DEF Phases
  <2>3. reply[c] \in {"result", "error"} => Len(rows[c]) = IF at[c] = 0 THEN 0 ELSE 1
    BY <2>1, <2>2 DEF Told
  <2>4. ASSUME NEW i \in DOMAIN rows[c]
        PROVE  /\ i = 1
               /\ rows[c][i].success <=> outcome[c] \in {"result", "cancelled"}
               /\ ask[c].tool \in DataTools => touched[c] \subseteq rows[c][i].tables
    <3>1. rows[c][i] = Row(c) /\ i = 1
      BY <2>1 DEF Told
    <3>2. rows[c] # <<>>
      OBVIOUS
    <3>3. at[c] # 0 /\ phase[c] = "over"
      BY <2>1, <3>2 DEF Phases, TypeOK
    <3>4. outcome[c] \in Errors \cup {"result", "cancelled"}
      BY <2>1, <3>3 DEF Phases
    <3>5. "result" \notin Errors /\ "cancelled" \notin Errors /\ None \notin Errors
      BY ToolCallAssumption DEF ToolCallAssumption, Errors, Refusals
    <3>6. Failure(c) = None <=> outcome[c] \in {"result", "cancelled"}
      BY <3>4, <3>5 DEF Failure
    <3>7. (rows[c][i].success <=> Failure(c) = None) /\ rows[c][i].tables = recorded[c]
      BY <3>1, RowSays
    <3>8. ask[c].tool \in DataTools => touched[c] \subseteq recorded[c]
      BY <2>1, <3>3 DEF Kept
    <3> QED  BY <3>1, <3>6, <3>7, <3>8
  <2> QED  BY <2>3, <2>4
<1> QED  BY InitInv, NextInv, <1>1, PTL DEF Spec
================================================================================
