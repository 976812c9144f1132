--------------------------- MODULE AdminChangesProofs ---------------------------
(***************************************************************************)
(* Proofs about AdminChanges, for any number of requests, connections,    *)
(* subjects, tables and reports.                                           *)
(*                                                                        *)
(* What a transaction has written stays apart from what others have       *)
(* written until it ends, so what it saw of those rows is still so when   *)
(* it commits; what it has written, and still has to, is one of the       *)
(* statements its request may run (Sqls).                                  *)
(***************************************************************************)
EXTENDS AdminChanges, TLAPS, FiniteSetTheorems, SequenceTheorems

--------------------------------------------------------------------------------
(* The invariant *)

GridOps == {"tables", "tools"}

\* The statements that a request may run, whatever their order.
SqlsOf(q, a, got) ==
        CASE a.op = "create"        -> {Sql("insert", Connection(a.conn), a.val)}
          [] a.op = "update"        -> {Sql("update", Connection(a.conn), a.val)}
          [] a.op = "check"         -> {Sql("update", Connection(a.conn), [c \in {"checked"} |-> 1])}
          [] a.op = "delete"        -> {Sql("delete", Connection(a.conn), None)}
          [] a.op \in GridOps         -> {Sql("ignore", Known, Present)}
                                       \cup {Sql("ignore", x, Present) : x \in Grants(a.conn, a.granted)}
                                       \cup {Sql("delete", x, Present) : x \in Grants(a.conn, a.revoked)}
          [] a.op = "access"        -> {Sql("delete", Access(a.conn, s), Present) : s \in got \ a.granted}
                                       \cup {Sql("insert", Access(a.conn, s), Present) : s \in a.granted \ got}
          [] a.op = "describe"      -> {Sql("upsert", Description(a.conn), q)}
          [] a.op = "clear"         -> {Sql("delete", Description(a.conn), None)}
          [] a.op = "report_create" -> {Sql("insert", Report(a.val), a.conn)}
          [] a.op = "report_update" -> {Sql("update", Report(a.val), a.conn)}
          [] a.op = "report_delete" -> {Sql("delete", Report(a.val), None)}
          [] OTHER                  -> {Sql("upsert", Known, Present)}

Sqls(q) == SqlsOf(q, ask[q], seen[q])

\* Statement st may have made v of row x.
Made(st, x, v) ==
    IF st.do = "delete"
    THEN v = None /\ (x = st.row \/ (st.row[1] = "connection" /\ x \in Owned(st.row[2])))
    ELSE x = st.row /\ v # None /\ ((st.do = "update" /\ x[1] = "connection") \/ v = st.val)

\* What a request runs and has written comes from its statements.
OwnStatements ==
    \A q \in Requests :
        /\ at[q] = "new" \/ (at[q] # "tx" /\ ask[q].op = "access") => todo[q] = <<>>
        /\ ask[q].op = "access" => at[q] # "sql" /\ (at[q] = "tx" => seen[q] \in SUBSET Subjects)
        /\ ask[q] # None =>
              /\ todo[q] \in Seq(Sqls(q))
              /\ \A x \in DOMAIN wrote[q] : \E st \in Sqls(q) : Made(st, x, wrote[q][x])

\* A row is written by one transaction at a time.
LocksApart ==
    \A p, q \in Requests : p # q => DOMAIN wrote[p] \cap DOMAIN wrote[q] = {}

\* A transaction that depends on a connection sees it, and nobody is deleting it.
ParentsStay ==
    \A q \in Requests : \A k \in shares[q] :
        /\ ask[q].op # "delete"
        /\ Sees(q, Connection(k)) # None
        /\ \A p \in Requests \ {q} :
              Connection(k) \in DOMAIN wrote[p] => wrote[p][Connection(k)] # None

\* What a transaction adds below a connection either depends on it or was there before.
ChildrenDepend ==
    \A q \in Requests : \A x \in DOMAIN wrote[q] :
        LET k == Parent(x, wrote[q][x])
        IN  (wrote[q][x] # None /\ k # None) =>
                k \in shares[q] \/ (db[x] # None /\ Parent(x, db[x]) = k)

\* Whoever deletes a connection deletes everything that is below it.
DeletesTakeAll ==
    \A q \in Requests : \A k \in Connections :
        (Connection(k) \in DOMAIN wrote[q] /\ wrote[q][Connection(k)] = None) =>
            \A x \in Rows : (db[x] # None /\ Parent(x, db[x]) = k) =>
                x \in DOMAIN wrote[q] /\ wrote[q][x] = None

\* What references a connection has it.
ParentsExist ==
    \A x \in Rows :
        db[x] # None /\ Parent(x, db[x]) # None => db[Connection(Parent(x, db[x]))] # None

RowsInv ==
    /\ TypeOK /\ OwnStatements /\ LocksApart
    /\ ParentsStay /\ ChildrenDepend /\ DeletesTakeAll /\ ParentsExist

\* In a grid, row x is changed before row y.
Earlier(a, x, y) ==
    \/ x = Known /\ y \in Grants(a.conn, a.granted \cup a.revoked)
    \/ x \in Grants(a.conn, a.granted) /\ y \in Grants(a.conn, a.revoked)
    \/ \E ts \in {a.granted, a.revoked} :
          {x, y} \subseteq Grants(a.conn, ts) /\ x[3] < y[3]

\* Program p changes its rows in this order.
InOrder(a, p) == \A i, j \in DOMAIN p : i < j => Earlier(a, p[i].row, p[j].row)

\* A grid changes its rows in order, and those that it really changes only.
GridsInOrder ==
    \A q \in Requests : (ask[q] # None /\ ask[q].op \in GridOps) =>
        /\ InOrder(ask[q], todo[q])
        /\ \A x \in DOMAIN wrote[q] :
              /\ \A i \in DOMAIN todo[q] : Earlier(ask[q], x, todo[q][i].row)
              /\ db[x] = None <=> wrote[q][x] # None

\* A health check leaves the settings of its connection as they are.
ChecksKeep ==
    \A q \in Requests : (at[q] = "tx" /\ ask[q].op = "check") =>
        \A x \in DOMAIN wrote[q] :
            db[x] # None /\ \A f \in Edited : wrote[q][x][f] = db[x][f]

\* Where a request has been through its bump of a family.
Past(f) == IF f = "meta" THEN {"bumped", "answer"} ELSE {"answer"}

\* What is committed and not announced is announced by a bump still to come, or its bump failed.
NotYetAnnounced ==
    \A q \in Requests :
        /\ reply[q] # None => at[q] = "over"
        /\ \A f \in Families : q \in unannounced[f] =>
              /\ at[q] \in {"committed", "bumped", "answer", "over"}
              /\ f \in Announces(q)
              /\ at[q] \in Past(f) \/ reply[q] # None => q \in lost[f]

--------------------------------------------------------------------------------
(* Rows and statements *)

Below == {"access", "grant", "description"}

LEMMA RowCases ==
    ASSUME NEW x
    PROVE  x \in Rows <=> \/ \E k \in Connections : x \in Owned(k) \/ x = Connection(k)
                          \/ \E t \in Tables : x = Grant(None, t)
                          \/ \E r \in Reports : x = Report(r)
                          \/ x = Known
<1>1. x \in UNION {Owned(k) : k \in Connections} <=> \E k \in Connections : x \in Owned(k)
  OBVIOUS
<1>2. x \in {Connection(k) : k \in Connections} <=> \E k \in Connections : x = Connection(k)
  OBVIOUS
<1>3. x \in {Grant(None, t) : t \in Tables} <=> \E t \in Tables : x = Grant(None, t)
  OBVIOUS
<1>4. x \in {Report(r) : r \in Reports} <=> \E r \in Reports : x = Report(r)
  OBVIOUS
<1> QED  BY <1>1, <1>2, <1>3, <1>4 DEF Rows

(* A row tells what it is. *)
LEMMA RowKinds ==
    ASSUME NEW x \in Rows
    PROVE  /\ x[1] \in {"connection", "report", "known"} \cup Below
           /\ x[1] = "connection" => x[2] \in Connections /\ x = Connection(x[2])
           /\ x[1] \in Below =>
                 \/ x[2] \in Connections /\ x \in Owned(x[2])
                 \/ x[1] = "grant" /\ x[2] = None
           /\ x[1] = "known" => x = Known
<1>1. ASSUME NEW k \in Connections, x \in Owned(k) PROVE x[1] \in Below /\ x[2] = k
  BY <1>1 DEF Access, Grant, Description, Below, Owned
<1>2. ASSUME NEW k \in Connections, x = Connection(k) PROVE x[1] = "connection" /\ x[2] = k
  BY <1>2 DEF Connection
<1>3. ASSUME NEW t \in Tables, x = Grant(None, t) PROVE x[1] = "grant" /\ x[2] = None
  BY <1>3 DEF Grant
<1>4. ASSUME NEW r \in Reports, x = Report(r) PROVE x[1] = "report"
  BY <1>4 DEF Report
<1>5. x = Known => x[1] = "known"
  BY DEF Known
<1> QED  BY <1>1, <1>2, <1>3, <1>4, <1>5, RowCases DEF Below

(* What belongs to a connection says so. *)
LEMMA OwnedRows ==
    ASSUME NEW k, NEW x \in Owned(k)
    PROVE  x[1] \in Below /\ x[2] = k
  BY DEF Access, Grant, Description, Below, Owned

(* What the statements of a request are about. *)
LEMMA AskedRows ==
    ASSUME NEW a \in Asks
    PROVE  /\ a.op \in {"create", "update", "check", "delete", "describe", "clear"} =>
                 a.conn \in Connections
           /\ a.op = "create" => a.val \in Settings
           /\ a.op = "update" => \E F \in SUBSET Edited : a.val \in [F -> 0 .. 1]
           /\ a.op \in {"report_create", "report_update", "report_delete"} =>
                 a.conn \in Connections /\ a.val \in Reports
           /\ a.op = "access" => a.conn \in Connections /\ a.granted \subseteq Subjects
           /\ a.op \in GridOps =>
                 /\ a.conn \in Connections \cup {None}
                 /\ a.granted \subseteq Tables /\ a.revoked \subseteq Tables
                 /\ a.granted \cap a.revoked = {}
           /\ a.op \in {"create", "update", "check", "delete", "describe", "clear", "access",
                        "report_create", "report_update", "report_delete", "subject_add"} \cup GridOps
<1>1. MayAsk(a)
  BY AdminAssumption
<1> QED  BY <1>1 DEF MayAsk, GridOps

LEMMA RowsThere ==
    /\ \A k \in Connections : Connection(k) \in Rows /\ Description(k) \in Rows /\ Owned(k) \subseteq Rows
    /\ \A k \in Connections, s \in Subjects : Access(k, s) \in Rows
    /\ \A k \in Connections \cup {None}, t \in Tables : Grant(k, t) \in Rows
    /\ \A r \in Reports : Report(r) \in Rows
    /\ Known \in Rows
<1>1. \A k \in Connections : Owned(k) \subseteq Rows
  BY RowCases
<1>2. \A k \in Connections : Description(k) \in Owned(k)
  BY DEF Owned
<1>3. \A k \in Connections, s \in Subjects : Access(k, s) \in Owned(k)
  BY DEF Owned
<1>4. \A k \in Connections, t \in Tables : Grant(k, t) \in Owned(k)
  BY DEF Owned
<1>5. \A t \in Tables : Grant(None, t) \in Rows
  BY RowCases
<1>6. /\ \A k \in Connections : Connection(k) \in Rows
      /\ \A r \in Reports : Report(r) \in Rows
      /\ Known \in Rows
  BY RowCases
<1> QED  BY <1>1, <1>2, <1>3, <1>4, <1>5, <1>6

LEMMA SqlKinds ==
    ASSUME NEW q \in Requests, NEW a \in Asks, NEW got,
           a.op = "access" => got \in SUBSET Subjects,
           NEW st \in SqlsOf(q, a, got)
    PROVE  /\ st.row \in Rows
           /\ st.do \in {"insert", "update", "delete", "ignore", "upsert"}
           /\ st.row[1] = "connection" => a.op \in {"create", "update", "check", "delete"}
           /\ a.op = "delete" => st.do = "delete" /\ st.row[1] = "connection"
           /\ st.do = "delete" /\ st.row[1] = "connection" => a.op = "delete"
           /\ st.do # "delete" /\ ~(st.do = "update" /\ st.row[1] = "connection") =>
                 st.val \in Contents(st.row)
           /\ st.do # "delete" /\ st.row[1] # "report" => Parent(st.row, st.val) = Parent(st.row, Present)
           /\ a.op = "check" => st.do = "update" /\ st.val = [c \in {"checked"} |-> 1]
           /\ a.op = "check" => st.row[1] = "connection"
<1>a. /\ \A k : Connection(k)[1] = "connection" /\ Description(k)[1] = "description"
      /\ \A k, s : Access(k, s)[1] = "access" /\ Grant(k, s)[1] = "grant"
      /\ \A r : Report(r)[1] = "report"
      /\ Known[1] = "known"
  BY DEF Connection, Description, Access, Grant, Report, Known
<1>b. \A do, x, v : Sql(do, x, v).do = do /\ Sql(do, x, v).row = x /\ Sql(do, x, v).val = v
  BY DEF Sql
<1>1. CASE a.op = "create"
  <2>1. st = Sql("insert", Connection(a.conn), a.val)
    BY <1>1 DEF SqlsOf, GridOps
  <2> QED  BY <1>1, <1>a, <1>b, <2>1, AskedRows, RowsThere DEF Contents, Parent
<1>2. CASE a.op = "update"
  <2>1. st = Sql("update", Connection(a.conn), a.val)
    BY <1>2 DEF SqlsOf, GridOps
  <2> QED  BY <1>2, <1>a, <1>b, <2>1, AskedRows, RowsThere DEF Contents, Parent
<1>3. CASE a.op = "check"
  <2>1. st = Sql("update", Connection(a.conn), [c \in {"checked"} |-> 1])
    BY <1>3 DEF SqlsOf, GridOps
  <2> QED  BY <1>3, <1>a, <1>b, <2>1, AskedRows, RowsThere DEF Contents, Parent
<1>4. CASE a.op = "delete"
  <2>1. st = Sql("delete", Connection(a.conn), None)
    BY <1>4 DEF SqlsOf, GridOps
  <2> QED  BY <1>4, <1>a, <1>b, <2>1, AskedRows, RowsThere DEF Contents, Parent
<1>5. CASE a.op = "describe"
  <2>1. st = Sql("upsert", Description(a.conn), q)
    BY <1>5 DEF SqlsOf, GridOps
  <2> QED  BY <1>5, <1>a, <1>b, <2>1, AskedRows, RowsThere DEF Contents, Parent
<1>6. CASE a.op = "clear"
  <2>1. st = Sql("delete", Description(a.conn), None)
    BY <1>6 DEF SqlsOf, GridOps
  <2> QED  BY <1>6, <1>a, <1>b, <2>1, AskedRows, RowsThere DEF Contents, Parent
<1>7. CASE a.op = "report_create"
  <2>1. st = Sql("insert", Report(a.val), a.conn)
    BY <1>7 DEF SqlsOf, GridOps
  <2> QED  BY <1>7, <1>a, <1>b, <2>1, AskedRows, RowsThere DEF Contents, Parent
<1>8. CASE a.op = "report_update"
  <2>1. st = Sql("update", Report(a.val), a.conn)
    BY <1>8 DEF SqlsOf, GridOps
  <2> QED  BY <1>8, <1>a, <1>b, <2>1, AskedRows, RowsThere DEF Contents, Parent
<1>9. CASE a.op = "report_delete"
  <2>1. st = Sql("delete", Report(a.val), None)
    BY <1>9 DEF SqlsOf, GridOps
  <2> QED  BY <1>9, <1>a, <1>b, <2>1, AskedRows, RowsThere DEF Contents, Parent
<1>10. CASE a.op \in GridOps
  <2>1. PICK x \in {Known} \cup Grants(a.conn, a.granted \cup a.revoked) :
           st \in {Sql("ignore", x, Present), Sql("delete", x, Present)}
    BY <1>10 DEF SqlsOf, GridOps, Grants
  <2>2. x = Known \/ \E t \in Tables : x = Grant(a.conn, t)
    BY <1>10, AskedRows DEF Grants
  <2> QED  BY <1>10, <1>a, <1>b, <2>1, <2>2, AskedRows, RowsThere DEF Contents, Parent, GridOps
<1>11. CASE a.op = "access"
  <2>1. PICK s \in Subjects : st \in {Sql("delete", Access(a.conn, s), Present),
                                     Sql("insert", Access(a.conn, s), Present)}
    BY <1>11, AskedRows DEF SqlsOf, GridOps
  <2> QED  BY <1>11, <1>a, <1>b, <2>1, AskedRows, RowsThere DEF Contents, Parent
<1>12. CASE a.op = "subject_add"
  <2>1. st = Sql("upsert", Known, Present)
    BY <1>12 DEF SqlsOf, GridOps
  <2> QED  BY <1>12, <1>a, <1>b, <2>1, RowsThere DEF Contents, Parent
<1> QED  BY <1>1, <1>2, <1>3, <1>4, <1>5, <1>6, <1>7, <1>8, <1>9, <1>10, <1>11, <1>12, AskedRows

(* The statements for the rows of a set, in some order. *)
LEMMA EachRow ==
    ASSUME NEW do, NEW A \in SUBSET Rows, NEW rows \in SetToSeqs(A),
           NEW S, \A x \in A : Sql(do, x, Present) \in S
    PROVE  /\ Len(Each(do, rows)) \in Nat
           /\ DOMAIN rows = 1 .. Len(Each(do, rows))
           /\ Each(do, rows) \in Seq(S)
           /\ \A i \in 1 .. Len(Each(do, rows)) : rows[i] \in A /\ Each(do, rows)[i].row = rows[i]
<1> DEFINE n == Cardinality(A)
<1>1. n \in Nat
  BY AdminAssumption, FS_Subset, FS_CardinalityType
<1>2. rows \in [1 .. n -> A]
  BY DEF SetToSeqs
<1>3. Each(do, rows) = [i \in 1 .. n |-> Sql(do, rows[i], Present)]
  BY <1>2 DEF Each
<1>4. Each(do, rows) \in [1 .. n -> S]
  BY <1>2, <1>3
<1>5. Each(do, rows) \in Seq(S)
  BY <1>1, <1>4, SeqDef
<1>6. Len(Each(do, rows)) = n
  BY <1>1, <1>4, <1>5, LenProperties
<1>7. \A i \in 1 .. n : Each(do, rows)[i].row = rows[i]
  BY <1>3 DEF Sql
<1> QED  BY <1>1, <1>2, <1>5, <1>6, <1>7

(* One list of statements after the other. *)
LEMMA OneAfterOther ==
    ASSUME NEW S, NEW s \in Seq(S), NEW t \in Seq(S)
    PROVE  /\ s \o t \in Seq(S)
           /\ Len(s) \in Nat /\ Len(t) \in Nat /\ DOMAIN (s \o t) = 1 .. Len(s) + Len(t)
           /\ DOMAIN s = 1 .. Len(s) /\ DOMAIN t = 1 .. Len(t)
           /\ \A i \in DOMAIN (s \o t) :
                 IF i <= Len(s) THEN i \in DOMAIN s /\ (s \o t)[i] = s[i]
                 ELSE i - Len(s) \in DOMAIN t /\ (s \o t)[i] = t[i - Len(s)]
<1>1. /\ s \o t \in Seq(S) /\ Len(s \o t) = Len(s) + Len(t)
      /\ \A i \in 1 .. Len(s) + Len(t) : (s \o t)[i] = IF i <= Len(s) THEN s[i] ELSE t[i - Len(s)]
  BY ConcatProperties
<1>2. Len(s) \in Nat /\ Len(t) \in Nat /\ DOMAIN s = 1 .. Len(s) /\ DOMAIN t = 1 .. Len(t)
  BY LenProperties
<1>3. DOMAIN (s \o t) = 1 .. Len(s) + Len(t)
  BY <1>1, LenProperties
<1> QED  BY <1>1, <1>2, <1>3

(* A grid runs its own statements, in order. *)
LEMMA GridPrograms ==
    ASSUME NEW q \in Requests, NEW a \in Asks, a.op \in GridOps, NEW got,
           NEW p \in Statements(q, a)
    PROVE  p \in Seq(SqlsOf(q, a, got)) /\ InOrder(a, p)
<1> DEFINE A == Grants(a.conn, a.granted)
           B == Grants(a.conn, a.revoked)
           S == SqlsOf(q, a, got)
           k == <<Sql("ignore", Known, Present)>>
<1>1. /\ S = {Sql("ignore", Known, Present)} \cup {Sql("ignore", x, Present) : x \in A}
                \cup {Sql("delete", x, Present) : x \in B}
  BY DEF SqlsOf, GridOps
<1>2. A \in SUBSET Rows /\ B \in SUBSET Rows
  BY AskedRows, RowsThere DEF Grants
<1>3. PICK f \in Sorted(a.conn, a.granted), g \in Sorted(a.conn, a.revoked) :
         p = k \o (Each("ignore", f) \o Each("delete", g))
  BY DEF Statements, Grid, GridOps
<1>4. /\ f \in SetToSeqs(A) /\ g \in SetToSeqs(B)
      /\ \A i, j \in DOMAIN f : i < j => f[i][3] < f[j][3]
      /\ \A i, j \in DOMAIN g : i < j => g[i][3] < g[j][3]
  BY DEF Sorted
<1>5. /\ \A x \in A : Sql("ignore", x, Present) \in S
      /\ \A x \in B : Sql("delete", x, Present) \in S
  BY <1>1
<1> DEFINE s1 == Each("ignore", f)
           s2 == Each("delete", g)
           r == s1 \o s2
           m == Len(s1)
<1> HIDE DEF A, B, S
<1>a. /\ m \in Nat /\ DOMAIN f = 1 .. m /\ s1 \in Seq(S)
      /\ \A i \in 1 .. m : f[i] \in A /\ s1[i].row = f[i]
  BY <1>2, <1>4, <1>5, EachRow
<1>b. /\ DOMAIN g = 1 .. Len(s2) /\ s2 \in Seq(S)
      /\ \A i \in 1 .. Len(s2) : g[i] \in B /\ s2[i].row = g[i]
  BY <1>2, <1>4, <1>5, EachRow
<1>8. p = k \o r
  BY <1>3
<1> HIDE DEF s1, s2
<1>c. /\ r \in Seq(S) /\ DOMAIN r = 1 .. Len(s1) + Len(s2) /\ Len(s2) \in Nat
      /\ DOMAIN s1 = 1 .. m /\ DOMAIN s2 = 1 .. Len(s2)
      /\ \A i \in DOMAIN r :
            IF i <= m THEN i \in DOMAIN s1 /\ r[i] = s1[i]
            ELSE i - m \in DOMAIN s2 /\ r[i] = s2[i - m]
  BY <1>a, <1>b, OneAfterOther
<1> HIDE DEF r, m
<1>6. \A i \in DOMAIN r :
            IF i <= m THEN i \in DOMAIN f /\ r[i].row = f[i] /\ f[i] \in A
            ELSE i - m \in DOMAIN g /\ r[i].row = g[i - m] /\ g[i - m] \in B
  BY <1>a, <1>b, <1>c
<1>7. k \in Seq(S) /\ Len(k) = 1 /\ k[1].row = Known
  BY <1>1 DEF S, Sql
<1> HIDE DEF k
<1>d. /\ k \o r \in Seq(S) /\ DOMAIN (k \o r) = 1 .. 1 + Len(r)
      /\ DOMAIN r = 1 .. Len(r) /\ Len(r) \in Nat
      /\ \A i \in DOMAIN (k \o r) :
            IF i <= 1 THEN i \in DOMAIN k /\ (k \o r)[i] = k[i]
            ELSE i - 1 \in DOMAIN r /\ (k \o r)[i] = r[i - 1]
  <2>1. r \in Seq(S) /\ k \in Seq(S) /\ Len(k) = 1
    BY <1>7, <1>c
  <2>2. /\ k \o r \in Seq(S)
        /\ Len(k) \in Nat /\ Len(r) \in Nat /\ DOMAIN (k \o r) = 1 .. Len(k) + Len(r)
        /\ DOMAIN k = 1 .. Len(k) /\ DOMAIN r = 1 .. Len(r)
        /\ \A i \in DOMAIN (k \o r) :
              IF i <= Len(k) THEN i \in DOMAIN k /\ (k \o r)[i] = k[i]
              ELSE i - Len(k) \in DOMAIN r /\ (k \o r)[i] = r[i - Len(k)]
    BY <2>1, OneAfterOther, Zenon
  <2> QED  BY <2>1, <2>2
<1>9. /\ p \in Seq(S) /\ DOMAIN p = 1 .. 1 + Len(r)
      /\ DOMAIN r = 1 .. Len(r) /\ Len(r) \in Nat
      /\ \A i \in DOMAIN p : IF i <= 1 THEN p[i] = k[i] ELSE i - 1 \in DOMAIN r /\ p[i] = r[i - 1]
  BY <1>8, <1>d
<1>11. \A i \in DOMAIN r : r[i].row \in A \cup B
  BY <1>6
<1>12. A \cup B = Grants(a.conn, a.granted \cup a.revoked)
  BY DEF A, B, Grants
<1>13. ASSUME NEW i \in DOMAIN p, NEW j \in DOMAIN p, i < j
       PROVE  Earlier(a, p[i].row, p[j].row)
  <2>1. j - 1 \in DOMAIN r /\ p[j] = r[j - 1]
    BY <1>9, <1>13
  <2>2. CASE i = 1
    <3>1. p[i].row = Known
      BY <1>7, <1>9, <2>2
    <3>2. p[j].row \in Grants(a.conn, a.granted \cup a.revoked)
      BY <1>11, <1>12, <2>1
    <3> QED  BY <3>1, <3>2 DEF Earlier
  <2>3. CASE i # 1
    <3> DEFINE u == i - 1
               v == j - 1
    <3>1. u \in DOMAIN r /\ p[i] = r[u] /\ u < v /\ u \in Nat /\ v \in Nat
      BY <1>9, <1>13, <2>3
    <3> HIDE DEF u
    <3>2. v \in DOMAIN r /\ p[j] = r[v]
      BY <2>1
    <3> HIDE DEF v
    <3>3. CASE v <= m
      <4>1. u \in DOMAIN f /\ v \in DOMAIN f /\ r[u].row = f[u] /\ r[v].row = f[v] /\ f[u] \in A /\ f[v] \in A
        BY <1>6, <1>a, <1>c, <3>1, <3>2, <3>3
      <4>2. f[u][3] < f[v][3]
        BY <1>4, <3>1, <4>1
      <4> QED  BY <3>1, <3>2, <4>1, <4>2 DEF Earlier, A
    <3>4. CASE u <= m /\ ~(v <= m)
      <4>1. r[u].row \in A /\ r[v].row \in B
        BY <1>6, <1>a, <1>c, <3>1, <3>2, <3>4
      <4> QED  BY <3>1, <3>2, <4>1 DEF Earlier, A, B
    <3>5. CASE ~(u <= m)
      <4>1. /\ u - m \in DOMAIN g /\ v - m \in DOMAIN g /\ u - m < v - m
            /\ r[u].row = g[u - m] /\ r[v].row = g[v - m] /\ g[u - m] \in B /\ g[v - m] \in B
        BY <1>6, <1>a, <1>c, <3>1, <3>2, <3>5
      <4>2. g[u - m][3] < g[v - m][3]
        BY <1>4, <4>1
      <4> QED  BY <3>1, <3>2, <4>1, <4>2 DEF Earlier, B
    <3> QED  BY <1>a, <3>1, <3>3, <3>4, <3>5
  <2> QED  BY <2>2, <2>3
<1> QED  BY <1>9, <1>13 DEF S, InOrder

LEMMA AccessSplits ==
    ASSUME NEW A, NEW B, NEW p \in AccessStatements(A, B)
    PROVE  \E d \in SetToSeqs(A), i \in SetToSeqs(B) : p = Each("delete", d) \o Each("insert", i)
  BY DEF AccessStatements

(* So does the replacement of an access list, in whatever order. *)
LEMMA AccessPrograms ==
    ASSUME NEW S, NEW A \in SUBSET Rows, NEW B \in SUBSET Rows,
           \A x \in A : Sql("delete", x, Present) \in S,
           \A x \in B : Sql("insert", x, Present) \in S,
           NEW p \in AccessStatements(A, B)
    PROVE  p \in Seq(S)
<1>1. PICK d \in SetToSeqs(A), i \in SetToSeqs(B) : p = Each("delete", d) \o Each("insert", i)
  BY AccessSplits
<1>2. Each("delete", d) \in Seq(S) /\ Each("insert", i) \in Seq(S)
  BY <1>1, EachRow
<1> QED  BY <1>1, <1>2, OneAfterOther

(* And everything else runs the one statement it has. *)
LEMMA OtherPrograms ==
    ASSUME NEW q \in Requests, NEW a \in Asks, a.op \notin GridOps, NEW got,
           NEW p \in Statements(q, a)
    PROVE  p \in Seq(SqlsOf(q, a, got)) /\ (a.op = "access" => p = <<>>)
<1>1. CASE a.op = "access"
  BY <1>1 DEF Statements
<1>2. CASE a.op # "access"
  <2>1. PICK st : p = <<st>> /\ st \in SqlsOf(q, a, got)
    BY <1>2, AskedRows DEF Statements, SqlsOf, GridOps
  <2> QED  BY <1>2, <2>1
<1> QED  BY <1>1, <1>2

(* An update gives settings of a connection some of the values they may have. *)
LEMMA UpdateValues ==
    ASSUME NEW q \in Requests, NEW a \in Asks, NEW got,
           a.op = "access" => got \in SUBSET Subjects,
           NEW st \in SqlsOf(q, a, got), st.do = "update", st.row[1] = "connection"
    PROVE  \E F \in SUBSET (Edited \cup {"checked"}) : st.val \in [F -> 0 .. 1]
<1>a. \A do, x, v : Sql(do, x, v).do = do /\ Sql(do, x, v).row = x /\ Sql(do, x, v).val = v
  BY DEF Sql
<1>1. a.op \in {"create", "update", "check", "delete"}
  BY SqlKinds
<1>2. CASE a.op = "create"
  <2>1. st = Sql("insert", Connection(a.conn), a.val)
    BY <1>2 DEF SqlsOf, GridOps
  <2> QED  BY <1>a, <2>1
<1>3. CASE a.op = "delete"
  <2>1. st = Sql("delete", Connection(a.conn), None)
    BY <1>3 DEF SqlsOf, GridOps
  <2> QED  BY <1>a, <2>1
<1>4. CASE a.op = "update"
  <2>1. st = Sql("update", Connection(a.conn), a.val)
    BY <1>4 DEF SqlsOf, GridOps
  <2>2. PICK F \in SUBSET Edited : a.val \in [F -> 0 .. 1]
    BY <1>4, AskedRows
  <2>3. F \in SUBSET (Edited \cup {"checked"})
    OBVIOUS
  <2> QED  BY <1>a, <2>1, <2>2, <2>3
<1>5. CASE a.op = "check"
  <2>1. st.val = [c \in {"checked"} |-> 1]
    BY <1>5, SqlKinds
  <2>2. [c \in {"checked"} |-> 1] \in [{"checked"} -> 0 .. 1]
    OBVIOUS
  <2>3. {"checked"} \in SUBSET (Edited \cup {"checked"})
    OBVIOUS
  <2> QED  BY <2>1, <2>2, <2>3
<1> QED  BY <1>1, <1>2, <1>3, <1>4, <1>5

LEMMA SetSettings ==
    ASSUME NEW row \in Settings, NEW F \in SUBSET (Edited \cup {"checked"}),
           NEW vals \in [F -> 0 .. 1]
    PROVE  Set(row, vals) \in Settings
BY DEF Set, Settings

(* The parent of a row is a connection. *)
LEMMA Parents ==
    ASSUME NEW x \in Rows, NEW v \in Contents(x) \cup {None}
    PROVE  /\ Parent(x, v) # None => Parent(x, v) \in Connections
           /\ Parent(x, v) # None => x[1] \in {"report"} \cup Below
           /\ x[1] \in Below => Parent(x, v) = x[2]
           /\ x[1] = "report" => Parent(x, v) = v
<1>1. x[1] \in {"connection", "report", "known"} \cup Below
  BY RowKinds
<1>2. x[1] \in Below => x[2] \in Connections \cup {None}
  BY RowKinds
<1> QED  BY <1>1, <1>2 DEF Parent, Contents, Below

(* No row holds None, which stands for no row. *)
LEMMA NoneIsNoContents == \A x \in Rows : None \notin Contents(x)
  BY AdminAssumption DEF Contents

(* What a statement leaves is None when it deletes, and something otherwise. *)
LEMMA MadeNone ==
    ASSUME NEW st, NEW x, NEW v, Made(st, x, v)
    PROVE  v = None <=> st.do = "delete"
  BY DEF Made

LEMMA MadeWhere ==
    ASSUME NEW st, NEW x, NEW v, Made(st, x, v), x[1] = "connection"
    PROVE  x = st.row
<1>1. "connection" \notin Below
  BY DEF Below
<1> QED  BY <1>1, OwnedRows DEF Made

--------------------------------------------------------------------------------
(* What the rows that a transaction has written say of its request *)

LEMMA InTransaction ==
    ASSUME TypeOK, OwnStatements, NEW q \in Requests, at[q] = "tx"
    PROVE  /\ ask[q] \in Asks
           /\ ask[q].op = "access" => seen[q] \in SUBSET Subjects
           /\ todo[q] \in Seq(Sqls(q))
           /\ \A x \in DOMAIN wrote[q] : \E st \in Sqls(q) : Made(st, x, wrote[q][x])
<1>1. ask[q] # None /\ ask[q] \in Asks \cup {None}
  BY DEF TypeOK
<1> QED  BY <1>1 DEF OwnStatements

LEMMA NextStatement ==
    ASSUME TypeOK, OwnStatements, NEW q \in Requests, at[q] = "tx", todo[q] # <<>>
    PROVE  Head(todo[q]) \in Sqls(q) /\ Tail(todo[q]) \in Seq(Sqls(q))
<1>1. todo[q] \in Seq(Sqls(q))
  BY InTransaction
<1> QED  BY <1>1, HeadTailProperties

LEMMA Written ==
    ASSUME TypeOK, OwnStatements, NEW q \in Requests, NEW x \in DOMAIN wrote[q]
    PROVE  /\ at[q] = "tx" /\ x \in Rows /\ wrote[q][x] \in Contents(x) \cup {None}
           /\ ask[q].op = "delete" => wrote[q][x] = None
           /\ x[1] = "connection" /\ wrote[q][x] = None => ask[q].op = "delete"
<1>1. at[q] = "tx" /\ x \in Rows /\ wrote[q][x] \in Contents(x) \cup {None}
  BY DEF TypeOK
<1>2. PICK st \in Sqls(q) : Made(st, x, wrote[q][x])
  BY <1>1, InTransaction
<1>3. /\ ask[q].op = "delete" => st.do = "delete"
      /\ st.do = "delete" /\ st.row[1] = "connection" => ask[q].op = "delete"
  BY <1>1, InTransaction, SqlKinds DEF Sqls
<1> QED  BY <1>1, <1>2, <1>3, MadeNone, MadeWhere

(* What a transaction sees of a row is of its kind. *)
LEMMA SeenContents ==
    ASSUME TypeOK, NEW q \in Requests, NEW x \in Rows
    PROVE  Sees(q, x) \in Contents(x) \cup {None}
  BY DEF TypeOK, Sees

(* The statement that q runs next, and what it changes. *)
LEMMA NextWrites ==
    ASSUME TypeOK, OwnStatements, NEW q \in Requests, at[q] = "tx", todo[q] # <<>>,
           NEW st, st = Head(todo[q]),
           NEW x \in Writes(q)
    PROVE  /\ x \in Rows /\ x \in Targets(q)
           /\ Made(st, x, Becomes(q, x))
           /\ Becomes(q, x) \in Contents(x) \cup {None}
           /\ st.do # "delete" => x = st.row
<1>a. /\ st \in Sqls(q) /\ ask[q] \in Asks
      /\ ask[q].op = "access" => seen[q] \in SUBSET Subjects
  BY NextStatement, InTransaction
<1>b. /\ st.row \in Rows
      /\ st.do \in {"insert", "update", "delete", "ignore", "upsert"}
      /\ st.do # "delete" /\ ~(st.do = "update" /\ st.row[1] = "connection") =>
            st.val \in Contents(st.row)
  BY <1>a, SqlKinds DEF Sqls
<1>1. x \in Targets(q)
  BY DEF Writes
<1>2. /\ x \in {st.row} \cup (IF st.do = "delete" /\ st.row[1] = "connection"
                              THEN Owned(st.row[2]) ELSE {})
      /\ st.do \in {"insert", "ignore", "upsert"} \/ Sees(q, x) # None
  BY <1>1 DEF Targets
<1>3. st.row[1] = "connection" => st.row[2] \in Connections
  BY <1>b, RowKinds
<1>4. x \in Rows
  BY <1>b, <1>2, <1>3, RowsThere
<1>5. st.do # "delete" => x = st.row
  BY <1>2
<1>6. CASE st.do = "delete"
  <2>1. Becomes(q, x) = None
    BY <1>6 DEF Becomes
  <2> QED  BY <1>1, <1>2, <1>4, <1>6, <2>1 DEF Made
<1>7. CASE st.do = "update" /\ st.row[1] = "connection"
  <2>1. PICK F \in SUBSET (Edited \cup {"checked"}) : st.val \in [F -> 0 .. 1]
    BY <1>7, <1>a, UpdateValues DEF Sqls
  <2>2. Contents(x) = Settings
    BY <1>5, <1>7 DEF Contents
  <2>3. Sees(q, x) \in Settings
    BY <1>2, <1>4, <1>7, <2>2, SeenContents
  <2>4. Becomes(q, x) = Set(Sees(q, x), st.val)
    BY <1>5, <1>7 DEF Becomes
  <2>5. Becomes(q, x) \in Contents(x)
    BY <2>1, <2>2, <2>3, <2>4, SetSettings
  <2> QED  BY <1>1, <1>4, <1>5, <1>7, <2>5, NoneIsNoContents DEF Made
<1>8. CASE st.do # "delete" /\ ~(st.do = "update" /\ st.row[1] = "connection")
  <2>1. Becomes(q, x) = st.val
    BY <1>5, <1>8 DEF Becomes
  <2> QED  BY <1>1, <1>4, <1>5, <1>8, <1>b, <2>1, NoneIsNoContents DEF Made
<1> QED  BY <1>6, <1>7, <1>8

(* What the next statement needs is a connection, and only a statement that adds something
   needs one. *)
LEMMA NextNeeds ==
    ASSUME TypeOK, OwnStatements, NEW q \in Requests, at[q] = "tx", todo[q] # <<>>,
           Needs(q) # None
    PROVE  /\ Needs(q) \in Connections
           /\ ask[q].op # "delete" /\ Head(todo[q]).do # "delete"
           /\ Writes(q) # {}
<1> DEFINE st == Head(todo[q])
<1>a. /\ st \in Sqls(q) /\ ask[q] \in Asks
      /\ ask[q].op = "access" => seen[q] \in SUBSET Subjects
  BY NextStatement, InTransaction
<1> HIDE DEF st
<1>b. /\ st.row \in Rows
      /\ ask[q].op = "delete" => st.do = "delete"
      /\ st.do # "delete" /\ ~(st.do = "update" /\ st.row[1] = "connection") =>
            st.val \in Contents(st.row)
  BY <1>a, SqlKinds DEF Sqls
<1>1. Writes(q) # {} /\ st.do # "delete" /\ Needs(q) = Parent(st.row, st.val)
  BY DEF Needs, st
<1>2. st.row[1] # "connection"
  BY <1>1 DEF Parent
<1>3. Needs(q) \in Connections
  BY <1>1, <1>2, <1>b, Parents
<1> QED  BY <1>1, <1>3, <1>b DEF st

--------------------------------------------------------------------------------
(* A statement that runs *)

\* Execute, where it does not roll back.
Runs(q) ==
    /\ at[q] = "tx" /\ todo[q] # <<>>
    /\ \A p \in Others(q) : ~WaitsFor(q, p)
    /\ ~Violates(q)
    /\ wrote' = [wrote EXCEPT ![q] = [x \in DOMAIN wrote[q] \cup Writes(q) |->
           IF x \in Writes(q) THEN Becomes(q, x) ELSE wrote[q][x]]]
    /\ shares' = [shares EXCEPT ![q] = IF Needs(q) # None THEN @ \cup {Needs(q)} ELSE @]
    /\ todo' = [todo EXCEPT ![q] = Tail(@)]
    /\ UNCHANGED <<db, log, ask, at, seen, reply, caches>>

LEMMA ExecuteRuns ==
    ASSUME NEW q \in Requests, Execute(q)
    PROVE  (at[q] = "tx" /\ Rollback(q)) \/ Runs(q)
  BY DEF Execute, Runs

LEMMA RunChanges ==
    ASSUME TypeOK, OwnStatements, NEW q \in Requests, Runs(q)
    PROVE  /\ UNCHANGED <<db, log, ask, at, seen, reply, caches>>
           /\ DOMAIN wrote' = Requests /\ DOMAIN todo' = Requests
           /\ shares' \in [Requests -> SUBSET Connections]
           /\ \A p \in Requests \ {q} :
                 wrote'[p] = wrote[p] /\ shares'[p] = shares[p] /\ todo'[p] = todo[p]
           /\ DOMAIN (wrote'[q]) = DOMAIN wrote[q] \cup Writes(q)
           /\ \A x \in Writes(q) : wrote'[q][x] = Becomes(q, x)
           /\ \A x \in DOMAIN wrote[q] \ Writes(q) : wrote'[q][x] = wrote[q][x]
           /\ shares'[q] = IF Needs(q) # None THEN shares[q] \cup {Needs(q)} ELSE shares[q]
           /\ todo'[q] = Tail(todo[q])
<1>1. DOMAIN wrote = Requests /\ DOMAIN todo = Requests /\ shares \in [Requests -> SUBSET Connections]
  BY DEF TypeOK
<1>2. Needs(q) # None => Needs(q) \in Connections
  BY NextNeeds DEF Runs
<1>3. /\ UNCHANGED <<db, log, ask, at, seen, reply, caches>>
      /\ DOMAIN todo' = Requests
      /\ \A p \in Requests \ {q} : todo'[p] = todo[p]
      /\ todo'[q] = Tail(todo[q])
  BY <1>1 DEF Runs
<1>4. /\ shares' \in [Requests -> SUBSET Connections]
      /\ \A p \in Requests \ {q} : shares'[p] = shares[p]
      /\ shares'[q] = IF Needs(q) # None THEN shares[q] \cup {Needs(q)} ELSE shares[q]
  BY <1>1, <1>2 DEF Runs
<1>5. /\ wrote'[q] = [x \in DOMAIN wrote[q] \cup Writes(q) |->
             IF x \in Writes(q) THEN Becomes(q, x) ELSE wrote[q][x]]
      /\ DOMAIN wrote' = Requests
      /\ \A p \in Requests \ {q} : wrote'[p] = wrote[p]
  BY <1>1 DEF Runs
<1> QED  BY <1>3, <1>4, <1>5

LEMMA RunWaits ==
    ASSUME NEW q \in Requests, Runs(q), NEW p \in Requests \ {q}
    PROVE  /\ Targets(q) \cap DOMAIN wrote[p] = {}
           /\ Needs(q) # None /\ Connection(Needs(q)) \in DOMAIN wrote[p] =>
                 wrote[p][Connection(Needs(q))] # None
           /\ \A k \in shares[p] :
                 ~(Head(todo[q]).do = "delete" /\ Head(todo[q]).row = Connection(k))
  BY DEF Runs, WaitsFor, Others

LEMMA RunTypeOK ==
    ASSUME TypeOK, OwnStatements, NEW q \in Requests, Runs(q)
    PROVE  TypeOK'
<1>1. ASSUME NEW p \in Requests
      PROVE  /\ (at[p] = "new" <=> ask[p] = None)'
             /\ DOMAIN (wrote'[p]) \subseteq Rows
             /\ \A x \in DOMAIN (wrote'[p]) : wrote'[p][x] \in Contents(x) \cup {None}
             /\ (at[p] # "tx")' => DOMAIN (wrote'[p]) = {} /\ shares'[p] = {}
             /\ (at[p] \in {"committed", "bumped", "answer"})' => todo'[p] = <<>>
  <2>1. CASE p = q
    <3>1. at[q] = "tx" /\ todo[q] # <<>>
      BY DEF Runs
    <3>2. \A x \in Writes(q) : x \in Rows /\ Becomes(q, x) \in Contents(x) \cup {None}
      BY <3>1, NextWrites
    <3>3. /\ at' = at /\ ask' = ask /\ ask[q] # None
          /\ DOMAIN (wrote'[q]) = DOMAIN wrote[q] \cup Writes(q)
          /\ \A x \in Writes(q) : wrote'[q][x] = Becomes(q, x)
          /\ \A x \in DOMAIN wrote[q] \ Writes(q) : wrote'[q][x] = wrote[q][x]
      BY <3>1, RunChanges DEF TypeOK
    <3>4. /\ DOMAIN wrote[q] \subseteq Rows
          /\ \A x \in DOMAIN wrote[q] : wrote[q][x] \in Contents(x) \cup {None}
      BY DEF TypeOK
    <3>5. \A x \in DOMAIN (wrote'[q]) : x \in Rows /\ wrote'[q][x] \in Contents(x) \cup {None}
      BY <3>2, <3>3, <3>4
    <3>6. at'[q] = "tx" /\ ask'[q] # None
      BY <3>1, <3>3
    <3> QED  BY <2>1, <3>5, <3>6
  <2>2. CASE p # q
    <3>1. at' = at /\ ask' = ask /\ wrote'[p] = wrote[p] /\ shares'[p] = shares[p] /\ todo'[p] = todo[p]
      BY <2>2, RunChanges
    <3>2. /\ at[p] = "new" <=> ask[p] = None
          /\ DOMAIN wrote[p] \subseteq Rows
          /\ \A x \in DOMAIN wrote[p] : wrote[p][x] \in Contents(x) \cup {None}
          /\ at[p] # "tx" => DOMAIN wrote[p] = {} /\ shares[p] = {}
          /\ at[p] \in {"committed", "bumped", "answer"} => todo[p] = <<>>
      BY DEF TypeOK
    <3> QED  BY <3>1, <3>2
  <2> QED  BY <2>1, <2>2
<1>2. /\ UNCHANGED <<db, log, ask, at, seen, reply, caches>>
      /\ DOMAIN wrote' = Requests /\ DOMAIN todo' = Requests
      /\ shares' \in [Requests -> SUBSET Connections]
  BY RunChanges
<1> QED  BY <1>1, <1>2 DEF TypeOK, caches

LEMMA RunOwnStatements ==
    ASSUME TypeOK, OwnStatements, NEW q \in Requests, Runs(q)
    PROVE  OwnStatements'
<1>1. ASSUME NEW p \in Requests
      PROVE  /\ (at[p] = "new" \/ (at[p] # "tx" /\ ask[p].op = "access") => todo[p] = <<>>)'
             /\ (ask[p].op = "access" =>
                    at[p] # "sql" /\ (at[p] = "tx" => seen[p] \in SUBSET Subjects))'
             /\ (ask[p] # None)' =>
                  /\ todo'[p] \in Seq(Sqls(p))
                  /\ \A x \in DOMAIN (wrote'[p]) : \E st \in Sqls(p) : Made(st, x, wrote'[p][x])
  <2>1. CASE p = q
    <3>1. at[q] = "tx" /\ todo[q] # <<>>
      BY DEF Runs
    <3>2. \A x \in Writes(q) : Made(Head(todo[q]), x, Becomes(q, x))
      BY <3>1, NextWrites
    <3>3. Head(todo[q]) \in Sqls(q) /\ Tail(todo[q]) \in Seq(Sqls(q))
      BY <3>1, NextStatement
    <3>4. \A x \in DOMAIN wrote[q] : \E st \in Sqls(q) : Made(st, x, wrote[q][x])
      BY <3>1, InTransaction
    <3>5. \A x \in DOMAIN (wrote'[q]) : \E st \in Sqls(q) : Made(st, x, wrote'[q][x])
      <4>1. /\ DOMAIN (wrote'[q]) = DOMAIN wrote[q] \cup Writes(q)
            /\ \A x \in Writes(q) : wrote'[q][x] = Becomes(q, x)
            /\ \A x \in DOMAIN wrote[q] \ Writes(q) : wrote'[q][x] = wrote[q][x]
        BY RunChanges
      <4> QED  BY <3>2, <3>3, <3>4, <4>1
    <3> QED  BY <2>1, <3>1, <3>3, <3>5, RunChanges DEF OwnStatements
  <2>2. CASE p # q
    <3>1. /\ at' = at /\ ask' = ask /\ seen' = seen /\ wrote'[p] = wrote[p] /\ todo'[p] = todo[p]
      BY <2>2, RunChanges
    <3> QED  BY <3>1 DEF OwnStatements
  <2> QED  BY <2>1, <2>2
<1>2. \A p \in Requests : Sqls(p)' = Sqls(p)
  BY RunChanges DEF Sqls
<1> QED  BY <1>1, <1>2 DEF OwnStatements

LEMMA RunLocksApart ==
    ASSUME RowsInv, NEW q \in Requests, Runs(q)
    PROVE  LocksApart'
<1>0. TypeOK /\ OwnStatements /\ LocksApart
  BY DEF RowsInv
<1>1. \A p \in Requests \ {q} : Writes(q) \cap DOMAIN wrote[p] = {}
  BY RunWaits DEF Writes
<1>2. /\ \A p \in Requests \ {q} : wrote'[p] = wrote[p]
      /\ DOMAIN (wrote'[q]) = DOMAIN wrote[q] \cup Writes(q)
  BY <1>0, RunChanges
<1>3. \A p \in Requests \ {q} : DOMAIN (wrote'[q]) \cap DOMAIN (wrote'[p]) = {}
  BY <1>0, <1>1, <1>2 DEF LocksApart
<1> QED  BY <1>0, <1>2, <1>3 DEF LocksApart

(* Only who deletes a connection leaves none. *)
LEMMA RunConnection ==
    ASSUME TypeOK, OwnStatements, NEW q \in Requests, Runs(q), NEW k \in Connections,
           Connection(k) \in Writes(q), Becomes(q, Connection(k)) = None
    PROVE  /\ ask[q].op = "delete"
           /\ Head(todo[q]).do = "delete" /\ Head(todo[q]).row = Connection(k)
<1> DEFINE st == Head(todo[q])
<1>1. at[q] = "tx" /\ todo[q] # <<>>
  BY DEF Runs
<1>2. Made(st, Connection(k), Becomes(q, Connection(k)))
  BY <1>1, NextWrites
<1>3. st \in Sqls(q)
  BY <1>1, NextStatement
<1> HIDE DEF st
<1>4. st.do = "delete" /\ st.row = Connection(k)
  BY <1>2, MadeNone, MadeWhere DEF Connection
<1>5. st.row[1] = "connection"
  BY <1>4 DEF Connection
<1>6. ask[q].op = "delete"
  BY <1>1, <1>3, <1>4, <1>5, InTransaction, SqlKinds DEF Sqls
<1> QED  BY <1>4, <1>6 DEF st

LEMMA RunParentsStay ==
    ASSUME RowsInv, NEW q \in Requests, Runs(q)
    PROVE  ParentsStay'
<1>0. TypeOK /\ OwnStatements /\ ParentsStay
  BY DEF RowsInv
<1>a. /\ ask' = ask /\ db' = db
      /\ \A p \in Requests \ {q} : wrote'[p] = wrote[p] /\ shares'[p] = shares[p]
      /\ DOMAIN (wrote'[q]) = DOMAIN wrote[q] \cup Writes(q)
      /\ \A x \in Writes(q) : wrote'[q][x] = Becomes(q, x)
      /\ \A x \in DOMAIN wrote[q] \ Writes(q) : wrote'[q][x] = wrote[q][x]
      /\ shares'[q] = IF Needs(q) # None THEN shares[q] \cup {Needs(q)} ELSE shares[q]
  BY <1>0, RunChanges
<1>b. at[q] = "tx" /\ todo[q] # <<>> /\ ~Violates(q)
  BY DEF Runs
<1>1. ASSUME NEW k \in shares'[q]
      PROVE  /\ k \in Connections /\ ask[q].op # "delete"
             /\ Sees(q, Connection(k)) # None
             /\ \A p \in Requests \ {q} :
                   Connection(k) \in DOMAIN wrote[p] => wrote[p][Connection(k)] # None
  <2>1. CASE k \in shares[q]
    BY <1>0, <2>1 DEF ParentsStay, TypeOK
  <2>2. CASE k = Needs(q) /\ Needs(q) # None
    <3>1. k \in Connections /\ ask[q].op # "delete"
      BY <1>0, <1>b, <2>2, NextNeeds
    <3>2. Sees(q, Connection(k)) # None
      BY <1>b, <2>2 DEF Violates
    <3> QED  BY <2>2, <3>1, <3>2, RunWaits
  <2> QED  BY <1>a, <2>1, <2>2
<1>2. ASSUME NEW k \in shares'[q]
      PROVE  /\ ask'[q].op # "delete"
             /\ Sees(q, Connection(k))' # None
             /\ \A p \in Requests \ {q} :
                   Connection(k) \in DOMAIN (wrote'[p]) => wrote'[p][Connection(k)] # None
  <2>1. Connection(k) \in Writes(q) => Becomes(q, Connection(k)) # None
    BY <1>0, <1>1, RunConnection
  <2>2. (IF Connection(k) \in DOMAIN (wrote'[q]) THEN wrote'[q][Connection(k)] ELSE db'[Connection(k)]) # None
    BY <1>1, <1>a, <2>1 DEF Sees
  <2>3. Sees(q, Connection(k))' # None
    BY <2>2 DEF Sees
  <2> QED  BY <1>1, <1>a, <2>3
<1>3. ASSUME NEW r \in Requests \ {q}, NEW k \in shares'[r]
      PROVE  /\ ask'[r].op # "delete"
             /\ Sees(r, Connection(k))' # None
             /\ \A p \in Requests \ {r} :
                   Connection(k) \in DOMAIN (wrote'[p]) => wrote'[p][Connection(k)] # None
  <2>1. k \in shares[r] /\ k \in Connections
    BY <1>0, <1>a DEF TypeOK
  <2>2. Connection(k) \in Writes(q) => Becomes(q, Connection(k)) # None
    BY <1>0, <2>1, RunConnection, RunWaits
  <2>3. /\ ask[r].op # "delete" /\ Sees(r, Connection(k)) # None
        /\ \A p \in Requests \ {r} :
              Connection(k) \in DOMAIN wrote[p] => wrote[p][Connection(k)] # None
    BY <1>0, <2>1 DEF ParentsStay
  <2>4. Sees(r, Connection(k))' # None
    BY <1>a, <2>3 DEF Sees
  <2>5. Connection(k) \in DOMAIN (wrote'[q]) => wrote'[q][Connection(k)] # None
    BY <1>a, <2>2, <2>3
  <2> QED  BY <1>a, <2>3, <2>4, <2>5
<1> QED  BY <1>2, <1>3 DEF ParentsStay

LEMMA RunChildrenDepend ==
    ASSUME RowsInv, NEW q \in Requests, Runs(q)
    PROVE  ChildrenDepend'
<1>0. TypeOK /\ OwnStatements /\ ChildrenDepend
  BY DEF RowsInv
<1>a. /\ db' = db
      /\ \A p \in Requests \ {q} : wrote'[p] = wrote[p] /\ shares'[p] = shares[p]
      /\ DOMAIN (wrote'[q]) = DOMAIN wrote[q] \cup Writes(q)
      /\ \A x \in Writes(q) : wrote'[q][x] = Becomes(q, x)
      /\ \A x \in DOMAIN wrote[q] \ Writes(q) : wrote'[q][x] = wrote[q][x]
      /\ shares'[q] = IF Needs(q) # None THEN shares[q] \cup {Needs(q)} ELSE shares[q]
  BY <1>0, RunChanges
<1>b. at[q] = "tx" /\ todo[q] # <<>>
  BY DEF Runs
<1>1. ASSUME NEW x \in Writes(q), NEW k, k = Parent(x, Becomes(q, x)), k # None,
             Becomes(q, x) # None
      PROVE  k \in shares'[q] \/ (db[x] # None /\ Parent(x, db[x]) = k)
  <2> DEFINE st == Head(todo[q])
  <2>1. Made(st, x, Becomes(q, x)) /\ x \in Rows
    BY <1>0, <1>b, NextWrites
  <2>2. st.do # "delete" /\ x = st.row
    BY <1>1, <2>1 DEF Made
  <2>3. x[1] # "connection"
    BY <1>1 DEF Parent
  <2>4. k = Parent(st.row, st.val)
    BY <1>1, <2>2, <2>3 DEF Becomes
  <2>5. CASE Needs(q) # None
    <3>1. Needs(q) = Parent(st.row, st.val)
      BY <2>5 DEF Needs
    <3> QED  BY <1>a, <2>4, <2>5, <3>1
  <2>6. CASE Needs(q) = None
    <3>1. Sees(q, x) # None /\ Parent(x, Sees(q, x)) = k
      BY <1>1, <2>2, <2>4, <2>6 DEF Needs
    <3>2. CASE x \in DOMAIN wrote[q]
      BY <1>0, <1>1, <1>a, <3>1, <3>2 DEF Sees, ChildrenDepend
    <3>3. CASE x \notin DOMAIN wrote[q]
      BY <3>1, <3>3 DEF Sees
    <3> QED  BY <3>2, <3>3
  <2> QED  BY <2>5, <2>6
<1>2. ASSUME NEW r \in Requests, NEW x \in DOMAIN (wrote'[r]),
             NEW k, k = Parent(x, wrote'[r][x]), k # None, wrote'[r][x] # None
      PROVE  k \in shares'[r] \/ (db'[x] # None /\ Parent(x, db'[x]) = k)
  <2>1. CASE r = q /\ x \in Writes(q)
    BY <1>1, <1>2, <1>a, <2>1
  <2>2. CASE r = q /\ x \notin Writes(q)
    BY <1>0, <1>2, <1>a, <2>2 DEF ChildrenDepend
  <2>3. CASE r # q
    BY <1>0, <1>2, <1>a, <2>3 DEF ChildrenDepend
  <2> QED  BY <2>1, <2>2, <2>3
<1> QED  BY <1>2 DEF ChildrenDepend

LEMMA RunDeletesTakeAll ==
    ASSUME RowsInv, NEW q \in Requests, Runs(q)
    PROVE  DeletesTakeAll'
<1>0. TypeOK /\ OwnStatements /\ DeletesTakeAll
  BY DEF RowsInv
<1>a. /\ db' = db
      /\ \A p \in Requests \ {q} : wrote'[p] = wrote[p]
      /\ DOMAIN (wrote'[q]) = DOMAIN wrote[q] \cup Writes(q)
      /\ \A x \in Writes(q) : wrote'[q][x] = Becomes(q, x)
      /\ \A x \in DOMAIN wrote[q] \ Writes(q) : wrote'[q][x] = wrote[q][x]
  BY <1>0, RunChanges
<1>b. at[q] = "tx" /\ todo[q] # <<>> /\ ~Violates(q)
  BY DEF Runs
<1> DEFINE st == Head(todo[q])
<1>c. st \in Sqls(q) /\ ask[q] \in Asks /\ (ask[q].op = "access" => seen[q] \in SUBSET Subjects)
  BY <1>0, <1>b, NextStatement, InTransaction
<1>1. ASSUME NEW k \in Connections, Connection(k) \in Writes(q), Becomes(q, Connection(k)) = None,
             NEW x \in Rows, db[x] # None, Parent(x, db[x]) = k
      PROVE  x \in DOMAIN (wrote'[q]) /\ wrote'[q][x] = None
  <2>1. /\ ask[q].op = "delete" /\ st.do = "delete" /\ st.row = Connection(k)
    BY <1>0, <1>1, RunConnection
  <2>2. st.row[1] = "connection" /\ st.row[2] = k
    BY <2>1 DEF Connection
  <2>3. k # None
    BY AdminAssumption
  <2>4. db[x] \in Contents(x) \cup {None}
    BY <1>0 DEF TypeOK
  <2>5. CASE x \in DOMAIN wrote[q]
    <3>1. wrote[q][x] = None
      BY <1>0, <2>1, <2>5, Written
    <3>2. x \in Writes(q) => Becomes(q, x) = None
      BY <2>1 DEF Becomes
    <3> QED  BY <1>a, <2>5, <3>1, <3>2
  <2>6. CASE x \notin DOMAIN wrote[q] /\ x[1] = "report"
    <3>1. Sees(q, x) = k
      BY <1>1, <2>3, <2>4, <2>6, Parents DEF Sees
    <3>2. PICK r \in Reports : x = Report(r)
      <4>1. \A k0 : Connection(k0)[1] # "report"
        BY DEF Connection
      <4>2. \A k0, x0 : x0 \in Owned(k0) => x0[1] # "report"
        BY OwnedRows DEF Below
      <4>3. Known[1] # "report" /\ \A t : Grant(None, t)[1] # "report"
        BY DEF Known, Grant
      <4> QED  BY <2>6, <4>1, <4>2, <4>3, RowCases
    <3> QED  BY <1>b, <2>1, <2>2, <3>1, <3>2 DEF Violates
  <2>7. CASE x \notin DOMAIN wrote[q] /\ x[1] # "report"
    <3>1. x[1] \in Below /\ x[2] = k
      BY <1>1, <2>3, <2>4, <2>7, Parents
    <3>2. x \in Owned(k)
      BY <3>1, <2>3, RowKinds
    <3>3. Sees(q, x) # None
      BY <1>1, <2>7 DEF Sees
    <3>4. x \in Writes(q)
      BY <2>1, <2>2, <3>2, <3>3 DEF Writes, Targets
    <3>5. Becomes(q, x) = None
      BY <2>1 DEF Becomes
    <3> QED  BY <1>a, <3>4, <3>5
  <2> QED  BY <2>5, <2>6, <2>7
<1>2. ASSUME NEW k \in Connections, Connection(k) \in DOMAIN (wrote'[q]),
             wrote'[q][Connection(k)] = None,
             NEW x \in Rows, db[x] # None, Parent(x, db[x]) = k
      PROVE  x \in DOMAIN (wrote'[q]) /\ wrote'[q][x] = None
  <2>1. CASE Connection(k) \in Writes(q)
    BY <1>1, <1>2, <1>a, <2>1
  <2>2. CASE Connection(k) \notin Writes(q)
    <3>1. Connection(k) \in DOMAIN wrote[q] /\ wrote[q][Connection(k)] = None
      BY <1>2, <1>a, <2>2
    <3>2. x \in DOMAIN wrote[q] /\ wrote[q][x] = None
      BY <1>0, <1>2, <3>1 DEF DeletesTakeAll
    <3>3. ask[q].op = "delete"
      BY <1>0, <3>1, Written DEF Connection
    <3>4. st.do = "delete"
      BY <1>c, <3>3, SqlKinds DEF Sqls
    <3>5. x \in Writes(q) => Becomes(q, x) = None
      BY <3>4 DEF Becomes
    <3> QED  BY <1>a, <3>2, <3>5
  <2> QED  BY <2>1, <2>2
<1>3. ASSUME NEW r \in Requests \ {q}, NEW k \in Connections, Connection(k) \in DOMAIN (wrote'[r]),
             wrote'[r][Connection(k)] = None,
             NEW x \in Rows, db[x] # None, Parent(x, db[x]) = k
      PROVE  x \in DOMAIN (wrote'[r]) /\ wrote'[r][x] = None
  <2>1. wrote'[r] = wrote[r]
    BY <1>a
  <2> QED  BY <1>0, <1>3, <2>1 DEF DeletesTakeAll
<1>4. \A r \in Requests, k \in Connections :
         (Connection(k) \in DOMAIN (wrote'[r]) /\ wrote'[r][Connection(k)] = None) =>
            \A x \in Rows : (db[x] # None /\ Parent(x, db[x]) = k) =>
               x \in DOMAIN (wrote'[r]) /\ wrote'[r][x] = None
  BY <1>2, <1>3
<1> QED  BY <1>4, <1>a DEF DeletesTakeAll

LEMMA RunKeepsRows ==
    ASSUME RowsInv, NEW q \in Requests, Runs(q)
    PROVE  RowsInv'
<1>1. TypeOK /\ OwnStatements /\ ParentsExist
  BY DEF RowsInv
<1>2. ParentsExist'
  BY <1>1, RunChanges DEF ParentsExist
<1> QED
  BY <1>1, <1>2, RunTypeOK, RunOwnStatements, RunLocksApart, RunParentsStay, RunChildrenDepend,
     RunDeletesTakeAll DEF RowsInv

--------------------------------------------------------------------------------
(* The end of a transaction *)

LEMMA NothingThere == DOMAIN Nothing = {}
  BY DEF Nothing

LEMMA CommitChanges ==
    ASSUME TypeOK, NEW q \in Requests, Commit(q)
    PROVE  /\ at[q] = "tx" /\ todo[q] = <<>>
           /\ DOMAIN db' = Rows /\ \A x \in Rows : db'[x] = Sees(q, x)
           /\ \A p \in Requests \ {q} :
                 wrote'[p] = wrote[p] /\ shares'[p] = shares[p] /\ at'[p] = at[p]
           /\ DOMAIN wrote' = Requests /\ DOMAIN (wrote'[q]) = {} /\ shares'[q] = {}
           /\ shares' \in [Requests -> SUBSET Connections]
           /\ at' \in [Requests -> {"new", "fetch", "sql", "read", "tx", "committed", "bumped", "answer", "over"}]
           /\ at'[q] = "committed"
           /\ unannounced' \in [Families -> SUBSET Requests] /\ lost' \in [Families -> SUBSET Requests]
           /\ UNCHANGED <<ask, seen, todo, reply>>
<1>1. /\ DOMAIN wrote = Requests /\ shares \in [Requests -> SUBSET Connections]
      /\ at \in [Requests -> {"new", "fetch", "sql", "read", "tx", "committed", "bumped", "answer", "over"}]
      /\ unannounced \in [Families -> SUBSET Requests] /\ lost \in [Families -> SUBSET Requests]
  BY DEF TypeOK
<1>2. /\ at[q] = "tx" /\ todo[q] = <<>>
      /\ db' = [x \in Rows |-> Sees(q, x)]
      /\ UNCHANGED <<ask, seen, todo, reply>>
  BY DEF Commit
<1>3. wrote' = [wrote EXCEPT ![q] = Nothing] /\ shares' = [shares EXCEPT ![q] = {}]
  BY DEF Commit
<1>4. at' = [at EXCEPT ![q] = "committed"]
  BY DEF Commit, GoTo
<1>5. /\ unannounced' \in [Families -> SUBSET Requests] /\ lost' = lost
  BY <1>1 DEF Commit
<1> QED  BY <1>1, <1>2, <1>3, <1>4, <1>5, NothingThere

LEMMA CommitTypeOK ==
    ASSUME TypeOK, NEW q \in Requests, Commit(q)
    PROVE  TypeOK'
<1>a. /\ DOMAIN db' = Rows /\ \A x \in Rows : db'[x] = Sees(q, x)
      /\ DOMAIN wrote' = Requests /\ shares' \in [Requests -> SUBSET Connections]
      /\ at' \in [Requests -> {"new", "fetch", "sql", "read", "tx", "committed", "bumped", "answer", "over"}]
      /\ unannounced' \in [Families -> SUBSET Requests] /\ lost' \in [Families -> SUBSET Requests]
      /\ UNCHANGED <<ask, seen, todo, reply>>
  BY CommitChanges
<1>1. \A x \in Rows : db'[x] \in Contents(x) \cup {None}
  BY <1>a, SeenContents
<1>2. ASSUME NEW p \in Requests
      PROVE  /\ (at[p] = "new" <=> ask[p] = None)'
             /\ DOMAIN (wrote'[p]) \subseteq Rows
             /\ \A x \in DOMAIN (wrote'[p]) : wrote'[p][x] \in Contents(x) \cup {None}
             /\ (at[p] # "tx")' => DOMAIN (wrote'[p]) = {} /\ shares'[p] = {}
             /\ (at[p] \in {"committed", "bumped", "answer"})' => todo'[p] = <<>>
  <2>1. CASE p = q
    BY <2>1, CommitChanges DEF TypeOK
  <2>2. CASE p # q
    <3>1. /\ at'[p] = at[p] /\ ask' = ask /\ todo' = todo
          /\ wrote'[p] = wrote[p] /\ shares'[p] = shares[p]
      BY <2>2, CommitChanges
    <3>2. /\ at[p] = "new" <=> ask[p] = None
          /\ DOMAIN wrote[p] \subseteq Rows
          /\ \A x \in DOMAIN wrote[p] : wrote[p][x] \in Contents(x) \cup {None}
          /\ at[p] # "tx" => DOMAIN wrote[p] = {} /\ shares[p] = {}
          /\ at[p] \in {"committed", "bumped", "answer"} => todo[p] = <<>>
      BY DEF TypeOK
    <3> QED  BY <3>1, <3>2
  <2> QED  BY <2>1, <2>2
<1> QED  BY <1>1, <1>2, <1>a DEF TypeOK

LEMMA CommitOwnStatements ==
    ASSUME TypeOK, OwnStatements, NEW q \in Requests, Commit(q)
    PROVE  OwnStatements'
<1>1. \A p \in Requests : Sqls(p)' = Sqls(p)
  BY CommitChanges DEF Sqls
<1>2. ASSUME NEW p \in Requests
      PROVE  /\ (at[p] = "new" \/ (at[p] # "tx" /\ ask[p].op = "access") => todo[p] = <<>>)'
             /\ (ask[p].op = "access" =>
                    at[p] # "sql" /\ (at[p] = "tx" => seen[p] \in SUBSET Subjects))'
             /\ (ask[p] # None)' =>
                  /\ todo'[p] \in Seq(Sqls(p))
                  /\ \A x \in DOMAIN (wrote'[p]) : \E st \in Sqls(p) : Made(st, x, wrote'[p][x])
  <2>1. CASE p = q
    BY <2>1, CommitChanges DEF OwnStatements
  <2>2. CASE p # q
    BY <2>2, CommitChanges DEF OwnStatements
  <2> QED  BY <2>1, <2>2
<1> QED  BY <1>1, <1>2 DEF OwnStatements

LEMMA CommitParentsExist ==
    ASSUME RowsInv, NEW q \in Requests, Commit(q)
    PROVE  ParentsExist'
<1>0. TypeOK /\ ParentsStay /\ ChildrenDepend /\ DeletesTakeAll /\ ParentsExist
  BY DEF RowsInv
<1>1. ASSUME NEW x \in Rows, Sees(q, x) # None, NEW k, k = Parent(x, Sees(q, x)), k # None
      PROVE  k \in Connections /\ Sees(q, Connection(k)) # None
  <2>1. k \in Connections
    BY <1>0, <1>1, SeenContents, Parents
  <2>2. ASSUME db[x] # None, Parent(x, db[x]) = k
        PROVE  Sees(q, Connection(k)) # None
    <3>1. db[Connection(k)] # None
      BY <1>0, <1>1, <2>2 DEF ParentsExist
    <3>2. ~(Connection(k) \in DOMAIN wrote[q] /\ wrote[q][Connection(k)] = None)
      <4>1. x \in DOMAIN wrote[q] => wrote[q][x] # None
        BY <1>1 DEF Sees
      <4> QED  BY <1>0, <2>1, <2>2, <4>1 DEF DeletesTakeAll
    <3> QED  BY <3>1, <3>2 DEF Sees
  <2>3. CASE x \in DOMAIN wrote[q]
    <3>1. wrote[q][x] # None /\ k = Parent(x, wrote[q][x])
      BY <1>1, <2>3 DEF Sees
    <3>2. k \in shares[q] \/ (db[x] # None /\ Parent(x, db[x]) = k)
      BY <1>0, <1>1, <2>3, <3>1 DEF ChildrenDepend
    <3>3. k \in shares[q] => Sees(q, Connection(k)) # None
      BY <1>0 DEF ParentsStay
    <3> QED  BY <2>1, <2>2, <3>2, <3>3
  <2>4. CASE x \notin DOMAIN wrote[q]
    BY <1>1, <2>1, <2>2, <2>4 DEF Sees
  <2> QED  BY <2>1, <2>3, <2>4
<1>2. \A x \in Rows : db'[x] = Sees(q, x)
  BY <1>0, CommitChanges
<1>3. ASSUME NEW x \in Rows, db'[x] # None, Parent(x, db'[x]) # None
      PROVE  db'[Connection(Parent(x, db'[x]))] # None
  BY <1>1, <1>2, <1>3, RowsThere
<1> QED  BY <1>3 DEF ParentsExist

LEMMA CommitOthers ==
    ASSUME RowsInv, NEW q \in Requests, Commit(q)
    PROVE  LocksApart' /\ ParentsStay' /\ ChildrenDepend' /\ DeletesTakeAll'
<1>0. /\ TypeOK /\ OwnStatements /\ LocksApart
      /\ ParentsStay /\ ChildrenDepend /\ DeletesTakeAll /\ ParentsExist
  BY DEF RowsInv
<1>a. /\ \A x \in Rows : db'[x] = Sees(q, x)
      /\ \A p \in Requests \ {q} : wrote'[p] = wrote[p] /\ shares'[p] = shares[p]
      /\ DOMAIN (wrote'[q]) = {} /\ shares'[q] = {}
      /\ ask' = ask
  BY <1>0, CommitChanges
<1>1. LocksApart'
  BY <1>0, <1>a DEF LocksApart
<1>2. ASSUME NEW r \in Requests, NEW k \in shares'[r]
      PROVE  /\ ask'[r].op # "delete"
             /\ Sees(r, Connection(k))' # None
             /\ \A p \in Requests \ {r} :
                   Connection(k) \in DOMAIN (wrote'[p]) => wrote'[p][Connection(k)] # None
  <2>1. r # q /\ k \in shares[r] /\ k \in Connections
    BY <1>0, <1>a, <1>2 DEF TypeOK
  <2>2. /\ ask[r].op # "delete"
        /\ Sees(r, Connection(k)) # None
        /\ \A p \in Requests \ {r} :
              Connection(k) \in DOMAIN wrote[p] => wrote[p][Connection(k)] # None
    BY <1>0, <2>1 DEF ParentsStay
  <2>3. db'[Connection(k)] = Sees(q, Connection(k))
    BY <1>a, <2>1, RowsThere
  <2>4. Sees(r, Connection(k))' # None
    BY <1>a, <2>1, <2>2, <2>3 DEF Sees
  <2> QED  BY <1>a, <2>1, <2>2, <2>4
<1>3. ASSUME NEW r \in Requests, NEW x \in DOMAIN (wrote'[r]),
             NEW k, k = Parent(x, wrote'[r][x]), k # None, wrote'[r][x] # None
      PROVE  k \in shares'[r] \/ (db'[x] # None /\ Parent(x, db'[x]) = k)
  <2>1. r # q /\ x \in DOMAIN wrote[r] /\ wrote'[r] = wrote[r] /\ shares'[r] = shares[r]
    BY <1>a, <1>3
  <2>2. x \in Rows /\ x \notin DOMAIN wrote[q]
    BY <1>0, <2>1, Written DEF LocksApart
  <2>3. db'[x] = db[x]
    BY <1>a, <2>2 DEF Sees
  <2> QED  BY <1>0, <1>3, <2>1, <2>3 DEF ChildrenDepend
<1>4. ASSUME NEW r \in Requests, NEW k \in Connections, Connection(k) \in DOMAIN (wrote'[r]),
             wrote'[r][Connection(k)] = None,
             NEW x \in Rows, db'[x] # None, Parent(x, db'[x]) = k
      PROVE  x \in DOMAIN (wrote'[r]) /\ wrote'[r][x] = None
  <2>1. /\ r # q /\ wrote'[r] = wrote[r] /\ db'[x] = Sees(q, x)
        /\ Connection(k) \in DOMAIN wrote[r] /\ wrote[r][Connection(k)] = None
    BY <1>a, <1>4
  <2>2. k # None
    BY AdminAssumption
  <2>3. db[x] # None /\ Parent(x, db[x]) = k => x \in DOMAIN wrote[r] /\ wrote[r][x] = None
    BY <1>0, <2>1 DEF DeletesTakeAll
  <2>4. CASE x \in DOMAIN wrote[q]
    <3>1. wrote[q][x] # None /\ Parent(x, wrote[q][x]) = k
      BY <1>4, <2>1, <2>4 DEF Sees
    <3>2. k \in shares[q] \/ (db[x] # None /\ Parent(x, db[x]) = k)
      BY <1>0, <2>2, <2>4, <3>1 DEF ChildrenDepend
    <3>3. k \notin shares[q]
      BY <1>0, <2>1 DEF ParentsStay
    <3>4. x \notin DOMAIN wrote[r]
      BY <1>0, <2>1, <2>4 DEF LocksApart
    <3> QED  BY <2>3, <3>2, <3>3, <3>4
  <2>5. CASE x \notin DOMAIN wrote[q]
    BY <1>4, <2>1, <2>3, <2>5 DEF Sees
  <2> QED  BY <2>4, <2>5
<1>5. ParentsStay'
  BY <1>2 DEF ParentsStay
<1>6. ChildrenDepend'
  BY <1>3 DEF ChildrenDepend
<1>7. DeletesTakeAll'
  BY <1>4 DEF DeletesTakeAll
<1> QED  BY <1>1, <1>5, <1>6, <1>7

LEMMA CommitKeepsRows ==
    ASSUME RowsInv, NEW q \in Requests, Commit(q)
    PROVE  RowsInv'
  BY CommitTypeOK, CommitOwnStatements, CommitParentsExist, CommitOthers DEF RowsInv

LEMMA RollbackChanges ==
    ASSUME TypeOK, NEW q \in Requests, Rollback(q)
    PROVE  /\ UNCHANGED <<db, log, ask, seen, caches>>
           /\ \A p \in Requests \ {q} :
                 /\ wrote'[p] = wrote[p] /\ shares'[p] = shares[p] /\ todo'[p] = todo[p]
                 /\ at'[p] = at[p] /\ reply'[p] = reply[p]
           /\ DOMAIN wrote' = Requests /\ DOMAIN todo' = Requests
           /\ DOMAIN (wrote'[q]) = {} /\ shares'[q] = {} /\ todo'[q] = <<>>
           /\ at'[q] = "over" /\ reply'[q] = "error"
           /\ shares' \in [Requests -> SUBSET Connections]
           /\ at' \in [Requests -> {"new", "fetch", "sql", "read", "tx", "committed", "bumped", "answer", "over"}]
           /\ reply' \in [Requests -> {"ok", "error", None}]
<1>1. /\ DOMAIN wrote = Requests /\ DOMAIN todo = Requests
      /\ shares \in [Requests -> SUBSET Connections]
      /\ at \in [Requests -> {"new", "fetch", "sql", "read", "tx", "committed", "bumped", "answer", "over"}]
      /\ reply \in [Requests -> {"ok", "error", None}]
  BY DEF TypeOK
<1>2. /\ wrote' = [wrote EXCEPT ![q] = Nothing] /\ shares' = [shares EXCEPT ![q] = {}]
      /\ todo' = [todo EXCEPT ![q] = <<>>]
  BY DEF Rollback
<1>3. at' = [at EXCEPT ![q] = "over"] /\ reply' = [reply EXCEPT ![q] = "error"]
  BY DEF Rollback, GoTo
<1>4. UNCHANGED <<db, log, ask, seen, caches>>
  BY DEF Rollback
<1> QED  BY <1>1, <1>2, <1>3, <1>4, NothingThere

LEMMA RollbackTypeOK ==
    ASSUME TypeOK, NEW q \in Requests, at[q] = "tx", Rollback(q)
    PROVE  TypeOK'
<1>1. ASSUME NEW p \in Requests
      PROVE  /\ (at[p] = "new" <=> ask[p] = None)'
             /\ DOMAIN (wrote'[p]) \subseteq Rows
             /\ \A x \in DOMAIN (wrote'[p]) : wrote'[p][x] \in Contents(x) \cup {None}
             /\ (at[p] # "tx")' => DOMAIN (wrote'[p]) = {} /\ shares'[p] = {}
             /\ (at[p] \in {"committed", "bumped", "answer"})' => todo'[p] = <<>>
  <2>1. CASE p = q
    BY <2>1, RollbackChanges DEF TypeOK
  <2>2. CASE p # q
    <3>1. /\ at'[p] = at[p] /\ ask' = ask /\ todo'[p] = todo[p]
          /\ wrote'[p] = wrote[p] /\ shares'[p] = shares[p]
      BY <2>2, RollbackChanges
    <3>2. /\ at[p] = "new" <=> ask[p] = None
          /\ DOMAIN wrote[p] \subseteq Rows
          /\ \A x \in DOMAIN wrote[p] : wrote[p][x] \in Contents(x) \cup {None}
          /\ at[p] # "tx" => DOMAIN wrote[p] = {} /\ shares[p] = {}
          /\ at[p] \in {"committed", "bumped", "answer"} => todo[p] = <<>>
      BY DEF TypeOK
    <3> QED  BY <3>1, <3>2
  <2> QED  BY <2>1, <2>2
<1>2. /\ UNCHANGED <<db, log, ask, seen, caches>>
      /\ DOMAIN wrote' = Requests /\ DOMAIN todo' = Requests
      /\ shares' \in [Requests -> SUBSET Connections]
      /\ at' \in [Requests -> {"new", "fetch", "sql", "read", "tx", "committed", "bumped", "answer", "over"}]
      /\ reply' \in [Requests -> {"ok", "error", None}]
  BY RollbackChanges
<1> QED  BY <1>1, <1>2 DEF TypeOK, caches

LEMMA RollbackOwnStatements ==
    ASSUME TypeOK, OwnStatements, NEW q \in Requests, Rollback(q)
    PROVE  OwnStatements'
<1>1. \A p \in Requests : Sqls(p)' = Sqls(p)
  BY RollbackChanges DEF Sqls
<1>2. ASSUME NEW p \in Requests
      PROVE  /\ (at[p] = "new" \/ (at[p] # "tx" /\ ask[p].op = "access") => todo[p] = <<>>)'
             /\ (ask[p].op = "access" =>
                    at[p] # "sql" /\ (at[p] = "tx" => seen[p] \in SUBSET Subjects))'
             /\ (ask[p] # None)' =>
                  /\ todo'[p] \in Seq(Sqls(p))
                  /\ \A x \in DOMAIN (wrote'[p]) : \E st \in Sqls(p) : Made(st, x, wrote'[p][x])
  <2>1. CASE p = q
    <3>1. /\ at'[q] = "over" /\ todo'[q] = <<>> /\ DOMAIN (wrote'[q]) = {}
      BY RollbackChanges
    <3>2. <<>> \in Seq(Sqls(q))
      OBVIOUS
    <3> QED  BY <2>1, <3>1, <3>2
  <2>2. CASE p # q
    BY <2>2, RollbackChanges DEF OwnStatements
  <2> QED  BY <2>1, <2>2
<1> QED  BY <1>1, <1>2 DEF OwnStatements

LEMMA RollbackOthers ==
    ASSUME RowsInv, NEW q \in Requests, Rollback(q)
    PROVE  LocksApart' /\ ParentsStay' /\ ChildrenDepend' /\ DeletesTakeAll' /\ ParentsExist'
<1>0. /\ TypeOK /\ OwnStatements /\ LocksApart
      /\ ParentsStay /\ ChildrenDepend /\ DeletesTakeAll /\ ParentsExist
  BY DEF RowsInv
<1>a. /\ \A p \in Requests \ {q} : wrote'[p] = wrote[p] /\ shares'[p] = shares[p]
      /\ DOMAIN (wrote'[q]) = {} /\ shares'[q] = {}
      /\ ask' = ask /\ db' = db
  BY <1>0, RollbackChanges
<1>1. LocksApart'
  BY <1>0, <1>a DEF LocksApart
<1>2. ASSUME NEW r \in Requests, NEW k \in shares'[r]
      PROVE  /\ ask'[r].op # "delete"
             /\ Sees(r, Connection(k))' # None
             /\ \A p \in Requests \ {r} :
                   Connection(k) \in DOMAIN (wrote'[p]) => wrote'[p][Connection(k)] # None
  <2>1. r # q /\ k \in shares[r]
    BY <1>a, <1>2
  <2>2. Sees(r, Connection(k))' = Sees(r, Connection(k))
    BY <1>a, <2>1 DEF Sees
  <2> QED  BY <1>0, <1>a, <2>1, <2>2 DEF ParentsStay
<1>3. ParentsStay'
  BY <1>2 DEF ParentsStay
<1>4. ASSUME NEW r \in Requests, NEW x \in DOMAIN (wrote'[r])
      PROVE  r # q /\ x \in DOMAIN wrote[r] /\ wrote'[r] = wrote[r] /\ shares'[r] = shares[r]
  BY <1>a, <1>4
<1>5. ChildrenDepend'
  BY <1>0, <1>4, <1>a DEF ChildrenDepend
<1>6. DeletesTakeAll'
  BY <1>0, <1>4, <1>a DEF DeletesTakeAll
<1>7. ParentsExist'
  BY <1>0, <1>a DEF ParentsExist
<1> QED  BY <1>1, <1>3, <1>5, <1>6, <1>7

LEMMA RollbackKeepsRows ==
    ASSUME RowsInv, NEW q \in Requests, at[q] = "tx", Rollback(q)
    PROVE  RowsInv'
  BY RollbackTypeOK, RollbackOwnStatements, RollbackOthers DEF RowsInv

--------------------------------------------------------------------------------
(* The steps outside transactions *)

Places == {"new", "fetch", "sql", "read", "tx", "committed", "bumped", "answer", "over"}

\* A request moves on and leaves the rows, the locks and the other requests alone.
Elsewhere(q) ==
    /\ at[q] # "tx"
    /\ UNCHANGED <<db, wrote, shares>>
    /\ at' \in [Requests -> Places] /\ ask' \in [Requests -> Asks \cup {None}]
    /\ DOMAIN seen' = Requests /\ DOMAIN todo' = Requests
    /\ reply' \in [Requests -> {"ok", "error", None}]
    /\ unannounced' \in [Families -> SUBSET Requests] /\ lost' \in [Families -> SUBSET Requests]
    /\ \A p \in Requests \ {q} :
          at'[p] = at[p] /\ ask'[p] = ask[p] /\ seen'[p] = seen[p] /\ todo'[p] = todo[p]
    /\ at'[q] # "new" /\ ask'[q] # None

LEMMA ElsewhereTypeOK ==
    ASSUME TypeOK, NEW q \in Requests, Elsewhere(q),
           at'[q] \in {"committed", "bumped", "answer"} => todo'[q] = <<>>
    PROVE  TypeOK'
<1>1. ASSUME NEW p \in Requests
      PROVE  /\ (at[p] = "new" <=> ask[p] = None)'
             /\ DOMAIN (wrote'[p]) \subseteq Rows
             /\ \A x \in DOMAIN (wrote'[p]) : wrote'[p][x] \in Contents(x) \cup {None}
             /\ (at[p] # "tx")' => DOMAIN (wrote'[p]) = {} /\ shares'[p] = {}
             /\ (at[p] \in {"committed", "bumped", "answer"})' => todo'[p] = <<>>
  <2>a. /\ at[p] = "new" <=> ask[p] = None
        /\ DOMAIN wrote[p] \subseteq Rows
        /\ \A x \in DOMAIN wrote[p] : wrote[p][x] \in Contents(x) \cup {None}
        /\ at[p] # "tx" => DOMAIN wrote[p] = {} /\ shares[p] = {}
        /\ at[p] \in {"committed", "bumped", "answer"} => todo[p] = <<>>
    BY DEF TypeOK
  <2>b. wrote' = wrote /\ shares' = shares
    BY DEF Elsewhere
  <2>1. CASE p = q
    <3>1. at[q] # "tx" /\ at'[q] # "new" /\ ask'[q] # None
      BY DEF Elsewhere
    <3> QED  BY <2>a, <2>b, <2>1, <3>1
  <2>2. CASE p # q
    <3>1. at'[p] = at[p] /\ ask'[p] = ask[p] /\ todo'[p] = todo[p]
      BY <2>2 DEF Elsewhere
    <3> QED  BY <2>a, <2>b, <3>1
  <2> QED  BY <2>1, <2>2
<1>2. /\ UNCHANGED <<db, wrote, shares>>
      /\ at' \in [Requests -> {"new", "fetch", "sql", "read", "tx", "committed", "bumped", "answer", "over"}]
      /\ ask' \in [Requests -> Asks \cup {None}]
      /\ DOMAIN seen' = Requests /\ DOMAIN todo' = Requests
      /\ reply' \in [Requests -> {"ok", "error", None}]
      /\ unannounced' \in [Families -> SUBSET Requests] /\ lost' \in [Families -> SUBSET Requests]
  BY DEF Elsewhere, Places
<1> QED  BY <1>1, <1>2 DEF TypeOK

LEMMA ElsewhereOwnStatements ==
    ASSUME TypeOK, OwnStatements, NEW q \in Requests, Elsewhere(q),
           at'[q] # "tx" /\ ask'[q].op = "access" => todo'[q] = <<>>,
           ask'[q].op = "access" =>
               at'[q] # "sql" /\ (at'[q] = "tx" => seen'[q] \in SUBSET Subjects),
           todo'[q] \in Seq(SqlsOf(q, ask'[q], seen'[q]))
    PROVE  OwnStatements'
<1>1. ASSUME NEW p \in Requests
      PROVE  /\ (at[p] = "new" \/ (at[p] # "tx" /\ ask[p].op = "access") => todo[p] = <<>>)'
             /\ (ask[p].op = "access" =>
                    at[p] # "sql" /\ (at[p] = "tx" => seen[p] \in SUBSET Subjects))'
             /\ (ask[p] # None)' =>
                  /\ todo'[p] \in Seq(Sqls(p)')
                  /\ \A x \in DOMAIN (wrote'[p]) : \E st \in Sqls(p)' : Made(st, x, wrote'[p][x])
  <2>1. CASE p = q
    <3>1. at[q] # "tx" /\ wrote' = wrote /\ at'[q] # "new"
      BY DEF Elsewhere
    <3>2. DOMAIN wrote[q] = {}
      BY <3>1 DEF TypeOK
    <3> QED  BY <2>1, <3>1, <3>2 DEF Sqls
  <2>2. CASE p # q
    <3>1. /\ at'[p] = at[p] /\ ask'[p] = ask[p] /\ todo'[p] = todo[p] /\ seen'[p] = seen[p]
          /\ wrote' = wrote
      BY <2>2 DEF Elsewhere
    <3>2. Sqls(p)' = Sqls(p)
      BY <3>1 DEF Sqls
    <3> QED  BY <3>1, <3>2 DEF OwnStatements
  <2> QED  BY <2>1, <2>2
<1> QED  BY <1>1 DEF OwnStatements

LEMMA ElsewhereOthers ==
    ASSUME RowsInv, NEW q \in Requests, Elsewhere(q)
    PROVE  LocksApart' /\ ParentsStay' /\ ChildrenDepend' /\ DeletesTakeAll' /\ ParentsExist'
<1>0. /\ TypeOK /\ LocksApart
      /\ ParentsStay /\ ChildrenDepend /\ DeletesTakeAll /\ ParentsExist
  BY DEF RowsInv
<1>a. /\ UNCHANGED <<db, wrote, shares>> /\ at[q] # "tx"
      /\ \A p \in Requests \ {q} : ask'[p] = ask[p]
  BY DEF Elsewhere
<1>b. shares[q] = {}
  BY <1>0, <1>a DEF TypeOK
<1>1. LocksApart'
  BY <1>0, <1>a DEF LocksApart
<1>2. ParentsStay'
  BY <1>0, <1>a, <1>b DEF ParentsStay, Sees
<1>3. ChildrenDepend'
  BY <1>0, <1>a DEF ChildrenDepend
<1>4. DeletesTakeAll'
  BY <1>0, <1>a DEF DeletesTakeAll
<1>5. ParentsExist'
  BY <1>0, <1>a DEF ParentsExist
<1> QED  BY <1>1, <1>2, <1>3, <1>4, <1>5

LEMMA SqlsOfSeen ==
    ASSUME NEW q, NEW a, a.op # "access", NEW got, NEW got2
    PROVE  SqlsOf(q, a, got) = SqlsOf(q, a, got2)
  BY DEF SqlsOf, GridOps

LEMMA RefuseKeepsRows ==
    ASSUME RowsInv, NEW q \in Requests, at[q] \in {"fetch", "sql", "read"}, Refuse(q)
    PROVE  RowsInv' /\ Elsewhere(q)
<1>0. TypeOK /\ OwnStatements
  BY DEF RowsInv
<1>1. /\ at' = [at EXCEPT ![q] = "over"] /\ reply' = [reply EXCEPT ![q] = "error"]
      /\ UNCHANGED <<db, log, ask, seen, todo, wrote, shares, caches>>
  BY DEF Refuse, GoTo
<1>2. ask[q] # None
  BY <1>0 DEF TypeOK
<1>3. Elsewhere(q) /\ at'[q] = "over"
  BY <1>0, <1>1, <1>2 DEF TypeOK, Elsewhere, Places, caches
<1>4. TypeOK'
  BY <1>0, <1>3, ElsewhereTypeOK
<1>5. /\ ask[q].op = "access" => todo[q] = <<>>
      /\ todo[q] \in Seq(SqlsOf(q, ask[q], seen[q]))
  BY <1>0, <1>2 DEF OwnStatements, Sqls
<1>6. OwnStatements'
  BY <1>0, <1>1, <1>3, <1>5, ElsewhereOwnStatements
<1> QED  BY <1>3, <1>4, <1>6, ElsewhereOthers DEF RowsInv

(* A request that moves on without touching what it has to run. *)
LEMMA MovesOn ==
    ASSUME RowsInv, NEW q \in Requests, Elsewhere(q), UNCHANGED <<ask, todo>>,
           at'[q] \in {"committed", "bumped", "answer"} => at[q] \in {"committed", "bumped", "answer"},
           ask[q].op = "access" => at'[q] \notin {"tx", "sql"}
    PROVE  RowsInv'
<1>0. TypeOK /\ OwnStatements
  BY DEF RowsInv
<1>1. at[q] # "tx" /\ ask[q] # None
  BY DEF Elsewhere
<1>2. /\ ask[q].op = "access" => todo[q] = <<>>
      /\ todo[q] \in Seq(SqlsOf(q, ask[q], seen[q]))
  BY <1>0, <1>1 DEF OwnStatements, Sqls
<1>3. TypeOK'
  BY <1>0, ElsewhereTypeOK DEF TypeOK
<1>4. todo[q] \in Seq(SqlsOf(q, ask[q], seen'[q]))
  <2>1. CASE ask[q].op = "access"
    BY <1>2, <2>1
  <2>2. CASE ask[q].op # "access"
    BY <1>2, <2>2, SqlsOfSeen
  <2> QED  BY <2>1, <2>2
<1>5. OwnStatements'
  BY <1>0, <1>2, <1>4, ElsewhereOwnStatements
<1> QED  BY <1>3, <1>5, ElsewhereOthers DEF RowsInv

LEMMA FetchKeepsRows ==
    ASSUME RowsInv, NEW q \in Requests, Fetch(q)
    PROVE  RowsInv' /\ Elsewhere(q)
<1>0. TypeOK /\ OwnStatements
  BY DEF RowsInv
<1>1. at[q] = "fetch" /\ ask[q] # None
  BY <1>0 DEF Fetch, TypeOK
<1>2. CASE Refuse(q)
  BY <1>1, <1>2, RefuseKeepsRows
<1>3. ASSUME ~Refuse(q)
      PROVE  RowsInv' /\ Elsewhere(q)
  <2> DEFINE place == IF ask[q].op \in {"access", "delete"} THEN "read"
                      ELSE IF ask[q].op = "report_update" THEN "sql" ELSE "tx"
  <2>1. /\ seen' = [seen EXCEPT ![q] = db[Target(ask[q])]] /\ at' = [at EXCEPT ![q] = place]
        /\ UNCHANGED <<db, log, ask, todo, wrote, shares, reply, caches>>
    BY <1>3 DEF Fetch, GoTo
  <2>2. place \in {"read", "sql", "tx"} /\ (ask[q].op = "access" => place = "read")
    OBVIOUS
  <2> HIDE DEF place
  <2>3. Elsewhere(q) /\ at'[q] = place
    BY <1>0, <1>1, <2>1, <2>2 DEF TypeOK, Elsewhere, Places, caches
  <2> QED  BY <2>1, <2>2, <2>3, MovesOn
<1> QED  BY <1>2, <1>3

LEMMA CheckSqlKeepsRows ==
    ASSUME RowsInv, NEW q \in Requests, CheckSql(q)
    PROVE  RowsInv' /\ Elsewhere(q)
<1>0. TypeOK /\ OwnStatements
  BY DEF RowsInv
<1>1. at[q] = "sql" /\ ask[q] # None /\ ask[q].op # "access"
  BY <1>0 DEF CheckSql, TypeOK, OwnStatements
<1>2. CASE Refuse(q)
  BY <1>1, <1>2, RefuseKeepsRows
<1>3. ASSUME ~Refuse(q)
      PROVE  RowsInv' /\ Elsewhere(q)
  <2>1. /\ at' = [at EXCEPT ![q] = "tx"]
        /\ UNCHANGED <<db, log, ask, seen, todo, wrote, shares, reply, caches>>
    BY <1>3 DEF CheckSql, GoTo
  <2>2. Elsewhere(q) /\ at'[q] = "tx"
    BY <1>0, <1>1, <2>1 DEF TypeOK, Elsewhere, Places, caches
  <2> QED  BY <1>1, <2>1, <2>2, MovesOn
<1> QED  BY <1>2, <1>3

LEMMA CountReportsKeepsRows ==
    ASSUME RowsInv, NEW q \in Requests, CountReports(q)
    PROVE  RowsInv' /\ Elsewhere(q)
<1>0. TypeOK /\ OwnStatements
  BY DEF RowsInv
<1>1. at[q] = "read" /\ ask[q] # None /\ ask[q].op = "delete"
  BY <1>0 DEF CountReports, TypeOK
<1>2. CASE Refuse(q)
  BY <1>1, <1>2, RefuseKeepsRows
<1>3. ASSUME ~Refuse(q)
      PROVE  RowsInv' /\ Elsewhere(q)
  <2>1. /\ at' = [at EXCEPT ![q] = "tx"]
        /\ UNCHANGED <<db, log, ask, seen, todo, wrote, shares, reply, caches>>
    BY <1>3 DEF CountReports, GoTo
  <2>2. Elsewhere(q) /\ at'[q] = "tx"
    BY <1>0, <1>1, <2>1 DEF TypeOK, Elsewhere, Places, caches
  <2> QED  BY <1>1, <2>1, <2>2, MovesOn
<1> QED  BY <1>2, <1>3

LEMMA BumpTypes ==
    ASSUME TypeOK, NEW q \in Requests, NEW f \in Families, Bumps(q, f)
    PROVE  unannounced' \in [Families -> SUBSET Requests] /\ lost' \in [Families -> SUBSET Requests]
  BY DEF Bumps, Counted, Fails, TypeOK

LEMMA AfterwardsKeepsRows ==
    ASSUME RowsInv, NEW q \in Requests, Announce(q) \/ Answer(q) \/ Die(q)
    PROVE  RowsInv' /\ Elsewhere(q)
<1>0. TypeOK /\ OwnStatements
  BY DEF RowsInv
<1>1. at[q] \in {"committed", "bumped", "answer"} /\ ask[q] # None
  BY <1>0 DEF Announce, Answer, Die, TypeOK
<1>2. PICK place \in {"bumped", "answer", "over"} : at' = [at EXCEPT ![q] = place]
  BY DEF Announce, Answer, Die, GoTo
<1>3. /\ UNCHANGED <<db, log, ask, seen, todo, wrote, shares>>
      /\ reply' \in {reply, [reply EXCEPT ![q] = "ok"], [reply EXCEPT ![q] = "error"]}
  BY DEF Announce, Answer, Die
<1>4. at'[q] = place /\ at' \in [Requests -> Places] /\ \A p \in Requests \ {q} : at'[p] = at[p]
  BY <1>0, <1>2 DEF TypeOK, Places
<1>5. reply' \in [Requests -> {"ok", "error", None}]
  BY <1>0, <1>3 DEF TypeOK
<1>6. unannounced' \in [Families -> SUBSET Requests] /\ lost' \in [Families -> SUBSET Requests]
  <2>1. UNCHANGED caches \/ \E f \in Families : Bumps(q, f)
    BY DEF Announce, Answer, Die, Families
  <2> QED  BY <1>0, <2>1, BumpTypes DEF TypeOK, caches
<1>7. Elsewhere(q)
  BY <1>0, <1>1, <1>3, <1>4, <1>5, <1>6 DEF TypeOK, Elsewhere
<1> QED  BY <1>1, <1>3, <1>4, <1>7, MovesOn

LEMMA ReceiveKeepsRows ==
    ASSUME RowsInv, NEW q \in Requests, Receive(q)
    PROVE  RowsInv' /\ Elsewhere(q)
<1>0. TypeOK /\ OwnStatements
  BY DEF RowsInv
<1>1. PICK a \in Asks :
         /\ ask' = [ask EXCEPT ![q] = a]
         /\ \E stmts \in Statements(q, a) : todo' = [todo EXCEPT ![q] = stmts]
         /\ GoTo(q, IF a.op \in {"create", "tools", "subject_add"} THEN "tx" ELSE "fetch")
  BY DEF Receive
<1>2. PICK stmts \in Statements(q, a) : todo' = [todo EXCEPT ![q] = stmts]
  BY <1>1
<1>3. at' = [at EXCEPT ![q] = IF a.op \in {"create", "tools", "subject_add"} THEN "tx" ELSE "fetch"]
  BY <1>1 DEF GoTo
<1>4. at[q] = "new" /\ UNCHANGED <<db, log, seen, wrote, shares, reply, caches>>
  BY DEF Receive
<1>5. a # None
  BY AdminAssumption
<1>6. /\ ask'[q] = a /\ todo'[q] = stmts /\ at'[q] \in {"tx", "fetch"}
      /\ a.op = "access" => at'[q] = "fetch"
      /\ at' \in [Requests -> Places] /\ ask' \in [Requests -> Asks \cup {None}]
      /\ DOMAIN todo' = Requests
      /\ \A p \in Requests \ {q} : at'[p] = at[p] /\ ask'[p] = ask[p] /\ todo'[p] = todo[p]
  BY <1>0, <1>1, <1>2, <1>3 DEF TypeOK, Places
<1>7. Elsewhere(q)
  BY <1>0, <1>4, <1>5, <1>6 DEF TypeOK, Elsewhere, caches
<1>8. stmts \in Seq(SqlsOf(q, a, seen'[q])) /\ (a.op = "access" => stmts = <<>>)
  <2>1. CASE a.op \in GridOps
    BY <2>1, GridPrograms DEF GridOps
  <2>2. CASE a.op \notin GridOps
    BY <2>2, OtherPrograms
  <2> QED  BY <2>1, <2>2
<1>9. TypeOK'
  BY <1>0, <1>6, <1>7, ElsewhereTypeOK
<1>10. OwnStatements'
  BY <1>0, <1>6, <1>7, <1>8, ElsewhereOwnStatements
<1> QED  BY <1>7, <1>9, <1>10, ElsewhereOthers DEF RowsInv

LEMMA ReadAccessKeepsRows ==
    ASSUME RowsInv, NEW q \in Requests, ReadAccess(q)
    PROVE  RowsInv' /\ Elsewhere(q) /\ ask' = ask
<1>0. TypeOK /\ OwnStatements
  BY DEF RowsInv
<1> DEFINE a == ask[q]
           got == {s \in Subjects : db[Access(a.conn, s)] # None}
           A == {Access(a.conn, s) : s \in got \ a.granted}
           B == {Access(a.conn, s) : s \in a.granted \ got}
<1>1. /\ at[q] = "read" /\ a.op = "access"
      /\ seen' = [seen EXCEPT ![q] = got]
      /\ UNCHANGED <<db, log, ask, wrote, shares, reply, caches>>
  BY DEF ReadAccess
<1>2. at' = [at EXCEPT ![q] = "tx"]
  BY DEF ReadAccess, GoTo
<1>3. PICK stmts \in AccessStatements(A, B) : todo' = [todo EXCEPT ![q] = stmts]
  BY DEF ReadAccess
<1>4. a \in Asks /\ a # None
  BY <1>0, <1>1 DEF TypeOK
<1>5. a.conn \in Connections /\ a.granted \subseteq Subjects /\ got \in SUBSET Subjects
  BY <1>1, <1>4, AskedRows
<1> HIDE DEF got
<1>6. A \in SUBSET Rows /\ B \in SUBSET Rows
  BY <1>5, RowsThere
<1>7. /\ \A x \in A : Sql("delete", x, Present) \in SqlsOf(q, a, got)
      /\ \A x \in B : Sql("insert", x, Present) \in SqlsOf(q, a, got)
  BY <1>1 DEF SqlsOf, GridOps
<1> HIDE DEF A, B, a
<1>8. stmts \in Seq(SqlsOf(q, a, got))
  BY <1>6, <1>7, AccessPrograms
<1>9. /\ at'[q] = "tx" /\ seen'[q] = got /\ todo'[q] = stmts /\ ask' = ask /\ ask[q] = a
      /\ at' \in [Requests -> Places] /\ DOMAIN seen' = Requests /\ DOMAIN todo' = Requests
      /\ \A p \in Requests \ {q} : at'[p] = at[p] /\ seen'[p] = seen[p] /\ todo'[p] = todo[p]
  BY <1>0, <1>1, <1>2, <1>3 DEF TypeOK, Places, a
<1>10. Elsewhere(q)
  BY <1>0, <1>1, <1>4, <1>9 DEF TypeOK, Elsewhere, caches
<1>11. TypeOK'
  BY <1>0, <1>9, <1>10, ElsewhereTypeOK
<1>12. OwnStatements'
  BY <1>0, <1>5, <1>8, <1>9, <1>10, ElsewhereOwnStatements
<1> QED  BY <1>9, <1>10, <1>11, <1>12, ElsewhereOthers DEF RowsInv

--------------------------------------------------------------------------------
(* Together *)

LEMMA InitRows == Init => RowsInv
<1> SUFFICES ASSUME Init PROVE RowsInv
  OBVIOUS
<1>1. /\ ask = [q \in Requests |-> None] /\ at = [q \in Requests |-> "new"]
      /\ seen = [q \in Requests |-> None] /\ todo = [q \in Requests |-> <<>>]
      /\ wrote = [q \in Requests |-> Nothing] /\ shares = [q \in Requests |-> {}]
      /\ reply = [q \in Requests |-> None]
      /\ unannounced = [f \in Families |-> {}] /\ lost = [f \in Families |-> {}]
  BY DEF Init
<1>2. \A q \in Requests :
         /\ ask[q] = None /\ at[q] = "new" /\ todo[q] = <<>> /\ DOMAIN wrote[q] = {}
         /\ shares[q] = {} /\ reply[q] = None
  BY <1>1, NothingThere
<1>3. PICK k0 \in Connections :
         /\ DOMAIN db = Rows
         /\ db[Connection(k0)] = [c \in Edited \cup {"checked"} |-> IF c = "active" THEN 1 ELSE 0]
         /\ \A x \in Rows \ {Connection(k0)} :
               /\ x[1] \in {"access", "grant", "description"} => db[x] \in {Present, None}
               /\ x[1] = "known" => db[x] \in {Present, None}
               /\ x[1] = "report" => db[x] \in {k0, None}
               /\ x[1] = "connection" => db[x] = None
               /\ x[1] \in Below /\ db[x] # None => x[2] = k0
  <2>1. PICK k0 \in Connections, ss \in SUBSET Subjects, ts \in SUBSET Tables,
             used \in BOOLEAN, text \in BOOLEAN, known \in BOOLEAN :
          db = [x \in Rows |->
              IF x = Connection(k0)
              THEN [c \in Edited \cup {"checked"} |-> IF c = "active" THEN 1 ELSE 0]
              ELSE IF \/ x \in {Access(k0, s) : s \in ss}
                      \/ x \in {Grant(k0, t) : t \in ts}
                      \/ x = Description(k0) /\ text
                      \/ x = Known /\ known
              THEN Present
              ELSE IF x[1] = "report" /\ used THEN k0
              ELSE None]
    BY DEF Init
  <2>2. /\ DOMAIN db = Rows /\ Connection(k0) \in Rows
        /\ db[Connection(k0)] = [c \in Edited \cup {"checked"} |-> IF c = "active" THEN 1 ELSE 0]
    BY <2>1, RowsThere
  <2>3. ASSUME NEW x \in Rows \ {Connection(k0)}
        PROVE  \/ db[x] = None
               \/ db[x] = Present /\ ((x[1] \in Below /\ x[2] = k0) \/ x = Known)
               \/ db[x] = k0 /\ x[1] = "report"
    <3>1. \A s, t : /\ Access(k0, s)[1] \in Below /\ Access(k0, s)[2] = k0
                    /\ Grant(k0, t)[1] \in Below /\ Grant(k0, t)[2] = k0
                    /\ Description(k0)[1] \in Below /\ Description(k0)[2] = k0
      BY DEF Access, Grant, Description, Below
    <3> QED  BY <2>1, <3>1
  <2>4. Known[1] = "known"
    BY DEF Known
  <2> QED  BY <2>2, <2>3, <2>4 DEF Below
<1>4. [c \in Edited \cup {"checked"} |-> IF c = "active" THEN 1 ELSE 0] \in Settings
  BY DEF Settings
<1>5. ASSUME NEW x \in Rows
      PROVE  db[x] \in Contents(x) \cup {None}
  <2>1. x = Connection(k0) => x[1] = "connection"
    BY DEF Connection
  <2> QED  BY <1>3, <1>4, <2>1, RowKinds DEF Contents, Below
<1>6. TypeOK
  BY <1>1, <1>2, <1>3, <1>5 DEF TypeOK
<1>7. OwnStatements
  BY <1>2 DEF OwnStatements
<1>8. LocksApart /\ ParentsStay /\ ChildrenDepend /\ DeletesTakeAll
  BY <1>2 DEF LocksApart, ParentsStay, ChildrenDepend, DeletesTakeAll
<1>9. ParentsExist
  <2>1. ASSUME NEW x \in Rows, db[x] # None, Parent(x, db[x]) # None
        PROVE  Parent(x, db[x]) = k0
    <3>1. x # Connection(k0)
      BY <2>1 DEF Parent, Connection
    <3> QED  BY <1>3, <1>5, <2>1, <3>1, Parents
  <2>2. db[Connection(k0)] # None
    BY <1>3, <1>4, AdminAssumption
  <2> QED  BY <2>1, <2>2 DEF ParentsExist
<1> QED  BY <1>6, <1>7, <1>8, <1>9 DEF RowsInv

LEMMA ExecuteKeepsRows ==
    ASSUME RowsInv, NEW q \in Requests, Execute(q)
    PROVE  RowsInv'
  BY ExecuteRuns, RunKeepsRows, RollbackKeepsRows

(* What a step does: something outside the transactions, or the end or the next statement of
   one of them. *)
LEMMA NextMoves ==
    ASSUME RowsInv, Next
    PROVE  \E q \in Requests :
              \/ Elsewhere(q) \/ (at[q] = "tx" /\ Rollback(q)) \/ Runs(q) \/ Commit(q)
<1>1. PICK q \in Requests :
         \/ Receive(q) \/ Fetch(q) \/ CheckSql(q) \/ ReadAccess(q) \/ CountReports(q)
         \/ Execute(q) \/ Abort(q) \/ Commit(q) \/ Announce(q) \/ Answer(q) \/ Die(q)
  BY DEF Next
<1>2. Receive(q) \/ Fetch(q) \/ CheckSql(q) \/ ReadAccess(q) \/ CountReports(q) => Elsewhere(q)
  BY ReceiveKeepsRows, FetchKeepsRows, CheckSqlKeepsRows, ReadAccessKeepsRows, CountReportsKeepsRows
<1>3. Announce(q) \/ Answer(q) \/ Die(q) => Elsewhere(q)
  BY AfterwardsKeepsRows
<1>4. Execute(q) => (at[q] = "tx" /\ Rollback(q)) \/ Runs(q)
  BY ExecuteRuns
<1>5. Abort(q) => at[q] = "tx" /\ Rollback(q)
  BY DEF Abort
<1> QED  BY <1>1, <1>2, <1>3, <1>4, <1>5

LEMMA NextRows == RowsInv /\ [Next]_vars => RowsInv'
<1> SUFFICES ASSUME RowsInv, [Next]_vars PROVE RowsInv'
  OBVIOUS
<1>1. ASSUME NEW q \in Requests, Receive(q) PROVE RowsInv'
  BY <1>1, ReceiveKeepsRows
<1>2. ASSUME NEW q \in Requests, Fetch(q) PROVE RowsInv'
  BY <1>2, FetchKeepsRows
<1>3. ASSUME NEW q \in Requests, CheckSql(q) PROVE RowsInv'
  BY <1>3, CheckSqlKeepsRows
<1>4. ASSUME NEW q \in Requests, ReadAccess(q) PROVE RowsInv'
  BY <1>4, ReadAccessKeepsRows
<1>5. ASSUME NEW q \in Requests, CountReports(q) PROVE RowsInv'
  BY <1>5, CountReportsKeepsRows
<1>6. ASSUME NEW q \in Requests, Execute(q) PROVE RowsInv'
  BY <1>6, ExecuteKeepsRows
<1>7. ASSUME NEW q \in Requests, Abort(q) PROVE RowsInv'
  BY <1>7, RollbackKeepsRows DEF Abort
<1>8. ASSUME NEW q \in Requests, Commit(q) PROVE RowsInv'
  BY <1>8, CommitKeepsRows
<1>9. ASSUME NEW q \in Requests, Announce(q) \/ Answer(q) \/ Die(q) PROVE RowsInv'
  BY <1>9, AfterwardsKeepsRows
<1>10. ASSUME UNCHANGED vars PROVE RowsInv'
  <2>1. UNCHANGED <<db, ask, at, seen, todo, wrote, shares, reply, caches>>
    BY <1>10 DEF vars
  <2>2. /\ TypeOK /\ OwnStatements /\ LocksApart
        /\ ParentsStay /\ ChildrenDepend /\ DeletesTakeAll /\ ParentsExist
    BY DEF RowsInv
  <2>3. TypeOK'
    BY <2>1, <2>2 DEF TypeOK, caches
  <2>4. OwnStatements'
    BY <2>1, <2>2 DEF OwnStatements, Sqls
  <2>5. LocksApart' /\ ChildrenDepend' /\ DeletesTakeAll' /\ ParentsExist'
    BY <2>1, <2>2 DEF LocksApart, ChildrenDepend, DeletesTakeAll, ParentsExist
  <2>6. ParentsStay'
    BY <2>1, <2>2 DEF ParentsStay, Sees
  <2> QED  BY <2>3, <2>4, <2>5, <2>6 DEF RowsInv
<1> QED
  BY <1>1, <1>2, <1>3, <1>4, <1>5, <1>6, <1>7, <1>8, <1>9, <1>10 DEF Next

(* A transaction and the locks it holds keep the rows it depends on as it saw them, whatever
   the other requests do meanwhile. *)
THEOREM RowsStay == Spec => []RowsInv
  BY InitRows, NextRows, PTL DEF Spec

(* Rows and requests have their types, and no grant, description or report is left without its
   connection, for any number of concurrent requests that add such rows and delete
   connections (permissions.py, reports.py, delete_connection). *)
THEOREM NoReferenceDangles == Spec => []NothingDangles
<1>1. RowsInv => NothingDangles
  BY DEF RowsInv, ParentsExist, NothingDangles
<1> QED  BY <1>1, RowsStay, PTL

--------------------------------------------------------------------------------
(* A check is no edit *)

LEMMA InitChecks == Init => ChecksKeep
  BY DEF Init, ChecksKeep

(* A check only writes the row of its connection, and only what it found there. *)
LEMMA RunChecks ==
    ASSUME TypeOK, OwnStatements, ChecksKeep, NEW q \in Requests, Runs(q)
    PROVE  ChecksKeep'
<1>a. /\ db' = db /\ ask' = ask /\ at' = at
      /\ \A p \in Requests \ {q} : wrote'[p] = wrote[p]
      /\ DOMAIN (wrote'[q]) = DOMAIN wrote[q] \cup Writes(q)
      /\ \A x \in Writes(q) : wrote'[q][x] = Becomes(q, x)
      /\ \A x \in DOMAIN wrote[q] \ Writes(q) : wrote'[q][x] = wrote[q][x]
  BY RunChanges
<1>b. at[q] = "tx" /\ todo[q] # <<>>
  BY DEF Runs
<1>1. ASSUME ask[q].op = "check", NEW x \in Writes(q)
      PROVE  db[x] # None /\ \A f \in Edited : Becomes(q, x)[f] = db[x][f]
  <2> DEFINE st == Head(todo[q])
  <2>1. st \in Sqls(q) /\ ask[q] \in Asks
    BY <1>b, NextStatement, InTransaction
  <2> HIDE DEF st
  <2>2. st.do = "update" /\ st.val = [c \in {"checked"} |-> 1] /\ st.row[1] = "connection"
    BY <1>1, <2>1, SqlKinds DEF Sqls
  <2>3. x = st.row /\ x \in Targets(q) /\ x \in Rows
    BY <1>b, <2>2, NextWrites DEF st
  <2>4. Sees(q, x) # None
    BY <2>2, <2>3 DEF Targets, st
  <2>5. Sees(q, x) \in Settings
    BY <2>2, <2>3, <2>4, SeenContents DEF Contents
  <2>6. Becomes(q, x) = Set(Sees(q, x), [c \in {"checked"} |-> 1])
    BY <2>2, <2>3 DEF Becomes, st
  <2>7. \A f \in Edited : Becomes(q, x)[f] = Sees(q, x)[f]
    BY <2>5, <2>6 DEF Set, Settings, Edited
  <2>8. CASE x \in DOMAIN wrote[q]
    BY <1>1, <1>b, <2>7, <2>8 DEF Sees, ChecksKeep
  <2>9. CASE x \notin DOMAIN wrote[q]
    BY <2>4, <2>7, <2>9 DEF Sees
  <2> QED  BY <2>8, <2>9
<1>2. ASSUME NEW p \in Requests, at[p] = "tx", ask[p].op = "check", NEW x \in DOMAIN (wrote'[p])
      PROVE  db[x] # None /\ \A f \in Edited : wrote'[p][x][f] = db[x][f]
  <2>1. CASE p = q /\ x \in Writes(q)
    BY <1>1, <1>2, <1>a, <2>1
  <2>2. CASE ~(p = q /\ x \in Writes(q))
    <3>1. x \in DOMAIN wrote[p] /\ wrote'[p][x] = wrote[p][x]
      BY <1>2, <1>a, <2>2
    <3> QED  BY <1>2, <3>1 DEF ChecksKeep
  <2> QED  BY <2>1, <2>2
<1> QED  BY <1>2, <1>a DEF ChecksKeep

(* What a commit changes, no open transaction has written. *)
LEMMA CommitApart ==
    ASSUME TypeOK, OwnStatements, LocksApart, NEW q \in Requests, Commit(q),
           NEW p \in Requests, NEW x \in DOMAIN (wrote'[p])
    PROVE  p # q /\ x \in DOMAIN wrote[p] /\ wrote'[p] = wrote[p] /\ db'[x] = db[x]
<1>1. p # q /\ x \in DOMAIN wrote[p] /\ wrote'[p] = wrote[p]
  BY CommitChanges
<1>2. x \in Rows /\ x \notin DOMAIN wrote[q]
  BY <1>1, Written DEF LocksApart
<1>3. db'[x] = db[x]
  BY <1>2, CommitChanges DEF Sees
<1> QED  BY <1>1, <1>3

LEMMA NextChecks == RowsInv /\ ChecksKeep /\ [Next]_vars => ChecksKeep'
<1> SUFFICES ASSUME RowsInv, ChecksKeep, [Next]_vars PROVE ChecksKeep'
  OBVIOUS
<1>0. TypeOK /\ OwnStatements /\ LocksApart
  BY DEF RowsInv
<1>1. ASSUME NEW q \in Requests, Elsewhere(q) PROVE ChecksKeep'
  <2>1. DOMAIN (wrote'[q]) = {} /\ db' = db /\ wrote' = wrote
        /\ \A p \in Requests \ {q} : at'[p] = at[p] /\ ask'[p] = ask[p]
    BY <1>0, <1>1 DEF Elsewhere, TypeOK
  <2> QED  BY <2>1 DEF ChecksKeep
<1>2. ASSUME NEW q \in Requests, at[q] = "tx", Rollback(q) PROVE ChecksKeep'
  <2>1. /\ DOMAIN (wrote'[q]) = {} /\ db' = db /\ ask' = ask
        /\ \A p \in Requests \ {q} : at'[p] = at[p] /\ wrote'[p] = wrote[p]
    BY <1>0, <1>2, RollbackChanges
  <2> QED  BY <2>1 DEF ChecksKeep
<1>3. ASSUME NEW q \in Requests, Commit(q) PROVE ChecksKeep'
  <2>1. ask' = ask /\ \A p \in Requests \ {q} : at'[p] = at[p]
    BY <1>0, <1>3, CommitChanges
  <2>2. ASSUME NEW p \in Requests, at'[p] = "tx", ask'[p].op = "check", NEW x \in DOMAIN (wrote'[p])
        PROVE  db'[x] # None /\ \A f \in Edited : wrote'[p][x][f] = db'[x][f]
    <3>1. p # q /\ x \in DOMAIN wrote[p] /\ wrote'[p] = wrote[p] /\ db'[x] = db[x]
      BY <1>0, <1>3, <2>2, CommitApart
    <3> QED  BY <2>1, <2>2, <3>1 DEF ChecksKeep
  <2> QED  BY <2>2 DEF ChecksKeep
<1>4. ASSUME NEW q \in Requests, Runs(q) PROVE ChecksKeep'
  BY <1>0, <1>4, RunChecks
<1>5. CASE UNCHANGED vars
  BY <1>5 DEF vars, ChecksKeep
<1> QED  BY <1>1, <1>2, <1>3, <1>4, <1>5, ExecuteRuns, NextMoves

(* Recording the result of a health check does not count as an edit (migration 0002): it takes
   back no setting that an admin has changed, however the two interleave. *)
THEOREM ChecksEditNothing == Spec => ChecksAreNoEdits
<1>1. ASSUME RowsInv, ChecksKeep, Next, NEW q \in Requests, at[q] = "tx", at'[q] = "committed",
             ask[q].op = "check", NEW k \in Connections, db[Connection(k)] # None, NEW f \in Edited
      PROVE  db'[Connection(k)][f] = db[Connection(k)][f]
  <2>0. TypeOK /\ OwnStatements
    BY <1>1 DEF RowsInv
  <2>1. PICK p \in Requests :
           \/ Elsewhere(p) \/ (at[p] = "tx" /\ Rollback(p)) \/ Runs(p) \/ Commit(p)
    BY <1>1, NextMoves
  <2>2. CASE Elsewhere(p)
    BY <1>1, <2>2 DEF Elsewhere
  <2>3. CASE at[p] = "tx" /\ Rollback(p)
    BY <1>1, <2>0, <2>3, RollbackChanges
  <2>4. CASE Runs(p)
    BY <1>1, <2>0, <2>4, RunChanges
  <2>5. CASE Commit(p)
    <3>1. p = q
      BY <1>1, <2>0, <2>5, CommitChanges
    <3>2. db'[Connection(k)] = Sees(q, Connection(k))
      BY <2>0, <2>5, <3>1, CommitChanges, RowsThere
    <3> QED  BY <1>1, <3>2 DEF Sees, ChecksKeep
  <2> QED  BY <2>1, <2>2, <2>3, <2>4, <2>5
<1>2. ASSUME RowsInv, ChecksKeep, [Next]_vars
      PROVE  [\A q \in Requests :
                (at[q] = "tx" /\ at'[q] = "committed" /\ ask[q].op = "check") =>
                    \A k \in Connections : db[Connection(k)] # None =>
                        \A f \in Edited : db'[Connection(k)][f] = db[Connection(k)][f]]_vars
  BY <1>1, <1>2
<1> QED  BY <1>2, InitChecks, NextChecks, RowsStay, PTL DEF Spec, ChecksAreNoEdits

--------------------------------------------------------------------------------
(* What is answered was announced *)

LEMMA InitAnnounced == Init => NotYetAnnounced
  BY DEF Init, NotYetAnnounced

(* The rows below a connection are changed by a few kinds of requests. *)
LEMMA MadeBelow ==
    ASSUME NEW q \in Requests, NEW a \in Asks, NEW got, NEW st \in SqlsOf(q, a, got),
           NEW x, NEW v, Made(st, x, v), x[1] \in Below
    PROVE  a.op \in {"access", "describe", "clear", "delete"} \cup GridOps
<1>a. /\ \A k : Connection(k)[1] \notin Below
      /\ \A r : Report(r)[1] \notin Below
      /\ Known[1] \notin Below
  BY DEF Connection, Report, Known, Below
<1>b. \A do, y, w : Sql(do, y, w).do = do /\ Sql(do, y, w).row = y
  BY DEF Sql
<1>c. \A r : Report(r)[1] # "connection"
  BY DEF Report
<1>1. CASE a.op \in {"create", "update", "check", "report_create", "report_update", "subject_add"}
  <2>1. \/ \E k : st.row = Connection(k)
        \/ \E r : st.row = Report(r)
        \/ st.row = Known
    BY <1>1, <1>b DEF SqlsOf, GridOps
  <2>2. st.do # "delete"
    BY <1>1, <1>b DEF SqlsOf, GridOps
  <2> QED  BY <1>a, <2>1, <2>2 DEF Made
<1>2. CASE a.op = "report_delete"
  <2>1. st.row = Report(a.val)
    BY <1>2, <1>b DEF SqlsOf, GridOps
  <2> QED  BY <1>a, <1>c, <2>1 DEF Made
<1> QED  BY <1>1, <1>2, AskedRows

(* Whoever changes what the MCP servers keep in a family is to bump that family. *)
LEMMA AltersAnnounced ==
    ASSUME RowsInv, ChecksKeep, NEW q \in Requests, at[q] = "tx", NEW f \in Families,
           NEW x \in Rows, Keeps(f, x), Altered(x, db[x], Sees(q, x))
    PROVE  f \in Announces(q)
<1>0. TypeOK /\ OwnStatements
  BY DEF RowsInv
<1>1. x \in DOMAIN wrote[q] /\ Sees(q, x) = wrote[q][x]
  BY DEF Sees, Altered
<1>2. ask[q] \in Asks /\ (ask[q].op = "access" => seen[q] \in SUBSET Subjects)
  BY <1>0, InTransaction
<1>3. PICK st \in Sqls(q) : Made(st, x, wrote[q][x])
  BY <1>0, <1>1, InTransaction
<1>4. CASE x[1] = "connection"
  <2>1. x = st.row
    BY <1>3, <1>4, MadeWhere
  <2>2. ask[q].op \in {"create", "update", "check", "delete"} /\ (ask[q].op = "check" => st.do = "update")
    BY <1>2, <1>4, <2>1, SqlKinds DEF Sqls
  <2>3. ask[q].op # "check"
    <3>1. SUFFICES ASSUME ask[q].op = "check" PROVE FALSE
      OBVIOUS
    <3>2. db[x] # None /\ \A c \in Edited : wrote[q][x][c] = db[x][c]
      BY <1>1, <3>1 DEF ChecksKeep
    <3>3. wrote[q][x] # None
      BY <1>3, <2>2, <3>1, MadeNone
    <3> QED  BY <1>1, <1>4, <3>2, <3>3 DEF Altered
  <2> QED  BY <2>2, <2>3 DEF Announces
<1>5. CASE x[1] # "connection"
  <2>1. f = "meta" /\ x[1] \in Below
    BY <1>5 DEF Keeps, Below
  <2>2. ask[q].op \in {"access", "describe", "clear", "delete"} \cup GridOps
    BY <1>2, <1>3, <2>1, MadeBelow DEF Sqls
  <2> QED  BY <2>1, <2>2 DEF Announces, GridOps, Families
<1> QED  BY <1>4, <1>5

\* What the invariant says of one request.
Announced(p) ==
    /\ reply[p] # None => at[p] = "over"
    /\ \A f \in Families : p \in unannounced[f] =>
          /\ at[p] \in {"committed", "bumped", "answer", "over"}
          /\ f \in Announces(p)
          /\ at[p] \in Past(f) \/ reply[p] # None => p \in lost[f]

(* A request that announces nothing and commits nothing. *)
LEMMA SilentSteps ==
    ASSUME NotYetAnnounced, NEW q \in Requests, UNCHANGED caches,
           \A p \in Requests \ {q} : at'[p] = at[p] /\ reply'[p] = reply[p] /\ ask'[p] = ask[p],
           at[q] \in {"new", "fetch", "sql", "read", "tx"},
           reply'[q] = reply[q] \/ at'[q] = "over"
    PROVE  NotYetAnnounced'
<1>1. reply[q] = None /\ \A f \in Families : q \notin unannounced[f]
  BY DEF NotYetAnnounced
<1>2. \A p \in Requests \ {q} : Announces(p)' = Announces(p)
  BY DEF Announces
<1>3. ASSUME NEW p \in Requests PROVE Announced(p)'
  <2>1. CASE p = q
    BY <1>1, <2>1 DEF Announced, caches
  <2>2. CASE p # q
    BY <1>2, <2>2 DEF Announced, NotYetAnnounced, caches
  <2> QED  BY <2>1, <2>2
<1> QED  BY <1>3 DEF Announced, NotYetAnnounced

(* A bump that succeeds leaves nothing of its family unannounced, one that fails is counted
   among the lost ones, and neither changes the other family. *)
LEMMA BumpAnnounces ==
    ASSUME TypeOK, NEW q \in Requests, NEW f \in Families, Bumps(q, f)
    PROVE  /\ \A g \in Families \ {f} : unannounced'[g] = unannounced[g] /\ lost'[g] = lost[g]
           /\ \/ unannounced'[f] = {}
              \/ /\ unannounced'[f] = unannounced[f] /\ lost[f] \subseteq lost'[f]
                 /\ q \in unannounced[f] => q \in lost'[f]
<1>1. unannounced \in [Families -> SUBSET Requests] /\ lost \in [Families -> SUBSET Requests]
  BY DEF TypeOK
<1>2. CASE Counted(f)
  BY <1>1, <1>2 DEF Counted
<1>3. CASE Fails(q, f)
  BY <1>1, <1>3 DEF Fails
<1> QED  BY <1>2, <1>3 DEF Bumps

LEMMA AnnounceAnnounced ==
    ASSUME TypeOK, NotYetAnnounced, NEW q \in Requests, Announce(q)
    PROVE  NotYetAnnounced'
<1>0. DOMAIN at = Requests /\ UNCHANGED <<ask, reply>>
  BY DEF TypeOK, Announce
<1>a. \A p \in Requests : Announces(p)' = Announces(p)
  BY <1>0 DEF Announces
<1>b. \A f \in Families : f = "meta" \/ f = "schema"
  BY DEF Families
<1>1. ASSUME NEW f \in Families, NEW place, at[q] \in {"committed", "bumped"}, Bumps(q, f),
             at' = [at EXCEPT ![q] = place], place \in {"bumped", "answer"},
             at[q] = "committed" => f = "meta", at[q] = "bumped" => f = "schema",
             at[q] = "committed" /\ place = "answer" => "schema" \notin Announces(q)
      PROVE  NotYetAnnounced'
  <2>1. /\ \A g \in Families \ {f} : unannounced'[g] = unannounced[g] /\ lost'[g] = lost[g]
        /\ \/ unannounced'[f] = {}
           \/ /\ unannounced'[f] = unannounced[f] /\ lost[f] \subseteq lost'[f]
              /\ q \in unannounced[f] => q \in lost'[f]
    BY <1>1, BumpAnnounces
  <2>2. ASSUME NEW p \in Requests PROVE Announced(p)'
    <3>1. CASE p = q
      BY <1>0, <1>1, <1>a, <1>b, <2>1, <3>1 DEF Announced, NotYetAnnounced, Past
    <3>2. CASE p # q
      BY <1>0, <1>1, <1>a, <2>1, <3>2 DEF Announced, NotYetAnnounced
    <3> QED  BY <3>1, <3>2
  <2> QED  BY <2>2 DEF Announced, NotYetAnnounced
<1>2. ASSUME NEW place, at[q] = "committed", "meta" \notin Announces(q), UNCHANGED caches,
             at' = [at EXCEPT ![q] = place], place \in {"bumped", "answer"},
             place = "answer" => "schema" \notin Announces(q)
      PROVE  NotYetAnnounced'
  <2>1. ASSUME NEW p \in Requests PROVE Announced(p)'
    <3>1. CASE p = q
      BY <1>0, <1>2, <1>a, <1>b, <3>1 DEF Announced, NotYetAnnounced, Past, caches
    <3>2. CASE p # q
      BY <1>0, <1>2, <1>a, <3>2 DEF Announced, NotYetAnnounced, caches
    <3> QED  BY <3>1, <3>2
  <2> QED  BY <2>1 DEF Announced, NotYetAnnounced
<1>3. "meta" \in Families /\ "schema" \in Families
  BY DEF Families
<1> QED  BY <1>1, <1>2, <1>3 DEF Announce, GoTo

LEMMA NextAnnounced ==
    RowsInv /\ ChecksKeep /\ NotYetAnnounced /\ [Next]_vars => NotYetAnnounced'
<1> SUFFICES ASSUME RowsInv, ChecksKeep, NotYetAnnounced, [Next]_vars PROVE NotYetAnnounced'
  OBVIOUS
<1>0. TypeOK /\ OwnStatements
  BY DEF RowsInv
<1>a. /\ DOMAIN at = Requests /\ DOMAIN reply = Requests /\ DOMAIN ask = Requests
      /\ \A p \in Requests : at[p] \in Places
  BY <1>0 DEF TypeOK, Places
<1>1. ASSUME NEW q \in Requests, Receive(q) PROVE NotYetAnnounced'
  <2>1. PICK a : ask' = [ask EXCEPT ![q] = a]
    BY <1>1 DEF Receive
  <2>2. PICK place \in {"tx", "fetch"} : at' = [at EXCEPT ![q] = place]
    BY <1>1 DEF Receive, GoTo
  <2>3. at[q] = "new" /\ UNCHANGED <<reply, caches>>
    BY <1>1 DEF Receive
  <2> QED  BY <1>a, <2>1, <2>2, <2>3, SilentSteps
<1>2. ASSUME NEW q \in Requests, Fetch(q) \/ CheckSql(q) \/ CountReports(q) \/ ReadAccess(q)
      PROVE  NotYetAnnounced'
  <2>1. PICK place \in {"over", "read", "sql", "tx"} :
           /\ at' = [at EXCEPT ![q] = place]
           /\ reply' = reply \/ (place = "over" /\ reply' = [reply EXCEPT ![q] = "error"])
    BY <1>2 DEF Fetch, CheckSql, CountReports, ReadAccess, Refuse, GoTo
  <2>2. at[q] \in {"fetch", "sql", "read"} /\ UNCHANGED <<ask, caches>>
    BY <1>2 DEF Fetch, CheckSql, CountReports, ReadAccess, Refuse
  <2> QED  BY <1>a, <2>1, <2>2, SilentSteps
<1>3. ASSUME NEW q \in Requests, at[q] = "tx", Rollback(q) PROVE NotYetAnnounced'
  BY <1>0, <1>3, RollbackChanges, SilentSteps
<1>4. ASSUME NEW q \in Requests, Runs(q) PROVE NotYetAnnounced'
  <2>1. UNCHANGED <<ask, at, reply, unannounced, lost>>
    BY <1>4 DEF Runs, caches
  <2>2. \A p \in Requests : Announces(p)' = Announces(p)
    BY <2>1 DEF Announces
  <2> QED  BY <2>1, <2>2 DEF NotYetAnnounced
<1>5. ASSUME NEW q \in Requests, Commit(q) PROVE NotYetAnnounced'
  <2>1. /\ at[q] = "tx" /\ at' = [at EXCEPT ![q] = "committed"] /\ UNCHANGED <<ask, reply, lost>>
        /\ \A f \in Families : unannounced'[f] =
              IF \E x \in Rows : Keeps(f, x) /\ Altered(x, db[x], db'[x])
              THEN unannounced[f] \cup {q} ELSE unannounced[f]
    BY <1>5 DEF Commit, GoTo
  <2>2. \A x \in Rows : db'[x] = Sees(q, x)
    BY <1>0, <1>5, CommitChanges
  <2>3. \A f \in Families : q \in unannounced'[f] => f \in Announces(q) \/ q \in unannounced[f]
    BY <2>1, <2>2, AltersAnnounced
  <2>4. \A f \in Families : \A p \in Requests \ {q} : p \in unannounced'[f] <=> p \in unannounced[f]
    BY <2>1
  <2>5. \A p \in Requests : Announces(p)' = Announces(p)
    BY <2>1 DEF Announces
  <2>6. ASSUME NEW p \in Requests PROVE Announced(p)'
    <3>1. CASE p = q
      BY <1>a, <2>1, <2>3, <2>5, <3>1 DEF Announced, NotYetAnnounced, Past
    <3>2. CASE p # q
      BY <1>a, <2>1, <2>4, <2>5, <3>2 DEF Announced, NotYetAnnounced
    <3> QED  BY <3>1, <3>2
  <2> QED  BY <2>6 DEF Announced, NotYetAnnounced
<1>6. ASSUME NEW q \in Requests, Announce(q) PROVE NotYetAnnounced'
  BY <1>0, <1>6, AnnounceAnnounced
<1>7. ASSUME NEW q \in Requests, Answer(q) \/ Die(q) PROVE NotYetAnnounced'
  <2>1. /\ at[q] = "answer" \/ (at[q] \in {"committed", "bumped"} /\ reply' = reply)
        /\ at' = [at EXCEPT ![q] = "over"] /\ UNCHANGED <<ask, caches>>
        /\ \A p \in Requests \ {q} : reply'[p] = reply[p]
    BY <1>7, <1>a DEF Answer, Die, GoTo
  <2>2. \A p \in Requests : Announces(p)' = Announces(p)
    BY <2>1 DEF Announces
  <2>3. ASSUME NEW p \in Requests PROVE Announced(p)'
    <3>1. CASE p = q
      BY <1>a, <2>1, <2>2, <3>1 DEF Announced, NotYetAnnounced, Past, caches
    <3>2. CASE p # q
      BY <1>a, <2>1, <2>2, <3>2 DEF Announced, NotYetAnnounced, caches
    <3> QED  BY <3>1, <3>2
  <2> QED  BY <2>3 DEF Announced, NotYetAnnounced
<1>8. CASE UNCHANGED vars
  BY <1>8 DEF vars, caches, NotYetAnnounced, Announces
<1> QED  BY <1>1, <1>2, <1>3, <1>4, <1>5, <1>6, <1>7, <1>8, ExecuteRuns DEF Next, Abort

(* When a request is answered, with success or an error, each change it made to what the MCP
   servers keep has been followed by a bump that counted the version up, unless the one that
   its own handler sent has failed (changes.py, redis_cache.bump): every handler that can
   change such a row bumps each family the row is kept in, and before it answers. *)
THEOREM AnnouncedFirst == Spec => []AnsweredIsAnnounced
<1>1. NotYetAnnounced /\ TypeOK => AnsweredIsAnnounced
  BY DEF NotYetAnnounced, AnsweredIsAnnounced, TypeOK
<1>2. RowsInv => TypeOK
  BY DEF RowsInv
<1> QED
  BY <1>1, <1>2, InitAnnounced, NextAnnounced, InitChecks, NextChecks, RowsStay, PTL DEF Spec

--------------------------------------------------------------------------------
(* Grids do not wait for each other *)

LEMMA InitGrids == Init => GridsInOrder
  BY DEF Init, GridsInOrder

(* What a grid may run. *)
LEMMA GridSqls ==
    ASSUME TypeOK, OwnStatements, NEW q \in Requests, at[q] = "tx", ask[q].op \in GridOps,
           NEW st \in Sqls(q)
    PROVE  /\ st.do \in {"ignore", "delete"}
           /\ st.do = "ignore" => /\ st.row \in {Known} \cup Grants(ask[q].conn, ask[q].granted)
                                  /\ st.val = Present
           /\ st.do = "delete" => st.row \in Grants(ask[q].conn, ask[q].revoked)
           /\ st.row[1] # "connection" /\ st.row \in Rows
<1> DEFINE a == ask[q]
<1>1. a \in Asks
  BY InTransaction
<1>2. \/ st = Sql("ignore", Known, Present)
      \/ \E x \in Grants(a.conn, a.granted) : st = Sql("ignore", x, Present)
      \/ \E x \in Grants(a.conn, a.revoked) : st = Sql("delete", x, Present)
  BY DEF Sqls, SqlsOf, GridOps
<1>3. \A do, x, v : Sql(do, x, v).do = do /\ Sql(do, x, v).row = x /\ Sql(do, x, v).val = v
  BY DEF Sql
<1>4. st.row[1] # "connection" /\ st.row \in Rows
  BY <1>1, InTransaction, SqlKinds DEF Sqls, GridOps
<1> QED  BY <1>2, <1>3, <1>4

(* A row is not changed before itself. *)
LEMMA NotBeforeItself ==
    ASSUME NEW a \in Asks, a.op \in GridOps, NEW x
    PROVE  ~Earlier(a, x, x)
<1>1. /\ a.granted \subseteq Tables /\ a.revoked \subseteq Tables /\ a.granted \cap a.revoked = {}
      /\ Tables \subseteq Nat
  BY AskedRows, AdminAssumption
<1>2. \A ts : Known \notin Grants(a.conn, ts)
  BY DEF Grants, Grant, Known
<1>3. \A ts : x \in Grants(a.conn, ts) => x[3] \in ts
  BY DEF Grants, Grant
<1>4. ~(x \in Grants(a.conn, a.granted) /\ x \in Grants(a.conn, a.revoked))
  BY <1>1, <1>3
<1>5. ASSUME NEW ts \in {a.granted, a.revoked}, {x, x} \subseteq Grants(a.conn, ts)
      PROVE  ~(x[3] < x[3])
  <2>1. x[3] \in Nat
    BY <1>1, <1>3, <1>5
  <2> QED  BY <2>1
<1> QED  BY <1>2, <1>4, <1>5 DEF Earlier

LEMMA RunGrids ==
    ASSUME TypeOK, OwnStatements, GridsInOrder, NEW q \in Requests, Runs(q)
    PROVE  GridsInOrder'
<1>a. /\ db' = db /\ ask' = ask
      /\ \A p \in Requests \ {q} : wrote'[p] = wrote[p] /\ todo'[p] = todo[p]
      /\ DOMAIN (wrote'[q]) = DOMAIN wrote[q] \cup Writes(q)
      /\ \A x \in Writes(q) : wrote'[q][x] = Becomes(q, x)
      /\ \A x \in DOMAIN wrote[q] \ Writes(q) : wrote'[q][x] = wrote[q][x]
      /\ todo'[q] = Tail(todo[q])
  BY RunChanges
<1>b. at[q] = "tx" /\ todo[q] # <<>>
  BY DEF Runs
<1> DEFINE st == Head(todo[q])
           a == ask[q]
<1>c. a \in Asks /\ a # None /\ st \in Sqls(q) /\ todo[q] \in Seq(Sqls(q))
  BY <1>b, NextStatement, InTransaction DEF TypeOK
<1>d. /\ 1 \in DOMAIN todo[q] /\ st = todo[q][1]
      /\ \A i \in DOMAIN Tail(todo[q]) : /\ i \in Nat /\ i + 1 \in DOMAIN todo[q] /\ 1 < i + 1
                                         /\ Tail(todo[q])[i] = todo[q][i + 1]
  BY <1>b, <1>c, HeadTailProperties, LenProperties
<1> HIDE DEF a, st
<1>1. ASSUME a.op \in GridOps
      PROVE  /\ InOrder(a, Tail(todo[q]))
             /\ \A x \in DOMAIN (wrote'[q]) :
                   /\ \A i \in DOMAIN Tail(todo[q]) : Earlier(a, x, Tail(todo[q])[i].row)
                   /\ db[x] = None <=> wrote'[q][x] # None
  <2>1. /\ \A i, j \in DOMAIN todo[q] : i < j => Earlier(a, todo[q][i].row, todo[q][j].row)
        /\ \A x \in DOMAIN wrote[q] :
              /\ \A i \in DOMAIN todo[q] : Earlier(a, x, todo[q][i].row)
              /\ db[x] = None <=> wrote[q][x] # None
    BY <1>1, <1>c DEF GridsInOrder, InOrder, a
  <2>2. InOrder(a, Tail(todo[q]))
    <3>1. ASSUME NEW i \in DOMAIN Tail(todo[q]), NEW j \in DOMAIN Tail(todo[q]), i < j
          PROVE  Earlier(a, Tail(todo[q])[i].row, Tail(todo[q])[j].row)
      <4>1. i + 1 < j + 1
        BY <1>d, <3>1
      <4> QED  BY <1>d, <2>1, <4>1
    <3> QED  BY <3>1 DEF InOrder
  <2>3. ASSUME NEW x \in Writes(q)
        PROVE  x = st.row /\ (db[x] = None <=> Becomes(q, x) # None)
    <3>1. /\ st.do \in {"ignore", "delete"} /\ (st.do = "ignore" => st.val = Present)
          /\ st.row[1] # "connection"
      BY <1>1, <1>b, <1>c, GridSqls DEF a
    <3>2. x = st.row /\ (st.do = "ignore" => Sees(q, x) = None) /\ (st.do = "delete" => Sees(q, x) # None)
      BY <3>1 DEF Writes, Targets, st
    <3>3. x \notin DOMAIN wrote[q]
      BY <1>1, <1>c, <1>d, <2>1, <3>2, NotBeforeItself
    <3>4. db[x] = None <=> st.do = "ignore"
      BY <3>1, <3>2, <3>3 DEF Sees
    <3>5. Becomes(q, x) = IF st.do = "delete" THEN None ELSE Present
      BY <3>1 DEF Becomes, st
    <3>6. Present # None
      BY AdminAssumption
    <3> QED  BY <3>1, <3>2, <3>4, <3>5, <3>6
  <2>4. \A i \in DOMAIN Tail(todo[q]) : Earlier(a, st.row, Tail(todo[q])[i].row)
    BY <1>d, <2>1
  <2>5. ASSUME NEW x \in DOMAIN (wrote'[q])
        PROVE  /\ \A i \in DOMAIN Tail(todo[q]) : Earlier(a, x, Tail(todo[q])[i].row)
               /\ db[x] = None <=> wrote'[q][x] # None
    <3>1. CASE x \in Writes(q)
      BY <1>a, <2>3, <2>4, <3>1
    <3>2. CASE x \notin Writes(q)
      BY <1>a, <1>d, <2>1, <2>5, <3>2
    <3> QED  BY <3>1, <3>2
  <2> QED  BY <2>2, <2>5
<1>2. ASSUME NEW p \in Requests, ask'[p] # None, ask'[p].op \in GridOps
      PROVE  /\ InOrder(ask'[p], todo'[p])
             /\ \A x \in DOMAIN (wrote'[p]) :
                   /\ \A i \in DOMAIN todo'[p] : Earlier(ask'[p], x, todo'[p][i].row)
                   /\ db'[x] = None <=> wrote'[p][x] # None
  <2>1. CASE p = q
    BY <1>1, <1>2, <1>a, <2>1 DEF a
  <2>2. CASE p # q
    BY <1>2, <1>a, <2>2 DEF GridsInOrder
  <2> QED  BY <2>1, <2>2
<1> QED  BY <1>2 DEF GridsInOrder, InOrder, Earlier

LEMMA ElsewhereGrids ==
    ASSUME TypeOK, GridsInOrder, NEW q \in Requests, Elsewhere(q),
           ask'[q].op \in GridOps => InOrder(ask'[q], todo'[q])
    PROVE  GridsInOrder'
<1>1. /\ DOMAIN (wrote'[q]) = {} /\ db' = db /\ wrote' = wrote
      /\ \A p \in Requests \ {q} : ask'[p] = ask[p] /\ todo'[p] = todo[p]
  BY DEF Elsewhere, TypeOK
<1>2. ASSUME NEW p \in Requests, ask'[p] # None, ask'[p].op \in GridOps
      PROVE  /\ InOrder(ask'[p], todo'[p])
             /\ \A x \in DOMAIN (wrote'[p]) :
                   /\ \A i \in DOMAIN todo'[p] : Earlier(ask'[p], x, todo'[p][i].row)
                   /\ db'[x] = None <=> wrote'[p][x] # None
  <2>1. CASE p = q
    BY <1>1, <1>2, <2>1
  <2>2. CASE p # q
    BY <1>1, <1>2, <2>2 DEF GridsInOrder
  <2> QED  BY <2>1, <2>2
<1> QED  BY <1>2 DEF GridsInOrder, InOrder, Earlier

LEMMA NextGrids == RowsInv /\ GridsInOrder /\ [Next]_vars => GridsInOrder'
<1> SUFFICES ASSUME RowsInv, GridsInOrder, [Next]_vars PROVE GridsInOrder'
  OBVIOUS
<1>0. TypeOK /\ OwnStatements /\ LocksApart
  BY DEF RowsInv
<1>1. ASSUME NEW q \in Requests, Receive(q) PROVE GridsInOrder'
  <2>1. Elsewhere(q) /\ at[q] = "new"
    BY <1>1, ReceiveKeepsRows DEF Receive
  <2>2. PICK a \in Asks :
           /\ ask' = [ask EXCEPT ![q] = a]
           /\ \E stmts \in Statements(q, a) : todo' = [todo EXCEPT ![q] = stmts]
    BY <1>1 DEF Receive
  <2>3. PICK stmts \in Statements(q, a) : todo' = [todo EXCEPT ![q] = stmts]
    BY <2>2
  <2>4. ask'[q] = a /\ todo'[q] = stmts
    BY <1>0, <2>2, <2>3 DEF TypeOK
  <2>5. a.op \in GridOps => InOrder(a, stmts)
    BY GridPrograms
  <2>6. ask'[q].op \in GridOps => InOrder(ask'[q], todo'[q])
    BY <2>4, <2>5
  <2> QED  BY <1>0, <2>1, <2>6, ElsewhereGrids
<1>2. ASSUME NEW q \in Requests,
             Fetch(q) \/ CheckSql(q) \/ CountReports(q) \/ Announce(q) \/ Answer(q) \/ Die(q)
      PROVE  GridsInOrder'
  <2>1. Elsewhere(q)
    BY <1>2, FetchKeepsRows, CheckSqlKeepsRows, CountReportsKeepsRows, AfterwardsKeepsRows
  <2>2. UNCHANGED <<ask, todo>>
    BY <1>2 DEF Fetch, CheckSql, CountReports, Announce, Answer, Die, Refuse
  <2>3. ask[q] # None
    BY <2>1, <2>2 DEF Elsewhere
  <2>4. ask'[q].op \in GridOps => InOrder(ask'[q], todo'[q])
    BY <2>2, <2>3 DEF GridsInOrder
  <2> QED  BY <1>0, <2>1, <2>4, ElsewhereGrids
<1>3. ASSUME NEW q \in Requests, ReadAccess(q) PROVE GridsInOrder'
  <2>1. Elsewhere(q) /\ ask' = ask /\ ask[q].op = "access"
    BY <1>3, ReadAccessKeepsRows DEF ReadAccess
  <2> QED  BY <1>0, <2>1, ElsewhereGrids DEF GridOps
<1>4. ASSUME NEW q \in Requests, at[q] = "tx", Rollback(q) PROVE GridsInOrder'
  <2>1. /\ DOMAIN (wrote'[q]) = {} /\ todo'[q] = <<>> /\ db' = db /\ ask' = ask
        /\ \A p \in Requests \ {q} : wrote'[p] = wrote[p] /\ todo'[p] = todo[p]
    BY <1>0, <1>4, RollbackChanges
  <2>2. ASSUME NEW p \in Requests, ask'[p] # None, ask'[p].op \in GridOps
        PROVE  /\ InOrder(ask'[p], todo'[p])
               /\ \A x \in DOMAIN (wrote'[p]) :
                     /\ \A i \in DOMAIN todo'[p] : Earlier(ask'[p], x, todo'[p][i].row)
                     /\ db'[x] = None <=> wrote'[p][x] # None
    <3>1. CASE p = q
      BY <2>1, <3>1 DEF InOrder
    <3>2. CASE p # q
      BY <2>1, <2>2, <3>2 DEF GridsInOrder
    <3> QED  BY <3>1, <3>2
  <2> QED  BY <2>2 DEF GridsInOrder, InOrder, Earlier
<1>5. ASSUME NEW q \in Requests, Commit(q) PROVE GridsInOrder'
  <2>1. ask' = ask /\ todo' = todo
    BY <1>0, <1>5, CommitChanges
  <2>2. ASSUME NEW p \in Requests, ask'[p] # None, ask'[p].op \in GridOps
        PROVE  /\ InOrder(ask'[p], todo'[p])
               /\ \A x \in DOMAIN (wrote'[p]) :
                     /\ \A i \in DOMAIN todo'[p] : Earlier(ask'[p], x, todo'[p][i].row)
                     /\ db'[x] = None <=> wrote'[p][x] # None
    <3>1. InOrder(ask'[p], todo'[p])
      BY <2>1, <2>2 DEF GridsInOrder
    <3>2. ASSUME NEW x \in DOMAIN (wrote'[p])
          PROVE  /\ \A i \in DOMAIN todo'[p] : Earlier(ask'[p], x, todo'[p][i].row)
                 /\ db'[x] = None <=> wrote'[p][x] # None
      <4>1. x \in DOMAIN wrote[p] /\ wrote'[p] = wrote[p] /\ db'[x] = db[x]
        BY <1>0, <1>5, <3>2, CommitApart
      <4> QED  BY <2>1, <2>2, <4>1 DEF GridsInOrder
    <3> QED  BY <3>1, <3>2
  <2> QED  BY <2>2 DEF GridsInOrder, InOrder, Earlier
<1>6. ASSUME NEW q \in Requests, Runs(q) PROVE GridsInOrder'
  BY <1>0, <1>6, RunGrids
<1>7. ASSUME UNCHANGED vars PROVE GridsInOrder'
  <2>1. UNCHANGED <<db, ask, todo, wrote>>
    BY <1>7 DEF vars
  <2>2. ASSUME NEW p \in Requests, ask'[p] # None, ask'[p].op \in GridOps
        PROVE  /\ InOrder(ask'[p], todo'[p])
               /\ \A x \in DOMAIN (wrote'[p]) :
                     /\ \A i \in DOMAIN todo'[p] : Earlier(ask'[p], x, todo'[p][i].row)
                     /\ db'[x] = None <=> wrote'[p][x] # None
    BY <2>1, <2>2 DEF GridsInOrder
  <2> QED  BY <2>2 DEF GridsInOrder, InOrder, Earlier
<1> QED
  BY <1>1, <1>2, <1>3, <1>4, <1>5, <1>6, <1>7, ExecuteRuns DEF Next, Abort

(* What a grid that waits for another one waits for. *)
LEMMA GridWaits ==
    ASSUME RowsInv, NEW q \in Requests, NEW p \in Requests \ {q}, at[p] = "tx",
           ask[q].op \in GridOps, ask[p].op \in GridOps, WaitsFor(q, p)
    PROVE  /\ at[q] = "tx" /\ todo[q] # <<>>
           /\ Head(todo[q]).row \in DOMAIN wrote[p]
           /\ Head(todo[q]) \in Sqls(q)
           /\ Head(todo[q]).do = "delete" => db[Head(todo[q]).row] # None
<1>0. TypeOK /\ OwnStatements /\ LocksApart
  BY DEF RowsInv
<1>1. at[q] = "tx" /\ todo[q] # <<>>
  BY DEF WaitsFor
<1> DEFINE st == Head(todo[q])
<1>2. st \in Sqls(q)
  BY <1>0, <1>1, NextStatement
<1>3. st.row[1] # "connection" /\ st.do \in {"ignore", "delete"} /\ st.row \in Rows
  BY <1>0, <1>1, <1>2, GridSqls
<1>4. \A k : Connection(k) \notin DOMAIN wrote[p]
  <2>1. ASSUME NEW k, Connection(k) \in DOMAIN wrote[p] PROVE FALSE
    <3>1. Connection(k)[1] = "connection"
      BY DEF Connection
    <3>2. PICK st2 \in Sqls(p) : Made(st2, Connection(k), wrote[p][Connection(k)])
      BY <1>0, <2>1, InTransaction
    <3>3. st2.row[1] = "connection"
      BY <3>1, <3>2, MadeWhere
    <3>4. st2.row[1] # "connection"
      BY <1>0, <3>2, GridSqls
    <3> QED  BY <3>3, <3>4
  <2> QED  BY <2>1
<1>5. \A k : st.row # Connection(k)
  BY <1>3 DEF Connection
<1>6. PICK x \in Targets(q) : x \in DOMAIN wrote[p]
  BY <1>4, <1>5 DEF WaitsFor
<1>7. x = st.row /\ (st.do = "delete" => Sees(q, x) # None)
  BY <1>3, <1>6 DEF Targets
<1>8. x \notin DOMAIN wrote[q]
  BY <1>0, <1>6 DEF LocksApart
<1> QED  BY <1>1, <1>2, <1>6, <1>7, <1>8 DEF Sees

(* What a grid that waits is to change next: the name of the tables and tools, or one row. *)
GridRow(x) == x = Known \/ (x[1] = "grant" /\ x[3] \in Nat)

\* First the name, then what is not there and can be granted, then what can be revoked.
Rank(x) == IF x = Known THEN 0 ELSE IF db[x] = None THEN 1 ELSE 2
Before(x, y) ==
    /\ GridRow(x) /\ GridRow(y)
    /\ Rank(x) < Rank(y) \/ (Rank(x) = Rank(y) /\ x # Known /\ y # Known /\ x[3] < y[3])

LEMMA BeforeIsOrder ==
    /\ \A x : ~Before(x, x)
    /\ \A x, y, z : Before(x, y) /\ Before(y, z) => Before(x, z)
<1>1. Known[1] # "grant"
  BY DEF Known
<1>2. \A x : Rank(x) \in 0 .. 2 /\ (Rank(x) = 0 <=> x = Known)
  BY DEF Rank
<1> QED  BY <1>1, <1>2 DEF Before, GridRow

LEMMA GrantRows ==
    ASSUME NEW a \in Asks, a.op \in GridOps
    PROVE  /\ \A x \in Grants(a.conn, a.granted) : x[1] = "grant" /\ x[3] \in Nat
           /\ \A x \in Grants(a.conn, a.revoked) : x[1] = "grant" /\ x[3] \in Nat
           /\ Grants(a.conn, a.granted) \cap Grants(a.conn, a.revoked) = {}
           /\ Known \notin Grants(a.conn, a.granted) \cup Grants(a.conn, a.revoked)
           /\ Grants(a.conn, a.granted \cup a.revoked)
                  = Grants(a.conn, a.granted) \cup Grants(a.conn, a.revoked)
<1>1. \A k, ts, x : x \in Grants(k, ts) => x[1] = "grant" /\ x[3] \in ts
  BY DEF Grants, Grant
<1>2. Known[1] # "grant"
  BY DEF Known
<1>3. Tables \subseteq Nat
  BY AdminAssumption
<1>4. a.granted \subseteq Tables /\ a.revoked \subseteq Tables /\ a.granted \cap a.revoked = {}
  BY AskedRows
<1>5. Grants(a.conn, a.granted \cup a.revoked) = Grants(a.conn, a.granted) \cup Grants(a.conn, a.revoked)
  BY DEF Grants
<1> QED  BY <1>1, <1>2, <1>3, <1>4, <1>5

(* A grid that waits for something has nothing written that comes after what it waits for. *)
LEMMA GridsAdvance ==
    ASSUME RowsInv, GridsInOrder, NEW q \in Requests, NEW p \in Requests \ {q},
           at[q] = "tx", at[p] = "tx", ask[q].op \in GridOps, ask[p].op \in GridOps,
           WaitsFor(q, p), NEW x \in DOMAIN wrote[q]
    PROVE  Before(x, Head(todo[q]).row)
<1> DEFINE st == Head(todo[q])
           a == ask[q]
<1>0. TypeOK /\ OwnStatements
  BY DEF RowsInv
<1>1. a \in Asks /\ a # None /\ todo[q] \in Seq(Sqls(q))
  BY <1>0, InTransaction DEF TypeOK
<1>2. todo[q] # <<>> /\ st \in Sqls(q) /\ (st.do = "delete" => db[st.row] # None)
  BY GridWaits
<1>3. 1 \in DOMAIN todo[q] /\ st = todo[q][1]
  BY <1>1, <1>2, HeadTailProperties, LenProperties
<1>4. Earlier(a, x, st.row) /\ (db[x] = None <=> wrote[q][x] # None)
  BY <1>1, <1>3 DEF GridsInOrder
<1>5. PICK made \in Sqls(q) : Made(made, x, wrote[q][x])
  BY <1>0, InTransaction
<1> HIDE DEF st, a
<1>6. /\ \A y \in Grants(a.conn, a.granted) : y[1] = "grant" /\ y[3] \in Nat
      /\ \A y \in Grants(a.conn, a.revoked) : y[1] = "grant" /\ y[3] \in Nat
      /\ Grants(a.conn, a.granted) \cap Grants(a.conn, a.revoked) = {}
      /\ Known \notin Grants(a.conn, a.granted) \cup Grants(a.conn, a.revoked)
      /\ Grants(a.conn, a.granted \cup a.revoked)
             = Grants(a.conn, a.granted) \cup Grants(a.conn, a.revoked)
  <2>1. a.op \in GridOps
    BY DEF a
  <2> QED  BY <1>1, <2>1, GrantRows
<1>7. /\ made.do = "ignore" => x \in {Known} \cup Grants(a.conn, a.granted) /\ db[x] = None
      /\ made.do = "delete" => x \in Grants(a.conn, a.revoked) /\ db[x] # None
      /\ made.do \in {"ignore", "delete"}
  <2>1. /\ made.do \in {"ignore", "delete"}
        /\ made.do = "ignore" => made.row \in {Known} \cup Grants(a.conn, a.granted)
        /\ made.do = "delete" => made.row \in Grants(a.conn, a.revoked)
        /\ made.row[1] # "connection"
    BY <1>0, GridSqls DEF a
  <2>2. wrote[q][x] = None <=> made.do = "delete"
    BY <1>5, MadeNone
  <2>3. x = made.row
    BY <1>5, <2>1 DEF Made
  <2> QED  BY <1>4, <2>1, <2>2, <2>3
<1>8. st.row \in Grants(a.conn, a.revoked) => db[st.row] # None
  <2>1. /\ st.do \in {"ignore", "delete"}
        /\ st.do = "ignore" => st.row \in {Known} \cup Grants(a.conn, a.granted)
    BY <1>0, <1>2, GridSqls DEF a
  <2> QED  BY <1>2, <1>6, <2>1
<1>9. Rank(Known) = 0 /\ \A y : y # Known => Rank(y) = IF db[y] = None THEN 1 ELSE 2
  BY DEF Rank
<1>10. CASE x = Known /\ st.row \in Grants(a.conn, a.granted \cup a.revoked)
  BY <1>6, <1>9, <1>10 DEF Before, GridRow, st
<1>11. CASE x \in Grants(a.conn, a.granted) /\ st.row \in Grants(a.conn, a.revoked)
  BY <1>6, <1>7, <1>8, <1>9, <1>11 DEF Before, GridRow, st
<1>12. CASE {x, st.row} \subseteq Grants(a.conn, a.granted) /\ x[3] < st.row[3]
  BY <1>6, <1>7, <1>9, <1>12 DEF Before, GridRow, st
<1>13. CASE {x, st.row} \subseteq Grants(a.conn, a.revoked) /\ x[3] < st.row[3]
  BY <1>6, <1>7, <1>8, <1>9, <1>13 DEF Before, GridRow, st
<1> QED  BY <1>4, <1>10, <1>11, <1>12, <1>13 DEF Earlier, st

(* In a finite set of rows there is one that none of the others comes after. *)
LEMMA LastRow ==
    ASSUME NEW W \in SUBSET Rows, W # {}
    PROVE  \E x \in W : \A y \in W : ~Before(x, y)
<1> DEFINE After(x) == {y \in W : Before(x, y)}
<1> DEFINE T == {After(x) : x \in W}
<1>1. T \subseteq FiniteSubsetsOf(W) /\ T # {}
  <2>1. IsFiniteSet(W)
    BY AdminAssumption, FS_Subset
  <2>2. \A A \in SUBSET W : IsFiniteSet(A)
    BY <2>1, FS_Subset
  <2> QED  BY <2>2 DEF FiniteSubsetsOf
<1>2. PICK A \in T : \A B \in T : ~(<<B, A>> \in StrictSubsetOrdering(W))
  <2>1. IsFiniteSet(W)
    BY AdminAssumption, FS_Subset
  <2>2. IsWellFoundedOn(StrictSubsetOrdering(W), FiniteSubsetsOf(W))
    BY <2>1, FS_StrictSubsetOrderingWellFounded
  <2> HIDE DEF T
  <2> QED  BY <1>1, <2>2, WFMin
<1>3. PICK x \in W : A = After(x)
  OBVIOUS
<1>4. ASSUME NEW y \in W, Before(x, y) PROVE FALSE
  <2>1. After(y) \subseteq A /\ y \in A /\ y \notin After(y)
    BY <1>3, <1>4, BeforeIsOrder
  <2>2. <<After(y), A>> \in StrictSubsetOrdering(W)
    BY <2>1, <1>3 DEF StrictSubsetOrdering
  <2> QED  BY <1>2, <2>2
<1> QED  BY <1>4

(* However many grids are being saved at once (set_tables, set_tools), they never all wait for
   each other, in pairs or in a longer circle: they change rows in the order of their names,
   what they grant before what they revoke, and a grant of what is there or a revocation of
   what is not writes nothing.  So whoever waits is to change a row that comes after all it has
   written, and whoever has written the last of the rows waited for can go on. *)
THEOREM GridsNeverDeadlock == Spec => []GridsDoNotDeadlock
<1>1. ASSUME RowsInv, GridsInOrder, NEW S \in SUBSET Saving, S # {},
             \A q \in S : \E p \in S \ {q} : WaitsFor(q, p)
      PROVE  FALSE
  <2>0. TypeOK /\ OwnStatements
    BY <1>1 DEF RowsInv
  <2>1. \A q \in S : q \in Requests /\ at[q] = "tx" /\ ask[q].op \in GridOps
    BY <1>1 DEF Saving, GridOps
  <2> DEFINE Row(q) == Head(todo[q]).row
             W == {Row(q) : q \in S}
  <2>2. ASSUME NEW q \in S, NEW p \in S \ {q}, WaitsFor(q, p)
        PROVE  Row(q) \in DOMAIN wrote[p] /\ Row(q) \in Rows
    <3>1. Row(q) \in DOMAIN wrote[p]
      BY <1>1, <2>1, <2>2, GridWaits
    <3>2. p \in Requests
      BY <2>1
    <3> QED  BY <2>0, <3>1, <3>2 DEF TypeOK
  <2>3. ASSUME NEW q \in S PROVE \E y \in W : Before(Row(q), y)
    <3>1. PICK p \in S \ {q} : WaitsFor(q, p)
      BY <1>1
    <3>2. PICK r \in S \ {p} : WaitsFor(p, r)
      BY <1>1
    <3>3. Row(q) \in DOMAIN wrote[p]
      BY <2>2, <3>1
    <3>4. Before(Row(q), Row(p))
      BY <1>1, <2>1, <3>2, <3>3, GridsAdvance
    <3> QED  BY <3>4
  <2>4. W \in SUBSET Rows /\ W # {}
    BY <1>1, <2>2
  <2>5. PICK x \in W : \A y \in W : ~Before(x, y)
    <3> HIDE DEF W
    <3> QED  BY <2>4, LastRow
  <2> QED  BY <2>3, <2>5
<1>2. RowsInv /\ GridsInOrder => GridsDoNotDeadlock
  BY <1>1 DEF GridsDoNotDeadlock
<1> QED  BY <1>2, InitGrids, NextGrids, RowsStay, PTL DEF Spec

--------------------------------------------------------------------------------
(* What is changed is logged *)

\* The log is a sequence of entries.
LogGrows == \E S : log \in Seq(S)

LEMMA InitLog == Init => LogGrows
<1> SUFFICES ASSUME Init PROVE LogGrows
  OBVIOUS
<1>1. log = <<>>
  BY DEF Init
<1>2. <<>> \in Seq({})
  OBVIOUS
<1> QED  BY <1>1, <1>2 DEF LogGrows

LEMMA OneMoreEntry ==
    ASSUME NEW S, NEW s \in Seq(S), NEW e
    PROVE  /\ Append(s, e) \in Seq(S \cup {e})
           /\ Len(Append(s, e)) > Len(s)
           /\ Append(s, e)[Len(Append(s, e))] = e
<1>1. s \in Seq(S \cup {e})
  OBVIOUS
<1>2. /\ Append(s, e) \in Seq(S \cup {e}) /\ Len(Append(s, e)) = Len(s) + 1
      /\ Append(s, e)[Len(s) + 1] = e
  BY <1>1, AppendProperties
<1>3. Len(s) \in Nat
  BY LenProperties
<1> QED  BY <1>2, <1>3

LEMMA NextLog == LogGrows /\ [Next]_vars => LogGrows'
<1> SUFFICES ASSUME LogGrows, [Next]_vars PROVE LogGrows'
  OBVIOUS
<1>1. ASSUME NEW q \in Requests, Commit(q) PROVE LogGrows'
  <2>1. PICK S : log \in Seq(S)
    BY DEF LogGrows
  <2>2. PICK e : log' \in {log, Append(log, e)}
    BY <1>1 DEF Commit
  <2>3. CASE log' = log
    BY <2>1, <2>3 DEF LogGrows
  <2>4. CASE log' = Append(log, e)
    <3>1. log' \in Seq(S \cup {e})
      BY <2>1, <2>4, OneMoreEntry
    <3> QED  BY <3>1 DEF LogGrows
  <2> QED  BY <2>2, <2>3, <2>4
<1>2. ASSUME NEW q \in Requests,
             \/ Receive(q) \/ Fetch(q) \/ CheckSql(q) \/ ReadAccess(q) \/ CountReports(q)
             \/ Execute(q) \/ Abort(q) \/ Announce(q) \/ Answer(q) \/ Die(q)
      PROVE  LogGrows'
  <2>1. log' = log
    BY <1>2 DEF Receive, Fetch, CheckSql, ReadAccess, CountReports, Execute, Abort, Announce, Answer,
                Die, Refuse, Rollback
  <2> QED  BY <2>1 DEF LogGrows
<1>3. CASE UNCHANGED vars
  BY <1>3 DEF vars, LogGrows
<1> QED  BY <1>1, <1>2, <1>3 DEF Next

(* A grant, a revocation or a description that one of its statements makes is one that the log
   entry of the request names, or that went with its connection. *)
LEMMA MadeIsNamed ==
    ASSUME NEW q \in Requests, ask[q] \in Asks,
           ask[q].op = "access" => seen[q] \in SUBSET Subjects,
           NEW st \in Sqls(q), NEW x, NEW v, Made(st, x, v), x[1] \in Below
    PROVE  /\ Logs(q)
           /\ \/ <<x, v # None>> \in Names(q)
              \/ ask[q].op = "delete" /\ ask[q].conn = x[2]
<1> DEFINE a == ask[q]
<1>a. /\ \A k : Connection(k)[1] \notin Below
      /\ \A r : Report(r)[1] \notin Below
      /\ Known[1] \notin Below
  BY DEF Connection, Report, Known, Below
<1>b. \A do, y, w : Sql(do, y, w).do = do /\ Sql(do, y, w).row = y /\ Sql(do, y, w).val = w
  BY DEF Sql
<1>c. /\ st.do # "delete" => x = st.row /\ v # None
      /\ st.do = "delete" => /\ v = None
                             /\ x = st.row \/ (st.row[1] = "connection" /\ x[2] = st.row[2])
  BY OwnedRows DEF Made
<1>d. a.op \in {"create", "update", "check", "delete", "describe", "clear", "access",
                "report_create", "report_update", "report_delete", "subject_add"} \cup GridOps
  BY AskedRows
<1>1. CASE a.op \in {"create", "update", "check", "report_create", "report_update", "subject_add"}
  <2>1. \/ \E k : st.row = Connection(k)
        \/ \E r : st.row = Report(r)
        \/ st.row = Known
    BY <1>1, <1>b DEF Sqls, SqlsOf, GridOps
  <2>2. st.do # "delete"
    BY <1>1, <1>b DEF Sqls, SqlsOf, GridOps
  <2> QED  BY <1>a, <1>c, <2>1, <2>2
<1>2. CASE a.op = "report_delete"
  <2>1. st.row = Report(a.val)
    BY <1>2, <1>b DEF Sqls, SqlsOf, GridOps
  <2> QED  BY <1>a, <1>c, <2>1 DEF Report
<1>3. CASE a.op = "delete"
  <2>1. st.row = Connection(a.conn) /\ st.do = "delete"
    BY <1>3, <1>b DEF Sqls, SqlsOf, GridOps
  <2>2. x[2] = a.conn
    BY <1>a, <1>c, <2>1 DEF Connection
  <2> QED  BY <1>3, <2>2 DEF Logs
<1>4. CASE a.op \in {"describe", "clear"}
  <2>1. st.row = Description(a.conn) /\ (st.do = "delete" <=> a.op = "clear")
    BY <1>4, <1>b DEF Sqls, SqlsOf, GridOps
  <2>2. x = Description(a.conn) /\ (v # None <=> a.op = "describe")
    BY <1>4, <1>c, <2>1 DEF Description
  <2>3. Names(q) = {<<Description(a.conn), a.op = "describe">>}
    BY <1>4 DEF Names
  <2>4. <<x, v # None>> \in Names(q)
    BY <2>2, <2>3, Zenon
  <2> QED  BY <1>4, <2>4 DEF Logs
<1>5. CASE a.op \in GridOps
  <2>1. PICK t \in a.granted \cup a.revoked :
           x = Grant(a.conn, t) /\ (v # None <=> t \in a.granted)
    <3>1. \/ st = Sql("ignore", Known, Present)
          \/ \E y \in Grants(a.conn, a.granted) : st = Sql("ignore", y, Present)
          \/ \E y \in Grants(a.conn, a.revoked) : st = Sql("delete", y, Present)
      BY <1>5 DEF Sqls, SqlsOf, GridOps
    <3>2. a.granted \cap a.revoked = {}
      BY <1>5, AskedRows
    <3>3. st.row[1] # "connection"
      <4>1. \A k, ts, z : z \in Grants(k, ts) => z[1] = "grant"
        BY DEF Grants, Grant
      <4> QED  BY <1>b, <3>1, <4>1 DEF Known
    <3>4. \/ x \in Grants(a.conn, a.granted) /\ v # None
          \/ x \in Grants(a.conn, a.revoked) /\ v = None
      BY <1>a, <1>b, <1>c, <3>1, <3>3
    <3>5. \/ \E t \in a.granted : x = Grant(a.conn, t) /\ v # None
          \/ \E t \in a.revoked : x = Grant(a.conn, t) /\ v = None
      BY <3>4 DEF Grants
    <3> QED  BY <3>2, <3>5
  <2>2. Names(q) = {<<Grant(a.conn, u), u \in a.granted>> : u \in a.granted \cup a.revoked}
    BY <1>5 DEF Names, GridOps
  <2>3. <<Grant(a.conn, t), t \in a.granted>> \in Names(q)
    BY <2>2, Zenon
  <2>4. <<x, v # None>> = <<Grant(a.conn, t), t \in a.granted>>
    <3>1. (v # None) = (t \in a.granted)
      BY <2>1
    <3> QED  BY <2>1, <3>1, Zenon
  <2> QED  BY <1>5, <2>3, <2>4 DEF Logs, GridOps
<1>6. CASE a.op = "access"
  <2>1. PICK s \in (a.granted \ seen[q]) \cup (seen[q] \ a.granted) :
           x = Access(a.conn, s) /\ (v # None <=> s \in a.granted)
    <3>1. \/ \E s \in seen[q] \ a.granted : st = Sql("delete", Access(a.conn, s), Present)
          \/ \E s \in a.granted \ seen[q] : st = Sql("insert", Access(a.conn, s), Present)
      BY <1>6 DEF Sqls, SqlsOf, GridOps
    <3>2. st.row[1] # "connection"
      <4>1. \A k, s : Access(k, s)[1] # "connection"
        BY DEF Access
      <4> QED  BY <1>b, <3>1, <4>1
    <3> QED  BY <1>b, <1>c, <3>1, <3>2
  <2>2. Names(q) = {<<Access(a.conn, u), u \in a.granted>> :
                       u \in (a.granted \ seen[q]) \cup (seen[q] \ a.granted)}
    BY <1>6 DEF Names
  <2>3. <<Access(a.conn, s), s \in a.granted>> \in Names(q)
    BY <2>2, Zenon
  <2>4. <<x, v # None>> = <<Access(a.conn, s), s \in a.granted>>
    <3>1. (v # None) = (s \in a.granted)
      BY <2>1
    <3> QED  BY <2>1, <3>1, Zenon
  <2> QED  BY <1>6, <2>3, <2>4 DEF Logs
<1> QED  BY <1>d, <1>1, <1>2, <1>3, <1>4, <1>5, <1>6

(* Every grant, revocation and description that a transaction makes is named by the log row of
   that transaction, or went with the connection whose deletion it logs (changes.py). *)
THEOREM GrantsGoOnRecord == Spec => GrantsAreLogged
<1>1. ASSUME RowsInv, LogGrows, Next, NEW x \in Rows, x[1] \in Below, db'[x] # db[x]
      PROVE  /\ Len(log') > Len(log)
             /\ \/ <<x, db'[x] # None>> \in log'[Len(log')].names
                \/ log'[Len(log')].op = "delete" /\ log'[Len(log')].conn = x[2]
  <2>0. TypeOK /\ OwnStatements
    BY <1>1 DEF RowsInv
  <2>1. PICK q \in Requests :
           \/ Elsewhere(q) \/ (at[q] = "tx" /\ Rollback(q)) \/ Runs(q) \/ Commit(q)
    BY <1>1, NextMoves
  <2>2. Commit(q)
    BY <1>1, <2>0, <2>1, RollbackChanges, RunChanges DEF Elsewhere
  <2>3. at[q] = "tx" /\ db'[x] = Sees(q, x)
    BY <2>0, <2>2, CommitChanges
  <2>4. x \in DOMAIN wrote[q] /\ db'[x] = wrote[q][x]
    BY <1>1, <2>3 DEF Sees
  <2>5. PICK st \in Sqls(q) : Made(st, x, db'[x])
    BY <2>0, <2>3, <2>4, InTransaction
  <2>6. /\ Logs(q)
        /\ \/ <<x, db'[x] # None>> \in Names(q)
           \/ ask[q].op = "delete" /\ ask[q].conn = x[2]
    BY <1>1, <2>0, <2>3, <2>5, InTransaction, MadeIsNamed
  <2> DEFINE e == [by |-> q, op |-> ask[q].op, names |-> Names(q), conn |-> ask[q].conn]
  <2>7. log' = Append(log, e)
    BY <2>2, <2>6 DEF Commit
  <2>8. e.op = ask[q].op /\ e.names = Names(q) /\ e.conn = ask[q].conn
    OBVIOUS
  <2> HIDE DEF e
  <2>9. Len(log') > Len(log) /\ log'[Len(log')] = e
    BY <1>1, <2>7, OneMoreEntry DEF LogGrows
  <2> QED  BY <2>6, <2>8, <2>9
<1>2. ASSUME RowsInv, LogGrows, [Next]_vars
      PROVE  [\A x \in Rows :
                (x[1] \in {"access", "grant", "description"} /\ db'[x] # db[x])
                   => /\ Len(log') > Len(log)
                      /\ \/ <<x, db'[x] # None>> \in log'[Len(log')].names
                         \/ log'[Len(log')].op = "delete" /\ log'[Len(log')].conn = x[2]]_vars
  BY <1>1, <1>2 DEF Below
<1> QED  BY <1>2, InitLog, NextLog, RowsStay, PTL DEF Spec, GrantsAreLogged

================================================================================
