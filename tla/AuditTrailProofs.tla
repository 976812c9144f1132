---------------------------- MODULE AuditTrailProofs ----------------------------
(***************************************************************************)
(* What the run of AuditPages checks, proved for any users, roles and     *)
(* jobs and any number of transactions at once: they record at once or    *)
(* not at all, never wait in a circle, and while they commit nobody who   *)
(* pages through the log misses a row that was there.                     *)
(***************************************************************************)
EXTENDS AuditPages, FiniteSetTheorems, TLAPS

\* Ids are drawn once: no two rows of a log share one, committed or not.
IdsDrawn ==
    /\ \A r \in logged : r.id <= drawn[r.log]
    /\ \A w \in Writers : row[w] # None =>
          /\ row[w].id <= drawn[row[w].log]
          /\ \A r \in logged : r.log = row[w].log => r.id # row[w].id
          /\ \A v \in Writers \ {w} :
                row[v] # None /\ row[v].log = row[w].log => row[v].id # row[w].id

\* How far a transaction is, and the row it has inserted.
Progress ==
    \A w \in Writers :
        /\ at[w] \in {"row", "commit"} => left[w] = {}
        /\ at[w] = "row" => LogOf(job[w]) # None
        /\ at[w] \in {"notes", "row"} => row[w] = None
        /\ at[w] = "commit" => (row[w] = None) = (LogOf(job[w]) = None)
        /\ row[w] # None => row[w] = Row(job[w], row[w].id, row[w].at)

\* A row of known_subjects is locked by one transaction.
LocksExclude ==
    \A w, v \in Writers : \A x \in Subjects : w # v => ~(Holds(w, x) /\ Holds(v, x))

\* What a transaction has remembered of its subjects: it holds the name that is due, or the
\* subject was there and nothing was due.
NotesHold ==
    \A w \in Writers : at[w] # "idle" =>
        /\ left[w] \subseteq Notes(job[w])
        /\ \A x \in Subjects :
              /\ Holds(w, x) => /\ x \in Notes(job[w])
                                /\ written[w][x] = Named(subjects[x], NameIn(job[w], x))
              /\ x \in Notes(job[w]) \ left[w] /\ ~Holds(w, x)
                    => NameIn(job[w], x) = Nameless /\ subjects[x] # Absent

\* What it holds comes before what it has still to do.
NotesInOrder ==
    \A w \in Writers : \A x \in Subjects : \A y \in left[w] : Holds(w, x) => Earlier(x, y)

AuditInv ==
    TrailTypeOK /\ IdsDrawn /\ Progress /\ LocksExclude /\ NotesHold /\ NotesInOrder

--------------------------------------------------------------------------------
(* What a job remembers and records *)

\* A job names subjects, writes names, and leaves a row of its log.
LEMMA JobFacts ==
    ASSUME NEW j \in Jobs
    PROVE  /\ Notes(j) \subseteq Subjects
           /\ \A x : NameIn(j, x) \in Names \cup {Nameless}
           /\ LogOf(j) # None => LogOf(j) \in Logs
           /\ \A i \in 1 .. MaxRows, t \in 0 .. MaxRows :
                 LogOf(j) # None => Row(j, i, t) \in Rows
           /\ j # None
<1>1. j \in JobType /\ (j.op \in {"grant", "add"} => j.subject \in Subjects) /\ j # None
  BY AuditAssumption
<1>2. /\ j.op \in {"call", "me", "grant", "add"} /\ j.sub \in Users
      /\ j.name \in Names \cup {Nameless} /\ j.roles \in SUBSET Roles /\ j.success \in {0, 1}
  BY <1>1 DEF JobType
<1>3. Notes(j) \subseteq Subjects
  <2>1. CASE j.op = "call"
    <3>1. Notes(j) = {User(j.sub)} \cup {Role(r) : r \in j.roles \ Builtin}
      BY <2>1 DEF Notes
    <3> QED BY <3>1, <1>2 DEF Subjects
  <2>2. CASE j.op = "me"
    BY <2>2, <1>2 DEF Notes, Subjects
  <2>3. CASE j.op \in {"grant", "add"}
    BY <2>3, <1>1 DEF Notes
  <2> QED BY <2>1, <2>2, <2>3, <1>2
<1>4. \A x : NameIn(j, x) \in Names \cup {Nameless}
  BY <1>2 DEF NameIn
<1>5. LogOf(j) # None => LogOf(j) \in Logs
  BY DEF LogOf, Logs
<1>6. \A i \in 1 .. MaxRows, t \in 0 .. MaxRows : LogOf(j) # None => Row(j, i, t) \in Rows
  BY <1>2, <1>5 DEF Row, Rows
<1> QED BY <1>1, <1>3, <1>4, <1>5, <1>6

\* Two subjects of one job come one after the other.
LEMMA NotesAreOrdered ==
    ASSUME NEW j \in Jobs, NEW x \in Notes(j), NEW y \in Notes(j), x # y
    PROVE  Earlier(x, y) \/ Earlier(y, x)
<1>1. j.op = "call" /\ j.roles \subseteq Nat
  <2>1. j \in JobType
    BY AuditAssumption
  <2>2. j.roles \subseteq Roles
    BY <2>1 DEF JobType
  <2> QED BY <2>2, AuditAssumption DEF Notes
<1>2. Notes(j) = {User(j.sub)} \cup {Role(r) : r \in j.roles \ Builtin}
  BY <1>1 DEF Notes
<1>3. CASE x = User(j.sub) \/ y = User(j.sub)
  <2>1. \A z \in Notes(j) : z = User(j.sub) \/ z[1] = "role"
    BY <1>2 DEF Role
  <2> QED BY <1>3, <2>1 DEF Earlier, User
<1>4. CASE x # User(j.sub) /\ y # User(j.sub)
  <2>1. PICK p \in Nat : x = Role(p)
    BY <1>1, <1>2, <1>4
  <2>2. PICK q \in Nat : y = Role(q)
    BY <1>1, <1>2, <1>4
  <2>3. p < q \/ q < p
    BY <2>1, <2>2
  <2> QED BY <2>1, <2>2, <2>3 DEF Earlier, Role
<1> QED BY <1>3, <1>4

\* What COALESCE gives is a name, or NULL.
LEMMA NamedIsAName ==
    ASSUME NEW old \in Names \cup {Absent, Nameless}, NEW name \in Names \cup {Nameless}
    PROVE  Named(old, name) \in Names \cup {Nameless}
BY AuditAssumption DEF Named

--------------------------------------------------------------------------------
(* The invariant holds *)

LEMMA InvAtFirst == Init => AuditInv
<1> SUFFICES ASSUME Init PROVE AuditInv
  OBVIOUS
<1>1. PICK u \in Users :
          logged = {[log |-> "calls", id |-> i, at |-> 0, sub |-> u, success |-> 1] :
                        i \in 1 .. OldCalls}
  BY DEF Init, AtomicInit
<1>2. OldCalls \in Nat /\ MaxRows \in Nat /\ OldCalls <= MaxRows
  BY AuditAssumption
<1>3. \A r \in logged : r \in Rows /\ r.log = "calls" /\ r.id <= OldCalls
  BY <1>1, <1>2 DEF Rows, Logs
<1>4. /\ \A w \in Writers : /\ at[w] = "idle" /\ job[w] = None /\ left[w] = {}
                            /\ written[w] = NothingWritten /\ since[w] = 0 /\ row[w] = None
      /\ \A x \in Subjects : NothingWritten[x] = None
  BY DEF Init, NothingWritten
<1>5. drawn \in [Logs -> 0 .. MaxRows] /\ drawn["calls"] = OldCalls
  BY <1>2 DEF Init, Logs
<1>6. TrailTypeOK
  <2>1. subjects \in [Subjects -> Names \cup {Absent, Nameless}]
    BY AuditAssumption DEF Init, AtomicInit
  <2>2. NothingWritten \in [Subjects -> Names \cup {Nameless, None}]
    BY DEF NothingWritten
  <2>3. /\ at \in [Writers -> {"idle", "notes", "row", "commit"}]
        /\ job \in [Writers -> Jobs \cup {None}] /\ left \in [Writers -> SUBSET Subjects]
        /\ written \in [Writers -> [Subjects -> Names \cup {Nameless, None}]]
        /\ row \in [Writers -> Rows \cup {None}]
    BY <2>2 DEF Init
  <2>4. since \in [Writers -> 0 .. MaxRows]
    BY <1>2 DEF Init
  <2> QED BY <1>3, <1>4, <1>5, <2>1, <2>3, <2>4 DEF TrailTypeOK
<1>7. IdsDrawn
  BY <1>3, <1>4, <1>5 DEF IdsDrawn
<1>8. Progress
  BY <1>4 DEF Progress
<1>9. LocksExclude /\ NotesHold /\ NotesInOrder
  BY <1>4 DEF LocksExclude, NotesHold, NotesInOrder, Holds
<1> QED BY <1>6, <1>7, <1>8, <1>9 DEF AuditInv

LEMMA BeginKeeps ==
    ASSUME AuditInv, NEW w \in Writers, NEW j \in Jobs, Begin(w, j)
    PROVE  AuditInv'
<1> USE DEF AuditInv
<1>1. /\ at[w] = "idle" /\ row[w] = None /\ written[w] = NothingWritten
      /\ \A x \in Subjects : written[w][x] = None
  BY DEF TrailTypeOK, NothingWritten, Begin
<1>2. /\ at' = [at EXCEPT ![w] = "notes"] /\ job' = [job EXCEPT ![w] = j]
      /\ left' = [left EXCEPT ![w] = Notes(j)]
      /\ subjects' = subjects /\ logged' = logged /\ written' = written
      /\ row' = row /\ drawn' = drawn
  BY DEF Begin
<1>3. /\ at'[w] = "notes" /\ job'[w] = j /\ left'[w] = Notes(j)
      /\ \A v \in Writers \ {w} : at'[v] = at[v] /\ job'[v] = job[v] /\ left'[v] = left[v]
  BY <1>2 DEF TrailTypeOK
<1>4. Notes(j) \subseteq Subjects /\ j # None
  BY JobFacts
<1>5. TrailTypeOK'
  <2>1. since' \in [Writers -> 0 .. MaxRows]
    <3>1. LogOf(j) # None => drawn[LogOf(j)] \in 0 .. MaxRows
      BY JobFacts DEF TrailTypeOK
    <3>2. since' = [since EXCEPT ![w] = IF LogOf(j) = None THEN 0 ELSE drawn[LogOf(j)]]
      BY DEF Begin
    <3>3. 0 \in 0 .. MaxRows
      BY AuditAssumption
    <3> QED BY <3>1, <3>2, <3>3 DEF TrailTypeOK
  <2>2. at' \in [Writers -> {"idle", "notes", "row", "commit"}]
    BY <1>2 DEF TrailTypeOK
  <2>3. job' \in [Writers -> Jobs \cup {None}] /\ left' \in [Writers -> SUBSET Subjects]
    BY <1>2, <1>4 DEF TrailTypeOK
  <2> QED BY <1>2, <1>3, <1>4, <2>1, <2>2, <2>3 DEF TrailTypeOK, NothingWritten
<1>6. IdsDrawn'
  BY <1>2 DEF IdsDrawn
<1>7. Progress'
  BY <1>1, <1>2, <1>3 DEF Progress
<1>8. LocksExclude'
  BY <1>2 DEF LocksExclude, Holds
<1>9. NotesHold'
  BY <1>1, <1>2, <1>3, <1>4 DEF NotesHold, Holds
<1>10. NotesInOrder'
  BY <1>1, <1>2, <1>3 DEF NotesInOrder, Holds
<1> QED BY <1>5, <1>6, <1>7, <1>8, <1>9, <1>10

LEMMA NoteKeeps ==
    ASSUME AuditInv, NEW w \in Writers, NEW x \in Subjects, Note(w, x)
    PROVE  AuditInv'
<1> USE DEF AuditInv
<1> DEFINE J == job[w]
<1>1. /\ at[w] = "notes" /\ x \in left[w] /\ \A y \in left[w] : ~Earlier(y, x)
      /\ \A v \in Writers : ~Blocks(v, w, x)
  BY DEF Note, NextNote
<1>2. /\ left' = [left EXCEPT ![w] = left[w] \ {x}]
      /\ subjects' = subjects /\ logged' = logged /\ at' = at /\ job' = job
      /\ since' = since /\ row' = row /\ drawn' = drawn
  BY DEF Note
<1>3. /\ left'[w] = left[w] \ {x}
      /\ \A v \in Writers \ {w} : left'[v] = left[v] /\ written'[v] = written[v]
      /\ \A y \in Subjects \ {x} : written'[w][y] = written[w][y]
  BY <1>2 DEF Note, TrailTypeOK
<1>4. J \in Jobs /\ left[w] \subseteq Notes(J)
  BY <1>1 DEF TrailTypeOK, NotesHold
<1>5. /\ Ignores(w, x) => written' = written
      /\ ~Ignores(w, x) => written' = [written EXCEPT ![w][x] = Named(subjects[x], NameIn(J, x))]
  BY DEF Note
<1>6. Named(subjects[x], NameIn(J, x)) \in Names \cup {Nameless}
  BY <1>4, JobFacts, NamedIsAName DEF TrailTypeOK
<1>7. TrailTypeOK'
  <2>1. written' \in [Writers -> [Subjects -> Names \cup {Nameless, None}]]
    <3>1. written \in [Writers -> [Subjects -> Names \cup {Nameless, None}]]
      BY DEF TrailTypeOK
    <3>2. ASSUME NEW n \in Names \cup {Nameless}
          PROVE  [written EXCEPT ![w][x] = n] \in [Writers -> [Subjects -> Names \cup {Nameless, None}]]
      <4> HIDE DEF AuditInv
      <4> QED BY <3>1
    <3> QED BY <1>5, <1>6, <3>1, <3>2
  <2>2. left' \in [Writers -> SUBSET Subjects]
    BY <1>2 DEF TrailTypeOK
  <2>3. \A v \in Writers : at[v] = "idle" => written'[v] = NothingWritten
    BY <1>1, <1>3 DEF TrailTypeOK
  <2>4. /\ subjects \in [Subjects -> Names \cup {Absent, Nameless}] /\ logged \subseteq Rows
        /\ at \in [Writers -> {"idle", "notes", "row", "commit"}]
        /\ \A v \in Writers : /\ (at[v] = "idle") = (job[v] = None)
                              /\ at[v] = "idle" => row[v] = None
        /\ job \in [Writers -> Jobs \cup {None}]
        /\ since \in [Writers -> 0 .. MaxRows]
        /\ row \in [Writers -> Rows \cup {None}]
        /\ drawn \in [Logs -> 0 .. MaxRows]
    BY DEF TrailTypeOK
  <2> QED BY <1>2, <2>1, <2>2, <2>3, <2>4 DEF TrailTypeOK, NothingWritten
<1>8. written'[w][x] = IF Ignores(w, x) THEN written[w][x] ELSE Named(subjects[x], NameIn(J, x))
  BY <1>5 DEF TrailTypeOK
<1>9. \A v \in Writers \ {w} : Holds(v, x) => Ignores(w, x)
  BY <1>1 DEF Blocks
<1>10. Ignores(w, x) => NameIn(J, x) = Nameless /\ subjects[x] # Absent
  BY DEF Ignores, NameIn
<1>11. IdsDrawn' /\ Progress'
  <2>1. IdsDrawn'
    BY <1>2 DEF IdsDrawn
  <2>2. Progress'
    BY <1>1, <1>2, <1>3 DEF Progress
  <2> QED BY <2>1, <2>2
<1>12. LocksExclude'
  <2> SUFFICES ASSUME NEW p \in Writers, NEW q \in Writers, NEW y \in Subjects, p # q,
                      written'[p][y] # None, written'[q][y] # None
               PROVE  FALSE
    BY DEF LocksExclude, Holds
  <2>1. y = x /\ (p = w \/ q = w) /\ ~Ignores(w, x)
    BY <1>3, <1>5, <1>8 DEF LocksExclude, Holds
  <2> QED BY <2>1, <1>3, <1>9 DEF Holds
<1>13. NotesHold'
  <2> SUFFICES ASSUME NEW v \in Writers, at[v] # "idle"
               PROVE  /\ left'[v] \subseteq Notes(job[v])
                      /\ \A y \in Subjects :
                            /\ written'[v][y] # None =>
                                  /\ y \in Notes(job[v])
                                  /\ written'[v][y] = Named(subjects[y], NameIn(job[v], y))
                            /\ y \in Notes(job[v]) \ left'[v] /\ written'[v][y] = None
                                  => NameIn(job[v], y) = Nameless /\ subjects[y] # Absent
    BY <1>2 DEF NotesHold, Holds
  <2>1. CASE v # w
    BY <2>1, <1>3 DEF NotesHold, Holds
  <2>2. CASE v = w
    <3>1. left'[v] \subseteq Notes(job[v])
      BY <2>2, <1>3, <1>4
    <3>2. ASSUME NEW y \in Subjects
          PROVE  /\ written'[v][y] # None =>
                        /\ y \in Notes(job[v])
                        /\ written'[v][y] = Named(subjects[y], NameIn(job[v], y))
                 /\ y \in Notes(job[v]) \ left'[v] /\ written'[v][y] = None
                        => NameIn(job[v], y) = Nameless /\ subjects[y] # Absent
      <4>1. CASE y # x
        BY <2>2, <4>1, <1>3 DEF NotesHold, Holds
      <4>2. CASE y = x /\ ~Ignores(w, x)
        BY <2>2, <4>2, <1>1, <1>4, <1>6, <1>8, AuditAssumption
      <4>3. CASE y = x /\ Ignores(w, x)
        BY <2>2, <4>3, <1>1, <1>4, <1>8, <1>10 DEF NotesHold, Holds
      <4> QED BY <4>1, <4>2, <4>3
    <3> QED BY <3>1, <3>2
  <2> QED BY <2>1, <2>2
<1>14. NotesInOrder'
  <2> SUFFICES ASSUME NEW v \in Writers, NEW p \in Subjects, NEW q \in left'[v],
                      written'[v][p] # None
               PROVE  Earlier(p, q)
    BY DEF NotesInOrder, Holds
  <2>1. CASE v # w \/ p # x \/ Ignores(w, x)
    BY <2>1, <1>3, <1>8 DEF NotesInOrder, Holds
  <2>2. CASE v = w /\ p = x /\ ~Ignores(w, x)
    <3>1. q \in left[w] /\ q # x
      BY <2>2, <1>3
    <3>2. q \in Notes(J) /\ x \in Notes(J) /\ ~Earlier(q, x)
      BY <3>1, <1>1, <1>4
    <3> QED BY <2>2, <3>1, <3>2, <1>4, NotesAreOrdered
  <2> QED BY <2>1, <2>2
<1> QED BY <1>7, <1>11, <1>12, <1>13, <1>14

LEMMA NotesDoneKeeps ==
    ASSUME AuditInv, NEW w \in Writers, NotesDone(w)
    PROVE  AuditInv'
<1> USE DEF AuditInv
<1>1. /\ at[w] = "notes" /\ left[w] = {} /\ row[w] = None
      /\ at' = [at EXCEPT ![w] = IF LogOf(job[w]) = None THEN "commit" ELSE "row"]
      /\ subjects' = subjects /\ logged' = logged /\ job' = job /\ left' = left
      /\ written' = written /\ since' = since /\ row' = row /\ drawn' = drawn
  BY DEF NotesDone, Progress
<1>2. /\ at'[w] = IF LogOf(job[w]) = None THEN "commit" ELSE "row"
      /\ \A v \in Writers \ {w} : at'[v] = at[v]
  BY <1>1 DEF TrailTypeOK
<1>3. TrailTypeOK'
  <2>1. at' \in [Writers -> {"idle", "notes", "row", "commit"}]
    BY <1>1 DEF TrailTypeOK
  <2> QED BY <1>1, <1>2, <2>1 DEF TrailTypeOK, NothingWritten
<1>4. IdsDrawn' /\ LocksExclude' /\ NotesInOrder'
  BY <1>1 DEF IdsDrawn, LocksExclude, NotesInOrder, Holds
<1>5. Progress'
  BY <1>1, <1>2 DEF Progress
<1>6. NotesHold'
  BY <1>1, <1>2 DEF NotesHold, Holds
<1> QED BY <1>3, <1>4, <1>5, <1>6

LEMMA InsertRowKeeps ==
    ASSUME AuditInv, NEW w \in Writers, InsertRow(w)
    PROVE  AuditInv'
<1> USE DEF AuditInv
<1> DEFINE L == LogOf(job[w])
<1> DEFINE R == Row(job[w], drawn[L] + 1, since[w])
<1>1. /\ at[w] = "row" /\ RowsLeft
      /\ at' = [at EXCEPT ![w] = "commit"] /\ drawn' = [drawn EXCEPT ![L] = @ + 1]
      /\ row' = [row EXCEPT ![w] = R]
      /\ subjects' = subjects /\ logged' = logged /\ job' = job /\ left' = left
      /\ written' = written /\ since' = since
  BY DEF InsertRow
<1>2. L # None /\ left[w] = {} /\ job[w] \in Jobs
  BY <1>1 DEF Progress, TrailTypeOK
<1>3. L \in Logs /\ MaxRows \in Nat /\ drawn \in [Logs -> 0 .. MaxRows]
  BY <1>2, JobFacts, AuditAssumption DEF TrailTypeOK
<1>4. drawn[L] + 1 \in 1 .. MaxRows
  <2>1. drawn["calls"] + drawn["admin"] < MaxRows
    BY <1>1 DEF RowsLeft
  <2>2. drawn["calls"] \in Nat /\ drawn["admin"] \in Nat /\ (L = "calls" \/ L = "admin")
    BY <1>3 DEF Logs
  <2> QED BY <2>1, <2>2, <1>3
<1>5. R \in Rows /\ R # None
  <2>1. since[w] \in 0 .. MaxRows
    BY DEF TrailTypeOK
  <2> QED BY <2>1, <1>2, <1>4, JobFacts, NoneIsNoRow
<1>6. R.log = L /\ R.id = drawn[L] + 1 /\ R.at = since[w]
  BY DEF Row
<1> HIDE DEF R, L
<1>7. /\ row'[w] = R /\ at'[w] = "commit" /\ drawn'[L] = drawn[L] + 1
      /\ \A v \in Writers \ {w} : row'[v] = row[v] /\ at'[v] = at[v]
      /\ \A l \in Logs \ {L} : drawn'[l] = drawn[l]
  BY <1>1, <1>3 DEF TrailTypeOK
<1>8. \A l \in Logs : drawn[l] \in Nat /\ drawn'[l] \in Nat /\ drawn[l] <= drawn'[l]
  BY <1>3, <1>7
<1>9. TrailTypeOK'
  <2>1. at' \in [Writers -> {"idle", "notes", "row", "commit"}]
    BY <1>1 DEF TrailTypeOK
  <2>2. row' \in [Writers -> Rows \cup {None}]
    BY <1>1, <1>5 DEF TrailTypeOK
  <2>3. drawn' \in [Logs -> 0 .. MaxRows]
    BY <1>1, <1>3, <1>4, <1>8
  <2> QED BY <1>1, <1>7, <2>1, <2>2, <2>3 DEF TrailTypeOK, NothingWritten
<1>10. /\ \A r \in logged : r.log \in Logs /\ r.id \in Nat /\ r.id <= drawn[r.log]
       /\ \A v \in Writers : row[v] # None =>
             row[v].log \in Logs /\ row[v].id \in Nat /\ row[v].id <= drawn[row[v].log]
  BY DEF TrailTypeOK, IdsDrawn, Rows
<1>11. IdsDrawn'
  <2>1. \A r \in logged : r.id <= drawn'[r.log] /\ (r.log = L => r.id # R.id)
    BY <1>3, <1>6, <1>7, <1>8, <1>10
  <2>2. \A v \in Writers \ {w} : row[v] # None =>
           row[v].id <= drawn'[row[v].log] /\ (row[v].log = L => row[v].id # R.id)
    BY <1>3, <1>6, <1>7, <1>8, <1>10
  <2>3. R.id <= drawn'[R.log]
    BY <1>3, <1>6, <1>7, <1>8
  <2>4. \A v \in Writers \ {w} : row[v] # None =>
           /\ \A r \in logged : r.log = row[v].log => r.id # row[v].id
           /\ \A u \in Writers \ {v} :
                 row[u] # None /\ row[u].log = row[v].log => row[u].id # row[v].id
    BY DEF IdsDrawn
  <2> QED BY <1>1, <1>6, <1>7, <2>1, <2>2, <2>3, <2>4 DEF IdsDrawn
<1>12. Progress'
  <2>1. R = Row(job[w], R.id, R.at)
    BY <1>6 DEF R, L
  <2>2. LogOf(job[w]) # None
    BY <1>2 DEF L
  <2> QED BY <1>1, <1>2, <1>5, <1>7, <2>1, <2>2 DEF Progress
<1>13. LocksExclude' /\ NotesInOrder'
  BY <1>1 DEF LocksExclude, NotesInOrder, Holds
<1>14. NotesHold'
  BY <1>1, <1>7 DEF NotesHold, Holds
<1> QED BY <1>9, <1>11, <1>12, <1>13, <1>14

\* A transaction ends, and of what is committed nothing or only what it holds has changed.
LEMMA EndKeeps ==
    ASSUME AuditInv, NEW w \in Writers, at[w] # "idle", Ends(w),
           \/ subjects' = subjects /\ logged' = logged
           \/ Commit(w)
    PROVE  AuditInv'
<1> USE DEF AuditInv
<1>1. /\ at' = [at EXCEPT ![w] = "idle"] /\ job' = [job EXCEPT ![w] = None]
      /\ left' = [left EXCEPT ![w] = {}] /\ written' = [written EXCEPT ![w] = NothingWritten]
      /\ since' = [since EXCEPT ![w] = 0] /\ row' = [row EXCEPT ![w] = None] /\ drawn' = drawn
  BY DEF Ends
<1>2. /\ at'[w] = "idle" /\ job'[w] = None /\ left'[w] = {} /\ row'[w] = None
      /\ written'[w] = NothingWritten
      /\ \A x \in Subjects : written'[w][x] = None
      /\ \A v \in Writers \ {w} : /\ at'[v] = at[v] /\ job'[v] = job[v] /\ left'[v] = left[v]
                                  /\ written'[v] = written[v] /\ row'[v] = row[v]
  BY <1>1 DEF TrailTypeOK, NothingWritten
<1>3. /\ subjects' \in [Subjects -> Names \cup {Absent, Nameless}]
      /\ \A x \in Subjects : ~Holds(w, x) => subjects'[x] = subjects[x]
      /\ \A x \in Subjects : subjects[x] # Absent => subjects'[x] # Absent
  <2>1. CASE subjects' = subjects
    BY <2>1 DEF TrailTypeOK
  <2>2. CASE Commit(w)
    <3>1. subjects' = [x \in Subjects |-> IF Holds(w, x) THEN written[w][x] ELSE subjects[x]]
      BY <2>2 DEF Commit
    <3>2. \A x \in Subjects : Holds(w, x) => written[w][x] \in Names \cup {Nameless}
      BY DEF Holds, TrailTypeOK
    <3>3. Absent \notin Names \cup {Nameless}
      BY AuditAssumption
    <3>4. \A x \in Subjects : subjects[x] \in Names \cup {Absent, Nameless}
      BY DEF TrailTypeOK
    <3> QED BY <3>1, <3>2, <3>3, <3>4
  <2> QED BY <2>1, <2>2
<1>4. /\ \A r \in logged' : r \in logged \/ (row[w] # None /\ r = row[w])
      /\ logged' \subseteq Rows
  BY DEF Commit, TrailTypeOK
<1>5. TrailTypeOK'
  <2>1. at' \in [Writers -> {"idle", "notes", "row", "commit"}]
    BY <1>1 DEF TrailTypeOK
  <2>2. NothingWritten \in [Subjects -> Names \cup {Nameless, None}]
    BY DEF NothingWritten
  <2>3. written' \in [Writers -> [Subjects -> Names \cup {Nameless, None}]]
    BY <1>1, <2>2 DEF TrailTypeOK
  <2>4. /\ job' \in [Writers -> Jobs \cup {None}] /\ left' \in [Writers -> SUBSET Subjects]
        /\ row' \in [Writers -> Rows \cup {None}]
    BY <1>1 DEF TrailTypeOK
  <2>5. since' \in [Writers -> 0 .. MaxRows]
    BY <1>1, AuditAssumption DEF TrailTypeOK
  <2>6. drawn' \in [Logs -> 0 .. MaxRows]
    BY <1>1 DEF TrailTypeOK
  <2>7. \A v \in Writers : /\ (at'[v] = "idle") = (job'[v] = None)
                           /\ at'[v] = "idle" => written'[v] = NothingWritten /\ row'[v] = None
    BY <1>2 DEF TrailTypeOK
  <2>8. logged' \subseteq Rows
    BY <1>4
  <2>9. subjects' \in [Subjects -> Names \cup {Absent, Nameless}]
    BY <1>3
  <2> QED BY <2>1, <2>3, <2>4, <2>5, <2>6, <2>7, <2>8, <2>9 DEF TrailTypeOK, NothingWritten
<1>6. IdsDrawn'
  <2>1. \A r \in logged' : r.id <= drawn[r.log]
    BY <1>4 DEF IdsDrawn
  <2>2. ASSUME NEW v \in Writers, row'[v] # None
        PROVE  /\ v # w /\ row'[v].id <= drawn[row'[v].log]
               /\ \A r \in logged' : r.log = row'[v].log => r.id # row'[v].id
               /\ \A u \in Writers \ {v} :
                     row'[u] # None /\ row'[u].log = row'[v].log => row'[u].id # row'[v].id
    <3>1. v # w /\ row'[v] = row[v] /\ row[v] # None
      BY <2>2, <1>2
    <3>2. /\ row[v].id <= drawn[row[v].log]
          /\ \A r \in logged : r.log = row[v].log => r.id # row[v].id
          /\ \A u \in Writers \ {v} :
                row[u] # None /\ row[u].log = row[v].log => row[u].id # row[v].id
      BY <3>1 DEF IdsDrawn
    <3> QED BY <3>1, <3>2, <1>2, <1>4
  <2> QED BY <2>1, <2>2, <1>1 DEF IdsDrawn
<1>7. Progress'
  BY <1>2 DEF Progress
<1>8. LocksExclude'
  BY <1>2 DEF LocksExclude, Holds
<1>9. NotesHold'
  <2> SUFFICES ASSUME NEW v \in Writers, at'[v] # "idle"
               PROVE  /\ left'[v] \subseteq Notes(job'[v])
                      /\ \A y \in Subjects :
                            /\ written'[v][y] # None =>
                                  /\ y \in Notes(job'[v])
                                  /\ written'[v][y] = Named(subjects'[y], NameIn(job'[v], y))
                            /\ y \in Notes(job'[v]) \ left'[v] /\ written'[v][y] = None
                                  => NameIn(job'[v], y) = Nameless /\ subjects'[y] # Absent
    BY DEF NotesHold, Holds
  <2>1. v # w /\ at[v] # "idle" /\ job'[v] = job[v] /\ left'[v] = left[v] /\ written'[v] = written[v]
    BY <1>2
  <2>2. \A y \in Subjects : written[v][y] # None => subjects'[y] = subjects[y]
    BY <2>1, <1>3 DEF LocksExclude, Holds
  <2> QED BY <2>1, <2>2, <1>3 DEF NotesHold, Holds
<1>10. NotesInOrder'
  BY <1>2 DEF NotesInOrder, Holds
<1> QED BY <1>5, <1>6, <1>7, <1>8, <1>9, <1>10

LEMMA InvHolds == AuditInv /\ [Next]_trail => AuditInv'
<1> SUFFICES ASSUME AuditInv, [Next]_trail PROVE AuditInv'
  OBVIOUS
<1>1. ASSUME NEW w \in Writers, NEW j \in Jobs, Begin(w, j) PROVE AuditInv'
  BY <1>1, BeginKeeps
<1>2. ASSUME NEW w \in Writers, NEW x \in Subjects, Note(w, x) PROVE AuditInv'
  BY <1>2, NoteKeeps
<1>3. ASSUME NEW w \in Writers, NotesDone(w) PROVE AuditInv'
  BY <1>3, NotesDoneKeeps
<1>4. ASSUME NEW w \in Writers, InsertRow(w) PROVE AuditInv'
  BY <1>4, InsertRowKeeps
<1>5. ASSUME NEW w \in Writers, Abort(w) PROVE AuditInv'
  BY <1>5, EndKeeps DEF Abort
<1>6. ASSUME NEW w \in Writers, Commit(w) PROVE AuditInv'
  BY <1>6, EndKeeps DEF Commit
<1>7. CASE UNCHANGED trail
  BY <1>7 DEF trail, writers, AuditInv, TrailTypeOK, IdsDrawn, Progress, LocksExclude, NotesHold,
       NotesInOrder, Holds, NothingWritten
<1> QED BY <1>1, <1>2, <1>3, <1>4, <1>5, <1>6, <1>7 DEF Next, Write

\* Any run of the transactions keeps the invariant, and with it their types.
THEOREM TrailTypeCorrect == Spec => []AuditInv
BY InvAtFirst, InvHolds, PTL DEF Spec

--------------------------------------------------------------------------------
(* They record at once *)

LEMMA CommitRecords ==
    ASSUME AuditInv, NEW w \in Writers, Commit(w)
    PROVE  AtomicNext
<1> DEFINE J == job[w]
<1>1. /\ at[w] = "commit" /\ J \in Jobs
      /\ subjects' = [x \in Subjects |-> IF Holds(w, x) THEN written[w][x] ELSE subjects[x]]
      /\ logged' = IF row[w] = None THEN logged ELSE logged \cup {row[w]}
  BY DEF AuditInv, TrailTypeOK, Commit
<1>2. Remembers(J)
  <2>1. ASSUME NEW x \in Subjects
        PROVE  (IF Holds(w, x) THEN written[w][x] ELSE subjects[x])
                 = (IF x \in Notes(J) THEN Named(subjects[x], NameIn(J, x)) ELSE subjects[x])
    <3>1. left[w] = {}
      BY <1>1 DEF AuditInv, Progress
    <3>2. CASE Holds(w, x)
      BY <3>2, <1>1 DEF AuditInv, NotesHold
    <3>3. CASE ~Holds(w, x) /\ x \in Notes(J)
      <4>1. NameIn(J, x) = Nameless /\ subjects[x] # Absent
        BY <3>1, <3>3, <1>1 DEF AuditInv, NotesHold
      <4> QED BY <4>1, <3>3 DEF Named
    <3>4. CASE ~Holds(w, x) /\ x \notin Notes(J)
      BY <3>4
    <3> QED BY <3>2, <3>3, <3>4
  <2> QED BY <2>1, <1>1 DEF Remembers
<1>3. RecordsRow(J)
  <2>1. CASE LogOf(J) = None
    BY <2>1, <1>1 DEF AuditInv, Progress, RecordsRow
  <2>2. CASE LogOf(J) # None
    <3>1. row[w] # None /\ row[w] \in Rows
      BY <2>2, <1>1 DEF AuditInv, Progress, TrailTypeOK
    <3>2. row[w] = Row(J, row[w].id, row[w].at) /\ row[w].log = LogOf(J)
      BY <3>1 DEF AuditInv, Progress, Row
    <3>3. \A q \in logged : q.log = row[w].log => q.id # row[w].id
      BY <3>1 DEF AuditInv, IdsDrawn
    <3>4. row[w] \in logged' \ logged /\ logged' = logged \cup {row[w]}
      BY <3>1, <3>3, <1>1
    <3> QED BY <2>2, <3>2, <3>3, <3>4 DEF RecordsRow
  <2> QED BY <2>1, <2>2
<1> QED BY <1>1, <1>2, <1>3 DEF AtomicNext

LEMMA StepsRecord == AuditInv /\ [Next]_trail => [AtomicNext]_<<logged, subjects>>
<1> SUFFICES ASSUME AuditInv, [Next]_trail, ~UNCHANGED <<logged, subjects>> PROVE AtomicNext
  OBVIOUS
<1>1. PICK w \in Writers : Commit(w)
  BY DEF Next, Write, trail, Begin, Note, NotesDone, InsertRow, Abort
<1> QED BY <1>1, CommitRecords

--------------------------------------------------------------------------------
(* They do not wait in a circle *)

\* A bounded set of numbers has a greatest one.
LEMMA Greatest ==
    ASSUME NEW S \in SUBSET Nat, S # {}, NEW n \in Nat, \A i \in S : i <= n
    PROVE  \E m \in S : \A i \in S : i <= m
<1> DEFINE Above(i) == {k \in S : i < k}
<1> DEFINE T == {Above(i) : i \in S}
<1>1. T \subseteq FiniteSubsetsOf(S) /\ T # {}
  <2>1. IsFiniteSet(S)
    BY FS_BoundedSetOfNaturals
  <2>2. \A A \in SUBSET S : IsFiniteSet(A)
    BY <2>1, FS_Subset
  <2> QED BY <2>2 DEF FiniteSubsetsOf
<1>2. PICK A \in T : \A B \in T : ~(<<B, A>> \in StrictSubsetOrdering(S))
  <2>1. IsWellFoundedOn(StrictSubsetOrdering(S), FiniteSubsetsOf(S))
    BY FS_StrictSubsetOrderingWellFounded
  <2> HIDE DEF T
  <2> QED BY <1>1, <2>1, WFMin
<1>3. PICK m \in S : A = Above(m)
  OBVIOUS
<1>4. ASSUME NEW i \in S, ~(i <= m) PROVE FALSE
  <2>0. S \subseteq Nat /\ i \in Nat /\ m \in Nat /\ m < i
    BY <1>3, <1>4
  <2>1. Above(i) \subseteq A /\ i \in A /\ i \notin Above(i)
    <3>1. \A k \in Above(i) : k \in S /\ m < k
      BY <2>0
    <3>2. ~(i < i)
      BY <2>0
    <3> QED BY <3>1, <3>2, <2>0, <1>3
  <2>2. <<Above(i), A>> \in StrictSubsetOrdering(S)
    BY <2>1, <1>3 DEF StrictSubsetOrdering
  <2> QED BY <2>2, <1>2
<1> QED BY <1>4

LEMMA NoCircle == AuditInv => NoWaitInACircle
<1> SUFFICES ASSUME AuditInv, NEW S \in SUBSET Writers, S # {},
                    \A w \in S : \E v \in S : WaitsFor(w, v)
             PROVE  FALSE
  BY DEF NoWaitInACircle
<1> DEFINE Awaited(w, x) ==
             NextNote(w, x) /\ \E v \in S : Blocks(v, w, x)
<1> DEFINE R == {r \in Roles : \E w \in S : Awaited(w, Role(r))}
<1>1. \A w \in S : \E x \in Subjects : Awaited(w, x)
  BY DEF WaitsFor
<1>2. ASSUME NEW w \in S, NEW x \in Subjects, Awaited(w, x)
      PROVE  \E q \in R : Earlier(x, Role(q))
  <2>1. PICK v \in S : Holds(v, x)
    BY <1>2 DEF Blocks
  <2>2. PICK y \in Subjects : Awaited(v, y)
    BY <1>1
  <2>3. y \in left[v]
    BY <2>2 DEF NextNote
  <2>4. Earlier(x, y)
    BY <2>1, <2>3 DEF AuditInv, NotesInOrder
  <2>5. y[1] = "role"
    BY <2>4 DEF Earlier
  <2>6. PICK q \in Roles : y = Role(q)
    BY <2>5 DEF Subjects, User
  <2> QED BY <2>2, <2>4, <2>6
<1>3. R \in SUBSET Nat /\ \E n \in Nat : \A i \in R : i <= n
  BY AuditAssumption
<1>4. R # {}
  BY <1>1, <1>2
<1>5. PICK m \in R : \A i \in R : i <= m
  <2> HIDE DEF R
  <2> QED BY <1>3, <1>4, Greatest
<1>6. PICK w \in S : Awaited(w, Role(m))
  OBVIOUS
<1>7. Role(m) \in Subjects
  BY DEF Subjects
<1>8. PICK q \in R : Earlier(Role(m), Role(q))
  BY <1>2, <1>6, <1>7
<1>9. m < q
  BY <1>8 DEF Earlier, Role
<1> QED BY <1>3, <1>5, <1>9

--------------------------------------------------------------------------------
(* The theorems, of the transactions and of the screen over them *)

\* Paging through a log writes nothing.
LEMMA PagesOnlyRead == PagesSpec => Spec
<1>1. PagesInit => Init
  BY DEF PagesInit
<1>2. [PagesNext]_vars => [Next]_trail
  BY DEF PagesNext, vars, Open, Count, List, NextPage, PreviousPage, Turn
<1> QED BY <1>1, <1>2, PTL DEF PagesSpec, Spec

\* Each transaction leaves its row and its subjects at once or nothing at all, and forgets no
\* name, whatever other transactions do: write_audit, me and log_change implement AtomicAudit.
THEOREM TransactionsRecordAtOnce == PagesSpec => RecordsAtOnce
<1>1. Init => AtomicInit
  BY DEF Init
<1>2. Spec => AtomicSpec
  BY <1>1, InvAtFirst, InvHolds, StepsRecord, PTL DEF Spec, AtomicSpec
<1> QED BY <1>2, PagesOnlyRead, PTL DEF RecordsAtOnce

\* However many calls, sign-ins and changes of the console remember subjects at once, they
\* never wait for each other in a circle, because audit_service sorts the roles of a caller.
THEOREM NobodyWaitsInACircle == PagesSpec => []NoWaitInACircle
BY TrailTypeCorrect, NoCircle, PagesOnlyRead, PTL

--------------------------------------------------------------------------------
(* Paging sees every row *)

\* An id is in a log once.
LoggedApart == \A r, q \in logged : r.log = q.log /\ r.id = q.id => r = q

\* The rows the log on screen is read from, and those of them that come before one.
Shown == Selected(pager.log, pager.where)
Ahead(r) == {q \in Shown : Before(q, r, pager.by)}

\* The rows that the pages up to this one have places for.
Passed == (IF pager.pc = "shown" THEN pager.page ELSE pager.page - 1) * PAGE_SIZE

\* A row that was there and has not been seen has still its page ahead: rows that are
\* committed meanwhile can push it back, never forward.
Unseen ==
    /\ \A i \in pager.there : \E r \in Shown : r.id = i
    /\ \A r \in Shown : r.id \in pager.there \ pager.seen => Cardinality(Ahead(r)) >= Passed

PagerInv == AuditInv /\ TypeOK /\ LoggedApart /\ Unseen /\ PagingSeesAll

\* A log has no more rows than ids.
LEMMA LogIsFinite ==
    ASSUME NEW S \in SUBSET Rows, \A r, q \in S : r.id = q.id => r = q
    PROVE  IsFiniteSet(S) /\ Cardinality(S) \in 0 .. MaxRows
<1>2. MaxRows \in Nat /\ \A r \in S : r.id \in 1 .. MaxRows
  BY AuditAssumption DEF Rows
<1>3. \A r, q \in S : r.id = q.id => r = q
  OBVIOUS
<1>4. PICK f : f = [r \in S |-> r.id]
  OBVIOUS
<1>5. f \in Injection(S, 1 .. MaxRows)
  BY <1>2, <1>3, <1>4 DEF Injection, IsInjective
<1>6. IsFiniteSet(1 .. MaxRows) /\ Cardinality(1 .. MaxRows) <= MaxRows
  BY <1>2, FS_Interval
<1>7. IsFiniteSet(S) /\ Cardinality(S) <= Cardinality(1 .. MaxRows)
  BY <1>5, <1>6, FS_Injection
<1>8. Cardinality(S) \in Nat /\ Cardinality(1 .. MaxRows) \in Nat
  BY <1>6, <1>7, FS_CardinalityType
<1> QED BY <1>2, <1>6, <1>7, <1>8

\* So is what is selected of it.
LEMMA ShownRows == TrailTypeOK /\ LoggedApart =>
    Shown \in SUBSET Rows /\ IsFiniteSet(Shown) /\ Cardinality(Shown) \in 0 .. MaxRows
<1> SUFFICES ASSUME TrailTypeOK, LoggedApart
             PROVE  Shown \in SUBSET Rows /\ IsFiniteSet(Shown) /\ Cardinality(Shown) \in 0 .. MaxRows
  OBVIOUS
<1>1. Shown \in SUBSET Rows /\ \A r, q \in Shown : r.id = q.id => r = q
  BY DEF Shown, Selected, TrailTypeOK, LoggedApart
<1> QED BY <1>1, LogIsFinite

\* Of a log, one row comes before the other, and none before itself.
LEMMA RowsAreOrdered ==
    ASSUME TrailTypeOK, LoggedApart, NEW log, NEW where, NEW by \in Sorts,
           NEW p \in Selected(log, where), NEW r \in Selected(log, where)
    PROVE  /\ p # r => Before(p, r, by) \/ Before(r, p, by)
           /\ ~Before(r, r, by)
<1>1. p \in logged /\ r \in logged /\ p.log = r.log /\ p \in Rows /\ r \in Rows
  BY DEF Selected, TrailTypeOK
<1>2. p.id \in Nat /\ r.id \in Nat /\ (p # r => p.id # r.id)
  BY <1>1 DEF Rows, LoggedApart
<1>3. by.column \in {"at", "success"} /\ by.order \in {"asc", "desc"}
  BY PagesAssumption
<1>4. p[by.column] \in Nat /\ r[by.column] \in Nat
  <2>1. p.at \in Nat /\ r.at \in Nat /\ p.success \in Nat /\ r.success \in Nat
    BY <1>1 DEF Rows
  <2> QED BY <2>1, <1>3
<1>5. /\ p.id > r.id \/ r.id > p.id \/ p.id = r.id
      /\ ~(r.id > r.id)
      /\ p[by.column] # r[by.column] =>
            /\ p[by.column] < r[by.column] => ~(r[by.column] < p[by.column])
            /\ p[by.column] < r[by.column] \/ r[by.column] < p[by.column]
  BY <1>2, <1>4
<1>6. p # r => Before(p, r, by) \/ Before(r, p, by)
  <2>1. CASE p[by.column] = r[by.column]
    BY <2>1, <1>2, <1>5 DEF Before
  <2>2. CASE p[by.column] # r[by.column] /\ by.order = "asc"
    BY <2>2, <1>5 DEF Before
  <2>3. CASE p[by.column] # r[by.column] /\ by.order # "asc"
    BY <2>3, <1>5 DEF Before
  <2> QED BY <2>1, <2>2, <2>3
<1> QED BY <1>5, <1>6 DEF Before

\* A skipped row has less rows before it than are skipped.
LEMMA SkippedIsBefore ==
    ASSUME NEW rows, IsFiniteSet(rows), NEW skipped \in SUBSET rows, NEW n \in Nat,
           Cardinality(skipped) = AtMost(n, Cardinality(rows)),
           NEW r \in skipped, NEW ahead \in SUBSET skipped, r \notin ahead
    PROVE  ~(Cardinality(ahead) >= n)
<1>1. /\ IsFiniteSet(skipped) /\ IsFiniteSet(ahead)
      /\ Cardinality(ahead) <= Cardinality(skipped)
      /\ Cardinality(ahead) # Cardinality(skipped)
  BY FS_Subset
<1>2. Cardinality(skipped) \in Nat /\ Cardinality(ahead) \in Nat /\ Cardinality(rows) \in Nat
  BY <1>1, FS_CardinalityType
<1>3. Cardinality(skipped) <= n
  BY <1>2 DEF AtMost
<1> QED BY <1>1, <1>2, <1>3

\* A row that is not on a page nor skipped for it has all of those before it.
LEMMA BehindThePage ==
    ASSUME NEW rows, IsFiniteSet(rows), NEW page \in SUBSET rows, NEW n \in Nat,
           Cardinality(page) = AtMost(n, Cardinality(rows)),
           NEW r \in rows \ page, NEW ahead \in SUBSET rows, page \subseteq ahead
    PROVE  Cardinality(ahead) >= n
<1>1. /\ IsFiniteSet(page) /\ IsFiniteSet(ahead)
      /\ Cardinality(page) <= Cardinality(ahead)
      /\ Cardinality(page) # Cardinality(rows)
  BY FS_Subset
<1>2. Cardinality(page) \in Nat /\ Cardinality(ahead) \in Nat /\ Cardinality(rows) \in Nat
  BY <1>1, FS_CardinalityType
<1>3. Cardinality(page) = n
  BY <1>1, <1>2 DEF AtMost
<1> QED BY <1>1, <1>2, <1>3

\* What a statement with LIMIT and OFFSET leaves out and has not skipped before comes later.
LEMMA ServedPages ==
    ASSUME NEW rows, IsFiniteSet(rows), NEW by, NEW page \in Nat \ {0},
           \A p, r \in rows : (p # r => Before(p, r, by) \/ Before(r, p, by)) /\ ~Before(r, r, by),
           NEW S \in Served(rows, by, page), NEW r \in rows \ S,
           Cardinality({q \in rows : Before(q, r, by)}) >= (page - 1) * PAGE_SIZE
    PROVE  Cardinality({q \in rows : Before(q, r, by)}) >= page * PAGE_SIZE
<1> DEFINE ahead == {q \in rows : Before(q, r, by)}
<1>0. /\ PAGE_SIZE \in Nat \ {0} /\ AtMost(PAGE_SIZE, max_page_size) = PAGE_SIZE
      /\ (page - 1) * PAGE_SIZE \in Nat /\ page * PAGE_SIZE \in Nat
  <2>1. /\ PAGE_SIZE \in Nat \ {0} /\ max_page_size \in Nat /\ PAGE_SIZE <= max_page_size
        /\ page - 1 \in Nat
    BY PagesAssumption
  <2> QED BY <2>1 DEF AtMost
<1>1. PICK skipped \in SUBSET (rows \ S) :
        /\ Cardinality(skipped) = AtMost((page - 1) * PAGE_SIZE, Cardinality(rows))
        /\ \A s \in skipped, p \in rows \ skipped : ~Before(p, s, by)
        /\ Cardinality(skipped \cup S) = AtMost(page * PAGE_SIZE, Cardinality(rows))
        /\ \A s \in skipped \cup S, p \in rows \ (skipped \cup S) : ~Before(p, s, by)
  BY <1>0 DEF Served
<1>2. S \subseteq rows /\ ahead \subseteq rows /\ r \notin ahead /\ r \in rows
  BY DEF Served
<1>3. CASE r \in skipped
  <2>1. ahead \subseteq skipped
    BY <1>1, <1>3
  <2>2. ~(Cardinality(ahead) >= (page - 1) * PAGE_SIZE)
    <3> HIDE DEF ahead
    <3> QED BY <1>0, <1>1, <1>2, <1>3, <2>1, SkippedIsBefore
  <2> QED BY <2>2
<1>4. CASE r \notin skipped
  <2>1. r \in rows \ (skipped \cup S) /\ skipped \cup S \subseteq rows
    BY <1>1, <1>2, <1>4
  <2>2. skipped \cup S \subseteq ahead
    BY <1>1, <2>1
  <2>3. Cardinality(ahead) >= page * PAGE_SIZE
    <3> HIDE DEF ahead
    <3>1. PICK T : T = skipped \cup S
      OBVIOUS
    <3> QED BY <1>0, <1>1, <1>2, <2>1, <2>2, <3>1, BehindThePage
  <2> QED BY <2>3
<1> QED BY <1>3, <1>4

\* The last page has a place for the last row.
LEMMA LastPageFacts ==
    ASSUME NEW total \in 0 .. MaxRows
    PROVE  LastPage(total) \in 1 .. MaxRows + 1 /\ LastPage(total) * PAGE_SIZE >= total
<1>0. MaxRows \in Nat /\ PAGE_SIZE \in Nat /\ PAGE_SIZE >= 1 /\ total \in Nat /\ total <= MaxRows
  BY AuditAssumption, PagesAssumption
<1>1. CASE total = 0
  BY <1>0, <1>1 DEF LastPage
<1>2. CASE total # 0
  <2> DEFINE n == total + PAGE_SIZE - 1
  <2> DEFINE q == n \div PAGE_SIZE
  <2>1. /\ q \in Nat /\ n \in Nat
        /\ q * PAGE_SIZE <= n /\ n < q * PAGE_SIZE + PAGE_SIZE
    BY <1>0
  <2>2. q * PAGE_SIZE >= total
    BY <1>0, <2>1
  <2>3. q >= 1 /\ q <= total
    BY <1>0, <1>2, <2>1
  <2> QED BY <1>0, <1>2, <2>1, <2>2, <2>3 DEF LastPage
<1> QED BY <1>1, <1>2
LEMMA PagerAtFirst == PagesInit => PagerInv
<1> SUFFICES ASSUME PagesInit PROVE PagerInv
  OBVIOUS
<1>1. /\ Init /\ opens = 0
      /\ pager = [pc |-> "closed", log |-> "calls", where |-> None, by |-> Newest, page |-> 1,
                  total |-> 0, there |-> {}, seen |-> {}, slipped |-> FALSE]
  BY DEF PagesInit
<1>2. AuditInv /\ TrailTypeOK
  BY <1>1, InvAtFirst DEF AuditInv
<1>3. TypeOK
  <2>1. MaxRows \in Nat /\ MaxOpens \in Nat /\ Newest \in Sorts
    BY AuditAssumption, PagesAssumption
  <2>2. pager \in Pagers /\ opens \in 0 .. MaxOpens
    BY <1>1, <2>1 DEF Pagers, Logs
  <2> QED BY <1>2, <2>2 DEF TypeOK
<1>4. LoggedApart
  <2>1. PICK u \in Users :
            logged = {[log |-> "calls", id |-> i, at |-> 0, sub |-> u, success |-> 1] :
                          i \in 1 .. OldCalls}
    BY <1>1 DEF Init, AtomicInit
  <2> QED BY <2>1 DEF LoggedApart
<1>5. Unseen
  BY <1>1 DEF Unseen
<1>6. PagingSeesAll
  BY <1>1, <1>3 DEF PagingSeesAll
<1> QED BY <1>2, <1>3, <1>4, <1>5, <1>6 DEF PagerInv

\* While transactions go on, rows are only added to those on screen.
LEMMA TrailKeepsPager ==
    ASSUME PagerInv, Next, UNCHANGED <<pager, opens>>
    PROVE  PagerInv'
<1>1. AuditInv /\ AuditInv' /\ TrailTypeOK /\ TrailTypeOK' /\ TypeOK /\ LoggedApart
  BY InvHolds DEF PagerInv, AuditInv
<1>2. \/ logged' = logged
      \/ \E w \in Writers : row[w] # None /\ logged' = logged \cup {row[w]}
  BY DEF Next, Write, Begin, Note, NotesDone, InsertRow, Abort, Commit
<1>3. logged \subseteq logged' /\ LoggedApart'
  <2>1. CASE logged' = logged
    BY <1>1, <2>1 DEF LoggedApart
  <2>2. ASSUME NEW w \in Writers, row[w] # None, logged' = logged \cup {row[w]}
        PROVE  logged \subseteq logged' /\ LoggedApart'
    <3>1. \A r \in logged : r.log = row[w].log => r.id # row[w].id
      BY <1>1, <2>2 DEF AuditInv, IdsDrawn
    <3> QED BY <1>1, <2>2, <3>1 DEF LoggedApart
  <2> QED BY <1>2, <2>1, <2>2
<1>4. TypeOK'
  BY <1>1 DEF TypeOK
<1>5. Shown \subseteq Shown' /\ \A r \in Shown' : r.log = pager.log
  BY <1>3 DEF Shown, Selected
<1>6. IsFiniteSet(Shown')
  <2>1. Shown' \in SUBSET Rows /\ \A r, q \in Shown' : r.id = q.id => r = q
    BY <1>1, <1>3 DEF Shown, Selected, TrailTypeOK, LoggedApart
  <2> QED BY <2>1, LogIsFinite
<1>7. Unseen'
  <2>1. \A i \in pager.there : \E r \in Shown' : r.id = i
    BY <1>5 DEF PagerInv, Unseen
  <2>2. ASSUME NEW r \in Shown', r.id \in pager.there \ pager.seen
        PROVE  Cardinality(Ahead(r)') >= Passed
    <3>1. PICK q \in Shown : q.id = r.id
      BY <2>2 DEF PagerInv, Unseen
    <3>2. q = r
      BY <1>3, <1>5, <3>1 DEF LoggedApart, Shown, Selected
    <3>3. Cardinality(Ahead(r)) >= Passed
      BY <2>2, <3>1, <3>2 DEF PagerInv, Unseen
    <3>4. Ahead(r) \subseteq Ahead(r)' /\ Ahead(r)' \subseteq Shown'
      BY <1>5 DEF Ahead
    <3>5. /\ IsFiniteSet(Ahead(r)') /\ IsFiniteSet(Ahead(r))
          /\ Cardinality(Ahead(r)) <= Cardinality(Ahead(r)')
      BY <1>6, <3>4, FS_Subset
    <3>6. Cardinality(Ahead(r)) \in Nat /\ Cardinality(Ahead(r)') \in Nat
      BY <3>5, FS_CardinalityType
    <3>7. Passed \in Int
      <4>1. pager.page \in Int /\ PAGE_SIZE \in Int
        BY <1>1, AuditAssumption, PagesAssumption DEF TypeOK, Pagers
      <4> QED BY <4>1 DEF Passed
    <3> QED BY <3>3, <3>5, <3>6, <3>7
  <2> QED BY <2>1, <2>2 DEF Unseen, Passed
<1>8. PagingSeesAll'
  BY <1>4 DEF PagerInv, PagingSeesAll, LastPage
<1> QED BY <1>1, <1>3, <1>4, <1>7, <1>8 DEF PagerInv

\* The screen writes nothing.
LEMMA TrailStays ==
    ASSUME PagerInv, UNCHANGED trail
    PROVE  AuditInv' /\ TrailTypeOK' /\ LoggedApart'
<1>1. AuditInv'
  BY InvHolds DEF PagerInv
<1>2. LoggedApart'
  BY DEF PagerInv, LoggedApart, trail
<1> QED BY <1>1, <1>2 DEF AuditInv

LEMMA OpenKeepsPager ==
    ASSUME PagerInv, NEW log \in Logs, NEW where \in Filters, NEW by \in Sorts, Open(log, where, by)
    PROVE  PagerInv'
<1> DEFINE rows == Selected(log, where)
<1>1. /\ opens < MaxOpens /\ opens' = opens + 1 /\ UNCHANGED trail
      /\ pager' = [pc |-> "count", log |-> log, where |-> where, by |-> by, page |-> 1, total |-> 0,
                   there |-> {r.id : r \in rows}, seen |-> {}, slipped |-> FALSE]
  BY DEF Open
<1>2. /\ AuditInv' /\ TrailTypeOK' /\ LoggedApart' /\ logged' = logged
      /\ TrailTypeOK /\ LoggedApart /\ TypeOK
  BY <1>1, TrailStays DEF PagerInv, AuditInv, trail
<1>3. Shown' = rows
  BY <1>1, <1>2 DEF Shown, Selected
<1>4. rows \in SUBSET Rows /\ IsFiniteSet(rows)
  <2>1. rows \in SUBSET Rows /\ \A r, q \in rows : r.id = q.id => r = q
    BY <1>2 DEF Selected, TrailTypeOK, LoggedApart
  <2> QED BY <2>1, LogIsFinite
<1> HIDE DEF rows
<1>5. TypeOK'
  <2>1. {r.id : r \in rows} \in SUBSET (1 .. MaxRows)
    BY <1>4 DEF Rows
  <2>2. MaxRows \in Nat /\ MaxOpens \in Nat /\ opens \in 0 .. MaxOpens
    BY <1>2, AuditAssumption, PagesAssumption DEF TypeOK
  <2>3. pager' \in Pagers
    BY <1>1, <2>1, <2>2 DEF Pagers
  <2>4. opens' \in 0 .. MaxOpens
    BY <1>1, <2>2
  <2> QED BY <1>2, <2>3, <2>4 DEF TypeOK
<1>6. Unseen'
  <2>1. \A i \in pager'.there : \E r \in Shown' : r.id = i
    BY <1>1, <1>3
  <2>2. Passed' = 0
    <3>1. Passed' = (1 - 1) * PAGE_SIZE /\ PAGE_SIZE \in Nat
      BY <1>1, PagesAssumption DEF Passed
    <3> QED BY <3>1
  <2>3. ASSUME NEW r \in Shown' PROVE Cardinality(Ahead(r)') >= 0
    <3>1. Ahead(r)' \in SUBSET rows
      BY <1>3 DEF Ahead
    <3>2. IsFiniteSet(Ahead(r)')
      BY <1>4, <3>1, FS_Subset
    <3> QED BY <3>2, FS_CardinalityType
  <2> QED BY <2>1, <2>2, <2>3 DEF Unseen
<1>7. PagingSeesAll'
  BY <1>1, <1>5 DEF PagingSeesAll
<1> QED BY <1>2, <1>5, <1>6, <1>7 DEF PagerInv

\* A step of the screen within one log shows the same rows.
LEMMA SameRows ==
    ASSUME UNCHANGED trail, pager'.log = pager.log, pager'.where = pager.where, pager'.by = pager.by
    PROVE  Shown' = Shown /\ \A r : Ahead(r)' = Ahead(r)
<1>1. Shown' = Shown
  BY DEF Shown, Selected, trail
<1> QED BY <1>1 DEF Ahead

LEMMA CountKeepsPager ==
    ASSUME PagerInv, Count
    PROVE  PagerInv'
<1>1. /\ pager.pc = "count" /\ UNCHANGED <<trail, opens>>
      /\ pager' = [pager EXCEPT !.pc = "list", !.total = Cardinality(Shown)]
  BY DEF Count, Shown
<1>2. /\ AuditInv' /\ TrailTypeOK' /\ LoggedApart'
      /\ TrailTypeOK /\ LoggedApart /\ TypeOK /\ Unseen
  BY <1>1, TrailStays DEF PagerInv, AuditInv
<1>3. /\ pager'.pc = "list" /\ pager'.page = pager.page /\ pager'.log = pager.log
      /\ pager'.where = pager.where /\ pager'.by = pager.by
      /\ pager'.there = pager.there /\ pager'.seen = pager.seen
  BY <1>1, <1>2 DEF TypeOK, Pagers
<1>4. Shown' = Shown /\ \A r : Ahead(r)' = Ahead(r)
  BY <1>1, <1>3, SameRows
<1>5. TypeOK'
  <2>1. Cardinality(Shown) \in 0 .. MaxRows
    BY <1>2, ShownRows
  <2>2. pager' \in Pagers
    BY <1>1, <1>2, <2>1 DEF TypeOK, Pagers
  <2> QED BY <1>1, <1>2, <2>2 DEF TypeOK
<1>6. Passed' = Passed
  BY <1>1, <1>3 DEF Passed
<1>7. Unseen'
  BY <1>2, <1>3, <1>4, <1>6 DEF Unseen
<1>8. PagingSeesAll'
  BY <1>3, <1>5 DEF PagingSeesAll
<1> QED BY <1>2, <1>5, <1>7, <1>8 DEF PagerInv

LEMMA TurnKeepsPager ==
    ASSUME PagerInv, NEW to \in 1 .. MaxRows + 1, to <= pager.page + 1, Turn(to)
    PROVE  PagerInv'
<1>1. /\ pager.pc = "shown" /\ UNCHANGED <<trail, opens>>
      /\ pager' = [pager EXCEPT !.pc = "count", !.page = to]
  BY DEF Turn
<1>2. /\ AuditInv' /\ TrailTypeOK' /\ LoggedApart'
      /\ TrailTypeOK /\ LoggedApart /\ TypeOK /\ Unseen
  BY <1>1, TrailStays DEF PagerInv, AuditInv
<1>3. /\ pager'.pc = "count" /\ pager'.page = to /\ pager'.log = pager.log
      /\ pager'.where = pager.where /\ pager'.by = pager.by
      /\ pager'.there = pager.there /\ pager'.seen = pager.seen
  BY <1>1, <1>2 DEF TypeOK, Pagers
<1>4. Shown' = Shown /\ \A r : Ahead(r)' = Ahead(r)
  BY <1>1, <1>3, SameRows
<1>5. TypeOK'
  <2>1. pager' \in Pagers
    BY <1>1, <1>2 DEF TypeOK, Pagers
  <2> QED BY <1>1, <1>2, <2>1 DEF TypeOK
<1>6. Passed' <= Passed /\ Passed \in Int /\ Passed' \in Int
  <2>1. /\ to \in Nat /\ to >= 1 /\ to - 1 <= pager.page /\ pager.page \in Nat
        /\ PAGE_SIZE \in Nat
    BY <1>2, AuditAssumption, PagesAssumption DEF TypeOK, Pagers
  <2>2. Passed = pager.page * PAGE_SIZE /\ Passed' = (to - 1) * PAGE_SIZE
    BY <1>1, <1>3 DEF Passed
  <2>3. \A m, n, l \in Nat : m <= n => m * l <= n * l
    OBVIOUS
  <2> QED BY <2>1, <2>2, <2>3
<1>7. Unseen'
  <2>1. ASSUME NEW r \in Shown', r.id \in pager'.there \ pager'.seen
        PROVE  Cardinality(Ahead(r)') >= Passed'
    <3>1. Cardinality(Ahead(r)) >= Passed /\ Ahead(r)' = Ahead(r) /\ r \in Shown
      BY <1>2, <1>3, <1>4, <2>1 DEF Unseen
    <3>2. Cardinality(Ahead(r)) \in Nat
      <4>1. IsFiniteSet(Shown) /\ Ahead(r) \in SUBSET Shown
        BY <1>2, ShownRows DEF Ahead
      <4>2. IsFiniteSet(Ahead(r))
        BY <4>1, FS_Subset
      <4> QED BY <4>2, FS_CardinalityType
    <3> QED BY <1>6, <3>1, <3>2
  <2>2. \A i \in pager'.there : \E r \in Shown' : r.id = i
    BY <1>2, <1>3, <1>4 DEF Unseen
  <2> QED BY <2>1, <2>2 DEF Unseen
<1>8. PagingSeesAll'
  BY <1>3, <1>5 DEF PagingSeesAll
<1> QED BY <1>2, <1>5, <1>7, <1>8 DEF PagerInv

LEMMA ListKeepsPager ==
    ASSUME PagerInv, List
    PROVE  PagerInv'
<1>1. pager.pc = "list" /\ UNCHANGED <<trail, opens>>
  BY DEF List
<1>2. PICK S \in Served(Shown, pager.by, pager.page) :
        pager' = [pager EXCEPT !.pc = "shown", !.seen = @ \cup {r.id : r \in S},
                               !.slipped = Cardinality(Shown) # pager.total]
  BY DEF List, Shown
<1>3. /\ AuditInv' /\ TrailTypeOK' /\ LoggedApart'
      /\ TrailTypeOK /\ LoggedApart /\ TypeOK /\ Unseen
  BY <1>1, TrailStays DEF PagerInv, AuditInv
<1>4. /\ pager'.pc = "shown" /\ pager'.page = pager.page /\ pager'.log = pager.log
      /\ pager'.where = pager.where /\ pager'.by = pager.by /\ pager'.total = pager.total
      /\ pager'.there = pager.there /\ pager'.seen = pager.seen \cup {r.id : r \in S}
      /\ pager'.slipped = (Cardinality(Shown) # pager.total)
  BY <1>2, <1>3 DEF TypeOK, Pagers
<1>5. Shown' = Shown /\ \A r : Ahead(r)' = Ahead(r)
  BY <1>1, <1>4, SameRows
<1>6. Shown \in SUBSET Rows /\ IsFiniteSet(Shown) /\ Cardinality(Shown) \in Nat
  <2>1. Shown \in SUBSET Rows /\ IsFiniteSet(Shown)
    BY <1>3, ShownRows
  <2> QED BY <2>1, FS_CardinalityType
<1>7. S \in SUBSET Shown
  BY DEF Served
<1>8. /\ pager.page \in Nat \ {0} /\ pager.total \in 0 .. MaxRows /\ pager.by \in Sorts
      /\ PAGE_SIZE \in Nat
  BY <1>3, AuditAssumption, PagesAssumption DEF TypeOK, Pagers
<1>9. /\ Passed = (pager.page - 1) * PAGE_SIZE
      /\ Passed' = pager.page * PAGE_SIZE
  BY <1>1, <1>4 DEF Passed
<1>10. TypeOK'
  <2>1. {r.id : r \in S} \in SUBSET (1 .. MaxRows)
    BY <1>6, <1>7 DEF Rows
  <2>2. (Cardinality(Shown) # pager.total) \in BOOLEAN
    OBVIOUS
  <2>3. pager' \in Pagers
    BY <1>2, <1>3, <2>1, <2>2 DEF TypeOK, Pagers
  <2> QED BY <1>1, <1>3, <2>3 DEF TypeOK
<1>11. \A p, r \in Shown : (p # r => Before(p, r, pager.by) \/ Before(r, p, pager.by))
                           /\ ~Before(r, r, pager.by)
  BY <1>3, <1>8, RowsAreOrdered DEF Shown
<1>12. ASSUME NEW r \in Shown, r.id \in pager.there \ pager'.seen
       PROVE  Cardinality(Ahead(r)) >= pager.page * PAGE_SIZE
  <2>1. r \in Shown \ S /\ r.id \in pager.there \ pager.seen
    BY <1>4, <1>12
  <2>2. Cardinality({q \in Shown : Before(q, r, pager.by)}) >= (pager.page - 1) * PAGE_SIZE
    BY <1>3, <1>9, <2>1 DEF Unseen, Ahead
  <2>3. Cardinality({q \in Shown : Before(q, r, pager.by)}) >= pager.page * PAGE_SIZE
    BY <1>6, <1>8, <1>11, <2>1, <2>2, ServedPages
  <2> QED BY <2>3 DEF Ahead
<1>13. Unseen'
  <2>1. \A i \in pager'.there : \E r \in Shown' : r.id = i
    BY <1>3, <1>4, <1>5 DEF Unseen
  <2> QED BY <1>4, <1>5, <1>9, <1>12, <2>1 DEF Unseen
<1>14. PagingSeesAll'
  <2> SUFFICES ASSUME pager.page >= LastPage(pager.total), Cardinality(Shown) = pager.total,
                      NEW i \in pager.there, i \notin pager'.seen
               PROVE  FALSE
    BY <1>4, <1>10 DEF PagingSeesAll, LastPage
  <2>1. PICK r \in Shown : r.id = i
    BY <1>3 DEF Unseen
  <2>2. Cardinality(Ahead(r)) >= pager.page * PAGE_SIZE
    BY <1>4, <1>12, <2>1
  <2>3. pager.page * PAGE_SIZE >= pager.total
    <3>1. LastPage(pager.total) \in Nat /\ LastPage(pager.total) * PAGE_SIZE >= pager.total
      BY <1>8, LastPageFacts
    <3>2. \A m, n, l \in Nat : m >= n => m * l >= n * l
      OBVIOUS
    <3>3. /\ pager.page * PAGE_SIZE >= LastPage(pager.total) * PAGE_SIZE
          /\ pager.page * PAGE_SIZE \in Nat /\ LastPage(pager.total) * PAGE_SIZE \in Nat
      BY <1>8, <3>1, <3>2
    <3> QED BY <1>8, <3>1, <3>3
  <2>4. Ahead(r) \in SUBSET Shown /\ r \notin Ahead(r)
    BY <1>11 DEF Ahead
  <2>5. ~(Cardinality(Ahead(r)) >= pager.total)
    <3>1. Cardinality(Shown) = AtMost(pager.total, Cardinality(Shown)) /\ pager.total \in Nat
      BY <1>8 DEF AtMost
    <3> QED BY <1>6, <2>1, <2>4, <3>1, SkippedIsBefore
  <2>6. Cardinality(Ahead(r)) \in Nat /\ pager.page * PAGE_SIZE \in Nat /\ pager.total \in Nat
    <3>1. IsFiniteSet(Ahead(r))
      BY <1>6, <2>4, FS_Subset
    <3> QED BY <1>8, <3>1, FS_CardinalityType
  <2> QED BY <2>2, <2>3, <2>5, <2>6
<1> QED BY <1>3, <1>10, <1>13, <1>14 DEF PagerInv

LEMMA PagerHolds == PagerInv /\ [PagesNext]_vars => PagerInv'
<1> SUFFICES ASSUME PagerInv, [PagesNext]_vars PROVE PagerInv'
  OBVIOUS
<1>1. CASE Next /\ UNCHANGED <<pager, opens>>
  BY <1>1, TrailKeepsPager
<1>2. ASSUME NEW log \in Logs, NEW where \in Filters, NEW by \in Sorts, Open(log, where, by)
      PROVE  PagerInv'
  BY <1>2, OpenKeepsPager
<1>3. CASE Count
  BY <1>3, CountKeepsPager
<1>4. CASE List
  BY <1>4, ListKeepsPager
<1>5. /\ pager.page \in 1 .. MaxRows + 1 /\ MaxRows \in Nat
      /\ LastPage(pager.total) \in 1 .. MaxRows + 1
  BY AuditAssumption, LastPageFacts DEF PagerInv, TypeOK, Pagers
<1>6. CASE NextPage
  <2>1. pager.page + 1 \in 1 .. MaxRows + 1 /\ Turn(pager.page + 1)
    BY <1>5, <1>6 DEF NextPage
  <2> QED BY <1>5, <2>1, TurnKeepsPager
<1>7. CASE PreviousPage
  <2>1. /\ pager.page - 1 \in 1 .. MaxRows + 1 /\ pager.page - 1 <= pager.page + 1
        /\ Turn(pager.page - 1)
    BY <1>5, <1>7 DEF PreviousPage
  <2> QED BY <2>1, TurnKeepsPager
<1>8. CASE UNCHANGED vars
  <2>1. UNCHANGED <<trail, pager, opens>>
    BY <1>8 DEF vars
  <2>2. AuditInv' /\ TrailTypeOK' /\ LoggedApart'
    BY <2>1, TrailStays
  <2>3. Shown' = Shown /\ \A r : Ahead(r)' = Ahead(r)
    BY <2>1, SameRows
  <2>4. TypeOK'
    BY <2>1, <2>2 DEF PagerInv, TypeOK
  <2>5. Unseen'
    BY <2>1, <2>3 DEF PagerInv, Unseen, Passed
  <2>6. PagingSeesAll'
    BY <2>1, <2>4 DEF PagerInv, PagingSeesAll, LastPage
  <2> QED BY <2>2, <2>4, <2>5, <2>6 DEF PagerInv
<1> QED BY <1>1, <1>2, <1>3, <1>4, <1>6, <1>7, <1>8 DEF PagesNext

\* Whoever pages to the end of a log, while any number of rows are committed in any order, has
\* seen every row that was there when it was opened, however it is sorted (by id where rows are
\* equal) and whosever rows were asked for, unless a row came between count and rows of that
\* page: list_audit and AuditPage.
THEOREM PagingMissesNothing == PagesSpec => []PagingSeesAll
<1>1. PagerInv => PagingSeesAll
  BY DEF PagerInv
<1> QED BY <1>1, PagerAtFirst, PagerHolds, PTL DEF PagesSpec

================================================================================
