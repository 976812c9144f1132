------------------------------ MODULE AtomicAudit ------------------------------
(***************************************************************************)
(* What the two logs of app_meta and the list of known users and roles    *)
(* promise: a tool call, a sign-in or a change by an admin leaves its row *)
(* and the subjects it names at once, or nothing at all, and a name that  *)
(* is known is not forgotten.  AuditTrail, statement by statement, is     *)
(* checked and proved to implement this.                                  *)
(***************************************************************************)
EXTENDS Integers

CONSTANTS
    Users,        \* user ids: callers, admins, people who sign in
    Roles,        \* roles; numbers, so they sort
    Builtin,      \* those every Keycloak user carries
    Names,        \* display names
    Jobs,         \* what may be recorded, see JobType
    Initially,    \* what known_subjects may hold at first
    OldCalls,     \* rows of audit_log that have drawn an id before
    MaxRows,      \* bound: rows that draw an id, of both logs
    Absent,       \* no such row in known_subjects
    Nameless,     \* a row whose display_name is NULL
    None

VARIABLES
    subjects,     \* known_subjects: the display name of each subject
    logged        \* the committed rows of audit_log and of admin_log

User(u) == <<"user", u>>
Role(r) == <<"role", r>>
Subjects == {User(u) : u \in Users} \cup {Role(r) : r \in Roles}

\* "call": a tool call by sub, who holds roles.  "me": sub signs in.  "grant", "add": the
\* admin sub changes grants of a subject, or adds it by name.
JobType ==
    [op : {"call", "me", "grant", "add"}, sub : Users, name : Names \cup {Nameless},
     roles : SUBSET Roles, subject : Subjects \cup {None}, success : {0, 1}]

ASSUME AuditAssumption ==
    /\ MaxRows \in Nat /\ OldCalls \in 0 .. MaxRows
    /\ Roles \subseteq Nat
    /\ Roles = {} \/ \E n \in Roles : \A r \in Roles : r <= n
    /\ None \notin Jobs /\ Jobs \subseteq JobType
    /\ \A j \in Jobs : j.op \in {"grant", "add"} => j.subject \in Subjects
    /\ Absent \notin Names /\ Nameless \notin Names /\ None \notin Names
    /\ Absent # Nameless /\ None # Absent /\ None # Nameless
    /\ Initially \subseteq [Subjects -> Names \cup {Absent, Nameless}]

\* _note_subjects, me, _remember_subject: the subjects a job is to remember ...
Notes(j) ==
    CASE j.op = "call" -> {User(j.sub)} \cup {Role(r) : r \in j.roles \ Builtin}
      [] j.op = "me"   -> {User(j.sub)}
      [] OTHER         -> {j.subject}

\* ... and the name it has for each.
NameIn(j, x) == IF j.op = "add" \/ (j.op # "grant" /\ x = User(j.sub)) THEN j.name ELSE Nameless

\* COALESCE(EXCLUDED.display_name, known_subjects.display_name)
Named(old, name) == IF name # Nameless \/ old = Absent THEN name ELSE old

\* The log a job writes a row to, and the row.
LogOf(j) == IF j.op = "call" THEN "calls" ELSE IF j.op = "me" THEN None ELSE "admin"
Row(j, i, t) == [log |-> LogOf(j), id |-> i, at |-> t, sub |-> j.sub, success |-> j.success]

\* What was recorded before is the calls of somebody who is known.
AtomicInit ==
    /\ subjects \in Initially
    /\ \E u \in Users :
          /\ OldCalls > 0 => subjects[User(u)] # Absent
          /\ logged = {[log |-> "calls", id |-> i, at |-> 0, sub |-> u, success |-> 1] :
                         i \in 1 .. OldCalls}

Remembers(j) ==
    subjects' = [x \in Subjects |->
        IF x \in Notes(j) THEN Named(subjects[x], NameIn(j, x)) ELSE subjects[x]]

RecordsRow(j) ==
    IF LogOf(j) = None THEN logged' = logged
    ELSE \E r \in logged' \ logged :
            /\ r = Row(j, r.id, r.at) /\ logged' = logged \cup {r}
            /\ \A q \in logged : q.log = r.log => q.id # r.id

AtomicNext == \E j \in Jobs : RecordsRow(j) /\ Remembers(j)
AtomicSpec == AtomicInit /\ [][AtomicNext]_<<logged, subjects>>
================================================================================
