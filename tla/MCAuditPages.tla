------------------------------ MODULE MCAuditPages ------------------------------
(* AuditPages for TLC: the small instance of audit_pages.cfg. *)
EXTENDS AuditPages, TLC

CONSTANTS u1, u2, n1

MCJob(op, u, n, roles, x, ok) ==
    [op |-> op, sub |-> u, name |-> n, roles |-> roles, subject |-> x, success |-> ok]

\* Two calls share the roles 1 and 2, which an admin is granting something or adding by name.
MCJobs ==
    {MCJob("call", u1, Nameless, {1, 2, 3}, None, 1), MCJob("call", u2, n1, {1, 2}, None, 0),
     MCJob("me", u1, n1, {}, None, 1), MCJob("grant", u2, n1, {}, Role(2), 1),
     MCJob("add", u2, n1, {}, Role(1), 1)}

\* The first user and the second role are known, without a name.
MCInitially == {[x \in Subjects |-> IF x \in {User(u1), Role(2)} THEN Nameless ELSE Absent]}

MCSorts == {Newest, [column |-> "success", order |-> "asc"]}

MCFilters == {None, u1}

MCSymmetry == Permutations(Writers)
================================================================================
