----------------------------- MODULE MCAdminChanges -----------------------------
(* Small instances of AdminChanges for TLC. *)
EXTENDS AdminChanges

CONSTANTS q1, q2, k1, r1

None_(op, k) == [op |-> op, conn |-> k, granted |-> {}, revoked |-> {}, val |-> None]

Edits ==
    {[None_("update", k1) EXCEPT !.val = v] :
        v \in [{"active", "details"} -> {0, 1}]
              \cup [active : {1}, details : {0}, secret : {1}]}

Grids ==
    UNION {{[None_("tables", k1) EXCEPT !.granted = g, !.revoked = h] :
               g \in SUBSET (Tables \ h)} : h \in SUBSET Tables}
    \ {None_("tables", k1)}

Lists == {[None_("access", k1) EXCEPT !.granted = g] : g \in SUBSET Subjects}

\* Everything the console can be asked to change.
AllAsks ==
    {[None_("create", k1) EXCEPT !.val = [active |-> 1, details |-> 1, secret |-> 0,
                                          checked |-> 0]]}
    \cup Edits \cup Grids \cup Lists
    \cup {None_(op, k1) : op \in {"delete", "check", "describe", "clear"}}
    \cup {[None_(op, k1) EXCEPT !.val = r1] :
             op \in {"report_create", "report_update", "report_delete"}}
    \cup {[None_("tools", None) EXCEPT !.granted = {1}],
          [None_("tools", None) EXCEPT !.revoked = {1}],
          None_("subject_add", None)}

\* The requests are alike until they are asked for something.
Interchangeable == Permutations(Requests)
================================================================================
