------------------------------- MODULE AuditPages -------------------------------
(***************************************************************************)
(* The audit screen (AuditPage.tsx) over the logs as AuditTrail writes    *)
(* them: an admin opens a log, sorted and filtered, and pages through it  *)
(* while rows are committed.  Every page is two statements of the console *)
(* (routers/audit.py), the count and the rows, each with a view of its    *)
(* own of what is committed.                                              *)
(***************************************************************************)
EXTENDS AuditTrail, FiniteSets

CONSTANTS
    PAGE_SIZE,        \* rows the screen asks for
    max_page_size,    \* rows the console gives at most
    Sorts,            \* how the admin sorts the calls: a column and an order
    Filters,          \* and whose rows the admin asks for, None for everybody's
    MaxOpens          \* bound: how often the screen is opened, sorted or filtered anew

\* The order a log is opened in, and the only one of the admin log.
Newest == [column |-> "at", order |-> "desc"]

ASSUME PagesAssumption ==
    /\ Filters \subseteq Users \cup {None}
    /\ PAGE_SIZE \in Nat \ {0} /\ max_page_size \in Nat /\ PAGE_SIZE <= max_page_size
    /\ MaxOpens \in Nat
    /\ Newest \in Sorts /\ Sorts \subseteq [column : {"at", "success"}, order : {"asc", "desc"}]

VARIABLES
    pager,            \* what the screen shows or waits for
    opens             \* bound: how often it was opened

vars == <<trail, pager, opens>>

\* there, seen and slipped are history: the rows there were when the screen was opened, those
\* seen since, and whether a row came between the two statements of this page.
Pagers ==
    [pc : {"closed", "count", "list", "shown"}, log : Logs, where : Filters \cup {None},
     by : Sorts, page : 1 .. MaxRows + 1, total : 0 .. MaxRows,
     there : SUBSET (1 .. MaxRows), seen : SUBSET (1 .. MaxRows), slipped : BOOLEAN]

PagesInit ==
    /\ Init
    /\ opens = 0
    /\ pager = [pc |-> "closed", log |-> "calls", where |-> None, by |-> Newest, page |-> 1,
                total |-> 0, there |-> {}, seen |-> {}, slipped |-> FALSE]

Selected(log, where) ==
    {r \in logged : r.log = log /\ (where = None \/ r.sub = where)}

\* Mistake: Rows that are equal in the sorted column come in any order.
BeforeWithoutId(p, r, by) ==
    IF by.order = "asc" THEN p[by.column] < r[by.column] ELSE p[by.column] > r[by.column]

\* ORDER BY <column> <order>, id DESC
Before(p, r, by) ==
    IF p[by.column] = r[by.column] THEN p.id > r.id
    ELSE (by.order = "asc") = (p[by.column] < r[by.column])

AtMost(n, m) == IF n < m THEN n ELSE m

\* LIMIT and OFFSET: the sets of rows that may be page number page of rows.
Served(rows, by, page) ==
    LET limit == AtMost(PAGE_SIZE, max_page_size)
        size(n) == AtMost(n, Cardinality(rows))
        first(S) == \A r \in S, p \in rows \ S : ~Before(p, r, by)
    IN {S \in SUBSET rows : \E skipped \in SUBSET (rows \ S) :
            /\ Cardinality(skipped) = size((page - 1) * limit) /\ first(skipped)
            /\ Cardinality(skipped \cup S) = size(page * limit) /\ first(skipped \cup S)}

\* useAuditParams: anything but paging goes to the first page.  The admin log has one order.
Open(log, where, by) ==
    /\ opens < MaxOpens
    /\ log = "admin" => by = Newest
    /\ opens' = opens + 1
    /\ pager' = [pc |-> "count", log |-> log, where |-> where, by |-> by, page |-> 1, total |-> 0,
                 there |-> {r.id : r \in Selected(log, where)}, seen |-> {}, slipped |-> FALSE]
    /\ UNCHANGED trail

\* SELECT count(*)
Count ==
    /\ pager.pc = "count"
    /\ pager' = [pager EXCEPT !.pc = "list",
                              !.total = Cardinality(Selected(pager.log, pager.where))]
    /\ UNCHANGED <<trail, opens>>

\* The statement for the rows, and the answer.
List ==
    LET rows == Selected(pager.log, pager.where) IN
    /\ pager.pc = "list"
    /\ \E S \in Served(rows, pager.by, pager.page) :
          pager' = [pager EXCEPT !.pc = "shown", !.seen = @ \cup {r.id : r \in S},
                                 !.slipped = Cardinality(rows) # pager.total]
    /\ UNCHANGED <<trail, opens>>

\* Math.max(1, Math.ceil(page.total / PAGE_SIZE))
LastPage(total) == IF total = 0 THEN 1 ELSE (total + PAGE_SIZE - 1) \div PAGE_SIZE

Turn(to) ==
    /\ pager.pc = "shown"
    /\ pager' = [pager EXCEPT !.pc = "count", !.page = to]
    /\ UNCHANGED <<trail, opens>>

NextPage == pager.page < LastPage(pager.total) /\ Turn(pager.page + 1)
PreviousPage == pager.page > 1 /\ Turn(pager.page - 1)

PagesNext ==
    \/ Next /\ UNCHANGED <<pager, opens>>
    \/ \E log \in Logs, where \in Filters, by \in Sorts : Open(log, where, by)
    \/ Count
    \/ List
    \/ NextPage
    \/ PreviousPage

PagesSpec == PagesInit /\ [][PagesNext]_vars
--------------------------------------------------------------------------------
(* Properties *)

\* What is committed, open, locked and shown keeps its type.
TypeOK == TrailTypeOK /\ pager \in Pagers /\ opens \in 0 .. MaxOpens

\* Whoever pages to the end, where Next is off, has seen every row there was when the screen
\* was opened, however it is sorted and whatever is committed meanwhile out of order - unless
\* a row came between the count and the rows of that very page.  (list_audit, AuditPage.)
PagingSeesAll ==
    /\ TypeOK
    /\ pager.pc = "shown" /\ pager.page >= LastPage(pager.total)
          => pager.there \subseteq pager.seen \/ pager.slipped
================================================================================
