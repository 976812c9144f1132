------------------------------- MODULE GrantsPage -------------------------------
(***************************************************************************)
(* The permissions page of the console (features/permissions): grids of   *)
(* who may use which database, tables and tools.  Cells are staged over   *)
(* the grants that were loaded, and saved by one request after another,   *)
(* while the grid may be loaded again, another grid may be chosen,        *)
(* requests fail, and other admins change the same grants.                *)
(*                                                                        *)
(* This is one browser tab.  A place is a grid: one per database, and the *)
(* one of the tools on a tab of its own.                                  *)
(***************************************************************************)
EXTENDS Naturals

CONSTANTS
    Places,
    Rows,           \* users and roles
    Columns,        \* Columns[p]: the tables of a database and Use; or the tools
    Use,            \* the leading column of a database: may it be used at all
    Saves,          \* bound: saves that run at once (one on screen, others left behind)
    MaxElsewhere,   \* bound: how many grants other admins change
    Faults,         \* which happen: "load" fails, a "save" request fails, its answer is "lost"
    None

VARIABLES
    granted,    \* Postgres: the grants of each place
    elsewhere,  \* how many of them other admins have changed
    chosen,     \* the place the page is at
    load,       \* the request for its grid that is under way, if any
    shown,      \* the grid on the page: its place and what is saved there
    loadFailed, \* useAsync: the last load ended in an error
    pending,    \* what is staged
    confirming, \* the dialog that asks before anything is revoked is open
    busy, failed,   \* useStagedGrid: it is saving; the last save ended in an error
    saves,      \* the saves that are running
    behind      \* history: what was asked for last may miss a change that the page
                \* does not know of, made elsewhere or by a save that did not succeed

data == <<load, shown, loadFailed>>
grid == <<pending, confirming, busy, failed>>
vars == <<granted, elsewhere, chosen, data, grid, saves, behind>>

Databases == {p \in Places : Use \in Columns[p]}
Cells(p) == Rows \X Columns[p]
InUse(cells) == {c \in cells : c[2] = Use}

AllCells == Rows \X UNION {Columns[p] : p \in Places}
Loads == [place : Places, answer : {None} \cup {<<cells>> : cells \in SUBSET AllCells}]
Grids == [place : Places, saved : SUBSET AllCells]
Staged == [grant : SUBSET AllCells, revoke : SUBSET AllCells]
Running ==
    [place : Places, changes : Staged, named : SUBSET AllCells, access : SUBSET AllCells,
     todo : SUBSET (Rows \cup {Use}),
     applied : BOOLEAN, contested : BOOLEAN, mounted : BOOLEAN, onPage : BOOLEAN]

GrantsPageAssumption ==
    /\ MaxElsewhere \in Nat
    /\ Use \notin Rows
    /\ None \notin Loads \cup Grids /\ None \notin Running

ASSUME GrantsPageAssumption

Nothing == [grant |-> {}, revoke |-> {}]

Init ==
    /\ granted \in {g \in [Places -> UNION {SUBSET Cells(p) : p \in Places}] :
                       \A p \in Places : g[p] \subseteq Cells(p)}
    /\ elsewhere = 0
    /\ chosen \in Places
    /\ load = [place |-> chosen, answer |-> None]
    /\ shown = None
    /\ loadFailed = FALSE
    /\ pending = Nothing
    /\ confirming = FALSE /\ busy = FALSE /\ failed = FALSE
    /\ saves = [s \in Saves |-> None]
    /\ behind = FALSE

--------------------------------------------------------------------------------
(* useAsync: loading the grid *)

\* The effect runs again: the data stays on screen, and the request under way is
\* aborted, so that the browser drops it and nothing it may still bring is used.
Ask(p) ==
    /\ load' = [place |-> p, answer |-> None]
    /\ loadFailed' = FALSE
    /\ behind' = FALSE

Serve ==
    /\ load # None /\ load.answer = None
    /\ load' = [load EXCEPT !.answer = <<granted[load.place]>>]
    /\ UNCHANGED <<granted, elsewhere, chosen, shown, loadFailed, grid, saves, behind>>

\* The grid on screen goes: its state is lost, the save it started runs on.
Unmount ==
    /\ pending' = Nothing
    /\ confirming' = FALSE /\ busy' = FALSE /\ failed' = FALSE
    /\ saves' = [s \in Saves |-> IF saves[s] = None THEN None
                                 ELSE [saves[s] EXCEPT !.mounted = FALSE]]

\* An answer is shown.  The grid is keyed by its connection (PermissionsPage).
Show(answered) ==
    /\ shown' = [place |-> answered.place, saved |-> answered.answer[1]]
    /\ IF shown # None /\ shown.place = answered.place THEN UNCHANGED <<grid, saves>> ELSE Unmount

Arrive ==
    /\ load # None /\ load.answer # None
    /\ Show(load)
    /\ load' = None
    /\ UNCHANGED <<granted, elsewhere, chosen, loadFailed, behind>>

LoadFails ==
    /\ "load" \in Faults
    /\ load # None
    /\ load' = None
    /\ loadFailed' = TRUE
    /\ Unmount
    /\ UNCHANGED <<granted, elsewhere, chosen, shown, behind>>

--------------------------------------------------------------------------------
(* What the admin does on the page *)

Mounted == shown # None /\ ~loadFailed

\* Another database is selected: its grid replaces this one when it arrives.
Choose(p) ==
    /\ ~confirming
    /\ {p, chosen} \subseteq Databases /\ p # chosen
    /\ chosen' = p
    /\ Ask(p)
    /\ UNCHANGED <<granted, elsewhere, shown, grid, saves>>

\* To the other tab, or to another page of the console and back: a page of its own,
\* which the saves that were started on this one do not know.
Leave(p) ==
    /\ chosen' = p
    /\ Ask(p)
    /\ shown' = None
    /\ pending' = Nothing
    /\ confirming' = FALSE /\ busy' = FALSE /\ failed' = FALSE
    /\ saves' = [s \in Saves |-> IF saves[s] = None THEN None
                                 ELSE [saves[s] EXCEPT !.mounted = FALSE, !.onPage = FALSE]]
    /\ UNCHANGED <<granted, elsewhere>>

\* "Try again" after a load that failed, or a subject was added to the grid.
Reload ==
    /\ shown # None \/ loadFailed
    /\ Ask(chosen)
    /\ UNCHANGED <<granted, elsewhere, chosen, shown, grid, saves>>

\* The cells of a line that "all" and "none" set: the tables filter hides columns.
Lines(p) ==
    LET visible == IF p \in Databases THEN {cs \in SUBSET Columns[p] : Use \in cs}
                   ELSE {Columns[p]}
    IN  {{r} \X cs : r \in Rows, cs \in visible} \cup {Rows \X {col} : col \in Columns[p]}

\* What there is to click on: a checkbox, or a line.
Clickable ==
    IF Mounted THEN {{c} : c \in Cells(shown.place)} \cup Lines(shown.place) ELSE {}

On == (shown.saved \ pending.revoke) \cup pending.grant

\* A cell that is wanted as it is saved is no change.
Stage(cells, wanted) ==
    IF wanted
    THEN [grant |-> (pending.grant \ cells) \cup (cells \ shown.saved),
          revoke |-> pending.revoke \ cells]
    ELSE [grant |-> pending.grant \ cells,
          revoke |-> (pending.revoke \ cells) \cup (cells \cap shown.saved)]

\* Cells can be staged while a save is running.
Click(cells) ==
    /\ Mounted /\ ~confirming
    /\ pending' = Stage(cells, ~(cells \subseteq On))
    /\ failed' = FALSE
    /\ UNCHANGED <<granted, elsewhere, chosen, data, confirming, busy, saves, behind>>

Discard ==
    /\ Mounted /\ ~confirming
    /\ failed \/ (pending # Nothing /\ ~busy)
    /\ pending' = Nothing
    /\ failed' = FALSE
    /\ UNCHANGED <<granted, elsewhere, chosen, data, confirming, busy, saves, behind>>

--------------------------------------------------------------------------------
(* Saving *)

Tables(cells) == cells \ InUse(cells)
Changes(p) == p.grant \cup p.revoke

\* Mistake: A subject whose use of the database changes gets no tables.
RequestsSkipping(p) ==
    ({c[1] : c \in Tables(Changes(p))} \ {c[1] : c \in InUse(Changes(p))})
        \cup (IF InUse(Changes(p)) = {} THEN {} ELSE {Use})

\* The requests a save makes: the list of who may use the database, if that
\* changes, then one for each subject whose tables or tools change.
Requests(p) ==
    {c[1] : c \in Tables(Changes(p))} \cup (IF InUse(Changes(p)) = {} THEN {} ELSE {Use})

\* The whole list, as it was when this grid was loaded, with what is staged.
AccessList == InUse((shown.saved \cup pending.grant) \ pending.revoke)

DoSave(named) ==
    /\ busy' = TRUE
    /\ failed' = FALSE
    /\ \E s \in Saves :
          /\ saves[s] = None
          /\ saves' = [saves EXCEPT ![s] =
                [place |-> shown.place, changes |-> pending, named |-> named,
                 access |-> AccessList, todo |-> Requests(pending), applied |-> FALSE,
                 contested |-> \E o \in Saves : saves[o] # None /\ saves[o].place = shown.place,
                 mounted |-> TRUE, onPage |-> TRUE]]

\* Mistake: What was confirmed once is not asked about again when it is retried.
RequestSaveRetries ==
    /\ Mounted /\ ~confirming /\ ~busy
    /\ failed \/ pending # Nothing
    /\ IF pending.revoke # {} /\ ~failed
       THEN confirming' = TRUE /\ UNCHANGED <<busy, failed, saves>>
       ELSE DoSave({}) /\ UNCHANGED confirming
    /\ UNCHANGED <<granted, elsewhere, chosen, data, pending, behind>>

RequestSave ==
    /\ Mounted /\ ~confirming /\ ~busy
    /\ failed \/ pending # Nothing
    /\ IF pending.revoke # {}
       THEN confirming' = TRUE /\ UNCHANGED <<busy, failed, saves>>
       ELSE DoSave({}) /\ UNCHANGED confirming
    /\ UNCHANGED <<granted, elsewhere, chosen, data, pending, behind>>

\* "Revoke and save": the dialog has named what is taken away.
Confirm ==
    /\ confirming /\ ~busy
    /\ DoSave(pending.revoke)
    /\ UNCHANGED <<granted, elsewhere, chosen, data, pending, confirming, behind>>

\* Escape closes the dialog whenever it is open, also while saving.
CancelConfirm ==
    /\ confirming
    /\ confirming' = FALSE
    /\ UNCHANGED <<granted, elsewhere, chosen, data, pending, busy, failed, saves, behind>>

\* What one request of a save makes of the grants.
Applied(s, request) ==
    LET save == saves[s]
        now == granted[save.place]
        mine == {c \in Changes(save.changes) : c[1] = request /\ c[2] # Use}
    IN  IF request = Use THEN Tables(now) \cup save.access
        ELSE (now \ (mine \cap save.changes.revoke)) \cup (mine \cap save.changes.grant)

\* The requests go out one after the other, the access list first.
Next1(s) == {r \in saves[s].todo : Use \in saves[s].todo => r = Use}

\* Other saves of the same place can no longer tell what they end up with.
Contest(others, place) ==
    [s \in Saves |-> IF s \in others /\ saves[s] # None /\ saves[s].place = place
                     THEN [saves[s] EXCEPT !.contested = TRUE] ELSE saves[s]]

Put(s) ==
    /\ saves[s] # None
    /\ \E request \in Next1(s) :
          /\ granted' = [granted EXCEPT ![saves[s].place] = Applied(s, request)]
          /\ saves' = [Contest(Saves \ {s}, saves[s].place) EXCEPT
                          ![s].todo = @ \ {request}, ![s].applied = TRUE]
    /\ UNCHANGED <<elsewhere, chosen, data, grid, behind>>

\* Mistake: The page stays busy when a save fails.
StopsBusy(s) ==
    IF saves[s].mounted THEN confirming' = FALSE /\ failed' = TRUE /\ UNCHANGED busy
    ELSE UNCHANGED <<confirming, failed, busy>>

\* The error is shown if the grid that saved is still there.
Stops(s) ==
    IF saves[s].mounted THEN confirming' = FALSE /\ failed' = TRUE /\ busy' = FALSE
    ELSE UNCHANGED <<confirming, failed, busy>>

\* A request is refused or its answer is lost.  What was saved before stays
\* saved, the staged changes stay staged, and the grid is not loaded again.
PutFails(s) ==
    /\ saves[s] # None
    /\ \E request \in Next1(s) :
          \/ /\ "save" \in Faults
             /\ UNCHANGED granted
             /\ saves' = [saves EXCEPT ![s] = None]
             /\ behind' = (behind \/ (saves[s].applied /\ saves[s].place = chosen))
          \/ /\ "lost" \in Faults
             /\ granted' = [granted EXCEPT ![saves[s].place] = Applied(s, request)]
             /\ saves' = [Contest(Saves \ {s}, saves[s].place) EXCEPT ![s] = None]
             /\ behind' = (behind \/ saves[s].place = chosen)
    /\ Stops(s)
    /\ UNCHANGED <<elsewhere, chosen, data, pending>>

\* Mistake: A save whose grid is gone loads nothing again.
FinishMounted(s) ==
    /\ saves[s] # None /\ saves[s].todo = {}
    /\ saves' = [saves EXCEPT ![s] = None]
    /\ IF saves[s].mounted
       THEN /\ pending' = Nothing
            /\ confirming' = FALSE /\ busy' = FALSE
            /\ UNCHANGED failed
            /\ Ask(chosen)
       ELSE UNCHANGED <<grid, load, loadFailed, behind>>
    /\ UNCHANGED <<granted, elsewhere, chosen, shown>>

\* All went well.  Whatever is staged is taken for saved, and the page that the
\* grid was on, if it is still there, loads its grid again.
Finish(s) ==
    /\ saves[s] # None /\ saves[s].todo = {}
    /\ saves' = [saves EXCEPT ![s] = None]
    /\ IF saves[s].mounted
       THEN /\ pending' = Nothing
            /\ confirming' = FALSE /\ busy' = FALSE
            /\ UNCHANGED failed
       ELSE UNCHANGED grid
    /\ IF saves[s].onPage THEN Ask(chosen)
       ELSE /\ behind' = (behind \/ (saves[s].applied /\ saves[s].place = chosen))
            /\ UNCHANGED <<load, loadFailed>>
    /\ UNCHANGED <<granted, elsewhere, chosen, shown>>

--------------------------------------------------------------------------------

\* Another admin, or the same one elsewhere, gives or takes away a grant.
Elsewhere(p) ==
    /\ elsewhere < MaxElsewhere
    /\ elsewhere' = elsewhere + 1
    /\ \E c \in Cells(p) :
          granted' = [granted EXCEPT ![p] = IF c \in @ THEN @ \ {c} ELSE @ \cup {c}]
    /\ saves' = Contest(Saves, p)
    /\ behind' = (behind \/ p = chosen)
    /\ UNCHANGED <<chosen, data, grid>>

Save(s) == Put(s) \/ PutFails(s) \/ Finish(s)

Next ==
    \/ Serve \/ Arrive \/ LoadFails
    \/ \E p \in Places : Choose(p) \/ Leave(p) \/ Elsewhere(p)
    \/ Reload \/ Discard \/ RequestSave \/ Confirm \/ CancelConfirm
    \/ \E cells \in Clickable : Click(cells)
    \/ \E s \in Saves : Save(s)

Spec == Init /\ [][Next]_vars

\* A request is answered or fails, and JavaScript runs what waits for it.
FairSpec == Spec /\ \A s \in Saves : WF_vars(Save(s))

--------------------------------------------------------------------------------
(* Properties *)

TypeOK ==
    /\ granted \in [Places -> SUBSET AllCells]
    /\ \A p \in Places : granted[p] \subseteq Cells(p)
    /\ elsewhere \in 0 .. MaxElsewhere /\ chosen \in Places
    /\ load \in {None} \cup Loads
    /\ load # None /\ load.answer # None => load.answer[1] \subseteq Cells(load.place)
    /\ shown \in {None} \cup Grids
    /\ shown # None =>
          /\ shown.saved \subseteq Cells(shown.place)
          /\ Changes(pending) \subseteq Cells(shown.place)
    /\ pending \in Staged /\ pending.grant \cap pending.revoke = {}
    /\ {loadFailed, confirming, busy, failed, behind} \subseteq BOOLEAN
    /\ saves \in [Saves -> {None} \cup Running]
    /\ \A s \in Saves : saves[s] # None =>
          /\ Changes(saves[s].changes) \cup saves[s].access \subseteq Cells(saves[s].place)
          /\ saves[s].mounted => saves[s].onPage /\ busy

(* When the page has loaded and is not saving, it shows the grants of the place
   it is at as they are, unless they were changed behind its back: a save that
   succeeds is followed by a load that asks after its last change, also when the
   grid that saved is gone or another is chosen (useAsync.ts, useStagedGrid.ts). *)
ShowsWhatIsInEffect ==
    (/\ load = None /\ ~loadFailed /\ ~behind
     /\ \A s \in Saves : saves[s] # None => saves[s].place # chosen)
        => shown = [place |-> chosen, saved |-> granted[chosen]]

Named(p, c) == \E s \in Saves : saves[s] # None /\ saves[s].place = p /\ c \in saves[s].named
Asked(p, c) ==
    \E s \in Saves : saves[s] # None /\ saves[s].place = p /\ c \in saves[s].changes.grant

(* Nobody is given or loses a table or a tool by a save unless that was staged
   and, if it is taken away, named in the dialog: also when it is tried again,
   and when the grid was loaded anew or edited in between. *)
TablesChangeAsStaged ==
    [][elsewhere' = elsewhere =>
          \A p \in Places :
              /\ \A c \in Tables(granted[p] \ granted'[p]) : Named(p, c)
              /\ \A c \in Tables(granted'[p] \ granted[p]) : Asked(p, c)]_vars

(* "Before anything is revoked or deleted, [the screen] says specifically what
   will change" (docs/gui-design.md): the same for the use of a database. *)
UseIsRevokedAsNamed ==
    [][elsewhere' = elsewhere =>
          \A p \in Places : \A c \in InUse(granted[p] \ granted'[p]) : Named(p, c)]_vars

(* "Saved ... They are in effect now": when a save is over, everything it was
   asked for is in effect, unless someone else wrote to the same place meanwhile. *)
SavedMeansSaved ==
    [][\A s \in Saves :
          (saves[s] # None /\ saves'[s] = None /\ saves[s].todo = {} /\ ~saves[s].contested)
              => /\ saves[s].changes.grant \subseteq granted[saves[s].place]
                 /\ saves[s].changes.revoke \cap granted[saves[s].place] = {}]_vars

(* A save ends, whatever fails, and the page can be used again. *)
SavingEnds == busy ~> ~busy

--------------------------------------------------------------------------------
(* The inductive invariant behind the safety properties. *)

\* The request of a save that a cell is part of.
RequestOf(c) == IF c[2] = Use THEN Use ELSE c[1]

\* A grid saves once at a time.
OneOnScreen ==
    \A s, o \in Saves :
        (saves[s] # None /\ saves[o] # None /\ saves[s].mounted /\ saves[o].mounted) => s = o

\* The dialog goes with its grid.
DialogOnScreen == confirming => Mounted

\* What a save revokes was named, and the list it sends is what it wants.
SavesAsConfirmed ==
    \A s \in Saves : saves[s] # None =>
        LET save == saves[s]
        IN  /\ save.changes.revoke \subseteq save.named
            /\ save.changes.grant \cap save.changes.revoke = {}
            /\ \A c \in save.access : c[2] = Use /\ c \notin save.changes.revoke
            /\ InUse(save.changes.grant) \subseteq save.access

\* The requests of a save that are done are in effect while nobody else writes.
DoneIsInEffect ==
    \A s \in Saves : (saves[s] # None /\ ~saves[s].contested) =>
        LET now == granted[saves[s].place]
        IN  /\ \A c \in saves[s].changes.grant : RequestOf(c) \in saves[s].todo \/ c \in now
            /\ \A c \in saves[s].changes.revoke : RequestOf(c) \in saves[s].todo \/ c \notin now

\* The load under way is of the place the page is at.  Unless a save has changed that place
\* and goes on, its answer is what is in effect, and so is what it has left on the page.
LoadsCurrent ==
    /\ load # None => load.place = chosen
    /\ (~behind /\ \A s \in Saves :
            saves[s] # None => saves[s].place # chosen \/ ~saves[s].applied)
          => /\ (load # None /\ load.answer # None) => load.answer[1] = granted[chosen]
             /\ (load = None /\ ~loadFailed)
                   => shown = [place |-> chosen, saved |-> granted[chosen]]

GrantsInv ==
    /\ TypeOK
    /\ OneOnScreen /\ DialogOnScreen
    /\ SavesAsConfirmed
    /\ DoneIsInEffect
    /\ LoadsCurrent
================================================================================
