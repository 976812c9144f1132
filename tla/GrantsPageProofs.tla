---------------------------- MODULE GrantsPageProofs ----------------------------
(***************************************************************************)
(* Proofs about GrantsPage, for any number of places, subjects, columns,  *)
(* changes made elsewhere and saves that run at once.                     *)
(***************************************************************************)
EXTENDS GrantsPage, TLAPS

USE GrantsPageAssumption DEF GrantsPageAssumption

LEMMA CellsAreCells == \A p \in Places : Cells(p) \subseteq AllCells
BY DEF Cells, AllCells

(* What Contest changes of the saves: others of that place are contested. *)
LEMMA ContestedSaves ==
    ASSUME saves \in [Saves -> {None} \cup Running], NEW others \in SUBSET Saves,
           NEW p \in Places
    PROVE  /\ Contest(others, p) \in [Saves -> {None} \cup Running]
           /\ \A s \in Saves :
                 /\ Contest(others, p)[s] = None <=> saves[s] = None
                 /\ s \notin others => Contest(others, p)[s] = saves[s]
                 /\ saves[s] # None =>
                      /\ Contest(others, p)[s] =
                           [saves[s] EXCEPT !.contested = Contest(others, p)[s].contested]
                      /\ Contest(others, p)[s].contested <=>
                           (saves[s].contested \/ (s \in others /\ saves[s].place = p))
<1> DEFINE C == Contest(others, p)
<1>1. ASSUME NEW s \in Saves, saves[s] = None
      PROVE  C[s] = None
  BY <1>1 DEF Contest
<1>2. ASSUME NEW s \in Saves, saves[s] # None
      PROVE  /\ C[s] \in Running
             /\ s \notin others => C[s] = saves[s]
             /\ C[s] = [saves[s] EXCEPT !.contested = C[s].contested]
             /\ C[s].contested <=> (saves[s].contested \/ (s \in others /\ saves[s].place = p))
  <2>1. saves[s] \in Running
    BY <1>2
  <2>2. CASE s \in others /\ saves[s].place = p
    <3>1. C[s] = [saves[s] EXCEPT !.contested = TRUE]
      BY <1>2, <2>2 DEF Contest
    <3> QED  BY <2>1, <2>2, <3>1 DEF Running
  <2>3. CASE ~(s \in others /\ saves[s].place = p)
    <3>1. C[s] = saves[s]
      BY <1>2, <2>3 DEF Contest
    <3> QED  BY <2>1, <2>3, <3>1 DEF Running
  <2> QED  BY <2>2, <2>3
<1>3. C \in [Saves -> {None} \cup Running]
  <2>1. C = [s \in Saves |-> C[s]]
    BY DEF Contest
  <2> QED  BY <1>1, <1>2, <2>1
<1> HIDE DEF C
<1>4. \A s \in Saves : C[s] = None <=> saves[s] = None
  BY <1>1, <1>2
<1>5. \A s \in Saves : s \notin others => C[s] = saves[s]
  BY <1>1, <1>2
<1> QED  BY <1>2, <1>3, <1>4, <1>5 DEF C

LEMMA ContestedRuns ==
    ASSUME saves \in [Saves -> {None} \cup Running], NEW others \in SUBSET Saves,
           NEW p \in Places
    PROVE  \A o \in Saves : Contest(others, p)[o] = None <=> saves[o] = None
<1> SUFFICES ASSUME NEW o \in Saves PROVE Contest(others, p)[o] = None <=> saves[o] = None
  OBVIOUS
<1> DEFINE C == Contest(others, p)
<1>1. /\ C[o] = None <=> saves[o] = None
      /\ saves[o] # None => C[o] = [saves[o] EXCEPT !.contested = C[o].contested]
  BY ContestedSaves
<1> QED  BY <1>1

(* A request leaves only cells of its place granted. *)
LEMMA AppliedCells ==
    ASSUME TypeOK, NEW s \in Saves, saves[s] # None, NEW request
    PROVE  Applied(s, request) \subseteq Cells(saves[s].place)
<1>1. saves[s] \in Running /\ saves[s].place \in Places
  BY DEF TypeOK, Running
<1>2. /\ granted[saves[s].place] \subseteq Cells(saves[s].place)
      /\ Changes(saves[s].changes) \cup saves[s].access \subseteq Cells(saves[s].place)
  BY <1>1 DEF TypeOK
<1> QED  BY <1>2 DEF Applied, Changes, Tables, InUse

--------------------------------------------------------------------------------

LEMMA InitInv == Init => GrantsInv
<1> SUFFICES ASSUME Init PROVE GrantsInv
  OBVIOUS
<1>1. TypeOK
  <2>1. granted \in [Places -> SUBSET AllCells] /\ \A p \in Places : granted[p] \subseteq Cells(p)
    BY CellsAreCells DEF Init
  <2>2. load \in Loads /\ load.answer = None
    BY DEF Init, Loads
  <2>3. pending \in Staged /\ pending.grant \cap pending.revoke = {}
    BY DEF Init, Staged, Nothing
  <2>4. {loadFailed, confirming, busy, failed, behind} \subseteq BOOLEAN
    BY DEF Init
  <2>5. saves \in [Saves -> {None} \cup Running] /\ \A s \in Saves : saves[s] = None
    BY DEF Init
  <2>6. elsewhere \in 0 .. MaxElsewhere /\ chosen \in Places /\ shown = None
    BY DEF Init
  <2> QED  BY <2>1, <2>2, <2>3, <2>4, <2>5, <2>6 DEF TypeOK
<1>2. OneOnScreen /\ DialogOnScreen /\ SavesAsConfirmed /\ DoneIsInEffect
  BY DEF Init, OneOnScreen, DialogOnScreen, SavesAsConfirmed, DoneIsInEffect
<1>3. LoadsCurrent
  <2>1. load \in Loads /\ load.answer = None /\ load.place = chosen
    BY DEF Init, Loads
  <2> QED  BY <2>1 DEF LoadsCurrent
<1> QED  BY <1>1, <1>2, <1>3 DEF GrantsInv

(* What Ask starts. *)
LEMMA AskStarts ==
    ASSUME NEW p \in Places, Ask(p)
    PROVE  /\ load' \in Loads /\ load' # None /\ load'.place = p /\ load'.answer = None
           /\ loadFailed' = FALSE /\ behind' = FALSE
<1>1. load' \in Loads /\ load'.place = p /\ load'.answer = None
  BY DEF Ask, Loads
<1> QED  BY <1>1 DEF Ask

(* A grid that goes leaves its saves running, off the screen. *)
LEMMA UnmountedSaves ==
    ASSUME saves \in [Saves -> {None} \cup Running],
           \/ saves' = [s \in Saves |-> IF saves[s] = None THEN None
                              ELSE [saves[s] EXCEPT !.mounted = FALSE]]
           \/ saves' = [s \in Saves |-> IF saves[s] = None THEN None
                              ELSE [saves[s] EXCEPT !.mounted = FALSE, !.onPage = FALSE]]
    PROVE  /\ saves' \in [Saves -> {None} \cup Running]
           /\ \A s \in Saves :
                 /\ saves'[s] = None <=> saves[s] = None
                 /\ saves[s] # None =>
                       /\ saves'[s].mounted = FALSE
                       /\ saves'[s] = [saves[s] EXCEPT !.mounted = FALSE, !.onPage = saves'[s].onPage]
                       /\ saves'[s].onPage \in BOOLEAN
<1>1. ASSUME NEW s \in Saves, saves[s] # None
      PROVE  /\ saves'[s] \in Running /\ saves'[s] # None
             /\ saves'[s].mounted = FALSE
             /\ saves'[s] = [saves[s] EXCEPT !.mounted = FALSE, !.onPage = saves'[s].onPage]
             /\ saves'[s].onPage \in BOOLEAN
  <2>1. saves[s] \in Running
    BY <1>1
  <2>2. CASE saves'[s] = [saves[s] EXCEPT !.mounted = FALSE]
    <3>1. saves'[s] \in Running
      BY <2>1, <2>2 DEF Running
    <3>2. saves'[s] # None
      BY <3>1
    <3> QED  BY <2>1, <2>2, <3>1, <3>2 DEF Running
  <2>3. CASE saves'[s] = [saves[s] EXCEPT !.mounted = FALSE, !.onPage = FALSE]
    <3>1. saves'[s] \in Running
      BY <2>1, <2>3 DEF Running
    <3>2. saves'[s] # None
      BY <3>1
    <3> QED  BY <2>1, <2>3, <3>1, <3>2 DEF Running
  <2> QED  BY <1>1, <2>2, <2>3
<1>2. \A s \in Saves : saves[s] = None => saves'[s] = None
  OBVIOUS
<1>3. saves' \in [Saves -> {None} \cup Running]
  <2>1. saves' = [s \in Saves |-> saves'[s]]
    OBVIOUS
  <2> QED  BY <1>1, <1>2, <2>1
<1>4. \A s \in Saves : saves'[s] = None <=> saves[s] = None
  BY <1>1, <1>2
<1> QED  BY <1>1, <1>3, <1>4

(* A save that starts. *)
LEMMA StartedSave ==
    ASSUME TypeOK, Mounted, NEW named \in SUBSET AllCells, DoSave(named)
    PROVE  \E s \in Saves, new \in Running :
              /\ saves[s] = None /\ saves' = [saves EXCEPT ![s] = new]
              /\ new.place = shown.place /\ new.changes = pending /\ new.named = named
              /\ new.access = AccessList /\ new.todo = Requests(pending)
              /\ new.applied = FALSE /\ new.mounted = TRUE /\ new.onPage = TRUE
<1>1. shown \in Grids /\ shown.place \in Places /\ shown.saved \subseteq AllCells
  BY DEF TypeOK, Mounted, Grids
<1>2. pending \in Staged
  BY DEF TypeOK
<1>3. AccessList \subseteq AllCells
  BY <1>1, <1>2 DEF AccessList, InUse, Staged
<1>4. Requests(pending) \subseteq Rows \cup {Use}
  BY <1>2 DEF Requests, Tables, Changes, Staged, AllCells
<1>5. PICK s \in Saves :
         /\ saves[s] = None
         /\ saves' = [saves EXCEPT ![s] =
                [place |-> shown.place, changes |-> pending, named |-> named,
                 access |-> AccessList, todo |-> Requests(pending), applied |-> FALSE,
                 contested |-> \E o \in Saves : saves[o] # None /\ saves[o].place = shown.place,
                 mounted |-> TRUE, onPage |-> TRUE]]
  BY DEF DoSave
<1> DEFINE contested == \E o \in Saves : saves[o] # None /\ saves[o].place = shown.place
<1>6. contested \in BOOLEAN
  OBVIOUS
<1> HIDE DEF contested
<1> DEFINE new == [place |-> shown.place, changes |-> pending, named |-> named,
                   access |-> AccessList, todo |-> Requests(pending), applied |-> FALSE,
                   contested |-> contested, mounted |-> TRUE, onPage |-> TRUE]
<1>7. new \in Running
  BY <1>1, <1>2, <1>3, <1>4, <1>6 DEF Running
<1>8. saves[s] = None /\ saves' = [saves EXCEPT ![s] = new]
  BY <1>5 DEF contested
<1> QED  BY <1>7, <1>8

(* Of a save that goes on: what it is stays, and it does not come back on screen. *)
Kept(s) ==
    /\ saves[s] # None
    /\ saves'[s].place = saves[s].place /\ saves'[s].changes = saves[s].changes
    /\ saves'[s].named = saves[s].named /\ saves'[s].access = saves[s].access
    /\ saves'[s].mounted => saves[s].mounted /\ saves'[s].onPage = saves[s].onPage
    /\ saves[s].applied => saves'[s].applied

(* What one request changes of the saves. *)
LEMMA PutSaves ==
    ASSUME TypeOK, NEW s \in Saves, saves[s] # None, NEW request,
           saves' = [Contest(Saves \ {s}, saves[s].place) EXCEPT
                        ![s].todo = @ \ {request}, ![s].applied = TRUE]
    PROVE  /\ saves' \in [Saves -> {None} \cup Running]
           /\ saves'[s] = [saves[s] EXCEPT !.todo = @ \ {request}, !.applied = TRUE]
           /\ saves'[s] # None
           /\ \A o \in Saves \ {s} : saves'[o] = Contest(Saves \ {s}, saves[s].place)[o]
<1> DEFINE C == Contest(Saves \ {s}, saves[s].place)
<1>1. saves[s] \in Running /\ saves[s].place \in Places
  BY DEF TypeOK, Running
<1>t. saves \in [Saves -> {None} \cup Running]
  BY DEF TypeOK
<1>2. C \in [Saves -> {None} \cup Running] /\ C[s] = saves[s]
  <2>1. C[s] = saves[s]
    BY DEF Contest
  <2>2. C \in [Saves -> {None} \cup Running]
    BY <1>t, <1>1, ContestedSaves
  <2> QED  BY <2>1, <2>2
<1> HIDE DEF C
<1>3. saves' = [C EXCEPT ![s] = [saves[s] EXCEPT !.todo = @ \ {request}, !.applied = TRUE]]
  BY <1>1, <1>2 DEF C, Running
<1>4. [saves[s] EXCEPT !.todo = @ \ {request}, !.applied = TRUE] \in Running
  BY <1>1 DEF Running
<1> QED  BY <1>2, <1>3, <1>4 DEF C

LEMMA ContestedKept ==
    ASSUME TypeOK, NEW others \in SUBSET Saves, NEW p \in Places, NEW o \in Saves,
           saves'[o] # None, saves'[o] = Contest(others, p)[o]
    PROVE  Kept(o)
<1>t. saves \in [Saves -> {None} \cup Running]
  BY DEF TypeOK
<1> DEFINE C == Contest(others, p)
<1>c. /\ C[o] = None <=> saves[o] = None
      /\ saves[o] # None => C[o] = [saves[o] EXCEPT !.contested = C[o].contested]
  BY <1>t, ContestedSaves
<1> HIDE DEF C
<1>0. saves'[o] = C[o]
  BY DEF C
<1>1. saves[o] # None /\ saves[o] \in Running
  BY <1>t, <1>c, <1>0
<1>2. saves'[o] = [saves[o] EXCEPT !.contested = saves'[o].contested]
  BY <1>c, <1>0, <1>1
<1> QED  BY <1>1, <1>2 DEF Kept, Running

(* Whatever happens, saves start on the grid on screen, go on, or end. *)
LEMMA SavesGoOn ==
    ASSUME TypeOK, Next, UNCHANGED saves \/ ~(RequestSave \/ Confirm)
    PROVE  /\ saves' \in [Saves -> {None} \cup Running]
           /\ \A s \in Saves : saves'[s] # None => Kept(s)
<1> DEFINE Goal == /\ saves' \in [Saves -> {None} \cup Running]
                   /\ \A s \in Saves : saves'[s] # None => Kept(s)
<1>t. saves \in [Saves -> {None} \cup Running]
  BY DEF TypeOK
<1>1. CASE UNCHANGED saves
  BY <1>t, <1>1 DEF Kept
<1>2. ASSUME Unmount \/ \E p \in Places : Leave(p)
      PROVE  Goal
  <2>1. /\ saves' \in [Saves -> {None} \cup Running]
        /\ \A s \in Saves :
              /\ saves'[s] = None <=> saves[s] = None
              /\ saves[s] # None =>
                    /\ saves'[s].mounted = FALSE
                    /\ saves'[s] = [saves[s] EXCEPT !.mounted = FALSE, !.onPage = saves'[s].onPage]
    <3>1. CASE Unmount
      BY <1>t, <3>1, UnmountedSaves, ZenonT(60) DEF Unmount
    <3>2. CASE \E p \in Places : Leave(p)
      BY <1>t, <3>2, UnmountedSaves DEF Leave
    <3> QED  BY <1>2, <3>1, <3>2
  <2>2. ASSUME NEW s \in Saves, saves'[s] # None
        PROVE  Kept(s)
    <3>1. saves[s] # None /\ saves[s] \in Running
      BY <1>t, <2>1, <2>2
    <3> QED  BY <2>1, <3>1 DEF Kept, Running
  <2> QED  BY <2>1, <2>2
<1>3. ASSUME NEW s \in Saves, Put(s)
      PROVE  Goal
  <2>1. PICK request :
          saves' = [Contest(Saves \ {s}, saves[s].place) EXCEPT
                        ![s].todo = @ \ {request}, ![s].applied = TRUE]
    BY <1>3 DEF Put
  <2>2. saves[s] # None /\ saves[s] \in Running /\ saves[s].place \in Places
    <3>1. saves[s] # None
      BY <1>3 DEF Put
    <3>2. saves[s] \in Running
      BY <1>t, <3>1, ZenonT(60)
    <3> QED  BY <3>1, <3>2 DEF Running
  <2>3. /\ saves' \in [Saves -> {None} \cup Running]
        /\ saves'[s] = [saves[s] EXCEPT !.todo = @ \ {request}, !.applied = TRUE]
        /\ \A o \in Saves \ {s} : saves'[o] = Contest(Saves \ {s}, saves[s].place)[o]
    BY <2>1, <2>2, PutSaves
  <2>4. Kept(s)
    BY <2>2, <2>3 DEF Kept, Running
  <2>5. ASSUME NEW o \in Saves \ {s}, saves'[o] # None
        PROVE  Kept(o)
    BY <1>t, <2>2, <2>3, <2>5, ContestedKept
  <2> QED  BY <2>3, <2>4, <2>5
<1>4. ASSUME NEW s \in Saves, PutFails(s) \/ Finish(s)
      PROVE  Goal
  <2>2. saves[s] # None /\ saves[s] \in Running /\ saves[s].place \in Places
    BY <1>t, <1>4 DEF PutFails, Finish, Running
  <2>3. CASE saves' = [saves EXCEPT ![s] = None]
    BY <1>t, <2>3 DEF Kept
  <2>4. CASE saves' = [Contest(Saves \ {s}, saves[s].place) EXCEPT ![s] = None]
    <3>1. saves' \in [Saves -> {None} \cup Running]
      <4> DEFINE C == Contest(Saves \ {s}, saves[s].place)
      <4>1. C \in [Saves -> {None} \cup Running]
        BY <1>t, <2>2, ContestedSaves
      <4>2. saves' = [C EXCEPT ![s] = None]
        BY <2>4
      <4> HIDE DEF C
      <4> QED  BY <4>1, <4>2
    <3>2. ASSUME NEW o \in Saves, saves'[o] # None
          PROVE  Kept(o)
      <4>1. o # s /\ saves'[o] = Contest(Saves \ {s}, saves[s].place)[o]
        <5> DEFINE C == Contest(Saves \ {s}, saves[s].place)
        <5>1. C \in [Saves -> {None} \cup Running]
          BY <1>t, <2>2, ContestedSaves
        <5> HIDE DEF C
        <5>2. saves' = [C EXCEPT ![s] = None]
          BY <2>4 DEF C
        <5>3. o # s /\ saves'[o] = C[o]
          BY <3>2, <5>1, <5>2
        <5> QED  BY <5>3 DEF C
      <4> QED  BY <1>t, <2>2, <3>2, <4>1, ContestedKept
    <3> QED  BY <3>1, <3>2
  <2> QED  BY <1>4, <2>3, <2>4 DEF PutFails, Finish
<1>5. ASSUME NEW p \in Places, Elsewhere(p)
      PROVE  Goal
  <2>1. saves' = Contest(Saves, p)
    BY <1>5 DEF Elsewhere
  <2>2. \A s \in Saves : saves'[s] # None => Kept(s)
    BY <2>1, ContestedKept
  <2> QED  BY <1>t, <2>1, <2>2, ContestedSaves
<1>6. CASE Arrive
  BY <1>1, <1>2, <1>6 DEF Arrive, Show
<1>7. CASE LoadFails
  BY <1>2, <1>7 DEF LoadFails
<1>8. CASE Serve \/ Reload \/ Discard \/ CancelConfirm
  BY <1>1, <1>8 DEF Serve, Reload, Discard, CancelConfirm
<1>9. CASE \E p \in Places : Choose(p)
  BY <1>1, <1>9 DEF Choose
<1>10. CASE \E cells \in Clickable : Click(cells)
  BY <1>1, <1>10 DEF Click
<1> QED  BY <1>1, <1>2, <1>3, <1>4, <1>5, <1>6, <1>7, <1>8, <1>9, <1>10 DEF Next, Save

--------------------------------------------------------------------------------
(* Type correctness, part by part *)

\* The steps of a save and of other admins: the ones that change what is granted.
Writes == (\E s \in Saves : Put(s) \/ PutFails(s)) \/ \E p \in Places : Elsewhere(p)

LEMMA GrantedStep ==
    ASSUME TypeOK, Next
    PROVE  /\ granted' \in [Places -> SUBSET AllCells]
           /\ \A p \in Places : granted'[p] \subseteq Cells(p)
           /\ elsewhere' \in 0 .. MaxElsewhere
<1> DEFINE Goal == /\ granted' \in [Places -> SUBSET AllCells]
                   /\ \A p \in Places : granted'[p] \subseteq Cells(p)
<1>t. /\ granted \in [Places -> SUBSET AllCells]
      /\ \A p \in Places : granted[p] \subseteq Cells(p)
      /\ elsewhere \in 0 .. MaxElsewhere
  BY DEF TypeOK
<1>1. ASSUME NEW s \in Saves, saves[s] # None, NEW request,
             granted' = [granted EXCEPT ![saves[s].place] = Applied(s, request)]
      PROVE  Goal
  <2>1. saves[s].place \in Places
    BY <1>1 DEF TypeOK, Running
  <2>2. Applied(s, request) \subseteq Cells(saves[s].place)
    BY <1>1, AppliedCells
  <2> QED  BY <1>t, <1>1, <2>1, <2>2, CellsAreCells
<1>2. ASSUME NEW p \in Places, Elsewhere(p)
      PROVE  Goal /\ elsewhere' \in 0 .. MaxElsewhere
  <2>1. PICK c \in Cells(p) :
           granted' = [granted EXCEPT ![p] = IF c \in @ THEN @ \ {c} ELSE @ \cup {c}]
    BY <1>2 DEF Elsewhere
  <2>2. Goal
    BY <1>t, <2>1, CellsAreCells
  <2>3. elsewhere' \in 0 .. MaxElsewhere
    BY <1>t, <1>2 DEF Elsewhere
  <2> QED  BY <2>2, <2>3
<1>3. ASSUME NEW s \in Saves, Put(s) \/ PutFails(s)
      PROVE  Goal /\ UNCHANGED elsewhere
  BY <1>t, <1>1, <1>3 DEF Put, PutFails
<1>4. CASE UNCHANGED <<granted, elsewhere>>
  BY <1>t, <1>4
<1>5. CASE ~Writes
  BY <1>4, <1>5 DEF Next, Writes, Save, Serve, Arrive, LoadFails, Choose, Leave, Reload, Discard,
                    RequestSave, Confirm, CancelConfirm, Click, Finish
<1>6. CASE Writes
  BY <1>t, <1>2, <1>3, <1>6 DEF Writes
<1> QED  BY <1>5, <1>6

LEMMA LoadStep ==
    ASSUME TypeOK, Next
    PROVE  /\ chosen' \in Places
           /\ load' \in {None} \cup Loads
           /\ load' # None /\ load'.answer # None => load'.answer[1] \subseteq Cells(load'.place)
<1> DEFINE Goal == /\ load' \in {None} \cup Loads
                   /\ load' # None /\ load'.answer # None
                         => load'.answer[1] \subseteq Cells(load'.place)
<1>t. /\ load \in {None} \cup Loads /\ chosen \in Places
      /\ load # None /\ load.answer # None => load.answer[1] \subseteq Cells(load.place)
  BY DEF TypeOK
<1>1. CASE Serve
  <2>1. load \in Loads /\ load.place \in Places
    BY <1>t, <1>1 DEF Serve, Loads
  <2>2. granted[load.place] \in SUBSET AllCells /\ granted[load.place] \subseteq Cells(load.place)
    BY <2>1 DEF TypeOK
  <2>3. load' = [load EXCEPT !.answer = <<granted[load.place]>>]
    BY <1>1 DEF Serve
  <2>4. /\ load' \in Loads /\ load'.place = load.place
        /\ load'.answer = <<granted[load.place]>>
    BY <2>1, <2>2, <2>3 DEF Loads
  <2>5. load'.answer[1] = granted[load.place]
    BY <2>4
  <2>6. chosen' = chosen
    BY <1>1 DEF Serve
  <2> QED  BY <1>t, <2>2, <2>4, <2>5, <2>6
<1>2. ASSUME NEW p \in Places, Ask(p)
      PROVE  Goal
  BY <1>2, AskStarts
<1>3. CASE (load' = None \/ UNCHANGED load) /\ UNCHANGED chosen
  BY <1>t, <1>3
<1>4. ASSUME NEW p \in Places, Choose(p) \/ Leave(p)
      PROVE  Goal /\ chosen' \in Places
  BY <1>2, <1>4 DEF Choose, Leave
<1>5. CASE Reload
  BY <1>t, <1>2, <1>5 DEF Reload
<1>6. ASSUME NEW s \in Saves, Finish(s)
      PROVE  Goal /\ chosen' \in Places
  BY <1>t, <1>2, <1>6 DEF Finish
<1>7. CASE Arrive \/ LoadFails \/ Discard \/ RequestSave \/ Confirm \/ CancelConfirm \/ Writes
           \/ \E cells \in Clickable : Click(cells)
  BY <1>3, <1>7 DEF Arrive, LoadFails, Discard, RequestSave, Confirm, CancelConfirm, Writes,
                    Put, PutFails, Elsewhere, Click, data
<1> QED  BY <1>1, <1>4, <1>5, <1>6, <1>7 DEF Next, Save, Writes

(* There is nothing to click on but cells of the grid on screen. *)
LEMMA ClicksAreCells ==
    ASSUME NEW cells \in Clickable
    PROVE  Mounted /\ cells \subseteq Cells(shown.place)
<1>1. Mounted
  BY DEF Clickable
<1>2. cells \in {{c} : c \in Cells(shown.place)} \cup Lines(shown.place)
  BY <1>1 DEF Clickable
<1>3. \A l \in Lines(shown.place) : l \subseteq Cells(shown.place)
  BY DEF Lines, Cells
<1> QED  BY <1>1, <1>2, <1>3

LEMMA ShownStep ==
    ASSUME TypeOK, Next
    PROVE  /\ shown' \in {None} \cup Grids
           /\ shown' # None =>
                 /\ shown'.saved \subseteq Cells(shown'.place)
                 /\ Changes(pending') \subseteq Cells(shown'.place)
           /\ pending' \in Staged /\ pending'.grant \cap pending'.revoke = {}
<1> DEFINE Goal == /\ shown' \in {None} \cup Grids
                   /\ shown' # None =>
                         /\ shown'.saved \subseteq Cells(shown'.place)
                         /\ Changes(pending') \subseteq Cells(shown'.place)
                   /\ pending' \in Staged /\ pending'.grant \cap pending'.revoke = {}
<1>t. /\ shown \in {None} \cup Grids
      /\ shown # None =>
            /\ shown.saved \subseteq Cells(shown.place)
            /\ Changes(pending) \subseteq Cells(shown.place)
      /\ pending \in Staged /\ pending.grant \cap pending.revoke = {}
  BY DEF TypeOK
<1>n. Nothing \in Staged /\ Nothing.grant = {} /\ Nothing.revoke = {} /\ Changes(Nothing) = {}
  BY DEF Nothing, Staged, Changes
<1>1. CASE Arrive
  <2>1. load \in Loads /\ load.place \in Places /\ load.answer[1] \subseteq Cells(load.place)
    BY <1>1 DEF Arrive, TypeOK, Loads
  <2>2. shown' = [place |-> load.place, saved |-> load.answer[1]]
    BY <1>1 DEF Arrive, Show
  <2>3. load.answer[1] \subseteq AllCells
    BY <2>1, CellsAreCells
  <2>4. shown' \in Grids /\ shown'.place = load.place /\ shown'.saved = load.answer[1]
    BY <2>1, <2>2, <2>3 DEF Grids
  <2>5. CASE pending' = Nothing
    BY <1>n, <2>1, <2>4, <2>5
  <2>6. CASE shown # None /\ shown.place = load.place /\ pending' = pending
    BY <1>t, <2>1, <2>4, <2>6
  <2> QED  BY <1>1, <2>5, <2>6 DEF Arrive, Show, Unmount, grid
<1>2. CASE UNCHANGED shown /\ pending' = Nothing
  BY <1>t, <1>n, <1>2
<1>3. CASE UNCHANGED <<shown, pending>>
  BY <1>t, <1>3
<1>4. CASE LoadFails \/ Discard
  BY <1>2, <1>4 DEF LoadFails, Unmount, Discard, data
<1>5. ASSUME NEW p \in Places, Leave(p)
      PROVE  Goal
  BY <1>n, <1>5 DEF Leave
<1>6. ASSUME NEW cells \in Clickable, Click(cells)
      PROVE  Goal
  <2>1. shown # None /\ shown \in Grids /\ shown.place \in Places
    BY <1>t, <1>6 DEF Click, Mounted, Grids
  <2>2. cells \subseteq Cells(shown.place) /\ cells \subseteq AllCells
    BY <2>1, ClicksAreCells, CellsAreCells
  <2>3. PICK wanted \in BOOLEAN : pending' = Stage(cells, wanted)
    BY <1>6 DEF Click
  <2>4. /\ pending' \in Staged /\ pending'.grant \cap pending'.revoke = {}
        /\ Changes(pending') \subseteq Changes(pending) \cup cells
    <3>1. pending.grant \subseteq AllCells /\ pending.revoke \subseteq AllCells
      BY <1>t DEF Staged
    <3>2. CASE wanted
      <4>1. /\ pending'.grant = (pending.grant \ cells) \cup (cells \ shown.saved)
            /\ pending'.revoke = pending.revoke \ cells
            /\ pending' = [grant |-> pending'.grant, revoke |-> pending'.revoke]
        BY <2>3, <3>2 DEF Stage
      <4>2. pending' \in Staged
        BY <2>2, <3>1, <4>1 DEF Staged
      <4> QED  BY <1>t, <4>1, <4>2 DEF Changes
    <3>3. CASE ~wanted
      <4>1. /\ pending'.grant = pending.grant \ cells
            /\ pending'.revoke = (pending.revoke \ cells) \cup (cells \cap shown.saved)
            /\ pending' = [grant |-> pending'.grant, revoke |-> pending'.revoke]
        BY <2>3, <3>3 DEF Stage
      <4>2. pending' \in Staged
        BY <2>2, <3>1, <4>1 DEF Staged
      <4> QED  BY <1>t, <4>1, <4>2 DEF Changes
    <3> QED  BY <3>2, <3>3
  <2>5. shown' = shown
    BY <1>6 DEF Click, data
  <2> QED  BY <1>t, <2>1, <2>2, <2>4, <2>5
<1>7. ASSUME NEW s \in Saves, Finish(s)
      PROVE  Goal
  BY <1>2, <1>3, <1>7 DEF Finish, grid
<1>8. CASE \/ Serve \/ Reload \/ RequestSave \/ Confirm \/ CancelConfirm \/ Writes
           \/ \E p \in Places : Choose(p)
  BY <1>3, <1>8 DEF Serve, Reload, RequestSave, Confirm, CancelConfirm, Choose, Writes,
                    Put, PutFails, Elsewhere, data, grid
<1> QED  BY <1>1, <1>4, <1>5, <1>6, <1>7, <1>8 DEF Next, Save, Writes

LEMMA FlagsStep ==
    ASSUME TypeOK, Next
    PROVE  {loadFailed', confirming', busy', failed', behind'} \subseteq BOOLEAN
<1>t. /\ loadFailed \in BOOLEAN /\ confirming \in BOOLEAN /\ busy \in BOOLEAN
      /\ failed \in BOOLEAN /\ behind \in BOOLEAN
  BY DEF TypeOK
<1>1. loadFailed' \in BOOLEAN
  BY <1>t DEF Next, Save, Serve, Arrive, LoadFails, Choose, Leave, Elsewhere, Reload, Discard, RequestSave,
              Confirm, CancelConfirm, Click, Put, PutFails, Finish, Ask, data
<1>2. confirming' \in BOOLEAN
  BY <1>t, ZenonT(60) DEF Next, Save, Serve, Arrive, Show, Unmount, LoadFails, Choose, Leave, Elsewhere, Reload, Discard,
              RequestSave, Confirm, CancelConfirm, Click, Put, PutFails, Stops, Finish, grid
<1>3. busy' \in BOOLEAN /\ failed' \in BOOLEAN
  BY <1>t, ZenonT(60) DEF Next, Save, Serve, Arrive, Show, Unmount, LoadFails, Choose, Leave, Elsewhere, Reload, Discard,
              RequestSave, Confirm, CancelConfirm, Click, Put, PutFails, Stops, Finish, DoSave, grid
<1>4. behind' \in BOOLEAN
  BY <1>t DEF Next, Save, Serve, Arrive, LoadFails, Choose, Leave, Elsewhere, Reload, Discard, RequestSave,
              Confirm, CancelConfirm, Click, Put, PutFails, Finish, Ask
<1> QED  BY <1>1, <1>2, <1>3, <1>4

LEMMA SavesStep ==
    ASSUME TypeOK, OneOnScreen, DialogOnScreen, Next
    PROVE  /\ saves' \in [Saves -> {None} \cup Running]
           /\ \A s \in Saves : saves'[s] # None =>
                 /\ Changes(saves'[s].changes) \cup saves'[s].access \subseteq Cells(saves'[s].place)
                 /\ saves'[s].mounted => saves'[s].onPage /\ busy'
           /\ OneOnScreen'
<1>t. /\ saves \in [Saves -> {None} \cup Running]
      /\ \A s \in Saves : saves[s] # None =>
            /\ Changes(saves[s].changes) \cup saves[s].access \subseteq Cells(saves[s].place)
            /\ saves[s].mounted => saves[s].onPage /\ busy
  BY DEF TypeOK
<1>1. ASSUME UNCHANGED saves \/ ~(RequestSave \/ Confirm)
      PROVE  /\ saves' \in [Saves -> {None} \cup Running]
             /\ \A s \in Saves : saves'[s] # None =>
                   /\ Changes(saves'[s].changes) \cup saves'[s].access \subseteq Cells(saves'[s].place)
                   /\ saves'[s].mounted => saves'[s].onPage
             /\ OneOnScreen'
  BY <1>t, <1>1, SavesGoOn DEF Kept, OneOnScreen
<1>2. ASSUME ~(RequestSave \/ Confirm), NEW s \in Saves, saves'[s] # None, saves'[s].mounted
      PROVE  busy'
  <2>1. Kept(s) /\ saves[s].mounted /\ busy
    BY <1>t, <1>2, SavesGoOn DEF Kept
  <2>2. CASE UNCHANGED busy
    BY <2>1, <2>2
  <2>3. CASE Unmount \/ \E p \in Places : Leave(p)
    <3>1. saves'[s].mounted = FALSE
      BY <1>t, <2>1, <2>3, UnmountedSaves DEF Unmount, Leave, Kept
    <3> QED  BY <1>2, <3>1
  <2>4. ASSUME NEW o \in Saves, PutFails(o) \/ Finish(o)
        PROVE  busy'
    <3>1. saves[o] # None /\ saves'[o] = None
      BY <1>t, <2>4 DEF PutFails, Finish, Contest
    <3>2. ~saves[o].mounted
      BY <1>2, <2>1, <3>1 DEF OneOnScreen, Kept
    <3> QED  BY <2>1, <2>4, <3>2 DEF PutFails, Finish, Stops, grid
  <2>5. CASE Arrive
    BY <2>2, <2>3, <2>5 DEF Arrive, Show, grid
  <2>6. CASE LoadFails
    BY <2>3, <2>6 DEF LoadFails
  <2>7. CASE \/ Serve \/ Reload \/ Discard \/ CancelConfirm
             \/ (\E p \in Places : Choose(p) \/ Elsewhere(p)) \/ (\E o \in Saves : Put(o))
             \/ (\E cells \in Clickable : Click(cells))
    BY <2>2, <2>7 DEF Serve, Reload, Discard, CancelConfirm, Choose, Elsewhere, Put, Click, grid
  <2> QED  BY <1>2, <2>3, <2>4, <2>5, <2>6, <2>7 DEF Next, Save
<1>3. ASSUME RequestSave \/ Confirm, UNCHANGED saves
      PROVE  \A s \in Saves : saves'[s] # None /\ saves'[s].mounted => busy'
  <2>1. UNCHANGED busy \/ busy' = TRUE
    BY <1>3 DEF RequestSave, Confirm, DoSave
  <2> QED  BY <1>t, <1>3, <2>1
<1>4. ASSUME NEW named \in SUBSET AllCells, Mounted, ~busy, DoSave(named)
      PROVE  /\ saves' \in [Saves -> {None} \cup Running]
             /\ \A s \in Saves : saves'[s] # None =>
                   /\ Changes(saves'[s].changes) \cup saves'[s].access \subseteq Cells(saves'[s].place)
                   /\ saves'[s].mounted => saves'[s].onPage /\ busy'
             /\ OneOnScreen'
  <2>1. PICK n \in Saves, new \in Running :
              /\ saves[n] = None /\ saves' = [saves EXCEPT ![n] = new]
              /\ new.place = shown.place /\ new.changes = pending
              /\ new.access = AccessList /\ new.onPage = TRUE
    BY <1>4, StartedSave
  <2>2. Changes(new.changes) \cup new.access \subseteq Cells(new.place)
    BY <1>4, <2>1 DEF TypeOK, Mounted, Changes, AccessList, InUse
  <2>3. busy' = TRUE
    BY <1>4 DEF DoSave
  <2>4. \A s \in Saves : saves[s] # None => ~saves[s].mounted
    BY <1>t, <1>4
  <2> QED  BY <1>t, <2>1, <2>2, <2>3, <2>4 DEF OneOnScreen
<1>5. ASSUME RequestSave \/ Confirm, ~UNCHANGED saves
      PROVE  \E named \in SUBSET AllCells : Mounted /\ ~busy /\ DoSave(named)
  BY <1>5 DEF RequestSave, Confirm, TypeOK, Staged, DialogOnScreen
<1> QED  BY <1>1, <1>2, <1>3, <1>4, <1>5

LEMMA TypeStep == GrantsInv /\ Next => TypeOK' /\ OneOnScreen'
<1> SUFFICES ASSUME GrantsInv, Next PROVE TypeOK' /\ OneOnScreen'
  OBVIOUS
<1>1. TypeOK /\ OneOnScreen /\ DialogOnScreen
  BY DEF GrantsInv
<1>2. TypeOK'
  BY <1>1, GrantedStep, LoadStep, ShownStep, FlagsStep, SavesStep DEF TypeOK
<1> QED  BY <1>1, <1>2, SavesStep

LEMMA DialogStep == TypeOK /\ DialogOnScreen /\ Next => DialogOnScreen'
<1> SUFFICES ASSUME TypeOK, DialogOnScreen, Next, confirming' PROVE Mounted'
  BY DEF DialogOnScreen
<1>1. CASE UNCHANGED <<shown, loadFailed>>
  <2>1. confirming \/ RequestSave
    BY <1>1 DEF Next, Save, Serve, Arrive, Show, Unmount, LoadFails, Choose, Leave, Elsewhere,
                Reload, Discard, RequestSave, Confirm, CancelConfirm, Click, Put, PutFails, Stops, Finish, grid
  <2> QED  BY <1>1, <2>1 DEF DialogOnScreen, Mounted, RequestSave
<1>2. CASE Arrive
  <2>1. confirming /\ shown # None /\ ~loadFailed
    BY <1>2 DEF Arrive, Show, Unmount, grid, DialogOnScreen, Mounted
  <2>2. load \in Loads /\ shown' = [place |-> load.place, saved |-> load.answer[1]]
    BY <1>2 DEF Arrive, Show, TypeOK
  <2>3. load.place \in Places /\ load.answer[1] \in SUBSET AllCells
    BY <1>2, <2>2, CellsAreCells DEF Arrive, TypeOK, Loads
  <2>4. shown' \in Grids
    BY <2>2, <2>3 DEF Grids
  <2>5. shown' # None
    BY <2>4
  <2> QED  BY <1>2, <2>1, <2>5 DEF Arrive, Mounted
<1>3. CASE LoadFails \/ \E p \in Places : Leave(p)
  BY <1>3 DEF LoadFails, Unmount, Leave
<1>4. ASSUME Reload \/ (\E p \in Places : Choose(p)) \/ \E s \in Saves : Finish(s)
      PROVE  Mounted'
  <2>1. confirming /\ shown' = shown /\ (loadFailed' = FALSE \/ loadFailed' = loadFailed)
    BY <1>4 DEF Reload, Choose, Finish, Ask, grid
  <2> QED  BY <2>1 DEF DialogOnScreen, Mounted
<1>5. CASE ~(Arrive \/ LoadFails \/ Reload \/ (\E p \in Places : Leave(p) \/ Choose(p))
                \/ \E s \in Saves : Finish(s))
  <2>1. UNCHANGED <<shown, loadFailed>>
    BY <1>5 DEF Next, Save, Serve, Elsewhere, Discard, RequestSave, Confirm, CancelConfirm, Click,
                Put, PutFails, data
  <2> QED  BY <1>1, <2>1
<1> QED  BY <1>2, <1>3, <1>4, <1>5

--------------------------------------------------------------------------------
(* What a save does *)

(* A save that starts is of what is staged, and what it revokes is in the dialog. *)
LEMMA StartedAsConfirmed ==
    ASSUME TypeOK, DialogOnScreen, RequestSave \/ Confirm, ~UNCHANGED saves
    PROVE  \E s \in Saves, new \in Running :
              /\ saves[s] = None /\ saves' = [saves EXCEPT ![s] = new]
              /\ new.place = shown.place /\ new.changes = pending
              /\ pending.revoke \subseteq new.named
              /\ new.access = AccessList /\ new.todo = Requests(pending)
              /\ new.applied = FALSE
<1>1. PICK named \in SUBSET AllCells :
         Mounted /\ DoSave(named) /\ pending.revoke \subseteq named
  BY DEF RequestSave, Confirm, TypeOK, Staged, DialogOnScreen
<1>2. Mounted /\ DoSave(named)
  BY <1>1
<1>3. PICK s \in Saves, new \in Running :
              /\ saves[s] = None /\ saves' = [saves EXCEPT ![s] = new]
              /\ new.place = shown.place /\ new.changes = pending /\ new.named = named
              /\ new.access = AccessList /\ new.todo = Requests(pending)
              /\ new.applied = FALSE /\ new.mounted = TRUE /\ new.onPage = TRUE
  BY <1>2, StartedSave
<1> QED  BY <1>1, <1>3

LEMMA ConfirmedStep ==
    ASSUME TypeOK, DialogOnScreen, SavesAsConfirmed, Next
    PROVE  SavesAsConfirmed'
<1>1. ASSUME UNCHANGED saves \/ ~(RequestSave \/ Confirm)
      PROVE  SavesAsConfirmed'
  BY <1>1, SavesGoOn DEF Kept, SavesAsConfirmed
<1>2. ASSUME RequestSave \/ Confirm, ~UNCHANGED saves
      PROVE  SavesAsConfirmed'
  <2>1. PICK s \in Saves, new \in Running :
           /\ saves[s] = None /\ saves' = [saves EXCEPT ![s] = new]
           /\ new.changes = pending /\ pending.revoke \subseteq new.named
           /\ new.access = AccessList
    BY <1>2, StartedAsConfirmed
  <2>2. pending.grant \cap pending.revoke = {}
    BY DEF TypeOK
  <2>3. \A c \in AccessList : c[2] = Use /\ c \notin pending.revoke
    BY DEF AccessList, InUse
  <2>4. InUse(pending.grant) \subseteq AccessList
    BY <2>2 DEF AccessList, InUse
  <2>5. saves \in [Saves -> {None} \cup Running]
    BY DEF TypeOK
  <2> QED  BY <2>1, <2>2, <2>3, <2>4, <2>5 DEF SavesAsConfirmed
<1> QED  BY <1>1, <1>2

(* Every staged cell is part of one of the requests of its save. *)
LEMMA EveryCellIsRequested ==
    ASSUME NEW changes \in Staged, NEW c \in Changes(changes)
    PROVE  RequestOf(c) \in Requests(changes)
<1>1. CASE c[2] = Use
  BY <1>1 DEF RequestOf, Requests, InUse
<1>2. CASE c[2] # Use
  <2>1. c \in Tables(Changes(changes))
    BY <1>2 DEF Tables, InUse
  <2> QED  BY <1>2, <2>1 DEF RequestOf, Requests
<1> QED  BY <1>1, <1>2

(* What a request puts into effect: its part of what was asked, and nothing else. *)
LEMMA AppliedEffect ==
    ASSUME TypeOK, SavesAsConfirmed, NEW s \in Saves, saves[s] # None,
           NEW request \in saves[s].todo, NEW c \in AllCells
    PROVE  LET now == granted[saves[s].place]
               wanted == saves[s].changes
           IN  /\ RequestOf(c) # request => (c \in Applied(s, request) <=> c \in now)
               /\ RequestOf(c) = request /\ c \in wanted.grant => c \in Applied(s, request)
               /\ RequestOf(c) = request /\ c \in wanted.revoke => c \notin Applied(s, request)
               /\ c[2] # Use /\ c \in Applied(s, request) /\ c \notin now => c \in wanted.grant
               /\ c[2] # Use /\ c \notin Applied(s, request) /\ c \in now => c \in wanted.revoke
<1> DEFINE now == granted[saves[s].place]
           wanted == saves[s].changes
           access == saves[s].access
<1>1. saves[s] \in Running /\ request \in Rows \cup {Use}
  BY DEF TypeOK, Running
<1>2. wanted \in Staged /\ c[1] \in Rows
  BY <1>1 DEF Running, AllCells
<1>3. /\ wanted.grant \cap wanted.revoke = {}
      /\ \A a \in access : a[2] = Use /\ a \notin wanted.revoke
      /\ InUse(wanted.grant) \subseteq access
  BY DEF SavesAsConfirmed
<1>4. CASE request = Use
  <2>1. Applied(s, request) = Tables(now) \cup access
    BY <1>4 DEF Applied
  <2>2. c \in Tables(now) <=> c \in now /\ c[2] # Use
    BY DEF Tables, InUse
  <2>3. RequestOf(c) = Use <=> c[2] = Use
    BY <1>2 DEF RequestOf
  <2>4. c \in wanted.grant /\ c[2] = Use => c \in access
    BY <1>3 DEF InUse
  <2> HIDE DEF now, wanted, access
  <2>5. (c \in access => c[2] = Use) /\ (c \in access => c \notin wanted.revoke)
    BY <1>3
  <2>6. c \in Applied(s, request) <=> (c \in now /\ c[2] # Use) \/ c \in access
    BY <2>1, <2>2
  <2>7. /\ RequestOf(c) # request => (c \in Applied(s, request) <=> c \in now)
        /\ RequestOf(c) = request /\ c \in wanted.grant => c \in Applied(s, request)
        /\ RequestOf(c) = request /\ c \in wanted.revoke => c \notin Applied(s, request)
        /\ c[2] # Use => (c \in Applied(s, request) <=> c \in now)
    BY <1>4, <2>3, <2>4, <2>5, <2>6
  <2> QED  BY <2>7 DEF now, wanted
<1>5. CASE request # Use
  <2> DEFINE mine == {d \in Changes(wanted) : d[1] = request /\ d[2] # Use}
  <2>1. Applied(s, request) = (now \ (mine \cap wanted.revoke)) \cup (mine \cap wanted.grant)
    BY <1>5 DEF Applied
  <2>2. c \in mine <=> c \in Changes(wanted) /\ RequestOf(c) = request
    BY <1>5 DEF RequestOf
  <2>3. c \in wanted.grant \/ c \in wanted.revoke <=> c \in Changes(wanted)
    BY DEF Changes
  <2> HIDE DEF now, wanted, access, mine
  <2>4. c \in Applied(s, request) <=>
          \/ c \in now /\ ~(c \in mine /\ c \in wanted.revoke)
          \/ c \in mine /\ c \in wanted.grant
    BY <2>1
  <2>5. ~(c \in wanted.grant /\ c \in wanted.revoke)
    BY <1>3
  <2>6. /\ RequestOf(c) # request => (c \in Applied(s, request) <=> c \in now)
        /\ RequestOf(c) = request /\ c \in wanted.grant => c \in Applied(s, request)
        /\ RequestOf(c) = request /\ c \in wanted.revoke => c \notin Applied(s, request)
        /\ c \in Applied(s, request) /\ c \notin now => c \in wanted.grant
        /\ c \notin Applied(s, request) /\ c \in now => c \in wanted.revoke
    BY <2>2, <2>3, <2>4, <2>5
  <2> QED  BY <2>6 DEF now, wanted
<1> QED  BY <1>4, <1>5

(* A save of a place that others write to is contested from then on. *)
LEMMA OthersContested ==
    ASSUME TypeOK, NEW others \in SUBSET Saves, NEW p \in Places,
           \A q \in Places \ {p} : granted'[q] = granted[q],
           NEW o \in others, saves'[o] = Contest(others, p)[o],
           saves'[o] # None, ~saves'[o].contested
    PROVE  /\ saves[o] # None /\ ~saves[o].contested
           /\ saves'[o].changes = saves[o].changes /\ saves'[o].todo = saves[o].todo
           /\ granted'[saves'[o].place] = granted[saves[o].place]
<1>t. saves \in [Saves -> {None} \cup Running]
  BY DEF TypeOK
<1> DEFINE C == Contest(others, p)
<1>c. /\ C[o] = None <=> saves[o] = None
      /\ saves[o] # None =>
            /\ C[o] = [saves[o] EXCEPT !.contested = C[o].contested]
            /\ C[o].contested <=> (saves[o].contested \/ saves[o].place = p)
  BY <1>t, ContestedSaves
<1> HIDE DEF C
<1>0. saves'[o] = C[o]
  BY DEF C
<1>1. saves[o] # None /\ saves[o] \in Running
  BY <1>t, <1>c, <1>0
<1>2. ~saves[o].contested /\ saves[o].place # p /\ saves[o].place \in Places
  BY <1>c, <1>0, <1>1 DEF Running
<1>3. saves'[o] = [saves[o] EXCEPT !.contested = saves'[o].contested]
  BY <1>c, <1>0, <1>1
<1>4. /\ saves'[o].changes = saves[o].changes /\ saves'[o].todo = saves[o].todo
      /\ saves'[o].place = saves[o].place
  BY <1>1, <1>3 DEF Running
<1> QED  BY <1>1, <1>2, <1>4

LEMMA DoneStep ==
    ASSUME TypeOK, DialogOnScreen, SavesAsConfirmed, DoneIsInEffect, Next
    PROVE  DoneIsInEffect'
<1> DEFINE Done(s) ==
        (saves[s] # None /\ ~saves[s].contested) =>
            /\ \A c \in saves[s].changes.grant :
                  RequestOf(c) \in saves[s].todo \/ c \in granted[saves[s].place]
            /\ \A c \in saves[s].changes.revoke :
                  RequestOf(c) \in saves[s].todo \/ c \notin granted[saves[s].place]
<1>d. (\A s \in Saves : Done(s)) /\ (DoneIsInEffect' <=> \A s \in Saves : Done(s)')
  BY DEF DoneIsInEffect
<1>t. /\ saves \in [Saves -> {None} \cup Running]
      /\ granted \in [Places -> SUBSET AllCells]
  BY DEF TypeOK
<1>k. ASSUME NEW s \in Saves,
             (saves'[s] # None /\ ~saves'[s].contested) =>
                 /\ saves[s] # None /\ ~saves[s].contested
                 /\ saves'[s].changes = saves[s].changes /\ saves'[s].todo = saves[s].todo
                 /\ granted'[saves'[s].place] = granted[saves[s].place]
      PROVE  Done(s)'
  BY <1>d, <1>k
<1>1. CASE UNCHANGED <<granted, saves>>
  BY <1>d, <1>1
<1>2. ASSUME RequestSave \/ Confirm, ~UNCHANGED saves
      PROVE  DoneIsInEffect'
  <2>1. PICK n \in Saves, new \in Running :
           /\ saves[n] = None /\ saves' = [saves EXCEPT ![n] = new]
           /\ new.changes = pending /\ new.todo = Requests(pending)
    BY <1>2, StartedAsConfirmed
  <2>2. granted' = granted
    BY <1>2 DEF RequestSave, Confirm
  <2>3. \A c \in Changes(pending) : RequestOf(c) \in Requests(pending)
    BY EveryCellIsRequested DEF TypeOK
  <2>4. Done(n)'
    BY <1>t, <2>1, <2>3 DEF Changes
  <2>5. ASSUME NEW s \in Saves \ {n} PROVE Done(s)'
    BY <1>d, <1>t, <2>1, <2>2
  <2> QED  BY <1>d, <2>4, <2>5
<1>3. ASSUME NEW s \in Saves, NEW request \in saves[s].todo, saves[s] # None,
             granted' = [granted EXCEPT ![saves[s].place] = Applied(s, request)]
      PROVE  \A q \in Places \ {saves[s].place} : granted'[q] = granted[q]
  BY <1>t, <1>3
<1>4. ASSUME NEW s \in Saves, Put(s)
      PROVE  DoneIsInEffect'
  <2>1. PICK request \in saves[s].todo :
           /\ granted' = [granted EXCEPT ![saves[s].place] = Applied(s, request)]
           /\ saves' = [Contest(Saves \ {s}, saves[s].place) EXCEPT
                            ![s].todo = @ \ {request}, ![s].applied = TRUE]
    BY <1>4 DEF Put, Next1
  <2>2. saves[s] # None /\ saves[s] \in Running /\ saves[s].place \in Places
    BY <1>t, <1>4 DEF Put, Running
  <2>3. /\ saves'[s] = [saves[s] EXCEPT !.todo = @ \ {request}, !.applied = TRUE]
        /\ \A o \in Saves \ {s} : saves'[o] = Contest(Saves \ {s}, saves[s].place)[o]
    BY <2>1, <2>2, PutSaves
  <2>4. /\ saves'[s].place = saves[s].place /\ saves'[s].changes = saves[s].changes
        /\ saves'[s].contested = saves[s].contested
        /\ saves'[s].todo = saves[s].todo \ {request}
    BY <2>2, <2>3 DEF Running
  <2>5. granted'[saves[s].place] = Applied(s, request)
    BY <1>t, <2>1, <2>2
  <2>6. saves[s].changes.grant \subseteq AllCells /\ saves[s].changes.revoke \subseteq AllCells
    BY <2>2 DEF Running, Staged
  <2>7. Done(s)'
    <3>1. SUFFICES ASSUME ~saves[s].contested
                   PROVE  /\ \A c \in saves[s].changes.grant :
                                RequestOf(c) \in saves'[s].todo \/ c \in granted'[saves[s].place]
                          /\ \A c \in saves[s].changes.revoke :
                                RequestOf(c) \in saves'[s].todo \/ c \notin granted'[saves[s].place]
      BY <2>4
    <3>2. ASSUME NEW c \in saves[s].changes.grant
          PROVE  RequestOf(c) \in saves'[s].todo \/ c \in granted'[saves[s].place]
      <4>1. RequestOf(c) \in saves[s].todo \/ c \in granted[saves[s].place]
        BY <1>d, <2>2, <3>1
      <4>2. /\ RequestOf(c) # request =>
                  (c \in Applied(s, request) <=> c \in granted[saves[s].place])
            /\ RequestOf(c) = request => c \in Applied(s, request)
        BY <2>2, <2>6, AppliedEffect
      <4> QED  BY <2>4, <2>5, <4>1, <4>2
    <3>3. ASSUME NEW c \in saves[s].changes.revoke
          PROVE  RequestOf(c) \in saves'[s].todo \/ c \notin granted'[saves[s].place]
      <4>1. RequestOf(c) \in saves[s].todo \/ c \notin granted[saves[s].place]
        BY <1>d, <2>2, <3>1
      <4>2. /\ RequestOf(c) # request =>
                  (c \in Applied(s, request) <=> c \in granted[saves[s].place])
            /\ RequestOf(c) = request => c \notin Applied(s, request)
        BY <2>2, <2>6, AppliedEffect
      <4> QED  BY <2>4, <2>5, <4>1, <4>2
    <3> QED  BY <3>2, <3>3
  <2>8. ASSUME NEW o \in Saves \ {s} PROVE Done(o)'
    <3>1. \A q \in Places \ {saves[s].place} : granted'[q] = granted[q]
      BY <1>3, <2>1, <2>2
    <3>2. saves'[o] = Contest(Saves \ {s}, saves[s].place)[o]
      BY <2>3
    <3>3. (saves'[o] # None /\ ~saves'[o].contested) =>
              /\ saves[o] # None /\ ~saves[o].contested
              /\ saves'[o].changes = saves[o].changes /\ saves'[o].todo = saves[o].todo
              /\ granted'[saves'[o].place] = granted[saves[o].place]
      BY <2>2, <3>1, <3>2, OthersContested
    <3> QED  BY <1>k, <3>3
  <2> QED  BY <1>d, <2>7, <2>8
<1>5. ASSUME NEW s \in Saves, PutFails(s)
      PROVE  DoneIsInEffect'
  <2>1. saves[s] # None /\ saves[s] \in Running /\ saves[s].place \in Places
    BY <1>t, <1>5 DEF PutFails, Running
  <2>2. CASE UNCHANGED granted /\ saves' = [saves EXCEPT ![s] = None]
    BY <1>d, <1>t, <2>2
  <2>3. ASSUME NEW request \in saves[s].todo,
               granted' = [granted EXCEPT ![saves[s].place] = Applied(s, request)],
               saves' = [Contest(Saves \ {s}, saves[s].place) EXCEPT ![s] = None]
        PROVE  DoneIsInEffect'
    <3>1. saves'[s] = None /\ \A o \in Saves \ {s} : saves'[o] = Contest(Saves \ {s}, saves[s].place)[o]
      BY <2>3 DEF Contest
    <3>2. ASSUME NEW o \in Saves \ {s} PROVE Done(o)'
      <4>1. \A q \in Places \ {saves[s].place} : granted'[q] = granted[q]
        BY <1>3, <2>1, <2>3
      <4>2. saves'[o] = Contest(Saves \ {s}, saves[s].place)[o]
        BY <3>1
      <4>3. (saves'[o] # None /\ ~saves'[o].contested) =>
                /\ saves[o] # None /\ ~saves[o].contested
                /\ saves'[o].changes = saves[o].changes /\ saves'[o].todo = saves[o].todo
                /\ granted'[saves'[o].place] = granted[saves[o].place]
        BY <2>1, <4>1, <4>2, OthersContested
      <4> QED  BY <1>k, <4>3
    <3> QED  BY <1>d, <3>1, <3>2
  <2> QED  BY <1>5, <2>2, <2>3 DEF PutFails, Next1
<1>6. ASSUME NEW p \in Places, Elsewhere(p)
      PROVE  DoneIsInEffect'
  <2>1. saves' = Contest(Saves, p) /\ \A q \in Places \ {p} : granted'[q] = granted[q]
    BY <1>t, <1>6 DEF Elsewhere
  <2>2. ASSUME NEW o \in Saves PROVE Done(o)'
    <3>1. (saves'[o] # None /\ ~saves'[o].contested) =>
              /\ saves[o] # None /\ ~saves[o].contested
              /\ saves'[o].changes = saves[o].changes /\ saves'[o].todo = saves[o].todo
              /\ granted'[saves'[o].place] = granted[saves[o].place]
      BY <2>1, OthersContested
    <3> QED  BY <1>k, <3>1
  <2> QED  BY <1>d, <2>2
<1>7. ASSUME Unmount \/ (\E p \in Places : Leave(p)), UNCHANGED granted
      PROVE  DoneIsInEffect'
  <2>1. \A s \in Saves :
           /\ saves'[s] = None <=> saves[s] = None
           /\ saves[s] # None =>
                 saves'[s] = [saves[s] EXCEPT !.mounted = FALSE, !.onPage = saves'[s].onPage]
    BY <1>t, <1>7, UnmountedSaves DEF Unmount, Leave
  <2>2. ASSUME NEW s \in Saves, saves'[s] # None
        PROVE  /\ saves[s] # None
               /\ saves'[s].changes = saves[s].changes /\ saves'[s].todo = saves[s].todo
               /\ saves'[s].place = saves[s].place /\ saves'[s].contested = saves[s].contested
    <3>1. saves[s] # None /\ saves[s] \in Running
      BY <1>t, <2>1, <2>2
    <3> QED  BY <2>1, <3>1 DEF Running
  <2> QED  BY <1>7, <1>d, <1>k, <2>2
<1>8. ASSUME NEW s \in Saves, Finish(s)
      PROVE  DoneIsInEffect'
  <2>1. UNCHANGED granted /\ saves' = [saves EXCEPT ![s] = None]
    BY <1>8 DEF Finish
  <2> QED  BY <1>d, <1>t, <2>1
<1>9. CASE Arrive \/ LoadFails
  BY <1>1, <1>7, <1>9 DEF Arrive, LoadFails, Show
<1>10. CASE \/ Serve \/ Reload \/ Discard \/ CancelConfirm \/ (\E p \in Places : Choose(p))
            \/ (\E cells \in Clickable : Click(cells))
            \/ ((RequestSave \/ Confirm) /\ UNCHANGED saves)
  BY <1>1, <1>10 DEF Serve, Reload, Discard, CancelConfirm, Choose, Click, RequestSave, Confirm
<1>11. CASE \E p \in Places : Leave(p)
  BY <1>7, <1>11 DEF Leave
<1> QED  BY <1>2, <1>4, <1>5, <1>6, <1>8, <1>9, <1>10, <1>11 DEF Next, Save

--------------------------------------------------------------------------------
(* What the page shows *)

LEMMA LoadsCurrentStep ==
    ASSUME TypeOK, DialogOnScreen, LoadsCurrent, Next
    PROVE  LoadsCurrent'
<1> DEFINE Clean == /\ ~behind
                    /\ \A s \in Saves :
                          saves[s] # None => saves[s].place # chosen \/ ~saves[s].applied
           Fits == /\ (load # None /\ load.answer # None) => load.answer[1] = granted[chosen]
                   /\ (load = None /\ ~loadFailed)
                         => shown = [place |-> chosen, saved |-> granted[chosen]]
<1>d. /\ load # None => load.place = chosen
      /\ Clean => Fits
  BY DEF LoadsCurrent
<1>e. ASSUME load' # None => load'.place = chosen', Clean' => Fits'
      PROVE  LoadsCurrent'
  BY <1>e DEF LoadsCurrent
<1>t. /\ saves \in [Saves -> {None} \cup Running]
      /\ granted \in [Places -> SUBSET AllCells]
      /\ chosen \in Places /\ load \in {None} \cup Loads
  BY DEF TypeOK
\* A new load is right whatever it will find.
<1>1. ASSUME NEW p \in Places, Ask(p), chosen' = p
      PROVE  LoadsCurrent'
  BY <1>1, <1>e, AskStarts
\* Nothing that is right becomes wrong unless the page is behind or a save goes on.
<1>2. ASSUME UNCHANGED <<load, shown, loadFailed, chosen>>,
             Clean' => Clean /\ granted'[chosen] = granted[chosen]
      PROVE  LoadsCurrent'
  BY <1>2, <1>d, <1>e
<1>3. ASSUME ~(RequestSave \/ Confirm), UNCHANGED chosen, Clean', ~behind,
             \A s \in Saves : (saves[s] # None /\ saves[s].place = chosen /\ saves[s].applied)
                                => saves'[s] # None
      PROVE  Clean
  BY <1>3, SavesGoOn DEF Kept
<1>4. CASE Serve
  <2>1. load \in Loads /\ load.place = chosen
    BY <1>t, <1>d, <1>4 DEF Serve
  <2>2. load' = [load EXCEPT !.answer = <<granted[chosen]>>] /\ granted[chosen] \in SUBSET AllCells
    BY <1>t, <1>4, <2>1 DEF Serve
  <2>3. /\ load' \in Loads /\ load'.place = chosen
        /\ load'.answer = <<granted[chosen]>>
    BY <2>1, <2>2 DEF Loads
  <2>4. load' # None /\ load'.answer[1] = granted[chosen]
    BY <2>3
  <2>5. UNCHANGED <<granted, chosen>>
    BY <1>4 DEF Serve
  <2> QED  BY <1>e, <2>3, <2>4, <2>5
<1>5. CASE Arrive
  <2>1. /\ load' = None /\ load.answer # None /\ load # None
        /\ shown' = [place |-> load.place, saved |-> load.answer[1]]
        /\ UNCHANGED <<granted, chosen, behind, loadFailed>>
    BY <1>5 DEF Arrive, Show
  <2>2. ASSUME Clean' PROVE Clean
    <3>1. \A s \in Saves : saves'[s] = None <=> saves[s] = None
      BY <1>t, <1>5, UnmountedSaves DEF Arrive, Show, Unmount
    <3>2. ~(RequestSave \/ Confirm)
      BY <1>5 DEF Arrive, RequestSave, Confirm, data
    <3>3. ~behind
      BY <2>1, <2>2
    <3> QED  BY <1>3, <2>1, <2>2, <3>1, <3>2, <3>3
  <2>3. Clean' => Fits'
    BY <1>d, <2>1, <2>2
  <2> QED  BY <1>e, <2>1, <2>3
<1>6. CASE LoadFails
  BY <1>6, <1>e DEF LoadFails
<1>7. ASSUME NEW p \in Places, Choose(p) \/ Leave(p)
      PROVE  LoadsCurrent'
  BY <1>1, <1>7 DEF Choose, Leave
<1>8. CASE Reload
  BY <1>1, <1>t, <1>8 DEF Reload
<1>9. ASSUME NEW s \in Saves, Finish(s)
      PROVE  LoadsCurrent'
  <2>1. CASE saves[s].onPage
    BY <1>1, <1>t, <1>9, <2>1 DEF Finish
  <2>2. CASE ~saves[s].onPage
    <3>1. /\ UNCHANGED <<load, loadFailed, granted, chosen, shown>>
          /\ saves[s] # None /\ saves' = [saves EXCEPT ![s] = None]
          /\ behind' = (behind \/ (saves[s].applied /\ saves[s].place = chosen))
      BY <1>9, <2>2 DEF Finish
    <3>2. Clean' => Clean
      BY <1>t, <3>1
    <3> QED  BY <1>2, <3>1, <3>2
  <2> QED  BY <2>1, <2>2
<1>10. ASSUME NEW s \in Saves, Put(s)
       PROVE  LoadsCurrent'
  <2>1. PICK request \in saves[s].todo :
           /\ granted' = [granted EXCEPT ![saves[s].place] = Applied(s, request)]
           /\ saves' = [Contest(Saves \ {s}, saves[s].place) EXCEPT
                            ![s].todo = @ \ {request}, ![s].applied = TRUE]
    BY <1>10 DEF Put, Next1
  <2>2. saves[s] # None /\ saves[s] \in Running /\ saves[s].place \in Places
    BY <1>t, <1>10 DEF Put, Running
  <2>3. /\ saves'[s] # None
        /\ saves'[s] = [saves[s] EXCEPT !.todo = @ \ {request}, !.applied = TRUE]
        /\ \A o \in Saves \ {s} : saves'[o] = Contest(Saves \ {s}, saves[s].place)[o]
    BY <2>1, <2>2, PutSaves
  <2>4. saves'[s].place = saves[s].place /\ saves'[s].applied = TRUE
    BY <2>2, <2>3 DEF Running
  <2>5. \A o \in Saves : saves[o] # None => saves'[o] # None
    <3>1. \A o \in Saves : Contest(Saves \ {s}, saves[s].place)[o] = None <=> saves[o] = None
      BY <1>t, <2>2, ContestedRuns
    <3> QED  BY <2>3, <3>1, SMTT(30)
  <2>6. UNCHANGED <<load, shown, loadFailed, chosen, behind>> /\ ~(RequestSave \/ Confirm)
    BY <1>10, <2>1, <2>2, <2>3, <2>4 DEF Put, data, grid, RequestSave, Confirm, DoSave
  <2>7. ASSUME Clean' PROVE Clean /\ granted'[chosen] = granted[chosen]
    <3>1. saves[s].place # chosen
      BY <2>3, <2>4, <2>6, <2>7
    <3>2. granted'[chosen] = granted[chosen]
      BY <1>t, <2>1, <2>2, <3>1
    <3>3. ~behind
      BY <2>6, <2>7
    <3> QED  BY <1>3, <2>5, <2>6, <2>7, <3>2, <3>3
  <2> QED  BY <1>2, <2>6, <2>7
<1>11. ASSUME NEW s \in Saves, PutFails(s)
       PROVE  LoadsCurrent'
  <2>1. saves[s] # None /\ saves[s] \in Running /\ saves[s].place \in Places
    BY <1>t, <1>11 DEF PutFails, Running
  <2>c. Contest(Saves \ {s}, saves[s].place) \in [Saves -> {None} \cup Running]
    BY <1>t, <2>1, ContestedSaves
  <2>2. UNCHANGED <<load, shown, loadFailed, chosen>> /\ saves'[s] = None
    BY <1>t, <1>11, <2>c DEF PutFails, data
  <2>3. ~(RequestSave \/ Confirm)
    BY <1>t, <2>1, <2>2 DEF RequestSave, Confirm, DoSave
  <2>4. \A o \in Saves \ {s} : saves[o] # None => saves'[o] # None
    <3>1. CASE saves' = [saves EXCEPT ![s] = None]
      BY <1>t, <3>1
    <3>2. CASE saves' = [Contest(Saves \ {s}, saves[s].place) EXCEPT ![s] = None]
      <4>1. \A o \in Saves \ {s} : saves'[o] = Contest(Saves \ {s}, saves[s].place)[o]
        BY <3>2 DEF Contest
      <4>2. \A o \in Saves : Contest(Saves \ {s}, saves[s].place)[o] = None <=> saves[o] = None
        BY <1>t, <2>1, ContestedRuns
      <4> QED  BY <4>1, <4>2
    <3> QED  BY <1>11, <3>1, <3>2 DEF PutFails
  <2>5. ASSUME Clean' PROVE Clean /\ granted'[chosen] = granted[chosen]
    <3>1. /\ ~behind
          /\ granted' # granted => saves[s].place # chosen
          /\ saves[s].applied => saves[s].place # chosen
      BY <1>11, <2>5 DEF PutFails
    <3>2. granted'[chosen] = granted[chosen]
      BY <1>t, <1>11, <2>1, <3>1 DEF PutFails
    <3> QED  BY <1>3, <2>2, <2>3, <2>4, <2>5, <3>1, <3>2
  <2> QED  BY <1>2, <2>2, <2>5
<1>12. ASSUME NEW p \in Places, Elsewhere(p)
       PROVE  LoadsCurrent'
  <2>1. /\ UNCHANGED <<load, shown, loadFailed, chosen>>
        /\ saves' = Contest(Saves, p)
        /\ behind' = (behind \/ p = chosen)
        /\ p # chosen => granted'[chosen] = granted[chosen]
    BY <1>t, <1>12 DEF Elsewhere, data
  <2>2. ~(RequestSave \/ Confirm)
    BY <1>12 DEF Elsewhere, RequestSave, Confirm, TypeOK
  <2>3. \A o \in Saves : saves[o] # None => saves'[o] # None
    BY <1>t, <2>1, ContestedRuns
  <2>4. Clean' => Clean /\ granted'[chosen] = granted[chosen]
    BY <1>3, <2>1, <2>2, <2>3
  <2> QED  BY <1>2, <2>1, <2>4
<1>13. CASE RequestSave \/ Confirm
  <2>1. UNCHANGED <<load, shown, loadFailed, chosen, granted, behind>>
    BY <1>13 DEF RequestSave, Confirm, data
  <2>2. CASE UNCHANGED saves
    BY <1>2, <2>1, <2>2
  <2>3. CASE ~UNCHANGED saves
    <3>1. PICK n \in Saves, new \in Running :
             saves[n] = None /\ saves' = [saves EXCEPT ![n] = new]
      BY <1>13, <2>3, StartedAsConfirmed
    <3>2. \A o \in Saves : saves[o] # None => saves'[o] = saves[o]
      BY <1>t, <3>1
    <3>3. Clean' => Clean
      BY <2>1, <3>2
    <3> QED  BY <1>2, <2>1, <3>3
  <2> QED  BY <2>2, <2>3
<1>14. CASE Discard \/ CancelConfirm \/ \E cells \in Clickable : Click(cells)
  <2>1. UNCHANGED <<load, shown, loadFailed, chosen, granted, behind, saves>>
    BY <1>14 DEF Discard, CancelConfirm, Click, data
  <2> QED  BY <1>2, <2>1
<1> QED  BY <1>4, <1>5, <1>6, <1>7, <1>8, <1>9, <1>10, <1>11, <1>12, <1>13, <1>14 DEF Next, Save

--------------------------------------------------------------------------------
(* The theorems *)

LEMMA StepInv == GrantsInv /\ [Next]_vars => GrantsInv'
<1> SUFFICES ASSUME GrantsInv, [Next]_vars PROVE GrantsInv'
  OBVIOUS
<1>1. CASE Next
  <2>1. TypeOK /\ OneOnScreen /\ DialogOnScreen /\ SavesAsConfirmed /\ DoneIsInEffect /\ LoadsCurrent
    BY DEF GrantsInv
  <2>2. TypeOK' /\ OneOnScreen'
    BY <1>1, TypeStep
  <2>3. DialogOnScreen'
    BY <1>1, <2>1, DialogStep
  <2>4. SavesAsConfirmed' /\ DoneIsInEffect' /\ LoadsCurrent'
    BY <1>1, <2>1, ConfirmedStep, DoneStep, LoadsCurrentStep
  <2> QED  BY <2>2, <2>3, <2>4 DEF GrantsInv
<1>2. CASE UNCHANGED vars
  BY <1>2 DEF vars, data, grid, GrantsInv, TypeOK, OneOnScreen, DialogOnScreen, Mounted,
              SavesAsConfirmed, DoneIsInEffect, LoadsCurrent
<1> QED  BY <1>1, <1>2

THEOREM GrantsInvariant == Spec => []GrantsInv
<1> QED  BY InitInv, StepInv, PTL DEF Spec

(* The page's state is what useStagedGrid.ts takes it for: what is staged and what is
   being saved are cells of their grid, and a grid saves only while it is busy. *)
THEOREM GrantsTypeCorrect == Spec => []TypeOK
<1>1. GrantsInv => TypeOK
  BY DEF GrantsInv
<1> QED  BY <1>1, GrantsInvariant, PTL

(* A page that has loaded and is not saving shows what is in effect, unless it was
   changed behind its back: useAsync.ts asks again after every save that went well. *)
THEOREM PageShowsWhatIsInEffect == Spec => []ShowsWhatIsInEffect
<1>1. GrantsInv => ShowsWhatIsInEffect
  BY DEF GrantsInv, LoadsCurrent, ShowsWhatIsInEffect
<1> QED  BY <1>1, GrantsInvariant, PTL

(* No save gives or takes a table or a tool but as it was staged, and named if it is
   taken (requestSave and doSave of useStagedGrid.ts), however often it is tried. *)
THEOREM SavesChangeAsStaged == Spec => TablesChangeAsStaged
<1>1. GrantsInv /\ [Next]_vars =>
        [elsewhere' = elsewhere =>
          \A p \in Places :
              /\ \A c \in Tables(granted[p] \ granted'[p]) : Named(p, c)
              /\ \A c \in Tables(granted'[p] \ granted[p]) : Asked(p, c)]_vars
  <2> SUFFICES ASSUME GrantsInv, Next, elsewhere' = elsewhere, NEW p \in Places
               PROVE  /\ \A c \in Tables(granted[p] \ granted'[p]) : Named(p, c)
                      /\ \A c \in Tables(granted'[p] \ granted[p]) : Asked(p, c)
    OBVIOUS
  <2>t. TypeOK /\ SavesAsConfirmed /\ GrantsInv
    BY DEF GrantsInv
  <2>1. CASE granted'[p] = granted[p]
    BY <2>1 DEF Tables, InUse
  <2>2. CASE granted'[p] # granted[p]
    <3>0. PICK s \in Saves :
             /\ saves[s] # None
             /\ \E request \in saves[s].todo :
                   granted' = [granted EXCEPT ![saves[s].place] = Applied(s, request)]
      <4>1. \E s \in Saves : Put(s) \/ PutFails(s)
        <5>1. ASSUME NEW q \in Places PROVE ~Elsewhere(q)
          BY <2>t DEF Elsewhere, TypeOK
        <5> QED  BY <2>2, <5>1 DEF Next, Save, Serve, Arrive, LoadFails, Choose, Leave, Reload, Discard,
                                   RequestSave, Confirm, CancelConfirm, Click, Finish
      <4> QED  BY <2>2, <4>1 DEF Put, PutFails, Next1
    <3>1. PICK request \in saves[s].todo :
             saves[s] # None /\ granted' = [granted EXCEPT ![saves[s].place] = Applied(s, request)]
      BY <3>0
    <3>2. /\ saves[s].place = p /\ granted'[p] = Applied(s, request)
          /\ granted[p] \subseteq AllCells /\ granted'[p] \subseteq AllCells
      <4>1. granted \in [Places -> SUBSET AllCells] /\ granted' \in [Places -> SUBSET AllCells]
        BY <2>t, GrantedStep DEF TypeOK
      <4> QED  BY <2>2, <3>1, <4>1
    <3>3. ASSUME NEW c \in AllCells, c[2] # Use
          PROVE  /\ c \in granted'[p] /\ c \notin granted[p] => c \in saves[s].changes.grant
                 /\ c \notin granted'[p] /\ c \in granted[p] => c \in saves[s].changes.revoke
      BY <2>t, <3>1, <3>2, <3>3, AppliedEffect
    <3>4. saves[s].changes.revoke \subseteq saves[s].named
      BY <2>t, <3>1 DEF SavesAsConfirmed
    <3>5. ASSUME NEW c \in Tables(granted[p] \ granted'[p]) PROVE Named(p, c)
      BY <3>1, <3>2, <3>3, <3>4 DEF Tables, InUse, Named
    <3>6. ASSUME NEW c \in Tables(granted'[p] \ granted[p]) PROVE Asked(p, c)
      BY <3>1, <3>2, <3>3 DEF Tables, InUse, Asked
    <3> QED  BY <3>5, <3>6
  <2> QED  BY <2>1, <2>2
<1> QED  BY <1>1, GrantsInvariant, PTL DEF Spec, TablesChangeAsStaged

(* "Saved" means that all of it is in effect, whatever part of it was changed or tried
   before, unless someone else wrote to the same place while it was being saved. *)
THEOREM SaidSavedIsSaved == Spec => SavedMeansSaved
<1>1. GrantsInv /\ [Next]_vars =>
        [\A s \in Saves :
          (saves[s] # None /\ saves'[s] = None /\ saves[s].todo = {} /\ ~saves[s].contested)
              => /\ saves[s].changes.grant \subseteq granted[saves[s].place]
                 /\ saves[s].changes.revoke \cap granted[saves[s].place] = {}]_vars
  BY DEF GrantsInv, DoneIsInEffect
<1> QED  BY <1>1, GrantsInvariant, PTL DEF Spec, SavedMeansSaved
================================================================================
