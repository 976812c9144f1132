---------------------------- MODULE MetaCacheProofs ----------------------------
(***************************************************************************)
(* Proofs about MetaCache, for every number of readers, replicas, admins  *)
(* and keys, every TTL, and any number of changes.                        *)
(***************************************************************************)
EXTENDS MetaCache, TLAPS

USE MetaCacheAssumption DEF MetaCacheAssumption

LEMMA NoneApart == None \notin Versions /\ None \notin Entries
<1> QED  BY DEF Versions, Changes, Entries

LEMMA Bounds == 0 \in Changes /\ 0 \in 0 .. Cooldown /\ Cooldown \in 0 .. Cooldown
<1> QED  BY DEF Changes

LEMMA BreakerType ==
    ASSUME downFor \in [Replicas -> 0 .. Cooldown], NEW p \in Replicas, Unanswered(p)
    PROVE  downFor' \in [Replicas -> 0 .. Cooldown]
<1> QED  BY Bounds DEF Unanswered, _failed

LEMMA StoredType ==
    ASSUME TypeOK, NEW r \in Readers, ver[r] # None
    PROVE  StoredBy(r) \in [Versions -> [Keys -> Entries \cup {None}]]
<1>1. [val |-> val[r], left |-> Ttl[key[r]]] \in Entries
  BY DEF TypeOK, Entries
<1> QED  BY <1>1 DEF TypeOK, StoredBy

LEMMA AgedType ==
    ASSUME NEW e \in [Versions -> [Keys -> Entries \cup {None}]]
    PROVE  Aged(e) \in [Versions -> [Keys -> Entries \cup {None}]]
<1> SUFFICES ASSUME NEW w \in Versions, NEW k \in Keys,
                    e[w][k] # None, ~(e[w][k].left <= 1)
             PROVE  [e[w][k] EXCEPT !.left = @ - 1] \in Entries
  BY DEF Aged
<1>1. e[w][k] \in Entries
  OBVIOUS
<1> QED  BY <1>1 DEF Entries

LEMMA InitType == Init => TypeOK
<1> SUFFICES ASSUME Init PROVE TypeOK
  OBVIOUS
<1> USE DEF Init, TypeOK, Empty, Changes, Versions, Steps
<1> QED  OBVIOUS

LEMMA StepType == TypeOK /\ [Next]_vars => TypeOK'
<1> SUFFICES ASSUME TypeOK, [Next]_vars PROVE TypeOK'
  OBVIOUS
<1> USE NoneApart DEF TypeOK, redis, lookups, changes
<1>1. ASSUME NEW r \in Readers, Begin(r) PROVE TypeOK'
  BY <1>1, Bounds DEF Begin, GoTo, Steps
<1>2. ASSUME NEW r \in Readers, ReadVersion(r) PROVE TypeOK'
  BY <1>2 DEF ReadVersion, GoTo, Steps
<1>3. ASSUME NEW r \in Readers, NoVersion(r) PROVE TypeOK'
  BY <1>3, BreakerType DEF NoVersion, GoTo, Steps
<1>4. ASSUME NEW r \in Readers, Hit(r) PROVE TypeOK'
  <2>1. Found(r) \in Entries
    BY <1>4 DEF Hit, Found
  <2> QED  BY <1>4, <2>1 DEF Hit, End, GoTo, Steps, Entries
<1>5. ASSUME NEW r \in Readers, Miss(r) PROVE TypeOK'
  <2>1. downFor' \in [Replicas -> 0 .. Cooldown]
    BY <1>5, BreakerType DEF Miss
  <2> QED  BY <1>5, <2>1 DEF Miss, GoTo, Steps
<1>6. ASSUME NEW r \in Readers, Load(r) PROVE TypeOK'
  <2>1. truth[key[r]] \in Changes
    OBVIOUS
  <2> QED  BY <1>6, <2>1 DEF Load, End, GoTo, Steps
<1>7. ASSUME NEW r \in Readers, Store(r) PROVE TypeOK'
  BY <1>7, StoredType DEF Store, End, GoTo, Steps
<1>8. ASSUME NEW r \in Readers, StoreLost(r) PROVE TypeOK'
  BY <1>8, StoredType, BreakerType DEF StoreLost, End, GoTo, Steps
<1>9. ASSUME NEW r \in Readers, Abandon(r) PROVE TypeOK'
  BY <1>9, Bounds DEF Abandon, End, GoTo, Steps
<1>10. ASSUME NEW a \in Admins, Commit(a) PROVE TypeOK'
  <2>1. truth' \in [Keys -> Changes]
    BY <1>10 DEF Commit, Changes
  <2>2. mark' \in [Admins -> [Keys -> Changes]]
    BY <1>10, <2>1 DEF Commit
  <2> QED  BY <1>10, <2>1, <2>2 DEF Commit
<1>11. ASSUME NEW a \in Admins, Finish(a)
       PROVE  /\ admin' \in [Admins -> {"idle", "committed"}]
              /\ mark' \in [Admins -> [Keys -> Changes]]
  BY <1>11 DEF Finish, Changes
<1>12. ASSUME NEW a \in Admins
       PROVE  [k \in Keys |-> Max2(announced[k], mark[a][k])] \in [Keys -> Changes]
  BY DEF Max2
<1>13. ASSUME NEW a \in Admins, Bump(a) PROVE TypeOK'
  <2>1. version' \in Versions
    BY <1>13 DEF Bump, Versions
  <2> QED  BY <1>11, <1>12, <1>13, <2>1 DEF Bump
<1>14. ASSUME NEW a \in Admins, BumpLost(a) PROVE TypeOK'
  BY <1>11, <1>12, <1>14 DEF BumpLost
<1>15. ASSUME NEW a \in Admins, Die(a) PROVE TypeOK'
  BY <1>11, <1>15 DEF Die
<1>16. ASSUME Tick PROVE TypeOK'
  <2>1. downFor' \in [Replicas -> 0 .. Cooldown]
    <3>1. \A n \in 0 .. Cooldown : Minus1(n) \in 0 .. Cooldown
      BY DEF Minus1
    <3> QED  BY <1>16, <3>1 DEF Tick
  <2>2. staleFor' \in [Keys -> [Changes -> Nat]]
    BY <1>16 DEF Tick
  <2> QED  BY <1>16, <2>1, <2>2, AgedType DEF Tick
<1>17. CASE Save
  BY <1>17 DEF Save
<1>18. CASE Crash
  BY <1>18 DEF Crash
<1>19. CASE UNCHANGED vars
  BY <1>19 DEF vars
<1> QED
  BY <1>1, <1>2, <1>3, <1>4, <1>5, <1>6, <1>7, <1>8, <1>9, <1>10, <1>13, <1>14, <1>15,
     <1>16, <1>17, <1>18, <1>19 DEF Next, Lookup, Announce

(* The variables of MetaCache keep their types, whatever fails. *)
THEOREM TypeCorrect == Spec => []TypeOK
<1> QED  BY InitType, StepType, PTL DEF Spec

--------------------------------------------------------------------------------
(* Freshness *)

LEMMA InitFresh == Init => FreshInv
<1> SUFFICES ASSUME Init PROVE FreshInv
  OBVIOUS
<1> USE DEF Init, Empty
<1>1. LevelsInOrder
  BY DEF LevelsInOrder
<1>2. VersionsKnown
  BY DEF VersionsKnown
<1>3. NothingOldReachable
  BY DEF NothingOldReachable, Versions
<1>4. LoadsCurrent /\ HitsOwed /\ LoadsOwed
  BY SMTT(30) DEF LoadsCurrent, HitsOwed, LoadsOwed
<1> QED  BY <1>1, <1>2, <1>3, <1>4 DEF FreshInv

LEMMA StepFresh ==
    ASSUME TypeOK, FreshInv, [Next]_vars, "crash" \notin Faults
    PROVE  FreshInv'
<1> USE NoneApart DEF TypeOK, FreshInv, LevelsInOrder, VersionsKnown, NothingOldReachable,
        LoadsCurrent, HitsOwed, LoadsOwed, Found, redis, lookups, changes
<1>t. /\ \A k \in Keys : truth[k] \in Nat /\ announced[k] \in Nat
      /\ \A a \in Admins : \A k \in Keys : mark[a][k] \in Nat
      /\ \A r \in Readers : val[r] \in Nat /\ floor[r] \in Nat
      /\ \A r \in Readers : ver[r] # None => ver[r] \in Nat
      /\ version \in Nat /\ Versions \subseteq Nat
      /\ \A w \in Versions : \A k \in Keys : entry[w][k] # None => entry[w][k].val \in Nat
  <2>1. Changes \subseteq Nat /\ Versions \subseteq Nat
    BY DEF Changes, Versions
  <2>2. \A w \in Versions : \A k \in Keys : entry[w][k] # None => entry[w][k] \in Entries
    OBVIOUS
  <2>3. /\ \A k \in Keys : truth[k] \in Changes /\ announced[k] \in Changes
        /\ \A a \in Admins : \A k \in Keys : mark[a][k] \in Changes
        /\ \A r \in Readers : val[r] \in Changes /\ floor[r] \in Changes
        /\ \A r \in Readers : ver[r] # None => ver[r] \in Versions
        /\ version \in Versions
    OBVIOUS
  <2>4. \A w \in Versions : \A k \in Keys : entry[w][k] # None => entry[w][k].val \in Changes
    BY <2>2 DEF Entries
  <2> HIDE DEF TypeOK, FreshInv
  <2> QED  BY <2>1, <2>3, <2>4
<1>1. ASSUME NEW r \in Readers, Begin(r) PROVE FreshInv'
  <2>1. LevelsInOrder'
    BY <1>1, <1>t DEF Begin, GoTo
  <2>2. VersionsKnown'
    BY <1>1, <1>t DEF Begin, GoTo
  <2>3. NothingOldReachable'
    BY <1>1, <1>t DEF Begin, GoTo
  <2>4. LoadsCurrent'
    BY <1>1, <1>t DEF Begin, GoTo
  <2>5. HitsOwed'
    BY <1>1, <1>t DEF Begin, GoTo
  <2>6. LoadsOwed'
    BY <1>1, <1>t DEF Begin, GoTo
  <2> QED  BY <2>1, <2>2, <2>3, <2>4, <2>5, <2>6
<1>2. ASSUME NEW r \in Readers, ReadVersion(r) PROVE FreshInv'
  <2>1. LevelsInOrder'
    BY <1>2, <1>t DEF ReadVersion, GoTo
  <2>2. VersionsKnown'
    BY <1>2, <1>t DEF ReadVersion, GoTo
  <2>3. NothingOldReachable'
    BY <1>2, <1>t DEF ReadVersion, GoTo
  <2>4. LoadsCurrent'
    BY <1>2, <1>t DEF ReadVersion, GoTo
  <2>5. HitsOwed'
    BY <1>2, <1>t DEF ReadVersion, GoTo
  <2>6. LoadsOwed'
    BY <1>2, <1>t DEF ReadVersion, GoTo
  <2> QED  BY <2>1, <2>2, <2>3, <2>4, <2>5, <2>6
<1>3. ASSUME NEW r \in Readers, NoVersion(r) PROVE FreshInv'
  BY <1>3 DEF NoVersion, GoTo
<1>4. ASSUME NEW r \in Readers, Hit(r) PROVE FreshInv'
  BY <1>4 DEF Hit, End, GoTo
<1>5. ASSUME NEW r \in Readers, Miss(r) PROVE FreshInv'
  BY <1>5 DEF Miss, GoTo
<1>6. ASSUME NEW r \in Readers, Load(r) PROVE FreshInv'
  <2>1. UNCHANGED <<redis, changes, key, floor>>
    BY <1>6 DEF Load
  <2>2. /\ pc'[r] \in {"store", "done"} /\ val'[r] = truth[key[r]]
        /\ pc'[r] = "store" => ver'[r] = ver[r]
    BY <1>6 DEF Load, End, GoTo
  <2>3. \A q \in Readers : q # r => pc'[q] = pc[q] /\ val'[q] = val[q] /\ ver'[q] = ver[q]
    BY <1>6 DEF Load, End, GoTo
  <2>4. \A q \in Readers : ver'[q] # None => ver'[q] = ver[q]
    BY <1>6 DEF Load, End, GoTo
  <2>5. /\ \A q \in Readers : key[q] = key[r] => truth[key[r]] >= floor[q]
        /\ truth[key[r]] >= announced[key[r]] /\ truth[key[r]] >= floor[r]
    <3>1. \A q \in Readers : key[q] \in Keys
      OBVIOUS
    <3> QED  BY <3>1, <1>t
  <2> HIDE DEF TypeOK
  <2>6. LevelsInOrder' /\ NothingOldReachable'
    BY <2>1
  <2>7. VersionsKnown'
    BY <2>1, <2>4
  <2>8. LoadsCurrent'
    <3> SUFFICES ASSUME NEW q \in Readers, pc'[q] = "store", ver'[q] = version'
                 PROVE  val'[q] >= announced'[key'[q]]
      BY DEF LoadsCurrent
    <3>1. CASE q = r
      BY <2>1, <2>2, <2>5, <3>1
    <3>2. CASE q # r
      BY <2>1, <2>3, <3>2
    <3> QED  BY <3>1, <3>2
  <2>9. HitsOwed'
    <3> SUFFICES ASSUME NEW o \in Readers, pc'[o] = "get"
                 PROVE  /\ Found(o)' # None => Found(o)'.val >= floor'[o]
                        /\ \A q \in Readers :
                              (pc'[q] = "store" /\ ver'[q] = ver'[o] /\ key'[q] = key'[o])
                                => val'[q] >= floor'[o]
      BY DEF HitsOwed
    <3>1. o # r /\ pc[o] = "get" /\ ver'[o] = ver[o]
      BY <2>2, <2>3
    <3>2. Found(o)' # None => Found(o)'.val >= floor'[o]
      BY <2>1, <3>1
    <3>3. ASSUME NEW q \in Readers, pc'[q] = "store", ver'[q] = ver'[o], key'[q] = key'[o]
          PROVE  val'[q] >= floor'[o]
      <4>1. CASE q = r
        BY <2>1, <2>2, <2>5, <3>3, <4>1
      <4>2. CASE q # r
        BY <2>1, <2>3, <3>1, <3>3, <4>2
      <4> QED  BY <4>1, <4>2
    <3> QED  BY <3>2, <3>3
  <2>10. LoadsOwed'
    BY <2>1, <2>2, <2>3, <2>5
  <2> QED  BY <2>6, <2>7, <2>8, <2>9, <2>10
<1>9. ASSUME NEW r \in Readers, Abandon(r) PROVE FreshInv'
  <2>1. LevelsInOrder'
    BY <1>9, <1>t DEF Abandon, End, GoTo
  <2>2. VersionsKnown'
    BY <1>9, <1>t DEF Abandon, End, GoTo
  <2>3. NothingOldReachable'
    BY <1>9, <1>t DEF Abandon, End, GoTo
  <2>4. LoadsCurrent'
    BY <1>9, <1>t DEF Abandon, End, GoTo
  <2>5. HitsOwed'
    BY <1>9, <1>t DEF Abandon, End, GoTo
  <2>6. LoadsOwed'
    BY <1>9, <1>t DEF Abandon, End, GoTo
  <2> QED  BY <2>1, <2>2, <2>3, <2>4, <2>5, <2>6
<1>10. ASSUME NEW a \in Admins, Commit(a) PROVE FreshInv'
  <2>1. LevelsInOrder'
    BY <1>10, <1>t DEF Commit
  <2>2. VersionsKnown'
    BY <1>10, <1>t DEF Commit
  <2>3. NothingOldReachable'
    BY <1>10, <1>t DEF Commit
  <2>4. LoadsCurrent'
    BY <1>10, <1>t DEF Commit
  <2>5. HitsOwed'
    BY <1>10, <1>t DEF Commit
  <2>6. LoadsOwed'
    BY <1>10, <1>t DEF Commit
  <2> QED  BY <2>1, <2>2, <2>3, <2>4, <2>5, <2>6
<1>13. ASSUME NEW a \in Admins, Bump(a) PROVE FreshInv'
  <2>1. LevelsInOrder'
    BY <1>13, <1>t DEF Bump, Finish, Max2
  <2>0. version' = version + 1 /\ version' \in Versions /\ entry' = entry
    BY <1>13, <1>t DEF Bump, Versions
  <2>2. VersionsKnown'
    BY <1>13, <1>t, <2>0 DEF Bump, Finish
  <2>3. NothingOldReachable'
    BY <1>t, <2>0
  <2>4. LoadsCurrent'
    BY <1>13, <1>t DEF Bump, Finish, Max2
  <2>5. HitsOwed'
    BY <1>13, <1>t DEF Bump, Finish, Max2
  <2>6. LoadsOwed'
    BY <1>13, <1>t DEF Bump, Finish, Max2
  <2> QED  BY <2>1, <2>2, <2>3, <2>4, <2>5, <2>6
<1>14. ASSUME NEW a \in Admins, BumpLost(a) PROVE FreshInv'
  <2>1. LevelsInOrder'
    BY <1>14, <1>t DEF BumpLost, Finish
  <2>2. VersionsKnown'
    BY <1>14, <1>t DEF BumpLost, Finish
  <2>3. NothingOldReachable'
    BY <1>14, <1>t DEF BumpLost, Finish
  <2>4. LoadsCurrent'
    BY <1>14, <1>t DEF BumpLost, Finish
  <2>5. HitsOwed'
    BY <1>14, <1>t DEF BumpLost, Finish
  <2>6. LoadsOwed'
    BY <1>14, <1>t DEF BumpLost, Finish
  <2> QED  BY <2>1, <2>2, <2>3, <2>4, <2>5, <2>6
<1>15. ASSUME NEW a \in Admins, Die(a) PROVE FreshInv'
  <2>1. LevelsInOrder'
    BY <1>15, <1>t DEF Die, Finish
  <2>2. VersionsKnown'
    BY <1>15, <1>t DEF Die, Finish
  <2>3. NothingOldReachable'
    BY <1>15, <1>t DEF Die, Finish
  <2>4. LoadsCurrent'
    BY <1>15, <1>t DEF Die, Finish
  <2>5. HitsOwed'
    BY <1>15, <1>t DEF Die, Finish
  <2>6. LoadsOwed'
    BY <1>15, <1>t DEF Die, Finish
  <2> QED  BY <2>1, <2>2, <2>3, <2>4, <2>5, <2>6
<1>16. ASSUME Tick PROVE FreshInv'
  BY <1>16 DEF Tick, Aged
<1>17. CASE Save
  BY <1>17 DEF Save
<1>18. CASE Crash
  BY <1>18 DEF Crash
<1>19. CASE UNCHANGED vars
  BY <1>19 DEF vars
<1>7. ASSUME NEW r \in Readers, pc[r] = "store", End(r, "done", val[r]),
             entry' = entry \/ entry' = StoredBy(r),
             UNCHANGED <<version, key, floor, changes>>
      PROVE  FreshInv'
  <2>0. \A w \in Versions : \A k \in Keys :
            \/ entry'[w][k] = entry[w][k]
            \/ /\ w = ver[r] /\ k = key[r]
               /\ entry'[w][k] # None /\ entry'[w][k].val = val[r]
    <3>1. [val |-> val[r], left |-> Ttl[key[r]]] \in Entries
      BY DEF Entries
    <3> QED  BY <1>7, <3>1 DEF StoredBy
  <2>1. LevelsInOrder'
    BY <1>7, <1>t, <2>0 DEF End, GoTo
  <2>2. VersionsKnown'
    <3>1. ver[r] \in Nat /\ ver[r] <= version
      BY <1>7, <1>t
    <3>2. \A w \in Versions : w > version => w # ver[r]
      BY <1>t, <3>1
    <3>3. ASSUME NEW w \in Versions, NEW k \in Keys, w > version PROVE entry'[w][k] = None
      <4>1. entry[w][k] = None
        BY <3>3
      <4>2. entry'[w][k] = entry[w][k]
        BY <2>0, <3>2, <3>3
      <4> QED  BY <4>1, <4>2
    <3> QED  BY <1>7, <3>3 DEF End, GoTo
  <2>3. NothingOldReachable'
    <3>1. version' = version /\ announced' = announced
      BY <1>7
    <3>2. ASSUME NEW k \in Keys, entry'[version][k] # None
          PROVE  entry'[version][k].val >= announced[k]
      <4>1. CASE entry'[version][k] = entry[version][k]
        BY <3>2, <4>1
      <4>2. CASE version = ver[r] /\ k = key[r] /\ entry'[version][k].val = val[r]
        BY <1>7, <4>2
      <4> QED  BY <1>t, <2>0, <4>1, <4>2
    <3> QED  BY <3>1, <3>2
  <2>4. LoadsCurrent'
    BY <1>7, <1>t, <2>0 DEF End, GoTo
  <2>5. HitsOwed'
    <3> SUFFICES ASSUME NEW q \in Readers, pc'[q] = "get"
                 PROVE  /\ Found(q)' # None => Found(q)'.val >= floor'[q]
                        /\ \A s \in Readers :
                              (pc'[s] = "store" /\ ver'[s] = ver'[q] /\ key'[s] = key'[q])
                                => val'[s] >= floor'[q]
      BY DEF HitsOwed
    <3>1. /\ q # r /\ pc[q] = "get" /\ ver'[q] = ver[q]
          /\ key'[q] = key[q] /\ floor'[q] = floor[q]
          /\ ver[q] \in Versions /\ key[q] \in Keys
      BY <1>7 DEF End, GoTo
    <3>2. Found(q)' # None => Found(q)'.val >= floor'[q]
      <4>1. CASE entry'[ver[q]][key[q]] = entry[ver[q]][key[q]]
        BY <3>1, <4>1
      <4>2. CASE ver[q] = ver[r] /\ key[q] = key[r] /\ entry'[ver[q]][key[q]].val = val[r]
        BY <3>1, <4>2, <1>7
      <4> QED  BY <2>0, <3>1, <4>1, <4>2
    <3>3. \A s \in Readers : pc'[s] = "store" =>
             pc[s] = "store" /\ ver'[s] = ver[s] /\ key'[s] = key[s] /\ val'[s] = val[s]
      BY <1>7 DEF End, GoTo
    <3> QED  BY <3>1, <3>2, <3>3
  <2>6. LoadsOwed'
    BY <1>7, <1>t, <2>0 DEF End, GoTo
  <2> QED  BY <2>1, <2>2, <2>3, <2>4, <2>5, <2>6
<1>8. ASSUME NEW r \in Readers, Store(r) \/ StoreLost(r) PROVE FreshInv'
  BY <1>7, <1>8 DEF Store, StoreLost
<1> QED
  BY <1>1, <1>2, <1>3, <1>4, <1>5, <1>6, <1>7, <1>8, <1>9, <1>10, <1>13, <1>14, <1>15,
     <1>16, <1>17, <1>18, <1>19 DEF Next, Lookup, Announce

(* However lookups, changes and failing Redis calls interleave, a lookup that
   begins after a change was announced returns at least that change, provided
   Redis does not restart from an old snapshot. *)
THEOREM LookupsAreFresh == ASSUME "crash" \notin Faults PROVE Spec => []Fresh
<1>1. TypeOK /\ FreshInv /\ [Next]_vars => TypeOK' /\ FreshInv'
  BY StepType, StepFresh
<1>2. FreshInv => Fresh
  BY DEF FreshInv, LoadsOwed, Fresh
<1> QED  BY InitType, InitFresh, <1>1, <1>2, PTL DEF Spec

(* Under the same condition a bump orphans every older entry at once. *)
THEOREM BumpOrphans == ASSUME "crash" \notin Faults PROVE Spec => []NothingOldReachable
<1>1. TypeOK /\ FreshInv /\ [Next]_vars => TypeOK' /\ FreshInv'
  BY StepType, StepFresh
<1>2. FreshInv => NothingOldReachable
  BY DEF FreshInv
<1> QED  BY InitType, InitFresh, <1>1, <1>2, PTL DEF Spec

--------------------------------------------------------------------------------
(* Refinement *)

LEMMA InitReal == Init => RealInv
<1> QED  BY DEF Init, Empty, RealInv

LEMMA StepReal ==
    ASSUME TypeOK, RealInv, [Next]_vars, "crash" \notin Faults
    PROVE  RealInv'
<1> USE NoneApart DEF TypeOK, RealInv, Found, redis, lookups, changes
<1>t. /\ \A k \in Keys : truth[k] \in Nat
      /\ \A r \in Readers : val[r] \in Nat /\ key[r] \in Keys
      /\ \A w \in Versions : \A k \in Keys : entry[w][k] # None => entry[w][k].val \in Nat
  BY DEF Changes, Entries
<1>1. ASSUME NEW r \in Readers,
             Begin(r) \/ ReadVersion(r) \/ NoVersion(r) \/ Hit(r) \/ Miss(r) \/ Abandon(r)
      PROVE  RealInv'
  <2>1. UNCHANGED <<truth, entry>>
    BY <1>1 DEF Begin, ReadVersion, NoVersion, Hit, Miss, Abandon
  <2>2. \A q \in Readers : pc'[q] = "store" => pc[q] = "store" /\ val'[q] = val[q] /\ key'[q] = key[q]
    <3>1. CASE Begin(r)
      BY <3>1 DEF Begin, GoTo
    <3>2. CASE ReadVersion(r) \/ NoVersion(r) \/ Miss(r)
      BY <3>2 DEF ReadVersion, NoVersion, Miss, GoTo
    <3>3. CASE Hit(r) \/ Abandon(r)
      BY <3>3 DEF Hit, Abandon, End, GoTo
    <3> QED  BY <1>1, <3>1, <3>2, <3>3
  <2> QED  BY <2>1, <2>2
<1>2. ASSUME NEW r \in Readers, Load(r) PROVE RealInv'
  <2>1. UNCHANGED <<truth, entry, key>>
    BY <1>2 DEF Load
  <2>2. \A q \in Readers : pc'[q] = "store" =>
            (q = r /\ val'[q] = truth[key[q]]) \/ (pc[q] = "store" /\ val'[q] = val[q])
    BY <1>2 DEF Load, End, GoTo
  <2>3. \A q \in Readers : pc'[q] = "store" => val'[q] <= truth[key[q]]
    <3>1. \A q \in Readers : truth[key[q]] <= truth[key[q]]
      BY <1>t
    <3>2. \A q \in Readers : pc[q] = "store" => val[q] <= truth[key[q]]
      OBVIOUS
    <3> HIDE DEF TypeOK, RealInv
    <3> QED  BY <2>2, <3>1, <3>2
  <2> QED  BY <2>1, <2>3
<1>3. ASSUME NEW r \in Readers, Store(r) \/ StoreLost(r) PROVE RealInv'
  <2>1. pc[r] = "store" /\ UNCHANGED <<truth, key>> /\ End(r, "done", val[r])
    BY <1>3 DEF Store, StoreLost
  <2>2. \A w \in Versions : \A k \in Keys :
            \/ entry'[w][k] = entry[w][k]
            \/ w = ver[r] /\ k = key[r] /\ entry'[w][k].val = val[r]
    <3>1. entry' = entry \/ entry' = StoredBy(r)
      BY <1>3 DEF Store, StoreLost
    <3>2. ver[r] \in Versions /\ key[r] \in Keys
      BY <2>1
    <3> QED  BY <3>1, <3>2 DEF StoredBy
  <2>3. \A w \in Versions : \A k \in Keys : entry'[w][k] # None => entry'[w][k].val <= truth'[k]
    BY <2>1, <2>2
  <2>4. \A q \in Readers : pc'[q] = "store" => val'[q] <= truth'[key'[q]]
    BY <2>1 DEF End, GoTo
  <2> QED  BY <2>3, <2>4
<1>4. ASSUME NEW a \in Admins, Commit(a) PROVE RealInv'
  BY <1>4, <1>t DEF Commit
<1>5. ASSUME NEW a \in Admins, Announce(a) \/ Die(a) PROVE RealInv'
  BY <1>5 DEF Announce, Bump, BumpLost, Die
<1>6. CASE Tick
  BY <1>6, <1>t DEF Tick, Aged
<1>7. CASE Save \/ Crash
  BY <1>7 DEF Save, Crash
<1>8. CASE UNCHANGED vars
  BY <1>8 DEF vars
<1> QED
  BY <1>1, <1>2, <1>3, <1>4, <1>5, <1>6, <1>7, <1>8 DEF Next, Lookup

LEMMA InitPromise == Init => Promise!AInit
<1> QED  BY DEF Init, Promise!AInit, Promise!Idle, Shown

\* A step of one lookup shows as the step of its caller-visible state.
LEMMA ShownStep ==
    ASSUME TypeOK, NEW r \in Readers, NEW s,
           \A q \in Readers : Shown'[q] = IF q = r THEN s ELSE Shown[q]
    PROVE  Shown' = [Shown EXCEPT ![r] = s]
<1> QED  BY DEF Shown

LEMMA StepPromise ==
    ASSUME TypeOK, TypeOK', FreshInv, FreshInv', RealInv, [Next]_vars, "crash" \notin Faults
    PROVE  [Promise!ANext]_(Promise!avars)
<1> USE DEF redis, lookups, changes
<1>a. ASSUME UNCHANGED <<truth, announced, Shown>> PROVE [Promise!ANext]_(Promise!avars)
  BY <1>a DEF Promise!avars
<1>b. ASSUME NEW r \in Readers,
             Promise!AAsk(r) \/ Promise!AAnswer(r) \/ Promise!AGiveUp(r)
      PROVE  [Promise!ANext]_(Promise!avars)
  BY <1>b DEF Promise!ANext
<1>1. ASSUME NEW r \in Readers, Begin(r) PROVE Promise!AAsk(r)
  <2>1. PICK k \in Keys : key' = [key EXCEPT ![r] = k] /\ floor' = [floor EXCEPT ![r] = announced[k]]
    BY <1>1 DEF Begin
  <2>2. Shown' = [Shown EXCEPT ![r] = [state |-> "asked", key |-> k, floor |-> announced[k]]]
    BY <1>1, <2>1, ShownStep DEF Begin, GoTo, Shown, TypeOK
  <2>3. Shown[r].state # "asked"
    BY <1>1 DEF Begin, Shown
  <2> QED  BY <1>1, <2>2, <2>3 DEF Begin, Promise!AAsk, Promise!Asked
<1>2. ASSUME NEW r \in Readers, ReadVersion(r) \/ NoVersion(r) \/ Miss(r)
      PROVE  UNCHANGED <<truth, announced, Shown>>
  BY <1>2 DEF ReadVersion, NoVersion, Miss, GoTo, Shown, TypeOK
<1>3. ASSUME NEW r \in Readers, pc[r] \in {"get", "load", "store"}, End(r, "done", val'[r]),
             UNCHANGED <<truth, announced, key, floor>>, val'[r] <= truth[key[r]]
      PROVE  Promise!AAnswer(r)
  <2>1. Shown[r] = [state |-> "asked", key |-> key[r], floor |-> floor[r]]
    BY <1>3 DEF Shown
  <2>2. Shown' = [Shown EXCEPT ![r] = [state |-> "answered", key |-> key[r], floor |-> floor[r],
                                       val |-> val'[r]]]
    BY <1>3, ShownStep DEF End, GoTo, Shown, TypeOK
  <2>3. val'[r] \in floor[r] .. truth[key[r]]
    <3>1. pc'[r] = "done" /\ floor'[r] = floor[r]
      BY <1>3 DEF End, GoTo, TypeOK
    <3>2. val'[r] >= floor[r]
      BY <3>1 DEF FreshInv, LoadsOwed
    <3>3. val'[r] \in Nat /\ floor[r] \in Nat /\ truth[key[r]] \in Nat
      BY DEF TypeOK, Changes
    <3> QED  BY <1>3, <3>2, <3>3
  <2>4. Shown[r].state = "asked" /\ Shown[r].key = key[r] /\ Shown[r].floor = floor[r]
    BY <2>1
  <2>5. \E v \in floor[r] .. truth[key[r]] :
           Shown' = [Shown EXCEPT ![r] = [state |-> "answered", key |-> key[r],
                                          floor |-> floor[r], val |-> v]]
    BY <2>2, <2>3
  <2> HIDE DEF TypeOK, FreshInv
  <2> QED  BY <1>3, <2>4, <2>5 DEF Promise!AAnswer, Promise!Answered
<1>4. ASSUME NEW r \in Readers, Hit(r) PROVE Promise!AAnswer(r)
  <2>1. ver[r] \in Versions /\ key[r] \in Keys
    BY <1>4 DEF Hit, TypeOK
  <2>2. Found(r).val <= truth[key[r]]
    BY <1>4, <2>1 DEF Hit, Found, RealInv
  <2>3. End(r, "done", val'[r]) /\ val'[r] = Found(r).val
    BY <1>4 DEF Hit, End, TypeOK
  <2> QED  BY <1>3, <1>4, <2>2, <2>3 DEF Hit
<1>5. ASSUME NEW r \in Readers, Load(r)
      PROVE  Promise!AAnswer(r) \/ UNCHANGED <<truth, announced, Shown>>
  <2>1. CASE ver[r] = None
    <3>1. End(r, "done", val'[r]) /\ val'[r] = truth[key[r]]
      BY <1>5, <2>1 DEF Load, End, TypeOK
    <3>2. truth[key[r]] <= truth[key[r]]
      BY DEF TypeOK, Changes
    <3> QED  BY <1>3, <1>5, <3>1, <3>2 DEF Load
  <2>2. CASE ver[r] # None
    BY <1>5, <2>2 DEF Load, GoTo, Shown, TypeOK
  <2> QED  BY <2>1, <2>2
<1>6. ASSUME NEW r \in Readers, Store(r) \/ StoreLost(r) PROVE Promise!AAnswer(r)
  <2>1. pc[r] = "store" /\ End(r, "done", val[r]) /\ UNCHANGED <<truth, announced, key, floor>>
    BY <1>6 DEF Store, StoreLost
  <2>2. val'[r] = val[r] /\ val[r] <= truth[key[r]]
    BY <2>1 DEF End, RealInv, TypeOK
  <2> QED  BY <1>3, <2>1, <2>2
<1>7. ASSUME NEW r \in Readers, Abandon(r) PROVE Promise!AGiveUp(r)
  <2>1. Shown' = [Shown EXCEPT ![r] = [state |-> "idle"]]
    BY <1>7, ShownStep DEF Abandon, End, GoTo, Shown, TypeOK
  <2>2. Shown[r].state = "asked"
    BY <1>7 DEF Abandon, Shown
  <2> QED  BY <1>7, <2>1, <2>2 DEF Abandon, Promise!AGiveUp, Promise!Idle
<1>8. ASSUME NEW a \in Admins, Commit(a) PROVE Promise!AChange
  BY <1>8 DEF Commit, Promise!AChange, Shown
<1>9. ASSUME NEW a \in Admins, Bump(a) PROVE Promise!AAnnounce
  <2>1. announced' = [k \in Keys |-> Max2(announced[k], mark[a][k])]
    BY <1>9 DEF Bump
  <2>2. \A k \in Keys : announced[k] \in Nat /\ mark[a][k] \in Nat /\ truth[k] \in Nat
    BY DEF TypeOK, Changes
  <2>3. \A k \in Keys : announced[k] <= announced'[k] /\ announced'[k] <= truth[k]
    BY <2>1, <2>2 DEF Max2, FreshInv, LevelsInOrder
  <2>4. announced' \in [Keys -> 0 .. MaxChanges]
    BY DEF TypeOK, Changes
  <2>5. UNCHANGED <<truth, Shown>>
    BY <1>9 DEF Bump, Shown
  <2> QED  BY <2>3, <2>4, <2>5 DEF Promise!AAnnounce
<1>10. ASSUME NEW a \in Admins, BumpLost(a) \/ Die(a)
       PROVE  UNCHANGED <<truth, announced, Shown>>
  BY <1>10 DEF BumpLost, Die, Shown
<1>11. CASE Tick \/ Save \/ Crash
  BY <1>11, <1>a DEF Tick, Save, Crash, Shown
<1>12. CASE UNCHANGED vars
  BY <1>12, <1>a DEF vars, Shown
<1>13. Promise!AChange \/ Promise!AAnnounce => [Promise!ANext]_(Promise!avars)
  BY DEF Promise!ANext
<1> QED
  BY <1>a, <1>b, <1>1, <1>2, <1>4, <1>5, <1>6, <1>7, <1>8, <1>9, <1>10, <1>11, <1>12, <1>13
  DEF Next, Lookup, Announce

(* The cache, with its in-flight loads, circuit breaker and failing calls, is an
   implementation of the plain lookup of FreshLookup. *)
THEOREM CacheKeepsPromise == ASSUME "crash" \notin Faults PROVE Spec => KeepsPromise
<1>1. TypeOK /\ FreshInv /\ RealInv /\ [Next]_vars => TypeOK' /\ FreshInv' /\ RealInv'
  BY StepType, StepFresh, StepReal
<1>2. TypeOK /\ TypeOK' /\ FreshInv /\ FreshInv' /\ RealInv /\ [Next]_vars
        => [Promise!ANext]_(Promise!avars)
  BY StepPromise
<1> QED
  BY InitType, InitFresh, InitReal, InitPromise, <1>1, <1>2, PTL
  DEF Spec, KeepsPromise, Promise!ASpec
--------------------------------------------------------------------------------
(* Age *)

\* What is stored in e is not older than the time it has been there.
Young(e) ==
    \A w \in Versions : \A k \in Keys : e[w][k] # None =>
        e[w][k].left >= 1 /\ staleFor[k][e[w][k].val] + e[w][k].left <= Ttl[k]

(* Redis, its snapshot, and the stores under way together: an entry has at most so
   long to live as is left of its TTL after the time its value has been outdated. *)
AgesInv ==
    /\ \A k \in Keys : \A n \in Changes : n >= truth[k] => staleFor[k][n] = 0
    /\ \A r \in Readers : pc[r] = "store" => staleFor[key[r]][val[r]] = 0
    /\ Young(entry)
    /\ Young(saved.entry)

LEMMA InitAges == Init => AgesInv
<1> QED  BY NoneApart DEF Init, Empty, AgesInv, Young

LEMMA EntryParts ==
    ASSUME NEW e \in [Versions -> [Keys -> Entries \cup {None}]],
           NEW w \in Versions, NEW k \in Keys, e[w][k] # None
    PROVE  e[w][k].val \in Changes /\ e[w][k].left \in Nat
<1>1. e[w][k] \in Entries
  OBVIOUS
<1> QED  BY <1>1 DEF Entries

LEMMA StepAges == TypeOK /\ AgesInv /\ [Next]_vars => AgesInv'
<1> SUFFICES ASSUME TypeOK, AgesInv, [Next]_vars PROVE AgesInv'
  OBVIOUS
<1> USE DEF redis, lookups, changes
<1>t. /\ staleFor \in [Keys -> [Changes -> Nat]] /\ truth \in [Keys -> Changes]
      /\ key \in [Readers -> Keys] /\ val \in [Readers -> Changes]
      /\ Changes \subseteq Nat /\ Ttl \in [Keys -> Nat \ {0}]
      /\ entry \in [Versions -> [Keys -> Entries \cup {None}]]
      /\ saved.entry \in [Versions -> [Keys -> Entries \cup {None}]]
      /\ ver \in [Readers -> Versions \cup {None}]
      /\ \A r \in Readers : pc[r] = "store" => ver[r] \in Versions
  BY DEF TypeOK, Changes
<1>a. /\ \A k \in Keys : \A n \in Changes : n >= truth[k] => staleFor[k][n] = 0
      /\ \A r \in Readers : pc[r] = "store" => staleFor[key[r]][val[r]] = 0
  BY DEF AgesInv
<1>b. /\ Young(entry)
      /\ Young(saved.entry)
  BY DEF AgesInv
<1>c. ASSUME UNCHANGED staleFor PROVE \A e : Young(e)' <=> Young(e')
  BY <1>c DEF Young
<1>1. ASSUME UNCHANGED <<truth, staleFor, entry, saved>>,
             \A q \in Readers : pc'[q] = "store" =>
                 pc[q] = "store" /\ val'[q] = val[q] /\ key'[q] = key[q]
      PROVE  AgesInv'
  BY <1>1, <1>a, <1>b DEF AgesInv, Young
<1>2. ASSUME NEW r \in Readers,
             Begin(r) \/ ReadVersion(r) \/ NoVersion(r) \/ Hit(r) \/ Miss(r) \/ Abandon(r)
      PROVE  AgesInv'
  <2>1. UNCHANGED <<truth, staleFor, entry, saved>>
    BY <1>2 DEF Begin, ReadVersion, NoVersion, Hit, Miss, Abandon
  <2>2. \A q \in Readers : pc'[q] = "store" => pc[q] = "store" /\ val'[q] = val[q] /\ key'[q] = key[q]
    <3>0. pc \in [Readers -> Steps]
      BY DEF TypeOK
    <3>1. CASE Begin(r)
      BY <3>0, <3>1, <1>t DEF Begin, GoTo
    <3>2. CASE ReadVersion(r) \/ NoVersion(r) \/ Miss(r)
      BY <3>0, <3>2 DEF ReadVersion, NoVersion, Miss, GoTo
    <3>3. CASE Hit(r) \/ Abandon(r)
      BY <3>0, <3>3, <1>t DEF Hit, Abandon, End, GoTo
    <3> QED  BY <1>2, <3>1, <3>2, <3>3
  <2> QED  BY <1>1, <2>1, <2>2
<1>3. ASSUME NEW r \in Readers, Load(r) PROVE AgesInv'
  <2>1. UNCHANGED <<truth, staleFor, entry, saved, key>>
    BY <1>3 DEF Load
  <2>2. \A q \in Readers : pc'[q] = "store" =>
            (q = r /\ val'[q] = truth[key[q]]) \/ (pc[q] = "store" /\ val'[q] = val[q])
    BY <1>3, <1>t DEF Load, End, GoTo, TypeOK
  <2>3. \A k \in Keys : staleFor[k][truth[k]] = 0
    <3> SUFFICES ASSUME NEW k \in Keys PROVE staleFor[k][truth[k]] = 0
      OBVIOUS
    <3>1. truth[k] \in Changes /\ truth[k] \in Nat
      BY <1>t
    <3>2. truth[k] >= truth[k]
      BY <3>1
    <3> QED  BY <1>a, <3>1, <3>2
  <2>4. \A q \in Readers : pc'[q] = "store" => staleFor[key[q]][val'[q]] = 0
    BY <1>a, <1>t, <2>2, <2>3
  <2> QED  BY <1>a, <1>b, <2>1, <2>4 DEF AgesInv, Young
<1>4. ASSUME NEW r \in Readers, Store(r) \/ StoreLost(r) PROVE AgesInv'
  <2>1. /\ pc[r] = "store" /\ UNCHANGED <<truth, staleFor, saved, key>> /\ End(r, "done", val[r])
        /\ entry' = entry \/ entry' = StoredBy(r)
    BY <1>4 DEF Store, StoreLost
  <2>2. \A w \in Versions : \A k \in Keys :
            \/ entry'[w][k] = entry[w][k]
            \/ k = key[r] /\ entry'[w][k].val = val[r] /\ entry'[w][k].left = Ttl[k]
    <3>0. /\ ver[r] \in Versions /\ key[r] \in Keys
          /\ entry \in [Versions -> [Keys -> Entries \cup {None}]]
      BY <1>t, <2>1
    <3> SUFFICES ASSUME NEW w \in Versions, NEW k \in Keys, entry' = StoredBy(r)
                 PROVE  \/ entry'[w][k] = entry[w][k]
                        \/ /\ k = key[r] /\ entry'[w][k].val = val[r]
                           /\ entry'[w][k].left = Ttl[k]
      BY <2>1
    <3>1. entry'[w] = IF w = ver[r]
                      THEN [entry[w] EXCEPT ![key[r]] = [val |-> val[r], left |-> Ttl[key[r]]]]
                      ELSE entry[w]
      BY <3>0 DEF StoredBy
    <3>2. CASE w = ver[r] /\ k = key[r]
      <4>1. entry'[w][k] = [val |-> val[r], left |-> Ttl[k]]
        BY <3>0, <3>1, <3>2
      <4> QED  BY <4>1, <3>2
    <3>3. CASE ~(w = ver[r] /\ k = key[r])
      BY <3>0, <3>1, <3>3
    <3> QED  BY <3>2, <3>3
  <2>3. /\ staleFor[key[r]][val[r]] = 0 /\ key[r] \in Keys
        /\ Ttl[key[r]] \in Nat /\ Ttl[key[r]] >= 1
    BY <1>a, <1>t, <2>1
  <2>4. Young(entry)'
    <3> SUFFICES ASSUME NEW w \in Versions, NEW k \in Keys, entry'[w][k] # None
                 PROVE  /\ entry'[w][k].left >= 1
                        /\ staleFor[k][entry'[w][k].val] + entry'[w][k].left <= Ttl[k]
      BY <2>1 DEF Young
    <3>1. CASE entry'[w][k] = entry[w][k]
      BY <1>b, <3>1 DEF Young
    <3>2. CASE k = key[r] /\ entry'[w][k].val = val[r] /\ entry'[w][k].left = Ttl[k]
      BY <2>3, <3>2
    <3> QED  BY <2>2, <3>1, <3>2
  <2>5. \A q \in Readers : pc'[q] = "store" => pc[q] = "store" /\ val'[q] = val[q]
    BY <2>1 DEF End, GoTo, TypeOK
  <2>6. Young(saved.entry)'
    BY <1>b, <2>1 DEF Young
  <2> QED  BY <1>a, <2>1, <2>4, <2>5, <2>6 DEF AgesInv
<1>5. ASSUME NEW a \in Admins, Commit(a) PROVE AgesInv'
  <2>1. \A k \in Keys : truth'[k] \in Nat /\ truth'[k] >= truth[k]
    <3>1. PICK ks \in SUBSET Keys :
            truth' = [k \in Keys |-> IF k \in ks THEN truth[k] + 1 ELSE truth[k]]
      BY <1>5 DEF Commit
    <3>2. \A k \in Keys : truth[k] \in Nat
      BY <1>t
    <3>3. ASSUME NEW k \in Keys PROVE truth'[k] \in Nat /\ truth'[k] >= truth[k]
      BY <3>1, <3>2
    <3> QED  BY <3>3
  <2>2. UNCHANGED <<staleFor, entry, saved, pc, key, val>>
    BY <1>5 DEF Commit
  <2>3. ASSUME NEW k \in Keys, NEW n \in Changes, n >= truth'[k] PROVE n >= truth[k]
    <3>1. n \in Nat /\ truth[k] \in Nat /\ truth'[k] \in Nat /\ truth'[k] >= truth[k]
      BY <1>t, <2>1
    <3> QED  BY <2>3, <3>1
  <2> QED  BY <1>a, <1>b, <2>2, <2>3 DEF AgesInv, Young
<1>6. ASSUME NEW a \in Admins, Announce(a) \/ Die(a) PROVE AgesInv'
  BY <1>6, <1>1 DEF Announce, Bump, BumpLost, Die
<1>7. ASSUME Tick PROVE AgesInv'
  <2>1. /\ UNCHANGED <<truth, pc, key, val>>
        /\ \A q \in Readers : pc[q] # "store"
        /\ entry' = Aged(entry) /\ saved'.entry = Aged(saved.entry)
    BY <1>7 DEF Tick, TypeOK
  <2>2. /\ \A k \in Keys : \A n \in Changes : n >= truth[k] => staleFor'[k][n] = staleFor[k][n]
        /\ \A k \in Keys : \A n \in Changes : staleFor'[k][n] \in Nat /\ staleFor'[k][n] <= staleFor[k][n] + 1
    BY <1>7, <1>t DEF Tick
  <2>3. ASSUME NEW e \in [Versions -> [Keys -> Entries \cup {None}]], Young(e),
               NEW w \in Versions, NEW k \in Keys, Aged(e)[w][k] # None
        PROVE  /\ Aged(e)[w][k].left >= 1
               /\ staleFor'[k][Aged(e)[w][k].val] + Aged(e)[w][k].left <= Ttl[k]
    <3>1. e[w][k] # None /\ ~(e[w][k].left <= 1) /\ Aged(e)[w][k] = [e[w][k] EXCEPT !.left = @ - 1]
      BY <2>3 DEF Aged
    <3>2. e[w][k] \in Entries
      BY <3>1
    <3>3. /\ Aged(e)[w][k].val = e[w][k].val /\ Aged(e)[w][k].left = e[w][k].left - 1
          /\ e[w][k].val \in Changes /\ e[w][k].left \in Nat
      BY <3>1, <3>2 DEF Entries
    <3>4. staleFor[k][e[w][k].val] + e[w][k].left <= Ttl[k]
      BY <2>3, <3>1 DEF Young
    <3>5. ASSUME NEW n \in Changes
          PROVE  /\ staleFor'[k][n] \in Nat /\ staleFor[k][n] \in Nat /\ Ttl[k] \in Nat
                 /\ staleFor'[k][n] <= staleFor[k][n] + 1
      BY <1>t, <2>2
    <3>6. PICK n \in Changes : n = e[w][k].val
      BY <3>3
    <3>7. PICK l \in Nat : l = e[w][k].left
      BY <3>3
    <3>8. Aged(e)[w][k].val = n /\ Aged(e)[w][k].left = l - 1 /\ ~(l <= 1)
      BY <3>1, <3>3, <3>6, <3>7
    <3>9. staleFor[k][n] + l <= Ttl[k]
      BY <3>4, <3>6, <3>7
    <3> QED  BY <3>5, <3>8, <3>9
  <2>4. Young(entry)'
    BY <1>b, <1>t, <2>1, <2>3 DEF Young
  <2>5. Young(saved.entry)'
    BY <1>b, <1>t, <2>1, <2>3 DEF Young
  <2> QED  BY <1>a, <2>1, <2>2, <2>4, <2>5 DEF AgesInv
<1>8. ASSUME Save \/ Crash PROVE AgesInv'
  <2>1. /\ UNCHANGED <<truth, staleFor, pc, key, val>>
        /\ entry' \in {entry, saved.entry} /\ saved'.entry \in {entry, saved.entry}
    BY <1>8 DEF Save, Crash
  <2>2. Young(entry)' /\ Young(saved.entry)'
    BY <1>b, <2>1 DEF Young
  <2> QED  BY <1>a, <2>1, <2>2 DEF AgesInv
<1>9. CASE UNCHANGED vars
  BY <1>1, <1>9 DEF vars
<1> QED
  BY <1>2, <1>3, <1>4, <1>5, <1>6, <1>7, <1>8, <1>9 DEF Next, Lookup

(* Whatever fails, and also when a bump is lost or Redis restarts from an old
   snapshot: an outdated answer is served for less than its TTL after it was
   replaced (the bound that cache/base.py gives for a missed announcement). *)
THEOREM ServedOnlyWithinTtl == Spec => ServedWithinTtl
<1>1. ASSUME TypeOK, AgesInv, [Next]_vars, NEW r \in Readers, pc[r] = "get", pc'[r] = "done"
      PROVE  staleFor[key[r]][val'[r]] < Ttl[key[r]]
  <2>1. Hit(r)
    <3>0. pc \in [Readers -> Steps]
      BY <1>1 DEF TypeOK
    <3>1. ASSUME NEW q \in Readers, Begin(q) \/ ReadVersion(q) \/ NoVersion(q) \/ Miss(q) PROVE FALSE
      BY <1>1, <3>0, <3>1 DEF Begin, ReadVersion, NoVersion, Miss, GoTo
    <3>2. ASSUME NEW q \in Readers, Load(q) \/ Store(q) \/ StoreLost(q) \/ Abandon(q) PROVE FALSE
      BY <1>1, <3>0, <3>2 DEF Load, Store, StoreLost, Abandon, End, GoTo
    <3>3. ASSUME NEW q \in Readers, Hit(q) PROVE q = r
      BY <1>1, <3>0, <3>3 DEF Hit, End, GoTo
    <3>4. pc' # pc
      BY <1>1
    <3>5. ~(Tick \/ Save \/ Crash \/ UNCHANGED vars)
      BY <3>4 DEF Tick, Save, Crash, vars, lookups
    <3>6. \A a \in Admins : ~(Commit(a) \/ Announce(a) \/ Die(a))
      BY <3>4 DEF Commit, Announce, Bump, BumpLost, Die, lookups
    <3> QED  BY <1>1, <3>1, <3>2, <3>3, <3>5, <3>6 DEF Next, Lookup
  <2>2. ver[r] \in Versions /\ key[r] \in Keys /\ Found(r) # None /\ val'[r] = Found(r).val
    BY <1>1, <2>1 DEF Hit, End, TypeOK
  <2>3. Found(r).val \in Changes /\ Found(r).left \in Nat
    BY <1>1, <2>2, EntryParts DEF TypeOK, Found
  <2>4. /\ Found(r).left >= 1
        /\ staleFor[key[r]][Found(r).val] + Found(r).left <= Ttl[key[r]]
    BY <1>1, <2>2 DEF AgesInv, Young, Found
  <2>5. staleFor[key[r]][Found(r).val] \in Nat /\ Ttl[key[r]] \in Nat
    BY <1>1, <2>2, <2>3 DEF TypeOK
  <2> QED  BY <2>2, <2>3, <2>4, <2>5
<1>2. TypeOK /\ AgesInv /\ [Next]_vars =>
         [\A r \in Readers : (pc[r] = "get" /\ pc'[r] = "done" /\ val'[r] < truth[key[r]])
             => staleFor[key[r]][val'[r]] < Ttl[key[r]]]_vars
  BY <1>1
<1>3. TypeOK /\ AgesInv /\ [Next]_vars => AgesInv'
  BY StepAges
<1> QED  BY InitType, StepType, InitAges, <1>2, <1>3, PTL DEF Spec, ServedWithinTtl

================================================================================
