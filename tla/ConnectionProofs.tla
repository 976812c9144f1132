---------------------------- MODULE ConnectionProofs ----------------------------
(***************************************************************************)
(* Proofs about what an MCP server keeps of a connection: the structures  *)
(* read through the cache (SchemaReads), for any tables, databases and    *)
(* requests, and the live adapters (ConnectionRegistry), for any number   *)
(* of calls, connections and edits; with every failure, cancellation and  *)
(* shutdown.                                                              *)
(***************************************************************************)
EXTENDS SchemaReads, ConnectionRegistry, FiniteSetTheorems, TLAPS

--------------------------------------------------------------------------------
(* What is read of a connection's tables *)

\* What a read gave of x, the list or a table: it is of database d and no younger than now.  A
\* list has every table but those made since, and a table has been there.
ToldTrue(got, x, d) ==
    /\ got.db = d /\ got.at <= clock
    /\ x = "tables" => /\ got \in Lists
                       /\ \A t \in Tables : has[d][t] # None /\ has[d][t] <= got.at => t \in got.names
    /\ x # "tables" => got \in Structures /\ got.name \in real

\* The tables there are now are among those that there have been.
TablesReal ==
    /\ announced <= clock
    /\ \A v \in DOMAIN edits : There(edits[v]) \subseteq real

\* An edit is announced at most once.
Bumps == version + (IF owed THEN 1 ELSE 0) < Len(edits)

\* What is stored is true, and what is stored under the version of now is new.
EntriesTrue ==
    \A k \in DOMAIN entry :
        /\ k[1] <= version /\ k[2] <= Len(edits)
        /\ ToldTrue(entry[k], k[3], edits[k[2]])
        /\ k[1] = version => entry[k].at >= announced

\* A request on its way, and what is left of one that has ended.
RequestTrue(q) ==
    LET d == edits[q.rec]
        x == Head(q.ahead)
    IN  /\ q.rec <= Len(edits) /\ q.floor <= announced
        /\ q.ver # None => q.ver <= version
        /\ q.pc \in {"get", "store"} => q.ver # None
        /\ q.pc # "idle" => /\ q.ahead # <<>> /\ q.answer = "none" /\ q.missing = {}
                            /\ q.op = "tables_page" => x = "tables"
                            /\ q.op = "set_description" => x # "tables"
        /\ q.pc = "reflect" => x # "tables"
        /\ q.pc \in Reading /\ Lacks(has[d], x) => q.lacked
        /\ q.pc \in {"reflect", "store", "use"} =>
              ToldTrue(q.got, x, d) /\ q.got.at >= q.floor
        /\ q.pc = "store" /\ q.ver = version => q.got.at >= announced
        /\ q.answer = "not_found" => q.lacked
        /\ \A t \in q.missing : has[d][t] = None \/ has[d][t] > q.floor

\* Whatever is stored, or is about to be, under the version that a request has read is new
\* enough for that request.
HitsOwed ==
    \A r \in Readers : req[r].ver # None =>
        /\ \A k \in DOMAIN entry : k[1] = req[r].ver => entry[k].at >= req[r].floor
        /\ \A q \in Readers : req[q].pc = "store" /\ req[q].ver = req[r].ver
                                 => req[q].got.at >= req[r].floor

ReadsInv ==
    /\ TypeOK
    /\ TablesReal
    /\ Bumps
    /\ EntriesTrue
    /\ \A r \in Readers : RequestTrue(req[r])
    /\ HitsOwed
    /\ DescriptionsWereReal

\* Items of what a request reads.
Items == Tables \cup {"tables"}

LEMMA RequestParts ==
    ASSUME NEW q \in Requests
    PROVE  /\ q.rec \in Nat /\ q.rec >= 1 /\ q.rec <= MaxEdits + 1 /\ q.floor \in Nat /\ q.floor \in Clocks
           /\ q.ver \in Versions \cup {None} /\ (q.ver # None => q.ver \in Nat)
           /\ q.ahead \in Seq(Items) /\ (q.ahead # <<>> => Head(q.ahead) \in Items)
           /\ q.missing \subseteq Tables /\ q.curated \subseteq Tables /\ q.lacked \in BOOLEAN
<1>1. /\ MaxEdits \in Nat /\ MaxChanges \in Nat /\ None \notin Nat
  BY SchemaReadsAssumption
<1>2. q.ahead \in Seq(Items) /\ (q.ahead # <<>> => Head(q.ahead) \in Items)
  BY DEF Requests, Items
<1>3. /\ q.rec \in 1 .. MaxEdits + 1 /\ q.floor \in Clocks /\ q.ver \in Versions \cup {None}
      /\ q.missing \subseteq Tables /\ q.curated \subseteq Tables /\ q.lacked \in BOOLEAN
  BY DEF Requests
<1>4. /\ q.rec \in Nat /\ q.rec >= 1 /\ q.rec <= MaxEdits + 1 /\ q.floor \in Nat
      /\ (q.ver # None => q.ver \in Nat)
  BY <1>1, <1>3 DEF Clocks, Versions
<1> QED BY <1>2, <1>3, <1>4

LEMMA ListParts ==
    ASSUME NEW g, g \in Lists \/ g \in Structures
    PROVE  /\ g.at \in Nat /\ g.db \in Databases
           /\ g \in Lists => g.names \subseteq Tables
           /\ g \in Structures => g.name \in Tables
BY SchemaReadsAssumption DEF Lists, Structures, Clocks

\* What state the reads of one request leave alone.
Around == <<clock, has, real, edits, owed, announced, version>>

LEMMA SameTruth ==
    ASSUME UNCHANGED Around
    PROVE  /\ \A q : RequestTrue(q)' <=> RequestTrue(q)
           /\ \A g, x, d : ToldTrue(g, x, d)' <=> ToldTrue(g, x, d)
           /\ TablesReal' <=> TablesReal
           /\ Bumps' <=> Bumps
<1>1. /\ clock' = clock /\ has' = has /\ real' = real /\ edits' = edits /\ owed' = owed
      /\ announced' = announced /\ version' = version
  BY DEF Around
<1>2. \A g, x, d : ToldTrue(g, x, d)' <=> ToldTrue(g, x, d)
  BY <1>1 DEF ToldTrue
<1>3. \A q : RequestTrue(q)' <=> RequestTrue(q)
  BY <1>1, <1>2 DEF RequestTrue
<1>4. TablesReal' <=> TablesReal
  BY <1>1 DEF TablesReal, There
<1>5. Bumps' <=> Bumps
  BY <1>1 DEF Bumps
<1> QED BY <1>2, <1>3, <1>4, <1>5

\* A key is one of the cache, and says what was read.
LEMMA KeyParts ==
    ASSUME NEW r \in Readers, req[r] \in Requests, req[r].ver # None, req[r].ahead # <<>>
    PROVE  /\ FullKey(r) \in FullKeys
           /\ FullKey(r)[1] = req[r].ver /\ FullKey(r)[2] = req[r].rec
           /\ FullKey(r)[3] = "tables" <=> Item(r) = "tables"
<1>1. /\ req[r].ver \in Versions /\ req[r].rec \in 1 .. MaxEdits + 1
      /\ Item(r) \in Tables \cup {"tables"}
  <2>1. req[r].rec \in 1 .. MaxEdits + 1
    BY DEF Requests
  <2> QED BY <2>1, RequestParts DEF Item, Items
<1>2. Fold(Item(r)) \in {Fold(x) : x \in Tables \cup {"tables"}}
  BY <1>1
<1>3. Fold(Item(r)) = "tables" <=> Item(r) = "tables"
  BY <1>1, SchemaReadsAssumption DEF Fold
<1> QED BY <1>1, <1>2, <1>3 DEF FullKey, FullKeys

\* A step of one request, which may change what is stored: the others' are true as before.
LEMMA OneRequest ==
    ASSUME ReadsInv, NEW r \in Readers, NEW new \in Requests, RequestTrue(new),
           req' = [req EXCEPT ![r] = new],
           UNCHANGED Around,
           described' \subseteq real, requests' \in 0 .. MaxRequests,
           \A k \in DOMAIN entry' :
              \/ k \in DOMAIN entry /\ entry'[k] = entry[k]
              \/ k = FullKey(r) /\ req[r].pc = "store" /\ entry'[k] = req[r].got,
           new.pc = "store" => new.got.at = clock,
           new.ver # None =>
              /\ new.floor = req[r].floor
              /\ new.ver = req[r].ver \/ (new.ver = version /\ new.pc = "get")
    PROVE  ReadsInv'
<1>0. /\ TypeOK /\ TablesReal /\ Bumps /\ EntriesTrue /\ HitsOwed
      /\ \A p \in Readers : RequestTrue(req[p])
  BY DEF ReadsInv
<1>1. /\ clock' = clock /\ has' = has /\ real' = real /\ edits' = edits /\ owed' = owed
      /\ announced' = announced /\ version' = version
      /\ clock \in Nat /\ announced \in Nat /\ version \in Nat
  BY <1>0, SchemaReadsAssumption DEF Around, TypeOK, Clocks, Versions
<1>2. /\ req' \in [Readers -> Requests] /\ req'[r] = new
      /\ \A p \in Readers \ {r} : req'[p] = req[p]
      /\ \A p \in Readers : req[p] \in Requests /\ req'[p] \in Requests
  BY <1>0 DEF TypeOK
<1>3. \A p \in Readers : RequestTrue(req'[p])
  BY <1>0, <1>2
<1>t. (\A p \in Readers : RequestTrue(req[p]))'
  BY <1>1, <1>3 DEF RequestTrue, ToldTrue
<1>4. req[r].pc = "store" =>
        /\ req[r].ver # None /\ req[r].ver <= version /\ req[r].ahead # <<>>
        /\ req[r].rec <= Len(edits) /\ ToldTrue(req[r].got, Item(r), Adapter(r))
        /\ req[r].ver = version => req[r].got.at >= announced
        /\ IF Item(r) = "tables" THEN req[r].got \in Lists ELSE req[r].got \in Structures
  BY <1>0 DEF RequestTrue, ToldTrue, Item, Adapter
<1>5. req[r].pc = "store" =>
        /\ FullKey(r) \in FullKeys
        /\ FullKey(r)[1] = req[r].ver /\ FullKey(r)[2] = req[r].rec
        /\ FullKey(r)[3] = "tables" <=> Item(r) = "tables"
  BY <1>2, <1>4, KeyParts
<1>6. ASSUME NEW k \in DOMAIN entry'
      PROVE  /\ k \in FullKeys
             /\ entry'[k] \in IF k[3] = "tables" THEN Lists ELSE Structures
             /\ k[1] <= version /\ k[2] <= Len(edits)
             /\ ToldTrue(entry'[k], k[3], edits[k[2]])
             /\ k[1] = version => entry'[k].at >= announced
  <2>1. CASE k \in DOMAIN entry /\ entry'[k] = entry[k]
    BY <1>0, <2>1 DEF TypeOK, EntriesTrue
  <2>2. CASE k = FullKey(r) /\ req[r].pc = "store" /\ entry'[k] = req[r].got
    <3>1. ToldTrue(req[r].got, k[3], edits[k[2]])
      BY <1>4, <1>5, <2>2 DEF ToldTrue, Adapter
    <3> QED BY <1>4, <1>5, <2>2, <3>1
  <2> QED BY <2>1, <2>2
<1>7. TypeOK'
  <2>1. described' \subseteq Tables
    BY <1>0 DEF TypeOK
  <2> QED BY <1>0, <1>1, <1>2, <1>6, <2>1 DEF TypeOK
<1>8. EntriesTrue'
  BY <1>1, <1>6, SameTruth DEF EntriesTrue
<1>9. HitsOwed'
  <2> SUFFICES ASSUME NEW p \in Readers, req'[p].ver # None
               PROVE  /\ \A k \in DOMAIN entry' : k[1] = req'[p].ver => entry'[k].at >= req'[p].floor
                      /\ \A q \in Readers : req'[q].pc = "store" /\ req'[q].ver = req'[p].ver
                                               => req'[q].got.at >= req'[p].floor
    BY DEF HitsOwed
  <2>1. req'[p].floor <= announced /\ announced <= clock /\ req'[p].floor \in Nat
    BY <1>0, <1>2, <1>3, RequestParts DEF RequestTrue, TablesReal
  <2>2. \/ req'[p].ver = req[p].ver /\ req'[p].floor = req[p].floor
        \/ req'[p].ver = version /\ p = r /\ new.pc = "get"
    BY <1>2
  <2>3. ASSUME NEW k \in DOMAIN entry', k[1] = req'[p].ver
        PROVE  entry'[k].at >= req'[p].floor
    <3>1. entry'[k].at \in Nat
      BY <1>6, ListParts
    <3>2. CASE req'[p].ver = req[p].ver /\ req'[p].floor = req[p].floor
      <4>1. CASE k \in DOMAIN entry /\ entry'[k] = entry[k]
        BY <1>0, <2>3, <3>2, <4>1 DEF HitsOwed
      <4>2. CASE k = FullKey(r) /\ req[r].pc = "store" /\ entry'[k] = req[r].got
        BY <1>0, <1>5, <2>3, <3>2, <4>2 DEF HitsOwed
      <4> QED BY <4>1, <4>2
    <3>3. CASE req'[p].ver = version
      BY <1>6, <2>1, <2>3, <3>1, <3>3, <1>1
    <3> QED BY <2>2, <3>2, <3>3
  <2>4. ASSUME NEW q \in Readers, req'[q].pc = "store", req'[q].ver = req'[p].ver
        PROVE  req'[q].got.at >= req'[p].floor
    <3>1. CASE q = r
      BY <1>1, <1>2, <2>1, <2>4, <3>1
    <3>2. CASE q # r /\ req'[p].ver = req[p].ver /\ req'[p].floor = req[p].floor
      BY <1>0, <1>2, <2>4, <3>2 DEF HitsOwed
    <3>3. CASE q # r /\ req'[p].ver = version
      <4>1. req'[q].got.at >= announced
        BY <1>3, <2>4, <3>3 DEF RequestTrue
      <4>2. req'[q].got.at \in Nat
        BY <1>3, <2>4, ListParts DEF RequestTrue, ToldTrue
      <4> QED BY <1>1, <2>1, <4>1, <4>2
    <3> QED BY <2>2, <3>1, <3>2, <3>3
  <2> QED BY <2>3, <2>4
<1>10. TablesReal' /\ Bumps'
  BY <1>0, <1>1 DEF TablesReal, Bumps, There
<1>11. DescriptionsWereReal'
  BY <1>1 DEF DescriptionsWereReal
<1> QED BY <1>t, <1>7, <1>8, <1>9, <1>10, <1>11 DEF ReadsInv

LEMMA ListsAreFinite ==
    ASSUME NEW S \in SUBSET Tables
    PROVE  SetToSeq(S) \in Seq(S)
<1>1. IsFiniteSet(S)
  BY SchemaReadsAssumption, FS_Subset
<1>2. Cardinality(S) \in Nat /\ ExistsBijection(1 .. Cardinality(S), S)
  BY <1>1, FS_CardinalityType
<1>3. \E f \in [1 .. Cardinality(S) -> S] : IsInjective(f)
  BY <1>2 DEF ExistsBijection, Bijection, Injection
<1>4. SetToSeq(S) \in [1 .. Cardinality(S) -> S]
  BY <1>3 DEF SetToSeq
<1> QED BY <1>2, <1>4

\* What a step of request r finds.
LEMMA RequestOf ==
    ASSUME ReadsInv, NEW r \in Readers
    PROVE  /\ req \in [Readers -> Requests] /\ req[r] \in Requests /\ RequestTrue(req[r])
           /\ described \subseteq real /\ real \subseteq Tables /\ requests \in 0 .. MaxRequests
           /\ clock \in Nat /\ clock \in Clocks /\ announced \in Nat /\ version \in Versions
           /\ Len(edits) >= 1 /\ Len(edits) \in Nat /\ announced <= clock
           /\ req[r].rec \in 1 .. MaxEdits + 1 /\ req[r].rec <= Len(edits)
           /\ req[r].floor \in Clocks /\ req[r].floor <= announced
           /\ \A v \in 1 .. Len(edits) : edits[v] \in Databases
           /\ \A d \in Databases, t \in Tables : has[d][t] \in Clocks \cup {None}
           /\ Adapter(r) \in Databases
<1>1. TypeOK /\ TablesReal /\ RequestTrue(req[r]) /\ DescriptionsWereReal
  BY DEF ReadsInv
<1>2. /\ req \in [Readers -> Requests] /\ req[r] \in Requests
      /\ req[r].rec \in 1 .. MaxEdits + 1 /\ req[r].floor \in Clocks
  BY <1>1 DEF TypeOK, Requests
<1>3. /\ clock \in Nat /\ clock \in Clocks /\ announced \in Nat /\ version \in Versions
      /\ requests \in 0 .. MaxRequests /\ real \subseteq Tables
      /\ \A d \in Databases, t \in Tables : has[d][t] \in Clocks \cup {None}
  BY <1>1, SchemaReadsAssumption DEF TypeOK, Clocks
<1>4. /\ Len(edits) >= 1 /\ Len(edits) \in Nat
      /\ \A v \in 1 .. Len(edits) : edits[v] \in Databases
  BY <1>1, SchemaReadsAssumption DEF TypeOK
<1>5. req[r].rec <= Len(edits) /\ req[r].floor <= announced
  BY <1>1 DEF RequestTrue
<1>6. Adapter(r) \in Databases
  BY <1>2, <1>4, <1>5, SchemaReadsAssumption DEF Adapter
<1> QED BY <1>1, <1>2, <1>3, <1>4, <1>5, <1>6 DEF TablesReal, DescriptionsWereReal

LEMMA StepsOfARequest ==
    ASSUME NEW q \in Requests, NEW pc \in {"idle", "version", "store", "use"} \cup Reading
    PROVE  /\ [q EXCEPT !.pc = pc] \in Requests
           /\ \A got \in Lists \cup Structures : [q EXCEPT !.pc = pc, !.got = got] \in Requests
           /\ \A ahead \in Seq(Items) :
                 [q EXCEPT !.pc = pc, !.ahead = ahead, !.ver = None, !.got = None] \in Requests
           /\ \A ver \in Versions \cup {None}, lacked \in BOOLEAN :
                 [q EXCEPT !.pc = pc, !.ver = ver, !.lacked = lacked] \in Requests
<1>1. [q EXCEPT !.pc = pc] \in Requests
  BY DEF Requests
<1>2. ASSUME NEW got \in Lists \cup Structures
      PROVE  [q EXCEPT !.pc = pc, !.got = got] \in Requests
  BY DEF Requests
<1>3. ASSUME NEW ahead \in Seq(Items)
      PROVE  [q EXCEPT !.pc = pc, !.ahead = ahead, !.ver = None, !.got = None] \in Requests
  BY DEF Requests, Items
<1>4. ASSUME NEW ver \in Versions \cup {None}, NEW lacked \in BOOLEAN
      PROVE  [q EXCEPT !.pc = pc, !.ver = ver, !.lacked = lacked] \in Requests
  BY DEF Requests
<1> QED BY <1>1, <1>2, <1>3, <1>4

\* A request that has ended, with what it said not to be found.
LEMMA EndedTrue ==
    ASSUME ReadsInv, NEW how \in {"ok", "not_found", "raised"}, NEW lacked \in BOOLEAN,
           how = "not_found" => lacked
    PROVE  /\ Ended(how, lacked) \in Requests /\ RequestTrue(Ended(how, lacked))
           /\ Ended(how, lacked).pc = "idle" /\ Ended(how, lacked).ver = None
<1>1. MaxEdits \in Nat /\ MaxChanges \in Nat /\ announced \in Nat /\ Len(edits) \in Nat /\ Len(edits) >= 1
  BY SchemaReadsAssumption DEF ReadsInv, TypeOK, Clocks
<1>2. Ended(how, lacked) \in Requests
  <2>1. <<>> \in Seq(Tables \cup {"tables"}) /\ 1 \in 1 .. MaxEdits + 1 /\ 0 \in Clocks
    BY <1>1 DEF Clocks
  <2>2. NoRequest \in Requests
    BY <2>1 DEF NoRequest, Requests
  <2> QED BY <2>2 DEF Ended, Requests
<1>3. RequestTrue(Ended(how, lacked))
  BY <1>1 DEF Ended, NoRequest, RequestTrue, Reading
<1> QED BY <1>2, <1>3 DEF Ended, NoRequest

LEMMA VersionKeeps ==
    ASSUME ReadsInv, NEW r \in Readers, Version(r)
    PROVE  ReadsInv'
<1>1. PICK asked \in BOOLEAN :
          req' = [req EXCEPT ![r].pc = IF asked THEN "get" ELSE "load",
                             ![r].ver = IF asked THEN version ELSE None,
                             ![r].lacked = Lacks(has[Adapter(r)], Item(r))]
  BY DEF Version
<1> DEFINE new == [req[r] EXCEPT !.pc = IF asked THEN "get" ELSE "load",
                                 !.ver = IF asked THEN version ELSE None,
                                 !.lacked = Lacks(has[Adapter(r)], Item(r))]
<1>2. req' = [req EXCEPT ![r] = new] /\ req[r].pc = "version"
  BY <1>1, RequestOf DEF Version
<1>3. new \in Requests
  <2>1. Lacks(has[Adapter(r)], Item(r)) \in BOOLEAN
    BY DEF Lacks
  <2>2. /\ (IF asked THEN version ELSE None) \in Versions \cup {None}
        /\ (IF asked THEN "get" ELSE "load") \in Reading
    BY RequestOf DEF Reading
  <2> QED BY <2>1, <2>2, RequestOf, StepsOfARequest
<1>4. /\ new.rec = req[r].rec /\ new.floor = req[r].floor /\ new.ahead = req[r].ahead /\ new.op = req[r].op
      /\ new.answer = req[r].answer /\ new.missing = req[r].missing /\ new.got = req[r].got
      /\ new.pc = (IF asked THEN "get" ELSE "load") /\ new.ver = (IF asked THEN version ELSE None)
      /\ new.lacked <=> Lacks(has[Adapter(r)], Item(r))
  BY RequestOf DEF Requests
<1>5. RequestTrue(new)
  BY <1>2, <1>4, RequestOf, SchemaReadsAssumption DEF RequestTrue, Adapter, Item, Versions
<1>6. /\ UNCHANGED Around /\ described' = described /\ requests' = requests /\ entry' = entry
  BY DEF Version, unread, redis, target, console, Around
<1> HIDE DEF new
<1> QED BY <1>2, <1>3, <1>4, <1>5, <1>6, OneRequest, RequestOf

LEMMA HitKeeps ==
    ASSUME ReadsInv, NEW r \in Readers, Hit(r)
    PROVE  ReadsInv'
<1> DEFINE k == FullKey(r)
           new == [req[r] EXCEPT !.pc = "use", !.got = entry[k]]
<1>1. /\ req[r].pc = "get" /\ k \in DOMAIN entry /\ req[r].ver # None /\ req[r].ahead # <<>>
      /\ req[r].ver \in Versions /\ req[r].answer = "none"
  BY RequestOf DEF Hit, RequestTrue, Requests
<1>2. req' = [req EXCEPT ![r] = new]
  BY RequestOf DEF Hit
<1>3. k[1] = req[r].ver /\ k[2] = req[r].rec /\ (k[3] = "tables" <=> Item(r) = "tables")
  BY <1>1, RequestOf, KeyParts
<1>4. /\ entry[k] \in Lists \cup Structures
      /\ ToldTrue(entry[k], k[3], edits[k[2]]) /\ entry[k].at >= req[r].floor
  BY <1>1, <1>3 DEF ReadsInv, TypeOK, EntriesTrue, HitsOwed
<1>5. ToldTrue(entry[k], Item(r), Adapter(r))
  BY <1>3, <1>4 DEF ToldTrue, Adapter
<1>6. new \in Requests
  <2> HIDE DEF k
  <2> QED BY <1>4, RequestOf, StepsOfARequest
<1>7. /\ new.rec = req[r].rec /\ new.floor = req[r].floor /\ new.ahead = req[r].ahead /\ new.op = req[r].op
      /\ new.answer = req[r].answer /\ new.missing = req[r].missing /\ new.got = entry[k]
      /\ new.pc = "use" /\ new.ver = req[r].ver /\ new.lacked = req[r].lacked
  BY RequestOf DEF Requests
<1>8. RequestTrue(new)
  <2> HIDE DEF new, k
  <2> QED BY <1>1, <1>4, <1>5, <1>7, RequestOf DEF RequestTrue, Adapter, Item, Reading
<1>9. /\ UNCHANGED Around /\ described' = described /\ requests' = requests /\ entry' = entry
  BY DEF Hit, unread, redis, target, console, Around
<1> HIDE DEF new
<1> QED BY <1>2, <1>6, <1>7, <1>8, <1>9, OneRequest, RequestOf

LEMMA MissKeeps ==
    ASSUME ReadsInv, NEW r \in Readers, Miss(r)
    PROVE  ReadsInv'
<1> DEFINE new == [req[r] EXCEPT !.pc = "load"]
<1>1. req' = [req EXCEPT ![r] = new] /\ req[r].pc = "get"
  BY RequestOf DEF Miss
<1>2. new \in Requests
  BY RequestOf, StepsOfARequest DEF Reading
<1>3. /\ new.rec = req[r].rec /\ new.floor = req[r].floor /\ new.ahead = req[r].ahead /\ new.op = req[r].op
      /\ new.answer = req[r].answer /\ new.missing = req[r].missing /\ new.got = req[r].got
      /\ new.pc = "load" /\ new.ver = req[r].ver /\ new.lacked = req[r].lacked
  BY RequestOf DEF Requests
<1>4. RequestTrue(new)
  <2> HIDE DEF new
  <2> QED BY <1>1, <1>3, RequestOf DEF RequestTrue, Reading
<1>5. \A k \in DOMAIN entry' : k \in DOMAIN entry /\ entry'[k] = entry[k]
  BY DEF Miss, Restrict
<1>6. /\ UNCHANGED Around /\ described' = described /\ requests' = requests
  BY DEF Miss, unread, redis, target, console, Around
<1> HIDE DEF new
<1> QED BY <1>1, <1>2, <1>3, <1>4, <1>5, <1>6, OneRequest, RequestOf

LEMMA LoadTablesKeeps ==
    ASSUME ReadsInv, NEW r \in Readers, LoadTables(r)
    PROVE  ReadsInv'
<1> DEFINE list == [db |-> Adapter(r), at |-> clock, names |-> There(Adapter(r))]
           new == [req[r] EXCEPT !.pc = Loaded(r), !.got = list]
<1>1. req' = [req EXCEPT ![r] = new] /\ req[r].pc = "load" /\ Item(r) = "tables"
  BY RequestOf DEF LoadTables
<1>2. list \in Lists /\ ToldTrue(list, "tables", Adapter(r))
  BY RequestOf DEF Lists, There, ToldTrue
<1>3. new \in Requests
  <2>1. Loaded(r) \in {"use", "store"}
    BY DEF Loaded
  <2> HIDE DEF list
  <2> QED BY <1>2, <2>1, RequestOf, StepsOfARequest
<1>4. /\ new.rec = req[r].rec /\ new.floor = req[r].floor /\ new.ahead = req[r].ahead /\ new.op = req[r].op
      /\ new.answer = req[r].answer /\ new.missing = req[r].missing /\ new.got = list /\ new.got.at = clock
      /\ new.pc = (IF req[r].ver = None THEN "use" ELSE "store")
      /\ new.ver = req[r].ver /\ new.lacked = req[r].lacked
  BY RequestOf DEF Requests, Loaded
<1>5. RequestTrue(new)
  <2> HIDE DEF new, list
  <2> QED BY <1>1, <1>2, <1>4, RequestOf DEF RequestTrue, Adapter, Item, Reading, Clocks
<1>6. /\ UNCHANGED Around /\ described' = described /\ requests' = requests /\ entry' = entry
  BY DEF LoadTables, unread, redis, target, console, Around
<1> HIDE DEF new
<1> QED BY <1>1, <1>3, <1>4, <1>5, <1>6, OneRequest, RequestOf

\* A request that ends without an answer, or with the last of its reads.
LEMMA EndKeeps ==
    ASSUME ReadsInv, NEW r \in Readers, NEW how \in {"ok", "not_found", "raised"}, NEW lacked \in BOOLEAN,
           how = "not_found" => lacked,
           req' = [req EXCEPT ![r] = Ended(how, lacked)],
           UNCHANGED <<Around, entry, requests>>, described' \subseteq real
    PROVE  ReadsInv'
<1> DEFINE new == Ended(how, lacked)
<1>1. new \in Requests /\ RequestTrue(new) /\ new.pc = "idle" /\ new.ver = None
  BY EndedTrue
<1> HIDE DEF new
<1>2. req' = [req EXCEPT ![r] = new]
  BY DEF new
<1>3. requests' \in 0 .. MaxRequests
  BY RequestOf
<1> QED BY <1>1, <1>2, <1>3, OneRequest

LEMMA LookUpKeeps ==
    ASSUME ReadsInv, NEW r \in Readers, LookUp(r)
    PROVE  ReadsInv'
<1>0. clock \in Nat /\ clock \in Clocks /\ Adapter(r) \in Databases
  BY RequestOf
<1>1. /\ req[r].pc = "load" /\ Item(r) # "tables"
      /\ UNCHANGED <<Around, entry, requests, described>>
  BY DEF LookUp, unread, redis, target, console, Around
<1>2. CASE Cardinality(Known(r)) = 1
  <2>1. PICK t \in Known(r) : req' = [req EXCEPT ![r].pc = "reflect",
               ![r].got = [db |-> Adapter(r), at |-> clock, name |-> t]]
    BY <1>2 DEF LookUp
  <2> DEFINE got == [db |-> Adapter(r), at |-> clock, name |-> t]
             new == [req[r] EXCEPT !.pc = "reflect", !.got = got]
  <2>2. req' = [req EXCEPT ![r] = new]
    BY <2>1, RequestOf
  <2>3. t \in Tables /\ t \in There(Adapter(r))
    BY <2>1 DEF Known, Matches, There
  <2>4. t \in real
    <3>1. req[r].rec \in DOMAIN edits
      BY RequestOf DEF ReadsInv, TypeOK
    <3> QED BY <2>3, <3>1 DEF ReadsInv, TablesReal, Adapter
  <2>5. got \in Structures /\ ToldTrue(got, Item(r), Adapter(r))
    <3>1. got.db = Adapter(r) /\ got.at = clock /\ got.name = t
      OBVIOUS
    <3>2. got \in Structures
      BY <1>0, <2>3, SMTT(30) DEF Structures
    <3> HIDE DEF got
    <3> QED BY <1>0, <1>1, <2>4, <3>1, <3>2 DEF ToldTrue
  <2>6. new \in Requests
    <3> HIDE DEF got
    <3> QED BY <2>5, RequestOf, StepsOfARequest DEF Reading
  <2>7. /\ new.rec = req[r].rec /\ new.floor = req[r].floor /\ new.ahead = req[r].ahead /\ new.op = req[r].op
        /\ new.answer = req[r].answer /\ new.missing = req[r].missing /\ new.got = got /\ new.got.at = clock
        /\ new.pc = "reflect" /\ new.ver = req[r].ver /\ new.lacked = req[r].lacked
    BY RequestOf DEF Requests
  <2>8. RequestTrue(new)
    <3> HIDE DEF new, got
    <3> QED BY <1>1, <2>5, <2>7, RequestOf DEF RequestTrue, Adapter, Item, Reading, Clocks
  <2> HIDE DEF new
  <2> QED BY <1>1, <2>2, <2>6, <2>7, <2>8, OneRequest, RequestOf
<1>3. CASE Cardinality(Known(r)) # 1
  <2>1. Lacks(has[Adapter(r)], Item(r))
    BY <1>1, <1>3 DEF Lacks, Known
  <2>2. req[r].lacked
    BY <1>1, <2>1, RequestOf DEF RequestTrue, Reading, Adapter, Item
  <2>3. req' = [req EXCEPT ![r] = Ended("not_found", req[r].lacked)]
    BY <1>3, RequestOf DEF LookUp
  <2>4. req[r].lacked \in BOOLEAN
    BY RequestOf DEF Requests
  <2>5. described' \subseteq real
    BY <1>1, RequestOf
  <2> QED BY <1>1, <2>2, <2>3, <2>4, <2>5, EndKeeps
<1> QED BY <1>2, <1>3

LEMMA ReflectKeeps ==
    ASSUME ReadsInv, NEW r \in Readers, Reflect(r)
    PROVE  ReadsInv'
<1> DEFINE made == has[Adapter(r)][req[r].got.name]
           got == [req[r].got EXCEPT !.at = clock]
           new == [req[r] EXCEPT !.pc = Loaded(r), !.got = got]
<1>1. /\ req[r].pc = "reflect"
      /\ UNCHANGED <<Around, entry, requests, described>>
  BY DEF Reflect, unread, redis, target, console, Around
<1>2. CASE made = None
  <2>1. req' = [req EXCEPT ![r] = Ended("raised", FALSE)]
    BY <1>2 DEF Reflect
  <2>2. described' \subseteq real
    BY <1>1, RequestOf
  <2> QED BY <1>1, <2>1, <2>2, EndKeeps
<1>3. CASE made # None
  <2>1. Item(r) # "tables" /\ ToldTrue(req[r].got, Item(r), Adapter(r))
    BY <1>1, RequestOf DEF RequestTrue, Item, Adapter
  <2>2. req' = [req EXCEPT ![r] = new]
    BY <1>3, RequestOf DEF Reflect
  <2>3. req[r].got \in Structures /\ req[r].got.name \in Tables /\ req[r].got.name \in real /\ req[r].got.db = Adapter(r)
    BY <2>1 DEF ToldTrue, Structures
  <2>5. got \in Structures /\ got.db = Adapter(r) /\ got.at = clock /\ got.name = req[r].got.name
    BY <2>3, RequestOf DEF Structures
  <2>6. ToldTrue(got, Item(r), Adapter(r))
    BY <2>1, <2>3, <2>5, RequestOf DEF ToldTrue
  <2>7. new \in Requests
    <3>1. Loaded(r) \in {"use", "store"}
      BY DEF Loaded
    <3> HIDE DEF got
    <3> QED BY <2>5, <3>1, RequestOf, StepsOfARequest
  <2>8. /\ new.rec = req[r].rec /\ new.floor = req[r].floor /\ new.ahead = req[r].ahead /\ new.op = req[r].op
        /\ new.answer = req[r].answer /\ new.missing = req[r].missing /\ new.got = got
        /\ new.pc = (IF req[r].ver = None THEN "use" ELSE "store")
        /\ new.ver = req[r].ver /\ new.lacked = req[r].lacked
    BY RequestOf DEF Requests, Loaded
  <2>9. RequestTrue(new)
    <3> HIDE DEF new, got
    <3> QED BY <1>1, <2>1, <2>5, <2>6, <2>8, RequestOf DEF RequestTrue, Adapter, Item, Reading, Clocks
  <2> HIDE DEF new, got
  <2> QED BY <1>1, <2>2, <2>5, <2>7, <2>8, <2>9, OneRequest, RequestOf
<1> QED BY <1>2, <1>3

LEMMA FailsKeeps ==
    ASSUME ReadsInv, NEW r \in Readers, Fails(r)
    PROVE  ReadsInv'
<1>1. /\ UNCHANGED <<Around, entry, requests, described>>
      /\ req' = [req EXCEPT ![r] = Ended("raised", FALSE)]
  BY DEF Fails, unread, redis, target, console, Around
<1>2. described' \subseteq real
  BY <1>1, RequestOf
<1> QED BY <1>1, <1>2, EndKeeps

LEMMA StoreKeeps ==
    ASSUME ReadsInv, NEW r \in Readers, Store(r)
    PROVE  ReadsInv'
<1> DEFINE new == [req[r] EXCEPT !.pc = "use"]
<1>1. req' = [req EXCEPT ![r] = new] /\ req[r].pc = "store"
  BY RequestOf DEF Store
<1>2. new \in Requests
  BY RequestOf, StepsOfARequest
<1>3. /\ new.rec = req[r].rec /\ new.floor = req[r].floor /\ new.ahead = req[r].ahead /\ new.op = req[r].op
      /\ new.answer = req[r].answer /\ new.missing = req[r].missing /\ new.got = req[r].got
      /\ new.pc = "use" /\ new.ver = req[r].ver /\ new.lacked = req[r].lacked
  BY RequestOf DEF Requests
<1>4. RequestTrue(new)
  <2> HIDE DEF new
  <2> QED BY <1>1, <1>3, RequestOf DEF RequestTrue, Reading
<1>5. \A k \in DOMAIN entry' :
         \/ k \in DOMAIN entry /\ entry'[k] = entry[k]
         \/ k = FullKey(r) /\ req[r].pc = "store" /\ entry'[k] = req[r].got
  BY <1>1 DEF Store
<1>6. /\ UNCHANGED Around /\ described' = described /\ requests' = requests
  BY DEF Store, unread, redis, target, console, Around
<1> HIDE DEF new
<1> QED BY <1>1, <1>2, <1>3, <1>4, <1>5, <1>6, OneRequest, RequestOf

LEMMA UseKeeps ==
    ASSUME ReadsInv, NEW r \in Readers, Use(r)
    PROVE  ReadsInv'
<1> DEFINE new == [req[r] EXCEPT !.pc = "version", !.ahead = Rest(r), !.ver = None, !.got = None]
<1>1. /\ req[r].pc = "use" /\ req[r].op \notin {"set_description", "tables_page"}
      /\ UNCHANGED <<Around, entry, requests, described>>
  BY DEF Use, unread, redis, target, console, Around
<1>2. CASE Rest(r) = <<>>
  <2>1. req' = [req EXCEPT ![r] = Ended("ok", FALSE)]
    BY <1>2 DEF Use
  <2>2. described' \subseteq real
    BY <1>1, RequestOf
  <2> QED BY <1>1, <2>1, <2>2, EndKeeps
<1>3. CASE Rest(r) # <<>>
  <2>1. req' = [req EXCEPT ![r] = new]
    BY <1>3, RequestOf DEF Use
  <2>2. Rest(r) \in Seq(Items)
    <3>1. CASE req[r].op = "get_relationships" /\ Item(r) = "tables"
      <4>1. req[r].got.names \subseteq Tables
        BY <1>1, <3>1, RequestOf, ListParts DEF RequestTrue, ToldTrue, Item
      <4>2. SetToSeq(req[r].got.names) \in Seq(req[r].got.names)
        BY <4>1, ListsAreFinite
      <4> QED BY <3>1, <4>1, <4>2 DEF Rest, Items
    <3>2. CASE ~(req[r].op = "get_relationships" /\ Item(r) = "tables")
      <4>1. req[r].ahead \in Seq(Items) /\ req[r].ahead # <<>>
        BY <1>1, RequestOf, RequestParts DEF RequestTrue
      <4> QED BY <3>2, <4>1 DEF Rest
    <3> QED BY <3>1, <3>2
  <2>3. new \in Requests
    BY <2>2, RequestOf, StepsOfARequest
  <2>4. /\ new.rec = req[r].rec /\ new.floor = req[r].floor /\ new.ahead = Rest(r) /\ new.op = req[r].op
        /\ new.answer = req[r].answer /\ new.missing = req[r].missing
        /\ new.pc = "version" /\ new.ver = None /\ new.lacked = req[r].lacked
    BY RequestOf DEF Requests
  <2>5. RequestTrue(new)
    <3> HIDE DEF new
    <3> QED BY <1>1, <1>3, <2>4, RequestOf DEF RequestTrue, Reading
  <2> HIDE DEF new
  <2> QED BY <1>1, <2>1, <2>3, <2>4, <2>5, OneRequest, RequestOf
<1> QED BY <1>2, <1>3

LEMMA SetDescriptionKeeps ==
    ASSUME ReadsInv, NEW r \in Readers, SetDescription(r)
    PROVE  ReadsInv'
<1>1. /\ req[r].pc = "use" /\ req[r].op = "set_description"
      /\ req' = [req EXCEPT ![r] = Ended("ok", FALSE)]
      /\ UNCHANGED <<Around, entry, requests>>
      /\ described' = described \cup {req[r].got.name}
  BY DEF SetDescription, Written, redis, target, console, Around
<1>2. req[r].got.name \in real
  BY <1>1, RequestOf DEF RequestTrue, ToldTrue
<1>3. described' \subseteq real
  BY <1>1, <1>2, RequestOf
<1> QED BY <1>1, <1>3, EndKeeps

LEMMA ShowTablesKeeps ==
    ASSUME ReadsInv, NEW r \in Readers, ShowTables(r)
    PROVE  ReadsInv'
<1> DEFINE missing == {t \in req[r].curated : \A u \in req[r].got.names : casefold[u] # casefold[t]}
           new == [Ended("ok", FALSE) EXCEPT !.rec = req[r].rec, !.floor = req[r].floor, !.missing = missing]
<1>1. /\ req[r].pc = "use" /\ req[r].op = "tables_page"
      /\ req' = [req EXCEPT ![r] = new]
  BY DEF ShowTables
<1>2. Ended("ok", FALSE) \in Requests
  BY EndedTrue
<1>3. missing \subseteq Tables
  BY RequestOf DEF Requests
<1>4. new \in Requests
  <2> HIDE DEF missing
  <2> QED BY <1>2, <1>3, RequestOf DEF Requests
<1>5. /\ new.rec = req[r].rec /\ new.floor = req[r].floor /\ new.missing = missing
      /\ new.pc = "idle" /\ new.ver = None /\ new.answer = "ok" /\ new.lacked = FALSE
  <2> HIDE DEF missing
  <2> QED BY <1>2 DEF Requests, Ended, NoRequest
<1>6. ToldTrue(req[r].got, "tables", Adapter(r)) /\ req[r].got.at >= req[r].floor
  BY <1>1, RequestOf DEF RequestTrue, Adapter
<1>7. ASSUME NEW t \in missing
      PROVE  has[Adapter(r)][t] = None \/ has[Adapter(r)][t] > req[r].floor
  <2>1. t \in Tables /\ t \notin req[r].got.names
    BY <1>3
  <2>2. ~(has[Adapter(r)][t] # None /\ has[Adapter(r)][t] <= req[r].got.at)
    BY <1>6, <2>1 DEF ToldTrue
  <2>3. req[r].got.at \in Nat /\ req[r].floor \in Nat
    BY <1>6, ListParts, RequestOf, RequestParts DEF ToldTrue
  <2>4. has[Adapter(r)][t] \in Nat \cup {None}
    BY <2>1, RequestOf DEF Clocks
  <2> QED BY <1>6, <2>2, <2>3, <2>4
<1>8. RequestTrue(new)
  <2> HIDE DEF new, missing
  <2> QED BY <1>5, <1>7, RequestOf DEF RequestTrue, Adapter, Reading
<1>9. /\ UNCHANGED Around /\ described' = described /\ requests' = requests /\ entry' = entry
  BY DEF ShowTables, unread, redis, target, console, Around
<1> HIDE DEF new, missing
<1> QED BY <1>1, <1>4, <1>5, <1>8, <1>9, OneRequest, RequestOf

LEMMA BeginKeeps ==
    ASSUME ReadsInv, NEW r \in Readers, Begin(r)
    PROVE  ReadsInv'
<1>1. PICK o \in IF r \in Pages THEN PageOps ELSE ToolOps, t \in Tables, v \in 1 .. Len(edits) :
          req' = [req EXCEPT ![r] = [NoRequest EXCEPT
                !.pc = "version", !.op = o, !.rec = v, !.floor = announced,
                !.ahead = FirstReads(o, t),
                !.curated = IF o = "tables_page" THEN described ELSE {}]]
  BY Zenon DEF Begin
<1> DEFINE ahead == FirstReads(o, t)
           curated == IF o = "tables_page" THEN described ELSE {}
           new == [NoRequest EXCEPT !.pc = "version", !.op = o, !.rec = v, !.floor = announced,
                                    !.ahead = ahead, !.curated = curated]
<1>2. req' = [req EXCEPT ![r] = new]
  BY <1>1
<1>3. /\ ahead \in Seq(Items) /\ ahead # <<>>
      /\ o = "tables_page" => Head(ahead) = "tables"
      /\ o = "set_description" => Head(ahead) # "tables"
  <2>1. t # "tables"
    BY SchemaReadsAssumption
  <2>2. CASE o \in {"list_tables", "tables_page"}
    BY <2>2 DEF Items, FirstReads
  <2>3. CASE o = "get_relationships"
    BY <2>3 DEF Items, FirstReads
  <2>4. CASE o \notin {"list_tables", "tables_page", "get_relationships"}
    <3>1. ahead = <<t>>
      BY <2>4 DEF FirstReads
    <3> HIDE DEF ahead
    <3> QED BY <2>1, <2>4, <3>1 DEF Items
  <2> QED BY <2>2, <2>3, <2>4
<1>4. curated \subseteq Tables /\ v \in 1 .. MaxEdits + 1 /\ announced \in Clocks
  BY RequestOf, SchemaReadsAssumption DEF ReadsInv, TypeOK
<1>5. new \in Requests
  <2>0. o \in ToolOps \cup PageOps
    OBVIOUS
  <2>1. NoRequest \in Requests
    <3>1. <<>> \in Seq(Tables \cup {"tables"}) /\ 1 \in 1 .. MaxEdits + 1 /\ 0 \in Clocks
      BY SchemaReadsAssumption DEF Clocks
    <3> QED BY <3>1 DEF NoRequest, Requests
  <2> HIDE DEF ahead, curated
  <2> QED BY <1>3, <1>4, <2>0, <2>1 DEF Requests, Items
<1>6. /\ new.rec = v /\ new.floor = announced /\ new.ahead = ahead /\ new.op = o
      /\ new.answer = "none" /\ new.missing = {} /\ new.pc = "version" /\ new.ver = None
  <2> HIDE DEF ahead, curated
  <2> QED BY DEF NoRequest
<1>7. RequestTrue(new)
  <2> HIDE DEF new, ahead
  <2> QED BY <1>3, <1>6, RequestOf DEF RequestTrue, Reading
<1>8. /\ UNCHANGED Around /\ described' = described /\ entry' = entry /\ requests' \in 0 .. MaxRequests
  BY RequestOf, SchemaReadsAssumption DEF Begin, redis, target, console, Around
<1> HIDE DEF new
<1> QED BY <1>2, <1>5, <1>6, <1>7, <1>8, OneRequest, RequestOf

LEMMA AnnounceKeeps ==
    ASSUME ReadsInv, Announce
    PROVE  ReadsInv'
<1>0. /\ TypeOK /\ TablesReal /\ Bumps /\ EntriesTrue /\ HitsOwed /\ DescriptionsWereReal
      /\ \A p \in Readers : RequestTrue(req[p]) /\ req[p] \in Requests
  BY RequestOf DEF ReadsInv
<1>1. /\ clock' = clock /\ has' = has /\ real' = real /\ edits' = edits /\ owed /\ owed' = FALSE
      /\ described' = described /\ req' = req /\ requests' = requests
      /\ clock \in Nat /\ announced \in Nat /\ version \in Nat /\ Len(edits) \in Nat
  BY <1>0, SchemaReadsAssumption DEF Announce, target, TypeOK, Clocks, Versions
<1>2. CASE version' = version /\ announced' = announced /\ entry' = entry
  <2>1. TypeOK'
    BY <1>0, <1>1, <1>2 DEF TypeOK
  <2>2. TablesReal' /\ Bumps' /\ DescriptionsWereReal' /\ HitsOwed'
    BY <1>0, <1>1, <1>2 DEF TablesReal, There, Bumps, HitsOwed, DescriptionsWereReal
  <2>3. EntriesTrue'
    BY <1>0, <1>1, <1>2 DEF EntriesTrue, ToldTrue
  <2>4. \A p \in Readers : RequestTrue(req[p])'
    BY <1>0, <1>1, <1>2 DEF RequestTrue, ToldTrue
  <2> QED BY <2>1, <2>2, <2>3, <2>4, <1>1 DEF ReadsInv
<1>3. CASE /\ version' = version + 1 /\ announced' = clock
           /\ entry' = Restrict(entry, {k \in DOMAIN entry : \E r \in Readers : req[r].ver = k[1]})
  <2>1. \A k \in DOMAIN entry' : k \in DOMAIN entry /\ entry'[k] = entry[k]
    BY <1>3 DEF Restrict
  <2>2. version + 1 < Len(edits) /\ version' \in Versions
    BY <1>0, <1>1, <1>3, SchemaReadsAssumption DEF Bumps, TypeOK, Versions
  <2>3. TypeOK'
    BY <1>0, <1>1, <1>3, <2>1, <2>2 DEF TypeOK
  <2>4. TablesReal' /\ Bumps' /\ DescriptionsWereReal'
    BY <1>0, <1>1, <1>3, <2>2 DEF TablesReal, There, Bumps, DescriptionsWereReal
  <2>5. EntriesTrue'
    <3> SUFFICES ASSUME NEW k \in DOMAIN entry'
                 PROVE  /\ k[1] <= version' /\ k[2] <= Len(edits')
                        /\ ToldTrue(entry[k], k[3], edits[k[2]])'
                        /\ k[1] = version' => entry'[k].at >= announced'
      BY DEF EntriesTrue
    <3>1. k \in DOMAIN entry /\ entry'[k] = entry[k]
      BY <2>1
    <3>2. k[1] \in Nat /\ k[1] <= version /\ k[2] <= Len(edits) /\ ToldTrue(entry[k], k[3], edits[k[2]])
      <4>1. k \in FullKeys
        BY <1>0, <3>1 DEF TypeOK
      <4>2. k[1] \in Nat
        BY <4>1, SchemaReadsAssumption DEF FullKeys, Versions
      <4> QED BY <1>0, <3>1, <4>2 DEF EntriesTrue
    <3>3. ToldTrue(entry[k], k[3], edits[k[2]])'
      BY <1>1, <3>1, <3>2 DEF ToldTrue
    <3>4. k[1] <= version' /\ k[1] # version'
      BY <1>1, <1>3, <3>2
    <3> QED BY <1>1, <3>2, <3>3, <3>4
  <2>6. \A p \in Readers : RequestTrue(req[p])'
    <3> SUFFICES ASSUME NEW p \in Readers PROVE RequestTrue(req[p])'
      OBVIOUS
    <3>1. /\ req[p].ver # None => req[p].ver \in Nat /\ req[p].ver <= version
          /\ req[p].floor \in Nat /\ req[p].floor <= clock
      BY <1>0, <1>1, RequestParts DEF RequestTrue, TablesReal
    <3>2. req[p].pc = "store" => req[p].ver # None
      BY <1>0 DEF RequestTrue
    <3>3. RequestTrue(req[p])
      BY <1>0
    <3> QED BY <1>1, <1>3, <3>1, <3>2, <3>3 DEF RequestTrue, ToldTrue
  <2>7. HitsOwed'
    BY <1>0, <1>1, <2>1 DEF HitsOwed
  <2> QED BY <2>3, <2>4, <2>5, <2>6, <2>7, <1>1 DEF ReadsInv
<1> QED BY <1>2, <1>3 DEF Announce, redis

LEMMA EditKeeps ==
    ASSUME ReadsInv, NEW d \in Databases, Edit(d)
    PROVE  ReadsInv'
<1>0. /\ TypeOK /\ TablesReal /\ Bumps /\ EntriesTrue /\ HitsOwed /\ DescriptionsWereReal
      /\ \A p \in Readers : RequestTrue(req[p]) /\ req[p] \in Requests
  BY RequestOf DEF ReadsInv
<1>1. /\ clock' = clock /\ has' = has /\ announced' = announced /\ version' = version /\ entry' = entry
      /\ described' = described /\ req' = req /\ requests' = requests
      /\ ~owed /\ owed' = TRUE /\ real' = real \cup There(d)
      /\ edits' = Append(edits, d) /\ Len(edits) <= MaxEdits
  BY DEF Edit, redis
<1>2. /\ clock \in Nat /\ announced \in Nat /\ version \in Nat
      /\ edits \in Seq(Databases) /\ Len(edits) \in Nat /\ Len(edits) >= 1
  BY <1>0, SchemaReadsAssumption DEF TypeOK, Clocks, Versions
<1>3. /\ edits' \in Seq(Databases) /\ Len(edits') = Len(edits) + 1 /\ edits'[Len(edits) + 1] = d
      /\ DOMAIN edits' = 1 .. Len(edits) + 1
      /\ \A v \in 1 .. Len(edits) : edits'[v] = edits[v]
  BY <1>1, <1>2
<1>4. There(d) \subseteq Tables
  BY DEF There
<1>5. TypeOK'
  BY <1>0, <1>1, <1>2, <1>3, <1>4, SchemaReadsAssumption DEF TypeOK
<1>6. TablesReal' /\ Bumps' /\ DescriptionsWereReal'
  <2>1. \A v \in DOMAIN edits' : There(edits'[v]) \subseteq real'
    <3> SUFFICES ASSUME NEW v \in DOMAIN edits' PROVE There(edits'[v]) \subseteq real'
      OBVIOUS
    <3>1. CASE v \in 1 .. Len(edits)
      BY <1>0, <1>1, <1>2, <1>3, <3>1 DEF TablesReal
    <3>2. CASE v = Len(edits) + 1
      BY <1>1, <1>3, <3>2
    <3> QED BY <1>2, <1>3, <3>1, <3>2
  <2>2. TablesReal'
    BY <1>0, <1>1, <2>1 DEF TablesReal, There
  <2> QED BY <1>0, <1>1, <1>2, <1>3, <2>2 DEF Bumps, DescriptionsWereReal
<1>7. EntriesTrue'
  <2> SUFFICES ASSUME NEW k \in DOMAIN entry
               PROVE  /\ k[2] <= Len(edits') /\ ToldTrue(entry[k], k[3], edits[k[2]])'
    BY <1>0, <1>1 DEF EntriesTrue
  <2>1. k \in FullKeys /\ k[2] <= Len(edits) /\ ToldTrue(entry[k], k[3], edits[k[2]])
    BY <1>0 DEF TypeOK, EntriesTrue
  <2>2. k[2] \in 1 .. Len(edits)
    BY <1>2, <2>1, SchemaReadsAssumption DEF FullKeys
  <2>3. edits'[k[2]] = edits[k[2]] /\ k[2] <= Len(edits')
    BY <1>2, <1>3, <2>2
  <2> QED BY <1>1, <2>1, <2>3 DEF ToldTrue
<1>8. \A p \in Readers : RequestTrue(req[p])'
  <2> SUFFICES ASSUME NEW p \in Readers PROVE RequestTrue(req[p])'
    OBVIOUS
  <2>1. req[p].rec \in 1 .. Len(edits) /\ RequestTrue(req[p])
    BY <1>0, <1>2, RequestParts, RequestOf
  <2>2. edits'[req[p].rec] = edits[req[p].rec] /\ req[p].rec <= Len(edits')
    BY <1>2, <1>3, <2>1
  <2> QED BY <1>1, <2>1, <2>2 DEF RequestTrue, ToldTrue
<1>9. HitsOwed'
  BY <1>0, <1>1 DEF HitsOwed
<1> QED BY <1>1, <1>5, <1>6, <1>7, <1>8, <1>9 DEF ReadsInv

\* What was read of the tables, in the structure there is after a step.
StillTold(got, x, d) ==
    /\ got.db = d /\ got.at <= clock'
    /\ x = "tables" => /\ got \in Lists
                       /\ \A t \in Tables : has'[d][t] # None /\ has'[d][t] <= got.at => t \in got.names
    /\ x # "tables" => got \in Structures /\ got.name \in real'

LEMMA ChangeKeeps ==
    ASSUME ReadsInv, NEW d \in Databases, NEW t \in Tables, Change(d, t)
    PROVE  ReadsInv'
<1>0. /\ TypeOK /\ TablesReal /\ Bumps /\ EntriesTrue /\ HitsOwed /\ DescriptionsWereReal
      /\ \A p \in Readers : RequestTrue(req[p]) /\ req[p] \in Requests
  BY RequestOf DEF ReadsInv
<1>1. /\ edits' = edits /\ owed' = owed /\ announced' = announced /\ version' = version /\ entry' = entry
      /\ described' = described /\ requests' = requests
      /\ clock < MaxChanges /\ clock' = clock + 1
      /\ req' = [r \in Readers |-> [req[r] EXCEPT
             !.lacked = @ \/ (req[r].pc \in Reading /\ Adapter(r) = d /\ Lacks(has'[d], Item(r)))]]
  BY DEF Change, redis, console
<1>2. has' \in {has, [has EXCEPT ![d][t] = clock + 1], [has EXCEPT ![d][t] = None]}
  BY DEF Change
<1>3. /\ clock \in Nat /\ announced \in Nat /\ version \in Nat /\ Len(edits) \in Nat
      /\ has \in [Databases -> [Tables -> Clocks \cup {None}]]
      /\ clock' \in Clocks /\ real \subseteq Tables
  BY <1>0, <1>1, SchemaReadsAssumption DEF TypeOK, Clocks, Versions
<1>4. /\ has' \in [Databases -> [Tables -> Clocks \cup {None}]]
      /\ \A c \in Databases \ {d} : has'[c] = has[c]
      /\ \A c \in Databases, u \in Tables :
            \/ has'[c][u] = has[c][u]
            \/ c = d /\ u = t /\ has'[c][u] = clock + 1
            \/ c = d /\ u = t /\ has'[c][u] = None
  BY <1>1, <1>2, <1>3
<1>5. /\ real \subseteq real' /\ real' \subseteq Tables
      /\ (\E v \in DOMAIN edits : edits[v] = d) /\ has'[d][t] # None => t \in real'
  BY <1>3 DEF Change
<1>6. ASSUME NEW got \in Lists \cup Structures, NEW x, NEW c \in Databases, ToldTrue(got, x, c)
      PROVE  StillTold(got, x, c)
  <2>1. got.db = c /\ got.at <= clock' /\ got.at \in Nat /\ got.at <= clock
    BY <1>1, <1>3, <1>6, ListParts DEF ToldTrue
  <2>2. CASE x = "tables"
    <3>1. ASSUME NEW u \in Tables, has'[c][u] # None, has'[c][u] <= got.at PROVE u \in got.names
      BY <1>1, <1>3, <1>4, <1>6, <2>1, <2>2, <3>1 DEF ToldTrue
    <3> QED BY <1>6, <2>1, <2>2, <3>1 DEF ToldTrue, StillTold
  <2>3. CASE x # "tables"
    BY <1>5, <1>6, <2>1, <2>3 DEF ToldTrue, StillTold
  <2> QED BY <2>2, <2>3
<1>7. ASSUME NEW p \in Readers
      PROVE  /\ req'[p] \in Requests
             /\ req'[p].pc = req[p].pc /\ req'[p].op = req[p].op /\ req'[p].rec = req[p].rec
             /\ req'[p].ahead = req[p].ahead /\ req'[p].ver = req[p].ver /\ req'[p].got = req[p].got
             /\ req'[p].answer = req[p].answer /\ req'[p].missing = req[p].missing
             /\ req'[p].floor = req[p].floor
             /\ req[p].lacked => req'[p].lacked
             /\ req[p].pc \in Reading /\ Adapter(p) = d /\ Lacks(has'[d], Item(p)) => req'[p].lacked
  <2>1. req[p] \in Requests
    BY <1>0
  <2> DEFINE l == req[p].lacked \/ (req[p].pc \in Reading /\ Adapter(p) = d /\ Lacks(has'[d], Item(p)))
  <2>2. req'[p] = [req[p] EXCEPT !.lacked = l]
    BY <1>1
  <2>3. l \in BOOLEAN
    BY <2>1 DEF Requests
  <2>4. req'[p].lacked = l
    BY <2>1, <2>2 DEF Requests
  <2> HIDE DEF l
  <2>5. /\ req'[p] \in Requests
        /\ req'[p].pc = req[p].pc /\ req'[p].op = req[p].op /\ req'[p].rec = req[p].rec
        /\ req'[p].ahead = req[p].ahead /\ req'[p].ver = req[p].ver /\ req'[p].got = req[p].got
        /\ req'[p].answer = req[p].answer /\ req'[p].missing = req[p].missing
        /\ req'[p].floor = req[p].floor
    BY <2>1, <2>2, <2>3 DEF Requests
  <2> QED BY <2>4, <2>5 DEF l
<1>8. TypeOK'
  <2>1. req' \in [Readers -> Requests]
    BY <1>1, <1>7
  <2> QED BY <1>0, <1>1, <1>3, <1>4, <1>5, <2>1 DEF TypeOK
<1>9. TablesReal' /\ Bumps' /\ DescriptionsWereReal'
  <2>1. \A v \in DOMAIN edits : There(edits[v])' \subseteq real'
    <3> SUFFICES ASSUME NEW v \in DOMAIN edits, NEW u \in Tables, has'[edits[v]][u] # None
                 PROVE  u \in real'
      BY <1>1 DEF There
    <3>1. edits[v] \in Databases /\ There(edits[v]) \subseteq real
      BY <1>0 DEF TypeOK, TablesReal
    <3> QED BY <1>4, <1>5, <3>1 DEF There
  <2> QED BY <1>0, <1>1, <1>3, <1>5, <2>1 DEF TablesReal, Bumps, DescriptionsWereReal, There
<1>10. EntriesTrue'
  <2> SUFFICES ASSUME NEW k \in DOMAIN entry PROVE ToldTrue(entry[k], k[3], edits[k[2]])'
    BY <1>0, <1>1 DEF EntriesTrue
  <2>1. /\ k \in FullKeys /\ k[2] <= Len(edits) /\ entry[k] \in Lists \cup Structures
        /\ ToldTrue(entry[k], k[3], edits[k[2]])
    BY <1>0 DEF TypeOK, EntriesTrue
  <2>2. edits[k[2]] \in Databases
    <3>1. k[2] \in 1 .. Len(edits) /\ edits \in Seq(Databases)
      BY <1>0, <1>3, <2>1, SchemaReadsAssumption DEF FullKeys, TypeOK
    <3>2. Len(edits) \in Nat
      BY <3>1
    <3> QED BY <3>1, <3>2
  <2>3. StillTold(entry[k], k[3], edits[k[2]])
    BY <1>6, <2>1, <2>2, SMTT(30)
  <2> QED BY <1>1, <2>3 DEF StillTold, ToldTrue
<1>11. \A p \in Readers : RequestTrue(req[p])'
  <2> SUFFICES ASSUME NEW p \in Readers PROVE RequestTrue(req[p])'
    OBVIOUS
  <2>1. RequestTrue(req[p]) /\ Adapter(p) \in Databases
    BY <1>0, RequestOf
  <2> DEFINE q == req[p]
             c == edits[q.rec]
             x == Head(q.ahead)
  <2>2. q.pc \in {"reflect", "store", "use"} => StillTold(q.got, x, c)
    <3> SUFFICES ASSUME q.pc \in {"reflect", "store", "use"} PROVE StillTold(q.got, x, c)
      OBVIOUS
    <3>1. ToldTrue(q.got, x, c) /\ q.got \in Lists \cup Structures /\ c \in Databases
      BY <2>1 DEF RequestTrue, ToldTrue, Adapter
    <3> HIDE DEF q, c, x
    <3> QED BY <1>6, <3>1
  <2>3. q.pc \in Reading /\ Lacks(has'[c], x) => req'[p].lacked
    <3>1. CASE c = d
      BY <1>7, <3>1 DEF Adapter, Item
    <3>2. CASE c # d
      BY <1>4, <1>7, <2>1, <3>2 DEF RequestTrue, Adapter, Item
    <3> QED BY <3>1, <3>2
  <2>4. \A u \in q.missing : has'[c][u] = None \/ has'[c][u] > q.floor
    <3> SUFFICES ASSUME NEW u \in q.missing PROVE has'[c][u] = None \/ has'[c][u] > q.floor
      OBVIOUS
    <3>1. u \in Tables /\ q.floor \in Nat /\ q.floor <= clock
      BY <1>0, <1>3, <2>1, RequestParts DEF RequestTrue, TablesReal
    <3>2. has[c][u] = None \/ has[c][u] > q.floor
      BY <2>1 DEF RequestTrue
    <3> QED BY <1>3, <1>4, <2>1, <3>1, <3>2 DEF Adapter
  <2> QED BY <1>1, <1>7, <2>1, <2>2, <2>3, <2>4 DEF RequestTrue, ToldTrue, StillTold
<1>12. HitsOwed'
  <2> SUFFICES ASSUME NEW p \in Readers, req'[p].ver # None
               PROVE  /\ \A k \in DOMAIN entry' : k[1] = req'[p].ver => entry'[k].at >= req'[p].floor
                      /\ \A q \in Readers : req'[q].pc = "store" /\ req'[q].ver = req'[p].ver
                                               => req'[q].got.at >= req'[p].floor
    BY DEF HitsOwed
  <2>1. /\ req[p].ver # None /\ req'[p].ver = req[p].ver /\ req'[p].floor = req[p].floor
        /\ entry' = entry
    BY <1>1, <1>7
  <2>2. ASSUME NEW q \in Readers, req'[q].pc = "store", req'[q].ver = req[p].ver
        PROVE  req'[q].got.at >= req[p].floor
    BY <1>0, <1>7, <2>1, <2>2 DEF HitsOwed
  <2>3. \A k \in DOMAIN entry : k[1] = req[p].ver => entry[k].at >= req[p].floor
    BY <1>0, <2>1 DEF HitsOwed
  <2> QED BY <2>1, <2>2, <2>3
<1> QED BY <1>8, <1>9, <1>10, <1>11, <1>12 DEF ReadsInv

LEMMA InitReads == Init => ReadsInv
<1> SUFFICES ASSUME Init PROVE ReadsInv
  OBVIOUS
<1>1. PICK there \in [Databases -> Initially] :
         has = [d \in Databases |-> [t \in Tables |-> IF t \in there[d] THEN 0 ELSE None]]
  BY DEF Init
<1>2. PICK d \in Databases : edits = <<d>> /\ real = There(d) \cup Described
  BY DEF Init
<1>3. /\ clock = 0 /\ announced = 0 /\ version = 0 /\ owed = FALSE /\ entry = <<>> /\ described = Described
      /\ requests = 0 /\ req = [r \in Readers |-> NoRequest]
      /\ 0 \in Clocks /\ 0 \in Versions /\ 0 \in 0 .. MaxRequests
      /\ MaxEdits \in Nat
  BY SchemaReadsAssumption DEF Init, Clocks, Versions
<1>4. edits \in Seq(Databases) /\ Len(edits) = 1 /\ edits[1] = d /\ DOMAIN edits = {1} /\ DOMAIN entry = {}
  BY <1>2, <1>3
<1>5. has \in [Databases -> [Tables -> Clocks \cup {None}]]
  BY <1>1, <1>3
<1>6. NoRequest \in Requests
  <2>1. <<>> \in Seq(Tables \cup {"tables"}) /\ 1 \in 1 .. MaxEdits + 1
    BY <1>3
  <2> QED BY <1>3, <2>1 DEF NoRequest, Requests
<1>7. TypeOK
  <2>1. real \subseteq Tables
    BY <1>2, SchemaReadsAssumption DEF There
  <2>2. edits \in Seq(Databases) /\ Len(edits) \in 1 .. MaxEdits + 1
    BY <1>3, <1>4
  <2>3. described \subseteq Tables
    BY <1>3, SchemaReadsAssumption
  <2> QED BY <1>3, <1>4, <1>5, <1>6, <2>1, <2>2, <2>3 DEF TypeOK
<1>8. TablesReal /\ Bumps /\ EntriesTrue /\ DescriptionsWereReal
  BY <1>2, <1>3, <1>4 DEF TablesReal, Bumps, EntriesTrue, DescriptionsWereReal
<1>9. RequestTrue(NoRequest)
  BY <1>3, <1>4 DEF NoRequest, RequestTrue, Reading
<1>10. (\A r \in Readers : RequestTrue(req[r])) /\ HitsOwed
  BY <1>3, <1>9 DEF HitsOwed, NoRequest
<1> QED BY <1>7, <1>8, <1>10 DEF ReadsInv

LEMMA NextReads == ReadsInv /\ [Next]_vars => ReadsInv'
<1> SUFFICES ASSUME ReadsInv, [Next]_vars PROVE ReadsInv'
  OBVIOUS
<1>1. ASSUME NEW d \in Databases, Edit(d) PROVE ReadsInv'
  BY <1>1, EditKeeps
<1>2. ASSUME NEW d \in Databases, NEW t \in Tables, Change(d, t) PROVE ReadsInv'
  BY <1>2, ChangeKeeps
<1>3. CASE Announce
  BY <1>3, AnnounceKeeps
<1>4. ASSUME NEW r \in Readers, Begin(r) \/ Proceed(r) PROVE ReadsInv'
  <2>1. CASE Begin(r) BY <2>1, BeginKeeps
  <2>2. CASE Version(r) BY <2>2, VersionKeeps
  <2>3. CASE Hit(r) BY <2>3, HitKeeps
  <2>4. CASE Miss(r) BY <2>4, MissKeeps
  <2>5. CASE LoadTables(r) BY <2>5, LoadTablesKeeps
  <2>6. CASE LookUp(r) BY <2>6, LookUpKeeps
  <2>7. CASE Reflect(r) BY <2>7, ReflectKeeps
  <2>8. CASE Fails(r) BY <2>8, FailsKeeps
  <2>9. CASE Store(r) BY <2>9, StoreKeeps
  <2>10. CASE Use(r) BY <2>10, UseKeeps
  <2>11. CASE SetDescription(r) BY <2>11, SetDescriptionKeeps
  <2>12. CASE ShowTables(r) BY <2>12, ShowTablesKeeps
  <2> QED
    BY <1>4, <2>1, <2>2, <2>3, <2>4, <2>5, <2>6, <2>7, <2>8, <2>9, <2>10, <2>11, <2>12 DEF Proceed
<1>5. CASE UNCHANGED vars
  BY <1>5 DEF vars, target, redis, console, ReadsInv, TypeOK, TablesReal, There, Bumps, EntriesTrue,
     ToldTrue, HitsOwed, RequestTrue, DescriptionsWereReal
<1> QED BY <1>1, <1>2, <1>3, <1>4, <1>5 DEF Next

\* The types of SchemaReads: what a request holds, and what the cache gives it, is what the
\* await it is in uses.
THEOREM ReadsTypeCorrect == Spec => []TypeOK
<1>1. ReadsInv => TypeOK
  BY DEF ReadsInv
<1> QED BY InitReads, NextReads, <1>1, PTL DEF Spec

\* What a request is told of the tables (cached_adapter.py) is of the database its record
\* points to, and was read after the last announcement before the request began.
THEOREM NothingStaleIsRead == Spec => []ReadsAreCurrent
<1>1. ReadsInv => ReadsAreCurrent
  <2> SUFFICES ASSUME ReadsInv, NEW r \in Readers, req[r].pc = "use"
               PROVE  req[r].got.db = Adapter(r) /\ req[r].got.at >= req[r].floor
    BY DEF ReadsAreCurrent
  <2> QED BY RequestOf DEF RequestTrue, ToldTrue, Adapter
<1> QED BY InitReads, NextReads, <1>1, PTL DEF Spec

\* A table is called not found (_lookup) only if, at some time while it was looked for, it was
\* not there or its name was ambiguous; and missing (list_tables of the console) only if there
\* was a time since the last announcement before the request when the database lacked it.
THEOREM NothingIsMissed == Spec => []AbsenceIsTrue
<1>1. ReadsInv => AbsenceIsTrue
  <2> SUFFICES ASSUME ReadsInv, NEW r \in Readers
               PROVE  /\ req[r].answer = "not_found" => req[r].lacked
                      /\ \A t \in req[r].missing :
                            has[Adapter(r)][t] = None \/ has[Adapter(r)][t] > req[r].floor
    BY DEF AbsenceIsTrue
  <2> QED BY RequestOf DEF RequestTrue, Adapter
<1> QED BY InitReads, NextReads, <1>1, PTL DEF Spec

\* set_description writes only of tables that there have been in a database of the connection.
THEOREM DescribedTablesAreReal == Spec => []DescriptionsWereReal
<1>1. ReadsInv => DescriptionsWereReal
  BY DEF ReadsInv
<1> QED BY InitReads, NextReads, <1>1, PTL DEF Spec

--------------------------------------------------------------------------------
(* The live adapters *)

USE RegistryAssumption DEF RegistryAssumption, Pools, Records

(* What closing an adapter keeps. *)
LEMMA ClosedPool ==
    ASSUME NEW p \in Pools
    PROVE  /\ [p EXCEPT !.open = FALSE] \in Pools
           /\ [p EXCEPT !.open = FALSE] # Null
           /\ [p EXCEPT !.open = FALSE].id = p.id
           /\ [p EXCEPT !.open = FALSE].updated_at = p.updated_at
           /\ [p EXCEPT !.open = FALSE].open = FALSE
<1>1. [p EXCEPT !.open = FALSE] \in Pools
  OBVIOUS
<1>2. [p EXCEPT !.open = FALSE] # Null
  BY <1>1
<1> QED  BY <1>1, <1>2

LEMMA RegistryInitInv == RegistryInit => RegistryInv
<1> SUFFICES ASSUME RegistryInit PROVE RegistryInv
  OBVIOUS
<1>1. RegistryTypeOK
  <2>1. record \in [Calls -> Records]
    <3>1. 0 \in Stamps
      BY DEF Stamps
    <3> QED  BY <3>1 DEF RegistryInit
  <2>2. updated \in [Connections -> Stamps]
    BY DEF RegistryInit, Stamps
  <2> QED  BY <2>1, <2>2 DEF RegistryInit, RegistryTypeOK, Places, Results
<1>2. LockInv /\ NoLeak /\ RegisteredIsOpen /\ HandedTheRecord
  BY DEF RegistryInit, LockInv, NoLeak, RegisteredIsOpen, HandedTheRecord
<1> QED  BY <1>1, <1>2 DEF RegistryInv

LEMMA RegistryStepInv == RegistryInv /\ [RegistryNext]_registry => RegistryInv'
<1> SUFFICES ASSUME RegistryInv, [RegistryNext]_registry PROVE RegistryInv'
  OBVIOUS
<1> USE DEF RegistryInv, RegistryTypeOK, LockInv, NoLeak, RegisteredIsOpen, HandedTheRecord,
        Registered, Records, Pools, Places, Results
<1>1. ASSUME NEW k \in Connections, EditRecord(k) PROVE RegistryInv'
  <2>1. updated' \in [Connections -> Stamps]
    BY <1>1 DEF EditRecord, Stamps
  <2> QED  BY <1>1, <2>1 DEF EditRecord
<1>2. ASSUME NEW c \in Calls, GetRecord(c) PROVE RegistryInv'
  BY <1>2 DEF GetRecord
<1>3. ASSUME NEW c \in Calls, Enter(c) PROVE RegistryInv'
  <2>r. Registered(c) \in Calls \cup {Null}
    BY DEF Registered
  <2>1. RegistryTypeOK'
    <3>1. using' \in [Calls -> Calls \cup {Null}]
      BY <1>3, <2>r DEF Enter, Current
    <3>2. at' \in [Calls -> Places] /\ _lock' \in Calls \cup {Null}
      BY <1>3 DEF Enter, GoTo
    <3> QED  BY <1>3, <3>1, <3>2 DEF Enter
  <2>2. LockInv'
    BY <1>3 DEF Enter, Current, GoTo
  <2>3. NoLeak'
    BY <1>3 DEF Enter, Current, GoTo
  <2>4. RegisteredIsOpen'
    BY <1>3 DEF Enter, Current, GoTo
  <2>5. HandedTheRecord'
    BY <1>3 DEF Enter, Current, GoTo
  <2> QED  BY <2>1, <2>2, <2>3, <2>4, <2>5
<1>4. ASSUME NEW c \in Calls, CloseOld(c) PROVE RegistryInv'
  <2> DEFINE r == Registered(c)
  <2>r. r \in Calls /\ pool[r] \in Pools
    BY <1>4 DEF CloseOld, Registered
  <2>p. pool' = [pool EXCEPT ![r] = [pool[r] EXCEPT !.open = FALSE]]
    BY <1>4 DEF CloseOld
  <2>q. /\ pool'[r] \in Pools /\ pool'[r] # Null
        /\ pool'[r].id = pool[r].id
        /\ pool'[r].updated_at = pool[r].updated_at
        /\ pool'[r].open = FALSE
        /\ \A d \in Calls \ {r} : pool'[d] = pool[d]
    BY <2>r, <2>p, ClosedPool
  <2>1. RegistryTypeOK'
    BY <1>4, <2>r, <2>p, ClosedPool DEF CloseOld, GoTo
  <2>2. LockInv'
    BY <1>4 DEF CloseOld, GoTo
  <2>3. NoLeak'
    BY <1>4 DEF CloseOld, GoTo
  <2>4. RegisteredIsOpen'
    BY <1>4 DEF CloseOld, GoTo
  <2>5. HandedTheRecord'
    <3>1. UNCHANGED <<using, record>> /\ \A d \in Calls : at'[d] = "using" => at[d] = "using"
      BY <1>4 DEF CloseOld, GoTo
    <3> QED  BY <3>1, <2>q
  <2> QED  BY <2>1, <2>2, <2>3, <2>4, <2>5
<1>5. ASSUME NEW c \in Calls, CloseFails(c) PROVE RegistryInv'
  BY <1>5 DEF CloseFails, End, GoTo
<1>6. ASSUME NEW c \in Calls, Open(c) PROVE RegistryInv'
  <2>1. RegistryTypeOK'
    BY <1>6 DEF Open, GoTo
  <2>2. LockInv'
    BY <1>6 DEF Open, GoTo
  <2>3. NoLeak'
    BY <1>6 DEF Open, GoTo
  <2> DEFINE p == [id |-> record[c].id, updated_at |-> record[c].updated_at, open |-> TRUE]
  <2>p. p \in Pools /\ p # Null /\ record[c].id \in Connections
    <3>1. record[c] \in Records
      OBVIOUS
    <3>2. record[c].id \in Connections /\ record[c].updated_at \in Stamps
      BY <3>1
    <3>3. p \in Pools
      BY <3>2
    <3> QED  BY <3>2, <3>3
  <2>e. pool' = [pool EXCEPT ![c] = p]
    BY <1>6 DEF Open
  <2>o. /\ record[c].id \in Connections
        /\ pool'[c] \in Pools /\ pool'[c] # Null
        /\ pool'[c].id = record[c].id
        /\ pool'[c].updated_at = record[c].updated_at
        /\ pool'[c].open
        /\ \A d \in Calls \ {c} : pool'[d] = pool[d]
    BY <2>p, <2>e
  <2>z. pool[c] = Null
    BY <1>6 DEF Open
  <2>4. RegisteredIsOpen'
    <3>1. /\ _adapters'[record[c].id] = c
          /\ \A k \in Connections \ {record[c].id} : _adapters'[k] = _adapters[k]
      BY <1>6, <2>o DEF Open
    <3>2. \A k \in Connections : _adapters[k] # c
      BY <2>z
    <3> QED  BY <2>o, <3>1, <3>2
  <2>5. HandedTheRecord'
    <3>1. /\ record' = record
          /\ using'[c] = c
          /\ \A d \in Calls \ {c} : using'[d] = using[d] /\ at'[d] = at[d]
      BY <1>6 DEF Open, GoTo
    <3>2. \A d \in Calls : at[d] = "using" => using[d] \in Calls /\ using[d] # c
      BY <2>z
    <3> QED  BY <2>o, <3>1, <3>2
  <2> QED  BY <2>1, <2>2, <2>3, <2>4, <2>5
<1>7. ASSUME NEW c \in Calls, OpenFails(c) PROVE RegistryInv'
  BY <1>7 DEF OpenFails, End, GoTo
<1>8. ASSUME NEW c \in Calls, UseAdapter(c) PROVE RegistryInv'
  BY <1>8 DEF UseAdapter, End, GoTo
<1>9. ASSUME NEW c \in Calls, Cancel(c) PROVE RegistryInv'
  BY <1>9 DEF Cancel, End, GoTo
<1>10. CASE Close
  <2>c. \A c \in Calls : pool[c] # Null =>
          /\ pool'[c] \in Pools /\ pool'[c] # Null
          /\ pool'[c].id = pool[c].id
          /\ pool'[c].updated_at = pool[c].updated_at
    BY <1>10, ClosedPool DEF Close
  <2>n. \A c \in Calls : pool[c] = Null => pool'[c] = Null
    BY <1>10 DEF Close
  <2>1. RegistryTypeOK'
    <3>1. pool' \in [Calls -> Pools \cup {Null}]
      BY <1>10, <2>c, <2>n DEF Close
    <3> QED  BY <1>10, <3>1 DEF Close
  <2>2. LockInv'
    BY <1>10 DEF Close
  <2>3. NoLeak'
    BY <1>10, <2>c, <2>n, ClosedPool DEF Close
  <2>4. RegisteredIsOpen'
    BY <1>10 DEF Close
  <2>5. HandedTheRecord'
    <3>1. UNCHANGED <<at, using, record>>
      BY <1>10 DEF Close
    <3> QED  BY <2>c, <3>1
  <2> QED  BY <2>1, <2>2, <2>3, <2>4, <2>5
<1>11. CASE UNCHANGED registry
  BY <1>11 DEF registry
<1> QED
  BY <1>1, <1>2, <1>3, <1>4, <1>5, <1>6, <1>7, <1>8, <1>9, <1>10, <1>11
  DEF RegistryNext, AdapterFor

(* The types, and with them that the lock is held by a call or by nobody. *)
THEOREM RegistryTypeCorrect == RegistrySpec => []RegistryTypeOK
<1>1. RegistryInv => RegistryTypeOK
  BY DEF RegistryInv
<1> QED  BY RegistryInitInv, RegistryStepInv, <1>1, PTL DEF RegistrySpec

(* No open pool is ever lost: whatever raises or is cancelled, an adapter that is
   open is the one registered for its connection. *)
THEOREM PoolsDoNotLeak == RegistrySpec => []NoLeak
<1>1. RegistryInv => NoLeak
  BY DEF RegistryInv
<1> QED  BY RegistryInitInv, RegistryStepInv, <1>1, PTL DEF RegistrySpec

(* A call is only ever handed an adapter opened from its own record. *)
THEOREM AdapterMatchesRecord == RegistrySpec => []HandedTheRecord
<1>1. RegistryInv => HandedTheRecord
  BY DEF RegistryInv
<1> QED  BY RegistryInitInv, RegistryStepInv, <1>1, PTL DEF RegistrySpec
--------------------------------------------------------------------------------
(* Why a pool was closed *)

\* Some call has come with another edit of connection k than the one of this stamp.
Superseded(k, stamp) ==
    \E d \in Calls : at[d] # "new" /\ record[d].id = k /\ record[d].updated_at # stamp

\* A closed pool was closed for a reason, and whoever is closing one has it.
ClosedForCause ==
    /\ \A c \in Calls : pool[c] # Null /\ ~pool[c].open =>
          shut \/ Superseded(pool[c].id, pool[c].updated_at)
    /\ \A c \in Calls : at[c] = "closing" =>
          pool[Registered(c)].updated_at # record[c].updated_at
    /\ \A c \in Calls : result[c] # "none" => at[c] = "over"

CauseInv == RegistryInv /\ ClosedForCause /\ InterruptedByEdit

\* What a call came with stays as it was.
LEMMA RecordsStay ==
    ASSUME RegistryInv, [RegistryNext]_registry
    PROVE  /\ \A d \in Calls : at[d] # "new" => at'[d] # "new" /\ record'[d] = record[d]
           /\ shut => shut'
<1> USE DEF RegistryInv, RegistryTypeOK, Places, End, GoTo
<1>1. ASSUME NEW c \in Calls, GetRecord(c) \/ Enter(c)
      PROVE  /\ \A d \in Calls : at[d] # "new" => at'[d] # "new" /\ record'[d] = record[d]
             /\ shut => shut'
  BY <1>1 DEF GetRecord, Enter
<1>2. ASSUME NEW c \in Calls, CloseOld(c) \/ CloseFails(c) \/ Open(c) \/ OpenFails(c)
      PROVE  /\ \A d \in Calls : at[d] # "new" => at'[d] # "new" /\ record'[d] = record[d]
             /\ shut => shut'
  BY <1>2 DEF CloseOld, CloseFails, Open, OpenFails
<1>3. ASSUME NEW c \in Calls, UseAdapter(c) \/ Cancel(c)
      PROVE  /\ \A d \in Calls : at[d] # "new" => at'[d] # "new" /\ record'[d] = record[d]
             /\ shut => shut'
  BY <1>3 DEF UseAdapter, Cancel
<1> QED  BY <1>1, <1>2, <1>3 DEF RegistryNext, AdapterFor, EditRecord, Close, registry

LEMMA SupersededStays ==
    ASSUME RegistryInv, [RegistryNext]_registry
    PROVE  \A k, stamp : Superseded(k, stamp) =>
               \E d \in Calls : at'[d] # "new" /\ record'[d].id = k /\ record'[d].updated_at # stamp
  BY RecordsStay DEF Superseded

\* A pool is closed only by a call that came with another edit, or at the shutdown.
LEMMA PoolsChange ==
    ASSUME CauseInv, [RegistryNext]_registry, NEW c \in Calls, pool'[c] # Null, ~pool'[c].open
    PROVE  shut' \/ Superseded(pool[c].id, pool[c].updated_at)'
<1> USE DEF CauseInv, RegistryInv
<1>1. CASE pool'[c] = pool[c]
  <2>1. shut \/ Superseded(pool[c].id, pool[c].updated_at)
    BY <1>1 DEF ClosedForCause
  <2>2. CASE shut
    BY <2>2, RecordsStay
  <2>3. CASE Superseded(pool[c].id, pool[c].updated_at)
    <3>1. PICK d \in Calls : /\ at'[d] # "new" /\ record'[d].id = pool[c].id
                             /\ record'[d].updated_at # pool[c].updated_at
      BY <2>3, SupersededStays
    <3> QED  BY <1>1, <3>1 DEF Superseded
  <2> QED  BY <2>1, <2>2, <2>3
<1>2. ASSUME NEW d \in Calls, CloseOld(d), pool'[c] # pool[c]
      PROVE  Superseded(pool[c].id, pool[c].updated_at)'
  <2> DEFINE r == Registered(d)
  <2>1. /\ r \in Calls /\ pool[r] \in Pools /\ pool[r].id = record[d].id
        /\ record[d].id \in Connections
    BY <1>2 DEF CloseOld, Registered, RegistryTypeOK, LockInv, RegisteredIsOpen
  <2>2. pool' = [pool EXCEPT ![r] = [pool[r] EXCEPT !.open = FALSE]]
    BY <1>2 DEF CloseOld
  <2>3. c = r
    BY <1>2, <2>1, <2>2 DEF RegistryTypeOK
  <2>4. pool'[c].id = record[d].id /\ pool'[c].updated_at = pool[r].updated_at
    BY <2>1, <2>2, <2>3, ClosedPool DEF RegistryTypeOK
  <2>5. pool'[c].updated_at # record[d].updated_at
    BY <1>2, <2>4 DEF CloseOld, ClosedForCause
  <2>6. at'[d] # "new" /\ record'[d] = record[d]
    BY <1>2, RecordsStay DEF CloseOld
  <2>7. /\ at'[d] # "new" /\ record'[d].id = pool'[c].id
        /\ record'[d].updated_at # pool'[c].updated_at
    BY <2>4, <2>5, <2>6
  <2> QED  BY <2>7 DEF Superseded
<1>3. ASSUME NEW d \in Calls, Open(d), pool'[c] # pool[c] PROVE FALSE
  <2> DEFINE p == [id |-> record[d].id, updated_at |-> record[d].updated_at, open |-> TRUE]
  <2>1. pool' = [pool EXCEPT ![d] = p]
    BY <1>3 DEF Open
  <2>2. pool'[c] = p
    BY <1>3, <2>1 DEF RegistryTypeOK
  <2> QED  BY <2>2
<1>4. CASE Close
  BY <1>4 DEF Close
<1>5. ASSUME NEW d \in Calls,
             \/ GetRecord(d) \/ Enter(d) \/ CloseFails(d) \/ OpenFails(d) \/ UseAdapter(d) \/ Cancel(d)
      PROVE  pool' = pool
  BY <1>5 DEF GetRecord, Enter, CloseFails, OpenFails, UseAdapter, Cancel
<1>6. (\E k \in Connections : EditRecord(k)) \/ UNCHANGED registry => pool' = pool
  BY DEF EditRecord, registry
<1> QED  BY <1>1, <1>2, <1>3, <1>4, <1>5, <1>6 DEF RegistryNext, AdapterFor

\* Whoever is closing a pool has the lock, so the reason stays.
LEMMA ReasonStays ==
    ASSUME CauseInv, [RegistryNext]_registry, NEW c \in Calls, at'[c] = "closing"
    PROVE  (pool[Registered(c)].updated_at # record[c].updated_at)'
<1> USE DEF CauseInv, RegistryInv, RegistryTypeOK, End, GoTo, Registered
<1>1. CASE Enter(c)
  <2>1. UNCHANGED <<_adapters, pool, record>>
    BY <1>1 DEF Enter
  <2>2. _adapters[record[c].id] # Null
        /\ pool[_adapters[record[c].id]].updated_at # record[c].updated_at
    BY <1>1 DEF Enter, Current
  <2> QED  BY <2>1, <2>2
<1>2. CASE at[c] = "closing" /\ UNCHANGED <<_adapters, pool>> /\ record'[c] = record[c]
  BY <1>2 DEF ClosedForCause
<1>3. ASSUME NEW d \in Calls, d # c, Enter(d) PROVE FALSE
  BY <1>3 DEF Enter, LockInv
<1>4. ASSUME NEW d \in Calls, CloseOld(d) \/ CloseFails(d) \/ Open(d) \/ OpenFails(d) PROVE FALSE
  <2>1. d # c
    BY <1>4 DEF CloseOld, CloseFails, Open, OpenFails
  <2>2. at[c] = "closing" /\ at[d] \in {"closing", "opening"}
    BY <1>4, <2>1 DEF CloseOld, CloseFails, Open, OpenFails
  <2> QED  BY <2>1, <2>2 DEF LockInv
<1>5. ASSUME NEW d \in Calls, GetRecord(d) \/ UseAdapter(d) \/ Cancel(d)
      PROVE  at[c] = "closing" /\ UNCHANGED <<_adapters, pool>> /\ record'[c] = record[c]
  BY <1>5 DEF GetRecord, UseAdapter, Cancel
<1>6. ~Close
  BY DEF Close, LockInv
<1>7. (\E k \in Connections : EditRecord(k)) \/ UNCHANGED registry =>
         at[c] = "closing" /\ UNCHANGED <<_adapters, pool>> /\ record'[c] = record[c]
  BY DEF EditRecord, registry
<1> QED  BY <1>1, <1>2, <1>3, <1>4, <1>5, <1>6, <1>7 DEF RegistryNext, AdapterFor

\* Only a call that is over has a result.
LEMMA ResultsAreLast ==
    ASSUME CauseInv, [RegistryNext]_registry
    PROVE  \A c \in Calls : /\ result'[c] # "none" => at'[c] = "over"
                            /\ at[c] = "over" => result'[c] = result[c]
<1> USE DEF CauseInv, RegistryInv, RegistryTypeOK, ClosedForCause, End, GoTo
<1>1. ASSUME NEW d \in Calls, GetRecord(d) \/ Enter(d) \/ CloseOld(d) \/ Open(d)
      PROVE  \A c \in Calls : /\ result'[c] # "none" => at'[c] = "over"
                              /\ at[c] = "over" => result'[c] = result[c]
  BY <1>1 DEF GetRecord, Enter, CloseOld, Open
<1>2. ASSUME NEW d \in Calls, CloseFails(d) \/ OpenFails(d) \/ UseAdapter(d) \/ Cancel(d)
      PROVE  \A c \in Calls : /\ result'[c] # "none" => at'[c] = "over"
                              /\ at[c] = "over" => result'[c] = result[c]
  BY <1>2 DEF CloseFails, OpenFails, UseAdapter, Cancel
<1> QED  BY <1>1, <1>2 DEF RegistryNext, AdapterFor, EditRecord, Close, registry

\* It is so, and stays so, that the record of a call was superseded.
LEMMA StillSo ==
    ASSUME CauseInv, [RegistryNext]_registry, NEW c \in Calls, record'[c] = record[c],
           shut \/ Superseded(record[c].id, record[c].updated_at)
    PROVE  shut' \/ Superseded(record[c].id, record[c].updated_at)'
<1>1. CASE shut
  BY <1>1, RecordsStay DEF CauseInv
<1>2. CASE Superseded(record[c].id, record[c].updated_at)
  <2>1. PICK d \in Calls : /\ at'[d] # "new" /\ record'[d].id = record[c].id
                           /\ record'[d].updated_at # record[c].updated_at
    BY <1>2, SupersededStays DEF CauseInv
  <2> QED  BY <2>1 DEF Superseded
<1> QED  BY <1>1, <1>2

\* A call finds its pool closed only for the reason that pool was closed for.
LEMMA Interrupted ==
    ASSUME CauseInv, [RegistryNext]_registry, NEW c \in Calls, result'[c] = "RuntimeError"
    PROVE  shut' \/ Superseded(record[c].id, record[c].updated_at)'
<1> USE DEF CauseInv, RegistryInv, RegistryTypeOK, End, GoTo
<1>1. CASE result[c] = "RuntimeError"
  <2>1. at[c] = "over"
    BY <1>1 DEF ClosedForCause
  <2>2. record'[c] = record[c]
    BY <2>1, RecordsStay
  <2>3. shut \/ Superseded(record[c].id, record[c].updated_at)
    BY <1>1 DEF InterruptedByEdit, Superseded
  <2> QED  BY <2>2, <2>3, StillSo
<1>2. CASE UseAdapter(c)
  <2>1. at[c] = "using" /\ record' = record
    BY <1>2 DEF UseAdapter
  <2>2. /\ using[c] \in Calls /\ pool[using[c]] # Null
        /\ pool[using[c]].id = record[c].id
        /\ pool[using[c]].updated_at = record[c].updated_at
    BY <2>1 DEF HandedTheRecord
  <2>3. CASE pool[using[c]].open
    BY <1>2, <2>3 DEF UseAdapter
  <2>4. CASE ~pool[using[c]].open
    <3>1. shut \/ Superseded(record[c].id, record[c].updated_at)
      BY <2>2, <2>4 DEF ClosedForCause
    <3> QED  BY <2>1, <3>1, StillSo
  <2> QED  BY <2>3, <2>4
<1>3. ASSUME NEW d \in Calls, GetRecord(d) \/ Enter(d) \/ CloseOld(d) \/ Open(d)
      PROVE  result' = result
  BY <1>3 DEF GetRecord, Enter, CloseOld, Open
<1>4. ASSUME NEW d \in Calls, CloseFails(d) \/ OpenFails(d) \/ Cancel(d) \/ (UseAdapter(d) /\ d # c)
      PROVE  result[c] = "RuntimeError"
  BY <1>4 DEF CloseFails, OpenFails, UseAdapter, Cancel
<1>5. (\E k \in Connections : EditRecord(k)) \/ Close \/ UNCHANGED registry => result' = result
  BY DEF EditRecord, Close, registry
<1> QED  BY <1>1, <1>2, <1>3, <1>4, <1>5 DEF RegistryNext, AdapterFor

(* No call loses the database under its hands for another connection's sake, for a failed
   call's, or for one that came with the same record: only an edit of its own connection, or
   the shutdown, closes the pool it uses. *)
THEOREM InterruptionsHaveACause == RegistrySpec => []InterruptedByEdit
<1>1. RegistryInit => CauseInv
  <2>1. RegistryInit => ClosedForCause /\ InterruptedByEdit
    BY DEF RegistryInit, ClosedForCause, InterruptedByEdit
  <2> QED  BY <2>1, RegistryInitInv DEF CauseInv
<1>2. CauseInv /\ [RegistryNext]_registry => CauseInv'
  <2> SUFFICES ASSUME CauseInv, [RegistryNext]_registry PROVE CauseInv'
    OBVIOUS
  <2>1. RegistryInv'
    BY RegistryStepInv DEF CauseInv
  <2>2. ClosedForCause'
    <3>1. ASSUME NEW c \in Calls, pool'[c] # Null, ~pool'[c].open
          PROVE  shut' \/ Superseded(pool[c].id, pool[c].updated_at)'
      BY <3>1, PoolsChange
    <3>2. ASSUME NEW c \in Calls, at'[c] = "closing"
          PROVE  (pool[Registered(c)].updated_at # record[c].updated_at)'
      BY <3>2, ReasonStays
    <3>3. \A c \in Calls : result'[c] # "none" => at'[c] = "over"
      BY ResultsAreLast
    <3> QED  BY <3>1, <3>2, <3>3 DEF ClosedForCause
  <2>3. InterruptedByEdit'
    <3>1. ASSUME NEW c \in Calls, result'[c] = "RuntimeError"
          PROVE  shut' \/ Superseded(record[c].id, record[c].updated_at)'
      BY <3>1, Interrupted
    <3> QED  BY <3>1 DEF InterruptedByEdit, Superseded
  <2> QED  BY <2>1, <2>2, <2>3 DEF CauseInv
<1>3. CauseInv => InterruptedByEdit
  BY DEF CauseInv
<1> QED  BY <1>1, <1>2, <1>3, PTL DEF RegistrySpec

================================================================================
