------------------------ MODULE TokenVerificationProofs ------------------------
(***************************************************************************)
(* How out of date either verifier of access tokens can be, for any       *)
(* number of requests, keys and tokens and any durations.                  *)
(*                                                                        *)
(* JwtVerifier: the process holds what the provider had at most age +     *)
(* FlightTime ticks ago (KeysInv), and it looks at age before it believes *)
(* a key, and before it says that there is none.                          *)
(* IntrospectionVerifier: an answer that says "active" was true at most   *)
(* as long ago as it is under way, and stays in the cache for CacheTtl.   *)
(***************************************************************************)
EXTENDS TokenVerification, TLAPS

USE JwtAssumption, IntrospectionAssumption
    DEF JwtAssumption, IntrospectionAssumption, Jwt!provider, Jwt!fetching

--------------------------------------------------------------------------------
(* Local verification of signed tokens *)

JwtInv == Jwt!TypeOK /\ Jwt!KeysInv

LEMMA CountUp ==
    ASSUME NEW limit \in Nat, NEW n \in 0 .. limit
    PROVE  Jwt!Up(n, limit) \in 0 .. limit /\ n <= Jwt!Up(n, limit) /\ Jwt!Up(n, limit) <= n + 1
  BY DEF Jwt!Up

LEMMA Limits ==
    /\ Jwt!LongAgo \in Nat /\ Jwt!OldAge \in Nat
    /\ 0 \in 0 .. Jwt!LongAgo /\ 0 \in 0 .. Jwt!OldAge /\ 0 \in 0 .. MinRefetch
    /\ 0 \in 0 .. FlightTime
    /\ \A n \in 0 .. FlightTime : n # FlightTime => n + 1 \in 0 .. FlightTime
  BY DEF Jwt!LongAgo, Jwt!OldAge

(* The variables keep their types. *)
LEMMA JwtTypePreserved == Jwt!TypeOK /\ [Jwt!Next]_(Jwt!vars) => Jwt!TypeOK'
<1> SUFFICES ASSUME Jwt!TypeOK, [Jwt!Next]_(Jwt!vars) PROVE Jwt!TypeOK'
  OBVIOUS
<1> USE DEF Jwt!TypeOK, Jwt!Places, Jwt!Verdicts
<1>1. ASSUME NEW k \in Kids, Jwt!Rotate(k) PROVE Jwt!TypeOK'
  <2>1. published' \subseteq Kids
    BY <1>1 DEF Jwt!Rotate
  <2>2. since' \in [Kids -> 0 .. Jwt!LongAgo]
    BY <1>1, Limits DEF Jwt!Rotate
  <2> QED
    BY <1>1, <2>1, <2>2 DEF Jwt!Rotate
<1>2. CASE Jwt!Tick
  <2>1. since' \in [Kids -> 0 .. Jwt!LongAgo]
    BY <1>2, CountUp, Limits DEF Jwt!Tick
  <2>2. age' \in 0 .. Jwt!OldAge /\ quiet' \in 0 .. MinRefetch
    BY <1>2, CountUp, Limits DEF Jwt!Tick
  <2>3. flight' \in 0 .. FlightTime \cup {None}
    <3>1. CASE flight = None
      BY <1>2, <3>1 DEF Jwt!Tick
    <3>2. CASE flight \in 0 .. FlightTime
      BY <1>2, <3>2, Limits DEF Jwt!Tick
    <3> QED
      BY <3>1, <3>2
  <2> QED
    BY <1>2, <2>1, <2>2, <2>3 DEF Jwt!Tick
<1>3. ASSUME NEW r \in Requests, Jwt!Ask(r) PROVE Jwt!TypeOK'
  BY <1>3 DEF Jwt!Ask, Jwt!Decide, Jwt!End
<1>4. ASSUME NEW r \in Requests, Jwt!Enter(r) PROVE Jwt!TypeOK'
  BY <1>4 DEF Jwt!Enter, Jwt!Decide, Jwt!End
<1>5. ASSUME NEW r \in Requests, Jwt!Discover(r) PROVE Jwt!TypeOK'
  BY <1>5 DEF Jwt!Discover
<1>6. ASSUME NEW r \in Requests, Jwt!Serve(r) PROVE Jwt!TypeOK'
  BY <1>6, Limits DEF Jwt!Serve
<1>7. ASSUME NEW r \in Requests, Jwt!Arrive(r) PROVE Jwt!TypeOK'
  BY <1>7, Limits DEF Jwt!Arrive, Jwt!Decide, Jwt!End
<1>8. ASSUME NEW r \in Requests, Jwt!Fail(r) \/ Jwt!Cancel(r) PROVE Jwt!TypeOK'
  BY <1>8 DEF Jwt!Fail, Jwt!Cancel, Jwt!GiveUp, Jwt!End
<1>9. ASSUME NEW r \in Requests, Jwt!Leave(r) PROVE Jwt!TypeOK'
  BY <1>9 DEF Jwt!Leave
<1>10. CASE UNCHANGED Jwt!vars
  BY <1>10 DEF Jwt!vars
<1> QED
  BY <1>1, <1>2, <1>3, <1>4, <1>5, <1>6, <1>7, <1>8, <1>9, <1>10 DEF Jwt!Next, Jwt!Verify

(* Rotating a key starts its clock, a tick advances all of them together, and an
   answer that arrives brings its own age along. *)
LEMMA KeysPreserved == Jwt!TypeOK /\ Jwt!KeysInv /\ [Jwt!Next]_(Jwt!vars) => Jwt!KeysInv'
<1> SUFFICES ASSUME Jwt!TypeOK, Jwt!KeysInv, [Jwt!Next]_(Jwt!vars) PROVE Jwt!KeysInv'
  OBVIOUS
<1> USE DEF Jwt!TypeOK, Jwt!KeysInv, Jwt!AsOf
<1>1. ASSUME NEW k \in Kids, Jwt!Rotate(k) PROVE Jwt!KeysInv'
  BY <1>1 DEF Jwt!Rotate, Jwt!OldAge
<1>2. CASE Jwt!Tick
  <2>1. ASSUME NEW k \in Kids, _keys # {} PROVE Jwt!AsOf(_keys, k, age + FlightTime)'
    BY <1>2, <2>1 DEF Jwt!Tick, Jwt!Up, Jwt!OldAge, Jwt!LongAgo
  <2>2. ASSUME NEW k \in Kids, flight' # None PROVE Jwt!AsOf(answer, k, flight)'
    BY <1>2, <2>2 DEF Jwt!Tick, Jwt!Up, Jwt!LongAgo
  <2> QED
    BY <1>2, <2>1, <2>2 DEF Jwt!Tick
<1>3. ASSUME NEW r \in Requests, Jwt!Ask(r) \/ Jwt!Enter(r) \/ Jwt!Discover(r) \/ Jwt!Leave(r)
      PROVE  Jwt!KeysInv'
  BY <1>3 DEF Jwt!Ask, Jwt!Enter, Jwt!Discover, Jwt!Leave
<1>4. ASSUME NEW r \in Requests, Jwt!Serve(r) PROVE Jwt!KeysInv'
  BY <1>4 DEF Jwt!Serve
<1>5. ASSUME NEW r \in Requests, Jwt!Arrive(r) PROVE Jwt!KeysInv'
  BY <1>5 DEF Jwt!Arrive, Jwt!LongAgo
<1>6. ASSUME NEW r \in Requests, Jwt!Fail(r) \/ Jwt!Cancel(r) PROVE Jwt!KeysInv'
  BY <1>6 DEF Jwt!Fail, Jwt!Cancel, Jwt!GiveUp
<1>7. CASE UNCHANGED Jwt!vars
  BY <1>7 DEF Jwt!vars
<1> QED
  BY <1>1, <1>2, <1>3, <1>4, <1>5, <1>6, <1>7 DEF Jwt!Next, Jwt!Verify

\* Where a request comes to an end: before the lock, under it, or with new keys.
LEMMA WhereItEnds ==
    ASSUME Jwt!TypeOK, [Jwt!Next]_(Jwt!vars), NEW r \in Requests, NEW k \in Kids,
           NEW how \in Jwt!Verdicts, how \in {"accepted", "unknown_key"},
           Jwt!Ends(r, how), kid'[r] = k
    PROVE  \/ age <= MaxAge /\ how = "accepted" /\ k \in _keys
           \/ ~Jwt!MayFetch /\ (how = "accepted" <=> k \in _keys)
           \/ flight # None /\ (how = "accepted" <=> k \in answer)
<1> USE DEF Jwt!Ends, Jwt!TypeOK
<1>1. ASSUME NEW x \in Kids, Jwt!Rotate(x) PROVE FALSE
  BY <1>1 DEF Jwt!Rotate
<1>2. CASE Jwt!Tick
  BY <1>2 DEF Jwt!Tick
<1>3. ASSUME NEW q \in Requests, Jwt!Ask(q) PROVE age <= MaxAge /\ how = "accepted" /\ k \in _keys
  BY <1>3 DEF Jwt!Ask, Jwt!Decide, Jwt!End, Jwt!Fresh
<1>4. ASSUME NEW q \in Requests, Jwt!Enter(q)
      PROVE  \/ age <= MaxAge /\ how = "accepted" /\ k \in _keys
             \/ ~Jwt!MayFetch /\ (how = "accepted" <=> k \in _keys)
  BY <1>4 DEF Jwt!Enter, Jwt!Decide, Jwt!End, Jwt!Fresh
<1>5. ASSUME NEW q \in Requests, Jwt!Discover(q) \/ Jwt!Serve(q) \/ Jwt!Leave(q) PROVE FALSE
  BY <1>5 DEF Jwt!Discover, Jwt!Serve, Jwt!Leave
<1>6. ASSUME NEW q \in Requests, Jwt!Arrive(q)
      PROVE  flight # None /\ (how = "accepted" <=> k \in answer)
  BY <1>6 DEF Jwt!Arrive, Jwt!Decide, Jwt!End
<1>7. ASSUME NEW q \in Requests, Jwt!Fail(q) \/ Jwt!Cancel(q) PROVE FALSE
  BY <1>7 DEF Jwt!Fail, Jwt!Cancel, Jwt!GiveUp, Jwt!End
<1>8. CASE UNCHANGED Jwt!vars
  BY <1>8 DEF Jwt!vars
<1> QED
  BY <1>1, <1>2, <1>3, <1>4, <1>5, <1>6, <1>7, <1>8 DEF Jwt!Next, Jwt!Verify

\* A withdrawn key is believed from memory, within its age, or from an answer, within its flight.
LEMMA WithdrawnStep ==
    ASSUME JwtInv, [Jwt!Next]_(Jwt!vars), NEW r \in Requests, NEW k \in Kids,
           Jwt!Ends(r, "accepted"), kid'[r] = k
    PROVE  k \in published \/ since[k] <= MaxAge + FlightTime
<1> USE DEF JwtInv, Jwt!KeysInv, Jwt!AsOf, Jwt!TypeOK
<1>1. \/ age <= MaxAge /\ k \in _keys
      \/ ~Jwt!MayFetch /\ k \in _keys
      \/ flight # None /\ k \in answer
  BY WhereItEnds DEF Jwt!Verdicts
<1>2. CASE age <= MaxAge /\ k \in _keys
  BY <1>2 DEF Jwt!LongAgo
<1>3. CASE ~Jwt!MayFetch /\ k \in _keys
  BY <1>3 DEF Jwt!MayFetch, Jwt!OldAge, Jwt!LongAgo
<1>4. CASE flight # None /\ k \in answer
  BY <1>4 DEF Jwt!LongAgo
<1> QED
  BY <1>1, <1>2, <1>3, <1>4

\* Keys that were fetched lately, or just now, lack only what is new or not published.
LEMMA MissingIsNew ==
    ASSUME JwtInv, NEW k \in Kids,
           \/ ~Jwt!MayFetch /\ k \notin _keys
           \/ flight # None /\ k \notin answer
    PROVE  k \notin published \/ since[k] <= MinRefetch + FlightTime
<1>1. since[k] \in 0 .. Jwt!LongAgo /\ age \in 0 .. Jwt!OldAge
  BY DEF JwtInv, Jwt!TypeOK
<1>2. since[k] \in Nat /\ age \in Nat
  BY <1>1, Limits
<1>3. CASE ~Jwt!MayFetch /\ k \notin _keys
  <2>1. k \notin published \/ since[k] <= age + FlightTime
    BY <1>3 DEF JwtInv, Jwt!KeysInv, Jwt!AsOf, Jwt!MayFetch
  <2>2. age < MinRefetch
    BY <1>2, <1>3 DEF Jwt!MayFetch
  <2> QED
    BY <1>2, <2>1, <2>2
<1>4. CASE flight # None /\ k \notin answer
  <2>1. k \notin published \/ since[k] <= flight
    BY <1>4 DEF JwtInv, Jwt!KeysInv, Jwt!AsOf
  <2>2. flight \in 0 .. FlightTime
    BY <1>4 DEF JwtInv, Jwt!TypeOK
  <2> QED
    BY <1>2, <2>1, <2>2
<1> QED
  BY <1>3, <1>4

\* As long as the process has keys, its clock since the last fetch runs with theirs.
QuietSince == _keys # {} => quiet >= age \/ quiet = MinRefetch

LEMMA QuietPreserved == Jwt!TypeOK /\ QuietSince /\ [Jwt!Next]_(Jwt!vars) => QuietSince'
<1> SUFFICES ASSUME Jwt!TypeOK, QuietSince, [Jwt!Next]_(Jwt!vars) PROVE QuietSince'
  OBVIOUS
<1> USE DEF Jwt!TypeOK, QuietSince
<1>1. CASE Jwt!Tick
  <2>1. age \in Nat /\ quiet \in Nat /\ quiet <= MinRefetch
    BY Limits
  <2> QED
    BY <1>1, <2>1 DEF Jwt!Tick, Jwt!Up
<1>2. ASSUME NEW r \in Requests, Jwt!Arrive(r) PROVE QuietSince'
  BY <1>2 DEF Jwt!Arrive
<1>3. ASSUME NEW r \in Requests, Jwt!Ask(r) \/ Jwt!Enter(r) \/ Jwt!Discover(r) \/ Jwt!Serve(r)
      PROVE  QuietSince'
  BY <1>3 DEF Jwt!Ask, Jwt!Enter, Jwt!Discover, Jwt!Serve
<1>4. ASSUME NEW r \in Requests, Jwt!Fail(r) \/ Jwt!Cancel(r) \/ Jwt!Leave(r) PROVE QuietSince'
  BY <1>4 DEF Jwt!Fail, Jwt!Cancel, Jwt!GiveUp, Jwt!Leave
<1> QED
  BY <1>1, <1>2, <1>3, <1>4 DEF Jwt!Next, Jwt!Verify, Jwt!Rotate, Jwt!vars

\* A request that takes the lock, of a process that has keys, does so only when it may fetch.
LEMMA SpacedStep ==
    ASSUME Jwt!TypeOK, QuietSince, [Jwt!Next]_(Jwt!vars), NEW r \in Requests,
           _lock = None, _lock' = r, _keys # {}
    PROVE  quiet >= MinRefetch
<1>1. ASSUME NEW q \in Requests,
             \/ Jwt!Ask(q) \/ Jwt!Discover(q) \/ Jwt!Serve(q) \/ Jwt!Arrive(q)
             \/ Jwt!Fail(q) \/ Jwt!Cancel(q) \/ Jwt!Leave(q)
      PROVE  FALSE
  BY <1>1 DEF Jwt!Ask, Jwt!Discover, Jwt!Serve, Jwt!Arrive, Jwt!Fail, Jwt!Cancel, Jwt!GiveUp,
              Jwt!Leave
<1>2. ASSUME NEW q \in Requests, Jwt!Enter(q) PROVE Jwt!MayFetch
  BY <1>2 DEF Jwt!Enter
<1>3. Jwt!MayFetch
  BY <1>1, <1>2 DEF Jwt!Next, Jwt!Verify, Jwt!Rotate, Jwt!Tick, Jwt!vars
<1>4. age \in Nat /\ quiet \in Nat
  BY Limits DEF Jwt!TypeOK
<1> QED
  BY <1>3, <1>4 DEF Jwt!MayFetch, QuietSince

--------------------------------------------------------------------------------
(* Introspection *)

\* Nobody counts the time since the revocation of a token that is not revoked.
ClocksStart == \A t \in Tokens : active[t] => revokedFor[t] = 0

\* A request beyond its question carries an answer with its age, and no other does.
AnswersAge ==
    \A r \in Requests :
        /\ at[r] \notin {"new", "over"} => token[r] \in Tokens
        /\ at[r] \in {"answered", "stored"} <=> transit[r] # None

\* What the provider said of a token before it was revoked is as old as its way was long.
AnswersCurrent ==
    \A r \in Requests : at[r] \in {"answered", "stored"} /\ said[r] =>
        revokedFor[token[r]] <= transit[r]

\* What the cache still says of it will be gone in time.
CacheCurrent ==
    \A t \in Tokens : cache[t] # None /\ cache[t].active =>
        /\ cache[t].ttl <= CacheTtl
        /\ revokedFor[t] + cache[t].ttl <= CacheTtl + FlightTime

IntrospectionInv == Opaque!TypeOK /\ ClocksStart /\ AnswersAge /\ AnswersCurrent /\ CacheCurrent

--------------------------------------------------------------------------------
LEMMA Durations ==
    /\ Opaque!LongAgo \in Nat /\ Opaque!LongAgo > CacheTtl + FlightTime
    /\ CacheTtl \in 0 .. CacheTtl + NegativeTtl /\ NegativeTtl \in 0 .. CacheTtl + NegativeTtl
    /\ 0 \in 0 .. Opaque!LongAgo /\ 0 \in 0 .. FlightTime
  BY DEF Opaque!LongAgo

\* A tick counts on without passing the end.
LEMMA CountOn ==
    ASSUME NEW n \in 0 .. Opaque!LongAgo
    PROVE  /\ Opaque!Least(n + 1, Opaque!LongAgo) \in 0 .. Opaque!LongAgo
           /\ Opaque!Least(n + 1, Opaque!LongAgo) <= n + 1
  BY Durations DEF Opaque!Least

\* An entry that is still there after a tick has one tick less to live.
LEMMA EntryAges ==
    ASSUME NEW e, e = None \/ e \in Opaque!Entries
    PROVE  /\ Opaque!Aged(e) = None \/ Opaque!Aged(e) \in Opaque!Entries
           /\ Opaque!Aged(e) # None =>
                 e # None /\ Opaque!Aged(e).active = e.active /\ Opaque!Aged(e).ttl = e.ttl - 1
<1>1. CASE e = None \/ e.ttl <= 1
  BY <1>1 DEF Opaque!Aged
<1>2. CASE ~(e = None \/ e.ttl <= 1)
  <2>1. e \in Opaque!Entries /\ e.ttl \in 0 .. CacheTtl + NegativeTtl /\ e.ttl > 1
    BY <1>2 DEF Opaque!Entries
  <2>2. e.ttl - 1 \in 0 .. CacheTtl + NegativeTtl
    BY <2>1
  <2>3. Opaque!Aged(e) = [e EXCEPT !.ttl = e.ttl - 1]
    BY <1>2 DEF Opaque!Aged
  <2>4. /\ Opaque!Aged(e).active = e.active /\ Opaque!Aged(e).ttl = e.ttl - 1
        /\ Opaque!Aged(e) \in Opaque!Entries
    BY <2>1, <2>2, <2>3 DEF Opaque!Entries
  <2> QED  BY <1>2, <2>4
<1> QED  BY <1>1, <1>2

\* How long an answer is remembered.
LEMMA TtlBounded ==
    ASSUME Opaque!TypeOK, NEW r \in Requests, token[r] \in Tokens
    PROVE  Opaque!Ttl(r) \in 0 .. CacheTtl + NegativeTtl /\ (said[r] => Opaque!Ttl(r) <= CacheTtl)
  BY Durations DEF Opaque!TypeOK, Opaque!Ttl, Opaque!Least

--------------------------------------------------------------------------------
LEMMA OpaqueInit == Opaque!Init => IntrospectionInv
  BY Durations DEF Opaque!Init, IntrospectionInv, Opaque!TypeOK, ClocksStart, AnswersAge,
                   AnswersCurrent, CacheCurrent, Opaque!Places, Opaque!Verdicts

LEMMA OpaqueTypePreserved ==
    ASSUME Opaque!TypeOK, AnswersAge, [Opaque!Next]_(Opaque!vars)
    PROVE  Opaque!TypeOK'
<1> USE DEF Opaque!TypeOK, Opaque!Places, Opaque!Verdicts, Opaque!tokens, Opaque!requests
<1>1. ASSUME NEW t \in Tokens, Opaque!Revoke(t) PROVE Opaque!TypeOK'
  BY <1>1 DEF Opaque!Revoke
<1>2. CASE Opaque!Tick
  <2>1. left' \in [Tokens -> 0 .. Lifetime]
    BY <1>2 DEF Opaque!Tick
  <2>2. revokedFor' \in [Tokens -> 0 .. Opaque!LongAgo]
    BY <1>2, CountOn, Durations DEF Opaque!Tick
  <2>3. cache' \in [Tokens -> Opaque!Entries \cup {None}]
    BY <1>2, EntryAges DEF Opaque!Tick
  <2>4. transit' \in [Requests -> 0 .. FlightTime \cup {None}]
    <3>1. ASSUME NEW r \in Requests, transit[r] # None PROVE transit[r] + 1 \in 0 .. FlightTime
      <4>1. transit[r] \in 0 .. FlightTime /\ transit[r] # FlightTime
        BY <1>2, <3>1 DEF Opaque!Tick
      <4> QED  BY <4>1
    <3> QED  BY <1>2, <3>1 DEF Opaque!Tick
  <2> QED  BY <1>2, <2>1, <2>2, <2>3, <2>4 DEF Opaque!Tick
<1>3. ASSUME NEW r \in Requests, Opaque!Ask(r) PROVE Opaque!TypeOK'
  BY <1>3 DEF Opaque!Ask, Opaque!GoTo
<1>4. ASSUME NEW r \in Requests, Opaque!Hit(r) PROVE Opaque!TypeOK'
  BY <1>4 DEF Opaque!Hit, Opaque!Decide, Opaque!End, Opaque!GoTo
<1>5. ASSUME NEW r \in Requests, Opaque!Miss(r) \/ Opaque!StoreLost(r) PROVE Opaque!TypeOK'
  BY <1>5 DEF Opaque!Miss, Opaque!StoreLost, Opaque!GoTo
<1>6. ASSUME NEW r \in Requests, Opaque!Serve(r) PROVE Opaque!TypeOK'
  <2>1. transit' \in [Requests -> 0 .. FlightTime \cup {None}]
    BY <1>6, Durations DEF Opaque!Serve
  <2>2. (active[token[r]] /\ left[token[r]] > 0) \in BOOLEAN
    OBVIOUS
  <2>3. said' \in [Requests -> BOOLEAN]
    BY <1>6, <2>2 DEF Opaque!Serve
  <2> QED  BY <1>6, <2>1, <2>3 DEF Opaque!Serve, Opaque!GoTo
<1>7. ASSUME NEW r \in Requests, Opaque!Store(r) PROVE Opaque!TypeOK'
  <2>1. token[r] \in Tokens
    BY <1>7 DEF Opaque!Store, AnswersAge
  <2>2. [active |-> said[r], ttl |-> Opaque!Ttl(r)] \in Opaque!Entries
    BY <2>1, TtlBounded DEF Opaque!Entries
  <2>3. cache' \in [Tokens -> Opaque!Entries \cup {None}]
    BY <1>7, <2>1, <2>2 DEF Opaque!Store
  <2> QED  BY <1>7, <2>3 DEF Opaque!Store, Opaque!GoTo
<1>8. ASSUME NEW r \in Requests, Opaque!Conclude(r) \/ Opaque!Fail(r) \/ Opaque!Cancel(r)
      PROVE  Opaque!TypeOK'
  BY <1>8 DEF Opaque!Conclude, Opaque!Fail, Opaque!Cancel, Opaque!Decide, Opaque!End, Opaque!GoTo
<1>9. ASSUME NEW r \in Requests, Opaque!Leave(r) PROVE Opaque!TypeOK'
  BY <1>9 DEF Opaque!Leave, Opaque!GoTo
<1>10. CASE UNCHANGED Opaque!vars
  BY <1>10 DEF Opaque!vars
<1> QED  BY <1>1, <1>2, <1>3, <1>4, <1>5, <1>6, <1>7, <1>8, <1>9, <1>10
         DEF Opaque!Next, Opaque!Verify

LEMMA AnswersPreserved ==
    ASSUME IntrospectionInv, [Opaque!Next]_(Opaque!vars)
    PROVE  (ClocksStart /\ AnswersAge /\ AnswersCurrent)'
<1> USE DEF IntrospectionInv, Opaque!TypeOK, ClocksStart, AnswersAge, AnswersCurrent,
        Opaque!tokens, Opaque!requests
<1>1. ASSUME NEW t \in Tokens, Opaque!Revoke(t) PROVE (ClocksStart /\ AnswersAge /\ AnswersCurrent)'
  \* An answer that was right until now is not older than a revocation of just now.
  <2>1. ASSUME NEW r \in Requests, at[r] \in {"answered", "stored"}, said[r]
        PROVE  revokedFor'[token[r]] <= transit'[r]
    BY <1>1, <2>1 DEF Opaque!Revoke
  <2> QED  BY <1>1, <2>1 DEF Opaque!Revoke
<1>2. CASE Opaque!Tick
  <2>1. ClocksStart'
    BY <1>2 DEF Opaque!Tick
  <2>2. AnswersAge'
    BY <1>2 DEF Opaque!Tick
  <2>3. ASSUME NEW r \in Requests, at[r] \in {"answered", "stored"}, said[r]
        PROVE  revokedFor'[token[r]] <= transit'[r]
    <3>1. token[r] \in Tokens /\ transit[r] \in Nat /\ revokedFor[token[r]] <= transit[r]
      BY <2>3
    <3>2. transit'[r] = transit[r] + 1
      BY <1>2, <3>1 DEF Opaque!Tick
    <3>3. revokedFor'[token[r]] \in Nat /\ revokedFor'[token[r]] <= revokedFor[token[r]] + 1
      BY <1>2, <3>1, CountOn, Durations DEF Opaque!Tick
    <3> QED  BY <3>1, <3>2, <3>3
  <2> QED  BY <1>2, <2>1, <2>2, <2>3 DEF Opaque!Tick
<1>3. ASSUME NEW r \in Requests, Opaque!Ask(r) PROVE (ClocksStart /\ AnswersAge /\ AnswersCurrent)'
  BY <1>3 DEF Opaque!Ask, Opaque!GoTo
<1>4. ASSUME NEW r \in Requests,
             Opaque!Hit(r) \/ Opaque!Conclude(r) \/ Opaque!Fail(r) \/ Opaque!Cancel(r)
      PROVE  (ClocksStart /\ AnswersAge /\ AnswersCurrent)'
  BY <1>4 DEF Opaque!Hit, Opaque!Conclude, Opaque!Fail, Opaque!Cancel, Opaque!Decide, Opaque!End,
              Opaque!GoTo
<1>5. ASSUME NEW r \in Requests, Opaque!Miss(r) \/ Opaque!Store(r) \/ Opaque!StoreLost(r)
      PROVE  (ClocksStart /\ AnswersAge /\ AnswersCurrent)'
  BY <1>5 DEF Opaque!Miss, Opaque!Store, Opaque!StoreLost, Opaque!GoTo
<1>6. ASSUME NEW r \in Requests, Opaque!Serve(r)
      PROVE  (ClocksStart /\ AnswersAge /\ AnswersCurrent)'
  <2>1. token[r] \in Tokens /\ transit'[r] = 0
    BY <1>6 DEF Opaque!Serve
  <2>2. said'[r] => revokedFor[token[r]] = 0
    BY <1>6, <2>1 DEF Opaque!Serve
  <2> QED  BY <1>6, <2>1, <2>2 DEF Opaque!Serve, Opaque!GoTo
<1>7. ASSUME NEW r \in Requests, Opaque!Leave(r)
      PROVE  (ClocksStart /\ AnswersAge /\ AnswersCurrent)'
  BY <1>7 DEF Opaque!Leave, Opaque!GoTo
<1>8. CASE UNCHANGED Opaque!vars
  BY <1>8 DEF Opaque!vars
<1> QED  BY <1>1, <1>2, <1>3, <1>4, <1>5, <1>6, <1>7, <1>8 DEF Opaque!Next, Opaque!Verify

LEMMA CachePreserved ==
    ASSUME IntrospectionInv, [Opaque!Next]_(Opaque!vars)
    PROVE  CacheCurrent'
<1> USE DEF IntrospectionInv, Opaque!TypeOK, CacheCurrent, Opaque!tokens, Opaque!requests
<1>1. ASSUME NEW t \in Tokens, Opaque!Revoke(t) PROVE CacheCurrent'
  BY <1>1 DEF Opaque!Revoke
<1>2. CASE Opaque!Tick
  <2> SUFFICES ASSUME NEW t \in Tokens, cache'[t] # None, cache'[t].active
               PROVE  /\ cache'[t].ttl <= CacheTtl
                      /\ revokedFor'[t] + cache'[t].ttl <= CacheTtl + FlightTime
    OBVIOUS
  <2>1. cache'[t] = Opaque!Aged(cache[t])
    BY <1>2 DEF Opaque!Tick
  <2>2. /\ cache[t] # None /\ cache[t].active
        /\ cache'[t].ttl = cache[t].ttl - 1
    BY <2>1, EntryAges
  <2>3. cache[t].ttl \in Nat
    BY <2>2 DEF Opaque!Entries
  <2>4. revokedFor'[t] \in Nat /\ revokedFor'[t] <= revokedFor[t] + 1
    BY <1>2, CountOn, Durations DEF Opaque!Tick
  <2>5. cache[t].ttl <= CacheTtl /\ revokedFor[t] + cache[t].ttl <= CacheTtl + FlightTime
    BY <2>2
  <2> QED  BY <2>2, <2>3, <2>4, <2>5
<1>3. ASSUME NEW r \in Requests, Opaque!Store(r) PROVE CacheCurrent'
  <2>1. token[r] \in Tokens /\ transit[r] \in 0 .. FlightTime
    BY <1>3 DEF Opaque!Store, AnswersAge
  <2>2. CASE Opaque!Ttl(r) > 0 /\ said[r]
    <3>1. Opaque!Ttl(r) \in Nat /\ Opaque!Ttl(r) <= CacheTtl
      BY <2>1, <2>2, TtlBounded
    <3>2. revokedFor[token[r]] \in Nat /\ revokedFor[token[r]] <= FlightTime
      BY <1>3, <2>1, <2>2, Durations DEF Opaque!Store, AnswersCurrent
    <3>3. revokedFor[token[r]] + Opaque!Ttl(r) <= CacheTtl + FlightTime
      BY <3>1, <3>2
    <3>4. cache' = [cache EXCEPT ![token[r]] = [active |-> said[r], ttl |-> Opaque!Ttl(r)]]
      BY <1>3, <2>2 DEF Opaque!Store
    <3>5. revokedFor' = revokedFor
      BY <1>3 DEF Opaque!Store
    <3>6. ASSUME NEW t \in Tokens, cache'[t] # None, cache'[t].active
          PROVE  /\ cache'[t].ttl <= CacheTtl
                 /\ revokedFor'[t] + cache'[t].ttl <= CacheTtl + FlightTime
      <4>1. CASE t = token[r]
        <5>1. cache'[t].ttl = Opaque!Ttl(r)
          BY <3>4, <4>1
        <5> QED  BY <3>1, <3>3, <3>5, <4>1, <5>1
      <4>2. CASE t # token[r]
        BY <3>4, <3>5, <3>6, <4>2
      <4> QED  BY <4>1, <4>2
    <3> QED  BY <3>6
  <2>3. CASE ~(Opaque!Ttl(r) > 0 /\ said[r])
    <3>1. \A t \in Tokens : cache'[t] = cache[t] \/ ~cache'[t].active
      BY <1>3, <2>1, <2>3 DEF Opaque!Store
    <3> QED  BY <1>3, <3>1 DEF Opaque!Store
  <2> QED  BY <2>2, <2>3
<1>4. ASSUME NEW r \in Requests,
             \/ Opaque!Ask(r) \/ Opaque!Hit(r) \/ Opaque!Miss(r) \/ Opaque!Serve(r)
             \/ Opaque!StoreLost(r) \/ Opaque!Conclude(r) \/ Opaque!Fail(r) \/ Opaque!Cancel(r)
             \/ Opaque!Leave(r)
      PROVE  CacheCurrent'
  BY <1>4 DEF Opaque!Ask, Opaque!Hit, Opaque!Miss, Opaque!Serve, Opaque!StoreLost,
              Opaque!Conclude, Opaque!Fail, Opaque!Cancel, Opaque!Leave
<1>5. CASE UNCHANGED Opaque!vars
  BY <1>5 DEF Opaque!vars
<1> QED  BY <1>1, <1>2, <1>3, <1>4, <1>5 DEF Opaque!Next, Opaque!Verify

LEMMA OpaqueNext == IntrospectionInv /\ [Opaque!Next]_(Opaque!vars) => IntrospectionInv'
  BY OpaqueTypePreserved, AnswersPreserved, CachePreserved DEF IntrospectionInv

\* Where a token is accepted: on what the cache says, or on an answer.
LEMMA AcceptedInTime ==
    ASSUME IntrospectionInv, [Opaque!Next]_(Opaque!vars), NEW r \in Requests, NEW t \in Tokens,
           Opaque!Ends(r, "accepted"), token[r] = t
    PROVE  left[t] > 0 /\ revokedFor[t] <= CacheTtl + FlightTime
<1> USE DEF IntrospectionInv, Opaque!TypeOK
<1>1. PICK q \in Requests : Opaque!Hit(q) \/ Opaque!Conclude(q) \/ Opaque!Fail(q) \/ Opaque!Cancel(q)
  BY DEF Opaque!Next, Opaque!Verify, Opaque!Ends, Opaque!Revoke, Opaque!Tick, Opaque!Ask,
         Opaque!Miss, Opaque!Serve, Opaque!Store, Opaque!StoreLost, Opaque!Leave, Opaque!GoTo,
         Opaque!vars,
         Opaque!requests
<1>2. q = r
  BY <1>1 DEF Opaque!Ends, Opaque!Hit, Opaque!Conclude, Opaque!Fail, Opaque!Cancel, Opaque!Decide,
              Opaque!End, Opaque!GoTo
<1>3. ~Opaque!Fail(r) /\ ~Opaque!Cancel(r)
  BY DEF Opaque!Ends, Opaque!Fail, Opaque!Cancel, Opaque!End
<1>4. CASE Opaque!Hit(r)
  <2>1. cache[t] # None /\ Opaque!Acceptable(t, cache[t].active)
    BY <1>4 DEF Opaque!Hit, Opaque!Decide, Opaque!End, Opaque!Ends
  <2>2. cache[t].active /\ left[t] > 0
    BY <2>1 DEF Opaque!Acceptable
  <2>3. revokedFor[t] + cache[t].ttl <= CacheTtl + FlightTime /\ cache[t].ttl \in Nat
    BY <2>1, <2>2 DEF CacheCurrent, Opaque!Entries
  <2> QED  BY <2>2, <2>3, Durations
<1>5. CASE Opaque!Conclude(r)
  <2>1. at[r] = "stored" /\ Opaque!Acceptable(t, said[r])
    BY <1>5 DEF Opaque!Conclude, Opaque!Decide, Opaque!End, Opaque!Ends
  <2>2. said[r] /\ left[t] > 0
    BY <2>1 DEF Opaque!Acceptable
  <2>3. transit[r] \in 0 .. FlightTime /\ revokedFor[t] <= transit[r]
    BY <2>1, <2>2 DEF AnswersAge, AnswersCurrent
  <2> QED  BY <2>2, <2>3, Durations
<1> QED  BY <1>1, <1>2, <1>3, <1>4, <1>5

--------------------------------------------------------------------------------
(* The verifier that is built, and the theorems *)

\* The verifier that is not built is never asked anything.
TokenInv ==
    /\ mode \in {"jwt", "introspection"}
    /\ mode = "jwt" => JwtInv /\ QuietSince /\ \A r \in Requests : token[r] = None
    /\ mode = "introspection" => IntrospectionInv /\ \A r \in Requests : kid[r] = None

\* A step is a step of the one that is built.
LEMMA StepOfOne ==
    ASSUME TokenInv, [Next]_vars
    PROVE  /\ mode' = mode
           /\ mode = "jwt" => [Jwt!Next]_(Jwt!vars) /\ UNCHANGED opaque
           /\ mode = "introspection" => [Opaque!Next]_(Opaque!vars) /\ UNCHANGED jwt
<1>1. CASE mode = "jwt" /\ Jwt!Next /\ UNCHANGED <<mode, opaque>>
  BY <1>1
<1>2. CASE mode = "introspection" /\ Opaque!Next /\ UNCHANGED <<mode, jwt>>
  BY <1>2
<1>3. CASE UNCHANGED vars
  BY <1>3 DEF vars, jwt, opaque, Jwt!vars, Opaque!vars, Opaque!tokens, Opaque!requests
<1> QED  BY <1>1, <1>2, <1>3 DEF Next

(* Whichever verifier is built, everything keeps its type, and what it holds, has cached or
   waits for was so at the provider no longer ago than its age. *)
THEOREM VerifiersKeepTime == Spec => []TokenInv
<1>1. Init => TokenInv
  <2>1. Jwt!Init => Jwt!TypeOK
    BY DEF Jwt!Init, Jwt!TypeOK, Jwt!Places, Jwt!Verdicts, Jwt!OldAge, Jwt!LongAgo
  <2>2. Jwt!Init => Jwt!KeysInv /\ QuietSince /\ \A r \in Requests : kid[r] = None
    BY DEF Jwt!Init, Jwt!KeysInv, QuietSince
  <2>3. Opaque!Init => \A r \in Requests : token[r] = None
    BY DEF Opaque!Init
  <2> QED  BY <2>1, <2>2, <2>3, OpaqueInit DEF Init, TokenInv, JwtInv
<1>2. TokenInv /\ [Next]_vars => TokenInv'
  <2> SUFFICES ASSUME TokenInv, [Next]_vars PROVE TokenInv'
    OBVIOUS
  <2>1. CASE mode = "jwt"
    <3>1. JwtInv /\ QuietSince /\ [Jwt!Next]_(Jwt!vars) /\ token' = token /\ mode' = mode
      BY <2>1, StepOfOne DEF TokenInv, opaque
    <3>2. JwtInv' /\ QuietSince'
      BY <3>1, JwtTypePreserved, KeysPreserved, QuietPreserved DEF JwtInv
    <3> QED  BY <2>1, <3>1, <3>2 DEF TokenInv
  <2>2. CASE mode = "introspection"
    <3>1. IntrospectionInv /\ [Opaque!Next]_(Opaque!vars) /\ kid' = kid /\ mode' = mode
      BY <2>2, StepOfOne DEF TokenInv, jwt
    <3>2. IntrospectionInv'
      BY <3>1, OpaqueNext
    <3> QED  BY <2>2, <3>1, <3>2 DEF TokenInv
  <2> QED  BY <2>1, <2>2 DEF TokenInv
<1> QED  BY <1>1, <1>2, PTL DEF Spec

(* A token signed with a withdrawn key is accepted for at most MaxAge + FlightTime
   ticks, whatever the intervals and however many requests wait for the lock. *)
THEOREM WithdrawnExpire == Spec => WithdrawnKeysExpire
<1>1. ASSUME TokenInv, [Next]_vars, NEW r \in Requests, NEW k \in Kids,
             Jwt!Ends(r, "accepted"), kid'[r] = k
      PROVE  k \in published \/ since[k] <= MaxAge + FlightTime
  <2>1. mode = "jwt"
    BY <1>1, StepOfOne DEF TokenInv, jwt
  <2> QED  BY <1>1, <2>1, StepOfOne, WithdrawnStep DEF TokenInv
<1>2. TokenInv /\ [Next]_vars =>
          [\A r \in Requests, k \in Kids : (Jwt!Ends(r, "accepted") /\ kid'[r] = k) =>
              k \in published \/ since[k] <= MaxAge + FlightTime]_(Jwt!vars)
  BY <1>1
<1> QED
  BY <1>2, VerifiersKeepTime, PTL DEF Spec, WithdrawnKeysExpire, Jwt!WithdrawnKeysExpire

(* A token signed with a key that has been published for longer than
   MinRefetch + FlightTime ticks is not turned away as unknown. *)
THEOREM NewKeysKnown == Spec => NewKeysArePickedUp
<1>1. ASSUME TokenInv, [Next]_vars, NEW r \in Requests, NEW k \in Kids,
             Jwt!Ends(r, "unknown_key"), kid'[r] = k
      PROVE  k \notin published \/ since[k] <= MinRefetch + FlightTime
  <2>1. mode = "jwt"
    BY <1>1, StepOfOne DEF TokenInv, jwt
  <2>2. \/ ~Jwt!MayFetch /\ k \notin _keys
        \/ flight # None /\ k \notin answer
    BY <1>1, <2>1, StepOfOne, WhereItEnds DEF TokenInv, JwtInv, Jwt!Verdicts
  <2> QED  BY <1>1, <2>1, <2>2, MissingIsNew DEF TokenInv
<1>2. TokenInv /\ [Next]_vars =>
          [\A r \in Requests, k \in Kids : (Jwt!Ends(r, "unknown_key") /\ kid'[r] = k) =>
              k \notin published \/ since[k] <= MinRefetch + FlightTime]_(Jwt!vars)
  BY <1>1
<1> QED
  BY <1>2, VerifiersKeepTime, PTL DEF Spec, NewKeysArePickedUp, Jwt!NewKeysArePickedUp

(* Once a process has keys, whatever the key ids that tokens name and however many requests
   wait for the lock, it takes the lock to fetch again only after MinRefetch ticks. *)
THEOREM FetchesAreSpaced == Spec => RefetchesAreSpaced
<1>1. ASSUME TokenInv, [Next]_vars, NEW r \in Requests, _lock = None, _lock' = r, _keys # {}
      PROVE  quiet >= MinRefetch
  <2>1. mode = "jwt"
    BY <1>1, StepOfOne DEF TokenInv, jwt
  <2> QED  BY <1>1, <2>1, StepOfOne, SpacedStep DEF TokenInv, JwtInv
<1>2. TokenInv /\ [Next]_vars =>
          [\A r \in Requests : (_lock = None /\ _lock' = r /\ _keys # {}) =>
              quiet >= MinRefetch]_(Jwt!vars)
  BY <1>1
<1> QED
  BY <1>2, VerifiersKeepTime, PTL DEF Spec, RefetchesAreSpaced, Jwt!RefetchesAreSpaced

(* No token is accepted after it expired, nor for longer than the cache's time to live and one
   call to the provider after it was revoked. *)
THEOREM RevokedTokensExpire == Spec => RevocationTakesEffect
<1>1. ASSUME TokenInv, [Next]_vars, NEW r \in Requests, NEW t \in Tokens,
             Opaque!Ends(r, "accepted"), token[r] = t
      PROVE  left[t] > 0 /\ revokedFor[t] <= CacheTtl + FlightTime
  <2>1. mode = "introspection"
    BY <1>1 DEF TokenInv
  <2> QED  BY <1>1, <2>1, StepOfOne, AcceptedInTime DEF TokenInv
<1>2. TokenInv /\ [Next]_vars =>
          [\A r \in Requests, t \in Tokens : (Opaque!Ends(r, "accepted") /\ token[r] = t) =>
              left[t] > 0 /\ revokedFor[t] <= CacheTtl + FlightTime]_(Opaque!vars)
  BY <1>1
<1> QED
  BY <1>2, VerifiersKeepTime, PTL DEF Spec, RevocationTakesEffect, Opaque!RevocationTakesEffect
================================================================================
