------------------------- MODULE IntrospectionVerifier -------------------------
(***************************************************************************)
(* Verification of access tokens by asking the identity provider          *)
(* (auth/introspection.py), with the answers kept for a while in the      *)
(* Redis that all replicas share.  A request looks in the cache, asks the *)
(* provider if there is nothing, stores what it said, and decides.        *)
(*                                                                        *)
(* Time is counted in ticks.  The claims of an active token are all       *)
(* acceptable or not, but for its expiry, which every reader checks.  A   *)
(* call to Redis that fails has no effect; MetaCache has the other kind.  *)
(***************************************************************************)
EXTENDS VerifierSettings

VARIABLES
    left,       \* per token: ticks until it expires
    active,     \* the provider: whether it has not been revoked
    good,       \* per token: its audience, issuer and subject are what they should be
    revokedFor, \* history: per token, ticks since it was revoked
    cache,      \* Redis: per token, what is stored and for how long, or None
    at,         \* per request: where it is
    token,      \* per request: the token it came with
    said,       \* per request: whether the provider called it active
    transit,    \* per request: ticks since the provider answered it
    verdict     \* per request: how it ended

tokens == <<left, active, good, revokedFor>>
requests == <<at, token, said, transit, verdict>>
vars == <<tokens, cache, requests>>

Places == {"new", "looking", "asking", "answered", "stored", "over"}
Verdicts == {"accepted", "rejected", "error", "cancelled", "none"}
LongAgo == CacheTtl + FlightTime + 1
Entries == [active : BOOLEAN, ttl : 0 .. CacheTtl + NegativeTtl]

Least(a, b) == IF a <= b THEN a ELSE b

Init ==
    /\ left = [t \in Tokens |-> Lifetime]
    /\ active = [t \in Tokens |-> TRUE]
    /\ good \in [Tokens -> BOOLEAN]
    /\ revokedFor = [t \in Tokens |-> 0]
    /\ cache = [t \in Tokens |-> None]
    /\ at = [r \in Requests |-> "new"]
    /\ token = [r \in Requests |-> None]
    /\ said = [r \in Requests |-> FALSE]
    /\ transit = [r \in Requests |-> None]
    /\ verdict = [r \in Requests |-> "none"]

--------------------------------------------------------------------------------
(* The identity provider, and time *)

Revoke(t) ==
    /\ active[t]
    /\ active' = [active EXCEPT ![t] = FALSE]
    /\ UNCHANGED <<left, good, revokedFor, cache, requests>>

\* An entry is gone when its time to live is over.
Aged(e) == IF e = None \/ e.ttl <= 1 THEN None ELSE [e EXCEPT !.ttl = @ - 1]

Tick ==
    /\ \A r \in Requests : transit[r] # FlightTime   \* bound: the call ends before that
    /\ transit' = [r \in Requests |-> IF transit[r] = None THEN None ELSE transit[r] + 1]
    /\ left' = [t \in Tokens |-> IF left[t] = 0 THEN 0 ELSE left[t] - 1]
    /\ revokedFor' = [t \in Tokens |->
          IF active[t] THEN 0 ELSE Least(revokedFor[t] + 1, LongAgo)]
    /\ cache' = [t \in Tokens |-> Aged(cache[t])]
    /\ UNCHANGED <<active, good, at, token, said, verdict>>

--------------------------------------------------------------------------------
(* verify_token *)

GoTo(r, place) == at' = [at EXCEPT ![r] = place]

End(r, how) ==
    /\ GoTo(r, "over")
    /\ verdict' = [verdict EXCEPT ![r] = how]
    /\ transit' = [transit EXCEPT ![r] = None]

Acceptable(t, is_active) == is_active /\ good[t] /\ left[t] > 0

Decide(r, is_active) ==
    End(r, IF Acceptable(token[r], is_active) THEN "accepted" ELSE "rejected")

Ask(r) ==
    /\ at[r] = "new"
    /\ \E t \in Tokens : token' = [token EXCEPT ![r] = t]
    /\ GoTo(r, "looking")
    /\ UNCHANGED <<tokens, cache, said, transit, verdict>>

\* Mistake: A hit renews the entry.
HitRenews(r) ==
    /\ at[r] = "looking"
    /\ cache[token[r]] # None
    /\ Decide(r, cache[token[r]].active)
    /\ cache' = [cache EXCEPT ![token[r]].ttl = CacheTtl]
    /\ UNCHANGED <<tokens, token, said>>

\* _from_cache: a hit decides at once.
Hit(r) ==
    /\ at[r] = "looking"
    /\ cache[token[r]] # None
    /\ Decide(r, cache[token[r]].active)
    /\ UNCHANGED <<tokens, cache, token, said>>

\* A miss, or a Redis that doesn't answer.
Miss(r) ==
    /\ at[r] = "looking"
    /\ cache[token[r]] = None \/ "redis" \in Faults
    /\ GoTo(r, "asking")
    /\ UNCHANGED <<tokens, cache, token, said, transit, verdict>>

\* The provider answers, with what is the case at this moment.
Serve(r) ==
    /\ at[r] = "asking"
    /\ said' = [said EXCEPT ![r] = active[token[r]] /\ left[token[r]] > 0]
    /\ transit' = [transit EXCEPT ![r] = 0]
    /\ GoTo(r, "answered")
    /\ UNCHANGED <<tokens, cache, token, verdict>>

\* How long the answer is remembered; not at all if the token expires now.
Ttl(r) == IF said[r] THEN Least(CacheTtl, left[token[r]]) ELSE NegativeTtl

\* _introspect stores the answer.
Store(r) ==
    /\ at[r] = "answered"
    /\ cache' = IF Ttl(r) > 0
                THEN [cache EXCEPT ![token[r]] = [active |-> said[r], ttl |-> Ttl(r)]]
                ELSE cache
    /\ GoTo(r, "stored")
    /\ UNCHANGED <<tokens, token, said, transit, verdict>>

\* Redis doesn't answer: nothing is stored.
StoreLost(r) ==
    /\ "redis" \in Faults
    /\ at[r] = "answered"
    /\ GoTo(r, "stored")
    /\ UNCHANGED <<tokens, cache, token, said, transit, verdict>>

\* verify_token decides on what _introspect returns.
Conclude(r) ==
    /\ at[r] = "stored"
    /\ Decide(r, said[r])
    /\ UNCHANGED <<tokens, cache, token, said>>

\* The provider is down, or its answer never arrives: no, and nothing is stored.
Fail(r) ==
    /\ "down" \in Faults
    /\ at[r] \in {"asking", "answered"}
    /\ End(r, "error")
    /\ UNCHANGED <<tokens, cache, token, said>>

Cancel(r) ==
    /\ "cancel" \in Faults
    /\ at[r] \in {"looking", "asking", "answered", "stored"}
    /\ End(r, "cancelled")
    /\ UNCHANGED <<tokens, cache, token, said>>

Leave(r) ==
    /\ at[r] = "over"
    /\ GoTo(r, "new")
    /\ token' = [token EXCEPT ![r] = None]
    /\ said' = [said EXCEPT ![r] = FALSE]
    /\ verdict' = [verdict EXCEPT ![r] = "none"]
    /\ UNCHANGED <<tokens, cache, transit>>

--------------------------------------------------------------------------------

Verify(r) == Hit(r) \/ Miss(r) \/ Serve(r) \/ Store(r) \/ StoreLost(r) \/ Conclude(r) \/ Fail(r)

Next ==
    \/ \E t \in Tokens : Revoke(t)
    \/ Tick
    \/ \E r \in Requests : Ask(r) \/ Verify(r) \/ Cancel(r) \/ Leave(r)

Spec == Init /\ [][Next]_vars

\* The calls to Redis and to the provider time out.
FairVerify(r) == WF_vars(Verify(r))

--------------------------------------------------------------------------------
(* Properties *)

TypeOK ==
    /\ left \in [Tokens -> 0 .. Lifetime]
    /\ active \in [Tokens -> BOOLEAN]
    /\ good \in [Tokens -> BOOLEAN]
    /\ revokedFor \in [Tokens -> 0 .. LongAgo]
    /\ cache \in [Tokens -> Entries \cup {None}]
    /\ at \in [Requests -> Places]
    /\ token \in [Requests -> Tokens \cup {None}]
    /\ said \in [Requests -> BOOLEAN]
    /\ transit \in [Requests -> 0 .. FlightTime \cup {None}]
    /\ verdict \in [Requests -> Verdicts]

Ends(r, how) == at[r] # "over" /\ at'[r] = "over" /\ verdict'[r] = how

(* A token is accepted "never past the token's expiry" (README), however long the
   answer was in transit or in the cache; and "revocation takes effect at the
   provider's own pace": a revoked token is accepted for at most the cache's time
   to live and one call to the provider, also when a slow request stores an answer
   from before the revocation over one from after it. *)
RevocationTakesEffect ==
    [][\A r \in Requests, t \in Tokens : (Ends(r, "accepted") /\ token[r] = t) =>
          left[t] > 0 /\ revokedFor[t] <= CacheTtl + FlightTime]_vars

\* Every request is decided in the end.
EveryVerifyEnds == \A r \in Requests : at[r] = "looking" ~> at[r] = "over"
================================================================================
