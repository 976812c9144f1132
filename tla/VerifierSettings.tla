---------------------------- MODULE VerifierSettings ----------------------------
(***************************************************************************)
(* What both token verifiers are given: the requests they serve, the keys *)
(* and tokens there are, and the durations of the settings (config.py)    *)
(* and of the verifiers' own constants, counted in ticks.                 *)
(***************************************************************************)
EXTENDS Naturals

CONSTANTS
    Requests,      \* requests in progress at once, each with a token
    Kids,          \* the key ids tokens name
    MaxAge,        \* JWKS_MAX_AGE_S
    MinRefetch,    \* MIN_JWKS_REFETCH_INTERVAL_S
    Tokens,        \* the opaque tokens
    Lifetime,      \* ticks until the tokens expire
    CacheTtl,      \* token_cache_ttl_s
    NegativeTtl,   \* NEGATIVE_TTL_S
    FlightTime,    \* ticks between the provider's answer and its arrival, at most
    Faults,        \* which happen: "down" (the provider), "redis" (a call to it), "cancel"
    None

JwtAssumption ==
    /\ MaxAge \in Nat /\ MinRefetch \in Nat /\ FlightTime \in Nat
    /\ MinRefetch <= MaxAge
    /\ None \notin Kids /\ None \notin Requests
    /\ None \notin Nat

IntrospectionAssumption ==
    /\ Lifetime \in Nat /\ FlightTime \in Nat
    /\ CacheTtl \in Nat \ {0} /\ NegativeTtl \in Nat \ {0}
    /\ None \notin Nat /\ None \notin Tokens

ASSUME JwtAssumption
ASSUME IntrospectionAssumption
================================================================================
