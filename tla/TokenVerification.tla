--------------------------- MODULE TokenVerification ---------------------------
(***************************************************************************)
(* How the server verifies the access token of every HTTP request: with   *)
(* the verifier its settings ask for (build_token_verifier).  Either one  *)
(* fails closed; they differ in how long an answer may be out of date.    *)
(***************************************************************************)
EXTENDS VerifierSettings

VARIABLES
    mode,       \* token_verification, from the settings
    \* of both verifiers
    at, verdict,
    \* of JwtVerifier
    published, since, quiet, _keys, age, url_known, _lock, flight, answer, kid,
    \* of IntrospectionVerifier
    left, active, good, revokedFor, cache, token, said, transit

Jwt == INSTANCE JwtVerifier
Opaque == INSTANCE IntrospectionVerifier

jwt == <<published, since, quiet, _keys, age, url_known, _lock, flight, answer, kid>>
opaque == <<left, active, good, revokedFor, cache, token, said, transit>>
vars == <<mode, at, verdict, jwt, opaque>>

Init ==
    /\ mode \in {"jwt", "introspection"}
    /\ Jwt!Init
    /\ Opaque!Init
    \* The verifier that is not built stays as it is: one state of it is enough.
    /\ mode = "introspection" => published = {} /\ age = 0 /\ url_known
    /\ mode = "jwt" => \A t \in Tokens : good[t]

Next ==
    \/ mode = "jwt" /\ Jwt!Next /\ UNCHANGED <<mode, opaque>>
    \/ mode = "introspection" /\ Opaque!Next /\ UNCHANGED <<mode, jwt>>

Spec == Init /\ [][Next]_vars

FairSpec == Spec /\ \A r \in Requests : Jwt!FairVerify(r) /\ Opaque!FairVerify(r)

--------------------------------------------------------------------------------
(* Properties *)

(* A withdrawn signing key is good for JWKS_MAX_AGE_S and one flight time more. *)
WithdrawnKeysExpire == Jwt!WithdrawnKeysExpire

(* A new signing key is known after the refetch interval and one flight time. *)
NewKeysArePickedUp == Jwt!NewKeysArePickedUp

(* "Refetch the key set at most this often" (token_verifier.py:37), as long as
   the fetches succeed. *)
RefetchesAreSpaced == Jwt!RefetchesAreSpaced

(* A token is good until it expires, and once it is revoked for the cache's time to
   live and one call more. *)
RevocationTakesEffect == Opaque!RevocationTakesEffect

(* Every token is accepted or rejected in the end, whatever fails on the way. *)
EveryVerifyEnds == Jwt!EveryVerifyEnds /\ Opaque!EveryVerifyEnds
================================================================================
