------------------------------ MODULE JwtVerifier ------------------------------
(***************************************************************************)
(* Local verification of signed access tokens (auth/token_verifier.py): a *)
(* process keeps the provider's signing keys and fetches them again when  *)
(* they are too old or a token names a key it does not have, under one    *)
(* asyncio lock, while the provider publishes and withdraws keys.         *)
(*                                                                        *)
(* Time is counted in ticks and every counter stops one past the last     *)
(* value anything compares it with.                                       *)
(***************************************************************************)
EXTENDS VerifierSettings

VARIABLES
    published,  \* the provider: the keys it publishes
    since,      \* history: since[k], ticks since k was published or withdrawn
    quiet,      \* history: ticks since a fetch last brought any key
    _keys,      \* the process: the keys it has
    age,        \* the process: ticks since _fetched_at
    url_known,  \* the process: _jwks_url is set, by the settings or by discovery
    _lock,      \* the process: the request that holds the lock, or None
    flight,     \* ticks since the provider answered a fetch in flight, or None
    answer,     \* what it answered
    at,         \* per request: where it is
    kid,        \* per request: the key id in its token's header, or None
    verdict     \* per request: how it ended

provider == <<published, since>>
fetching == <<flight, answer>>
vars == <<provider, quiet, _keys, age, url_known, _lock, fetching, at, kid, verdict>>

Places == {"new", "waiting", "discovering", "fetching", "over"}
Verdicts == {"accepted", "unknown_key", "rejected", "none"}
OldAge == MaxAge + 1
LongAgo == MaxAge + FlightTime + 1

Init ==
    /\ published \in SUBSET Kids
    /\ since = [k \in Kids |-> LongAgo]
    /\ quiet = MinRefetch
    /\ _keys = {}
    /\ age \in {0, OldAge}      \* the monotonic clock may have started recently
    /\ url_known \in BOOLEAN
    /\ _lock = None
    /\ flight = None
    /\ answer = {}
    /\ at = [r \in Requests |-> "new"]
    /\ kid = [r \in Requests |-> None]
    /\ verdict = [r \in Requests |-> "none"]

--------------------------------------------------------------------------------
(* The identity provider, and time *)

\* A key is published, or withdrawn because it was replaced or leaked.
Rotate(k) ==
    /\ published' = IF k \in published THEN published \ {k} ELSE published \cup {k}
    /\ since' = [since EXCEPT ![k] = 0]
    /\ UNCHANGED <<quiet, _keys, age, url_known, _lock, fetching, at, kid, verdict>>

Up(n, limit) == IF n < limit THEN n + 1 ELSE n

Tick ==
    /\ flight # FlightTime      \* bound: the answer arrives before that
    /\ flight' = IF flight = None THEN None ELSE flight + 1
    /\ since' = [k \in Kids |-> Up(since[k], LongAgo)]
    /\ age' = Up(age, OldAge)
    /\ quiet' = Up(quiet, MinRefetch)
    /\ UNCHANGED <<published, _keys, url_known, _lock, answer, at, kid, verdict>>

--------------------------------------------------------------------------------
(* verify_token and _key_for *)

\* Mistake: A key that is in use is never refreshed.
FreshForever(k) == k \in _keys

\* The key is there and not too old.
Fresh(k) == k \in _keys /\ age <= MaxAge

End(r, how) ==
    /\ at' = [at EXCEPT ![r] = "over"]
    /\ verdict' = [verdict EXCEPT ![r] = how]

\* What is decided once _key_for has returned what these keys hold: with the key,
\* jwt.decode finds signature and claims in order, or does not.
Decide(r, k, keys) ==
    IF k \in keys THEN End(r, "accepted") \/ End(r, "rejected") ELSE End(r, "unknown_key")

\* Up to the lock there is no await.
Ask(r) ==
    /\ at[r] = "new"
    /\ \E k \in Kids \cup {None} :
          /\ kid' = [kid EXCEPT ![r] = k]
          /\ IF k = None \/ Fresh(k) THEN Decide(r, k, _keys)
             ELSE at' = [at EXCEPT ![r] = "waiting"] /\ UNCHANGED verdict
    /\ UNCHANGED <<provider, quiet, _keys, age, url_known, _lock, fetching>>

\* Mistake: Keys are fetched once, and again only when they are too old.
MayFetchOnce == age > MaxAge \/ _keys = {}

MayFetch == age >= MinRefetch \/ _keys = {}

\* With the lock, look again: someone else may have fetched the keys meanwhile.
Enter(r) ==
    /\ at[r] = "waiting"
    /\ _lock = None
    /\ \/ /\ Fresh(kid[r]) \/ ~MayFetch
          /\ Decide(r, kid[r], _keys)
          /\ UNCHANGED _lock
       \/ /\ ~Fresh(kid[r]) /\ MayFetch
          /\ at' = [at EXCEPT ![r] = IF url_known THEN "fetching" ELSE "discovering"]
          /\ _lock' = r
          /\ UNCHANGED verdict
    /\ UNCHANGED <<provider, quiet, _keys, age, url_known, fetching, kid>>

--------------------------------------------------------------------------------
(* _refresh_keys *)

Discover(r) ==
    /\ at[r] = "discovering"
    /\ at' = [at EXCEPT ![r] = "fetching"]
    /\ url_known' = TRUE
    /\ UNCHANGED <<provider, quiet, _keys, age, _lock, fetching, kid, verdict>>

\* The provider answers with what it publishes at this moment.
Serve(r) ==
    /\ at[r] = "fetching"
    /\ flight = None
    /\ flight' = 0
    /\ answer' = published
    /\ UNCHANGED <<provider, quiet, _keys, age, url_known, _lock, at, kid, verdict>>

\* Mistake: Keys that turn out to be the same do not count as fetched.
ArriveChanged(r) ==
    /\ at[r] = "fetching"
    /\ flight # None
    /\ _keys' = answer
    /\ age' = IF answer = _keys THEN age ELSE 0
    /\ quiet' = IF answer = {} THEN quiet ELSE 0
    /\ flight' = None
    /\ answer' = {}
    /\ _lock' = None
    /\ Decide(r, kid[r], answer)
    /\ UNCHANGED <<provider, url_known, kid>>

Arrive(r) ==
    /\ at[r] = "fetching"
    /\ flight # None
    /\ _keys' = answer
    /\ age' = 0
    /\ quiet' = IF answer = {} THEN quiet ELSE 0
    /\ flight' = None
    /\ answer' = {}
    /\ _lock' = None
    /\ Decide(r, kid[r], answer)
    /\ UNCHANGED <<provider, url_known, kid>>

\* The request to the provider raises or is cancelled: nothing was learned.
GiveUp(r) ==
    /\ flight' = None
    /\ answer' = {}
    /\ _lock' = None
    /\ End(r, "rejected")
    /\ UNCHANGED <<provider, quiet, _keys, age, url_known, kid>>

Fail(r) ==
    /\ "down" \in Faults
    /\ at[r] \in {"discovering", "fetching"}
    /\ GiveUp(r)

\* Mistake: A cancelled request keeps the lock.
CancelKeepsLock(r) ==
    /\ "cancel" \in Faults
    /\ at[r] \in {"discovering", "fetching"}
    /\ flight' = None
    /\ answer' = {}
    /\ End(r, "rejected")
    /\ UNCHANGED <<provider, quiet, _keys, age, url_known, _lock, kid>>

Cancel(r) ==
    /\ "cancel" \in Faults
    /\ \/ at[r] \in {"discovering", "fetching"} /\ GiveUp(r)
       \/ /\ at[r] = "waiting" /\ End(r, "rejected")
          /\ UNCHANGED <<provider, quiet, _keys, age, url_known, _lock, fetching, kid>>

\* The request is over, and the next one comes.
Leave(r) ==
    /\ at[r] = "over"
    /\ at' = [at EXCEPT ![r] = "new"]
    /\ kid' = [kid EXCEPT ![r] = None]
    /\ verdict' = [verdict EXCEPT ![r] = "none"]
    /\ UNCHANGED <<provider, quiet, _keys, age, url_known, _lock, fetching>>

--------------------------------------------------------------------------------

Verify(r) == Enter(r) \/ Discover(r) \/ Serve(r) \/ Arrive(r) \/ Fail(r)

Next ==
    \/ \E k \in Kids : Rotate(k)
    \/ Tick
    \/ \E r \in Requests : Ask(r) \/ Verify(r) \/ Cancel(r) \/ Leave(r)

Spec == Init /\ [][Next]_vars

\* The HTTP client times out, so a fetch ends; asyncio.Lock serves its waiters in
\* the order in which they came, so none is passed over for ever.
FairVerify(r) ==
    /\ WF_vars(Discover(r) \/ Serve(r) \/ Arrive(r) \/ Fail(r))
    /\ SF_vars(Enter(r))

--------------------------------------------------------------------------------
(* Properties *)

TypeOK ==
    /\ published \subseteq Kids
    /\ since \in [Kids -> 0 .. LongAgo]
    /\ quiet \in 0 .. MinRefetch
    /\ _keys \subseteq Kids
    /\ age \in 0 .. OldAge
    /\ url_known \in BOOLEAN
    /\ _lock \in Requests \cup {None}
    /\ flight \in 0 .. FlightTime \cup {None}
    /\ answer \subseteq Kids
    /\ at \in [Requests -> Places]
    /\ kid \in [Requests -> Kids \cup {None}]
    /\ verdict \in [Requests -> Verdicts]

\* r is told how it ends in this step.
Ends(r, how) == at[r] # "over" /\ at'[r] = "over" /\ verdict'[r] = how

(* A token signed with a key the provider has withdrawn is accepted for at most
   JWKS_MAX_AGE_S and the flight time of one fetch: neither a fetch that was in
   flight, nor waiting for the lock, nor an outage of the provider adds to it. *)
WithdrawnKeysExpire ==
    [][\A r \in Requests, k \in Kids : (Ends(r, "accepted") /\ kid'[r] = k) =>
          k \in published \/ since[k] <= MaxAge + FlightTime]_vars

(* A key the provider has begun to publish is known everywhere after the refetch
   interval and one flight time: unless the provider fails, no token signed with
   it is turned away after that. *)
NewKeysArePickedUp ==
    [][\A r \in Requests, k \in Kids : (Ends(r, "unknown_key") /\ kid'[r] = k) =>
          k \notin published \/ since[k] <= MinRefetch + FlightTime]_vars

(* "Don't let a stream of tokens with made-up key ids turn into a stream of
   requests to the identity provider" (:36): a fetch that brought keys is not
   followed by another one for MinRefetch ticks, however many requests wait. *)
RefetchesAreSpaced ==
    [][\A r \in Requests : (_lock = None /\ _lock' = r /\ _keys # {}) => quiet >= MinRefetch]_vars

(* Every token is accepted or rejected in the end: no way out keeps the lock. *)
EveryVerifyEnds == \A r \in Requests : at[r] = "waiting" ~> at[r] = "over"

\* k is held, or missing, as the provider last had it at most that long ago.
AsOf(keys, k, ticks) == (k \in keys <=> k \in published) \/ since[k] <= ticks

\* Why both hold: what the process has, or is about to have, is what was published
\* when the provider answered.  Before the first fetch it has nothing.
KeysInv ==
    /\ \A k \in Kids : _keys # {} => AsOf(_keys, k, age + FlightTime)
    /\ flight # None => \A k \in Kids : AsOf(answer, k, flight)
================================================================================
