------------------------------ MODULE FreshLookup ------------------------------
(***************************************************************************)
(* What the metadata cache promises to the code that asks it, with no     *)
(* cache in sight.  The documentation states it as "access is effective   *)
(* immediately": a lookup may race with a change, but once a change has   *)
(* been announced no lookup that begins afterwards may miss it.           *)
(*                                                                        *)
(* Data is a version number: truth[k] is how many times the answer to k   *)
(* has been changed in Postgres.  announced[k] is the newest of those     *)
(* changes that an admin request has finished announcing.                 *)
(***************************************************************************)
EXTENDS Naturals

CONSTANTS Readers, Keys, MaxChanges

VARIABLES truth, announced, lookup

avars == <<truth, announced, lookup>>

Idle == [state |-> "idle"]
Asked(k, low) == [state |-> "asked", key |-> k, floor |-> low]
Answered(k, low, v) == [state |-> "answered", key |-> k, floor |-> low, val |-> v]

AInit ==
    /\ truth = [k \in Keys |-> 0]
    /\ announced = [k \in Keys |-> 0]
    /\ lookup = [r \in Readers |-> Idle]

AChange ==
    /\ \E ks \in SUBSET Keys :
          truth' = [k \in Keys |-> IF k \in ks THEN truth[k] + 1 ELSE truth[k]]
    /\ UNCHANGED <<announced, lookup>>

\* Announcing covers every change up to some point: the level only rises.
AAnnounce ==
    /\ \E upto \in [Keys -> 0 .. MaxChanges] :
          /\ \A k \in Keys : announced[k] <= upto[k] /\ upto[k] <= truth[k]
          /\ announced' = upto
    /\ UNCHANGED <<truth, lookup>>

AAsk(r) ==
    /\ lookup[r].state # "asked"
    /\ \E k \in Keys : lookup' = [lookup EXCEPT ![r] = Asked(k, announced[k])]
    /\ UNCHANGED <<truth, announced>>

\* The answer was true at some moment, and misses nothing announced by the
\* time the question was asked.
AAnswer(r) ==
    /\ lookup[r].state = "asked"
    /\ LET k == lookup[r].key
           low == lookup[r].floor
       IN  \E v \in low .. truth[k] :
              lookup' = [lookup EXCEPT ![r] = Answered(k, low, v)]
    /\ UNCHANGED <<truth, announced>>

AGiveUp(r) ==
    /\ lookup[r].state = "asked"
    /\ lookup' = [lookup EXCEPT ![r] = Idle]
    /\ UNCHANGED <<truth, announced>>

ANext ==
    \/ AChange
    \/ AAnnounce
    \/ \E r \in Readers : AAsk(r) \/ AAnswer(r) \/ AGiveUp(r)

ASpec == AInit /\ [][ANext]_avars
================================================================================
