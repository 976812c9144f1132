------------------------------ MODULE MCMetaCache ------------------------------
(* Small instances of MetaCache for TLC. *)
EXTENDS MetaCache, TLC

CONSTANTS r1, r2, p1, p2, a1, a2, k1, k2

\* Two replicas with one lookup each; or one replica running both.
TwoReplicas == r1 :> p1 @@ r2 :> p2
OneReplica == r1 :> p1 @@ r2 :> p1

\* How long the entries of every key live.
OneTick == [k \in Keys |-> 1]
TwoTicks == [k \in Keys |-> 2]
================================================================================
