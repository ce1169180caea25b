-------------------------- MODULE ExpirationMapMC --------------------------
(***************************************************************************)
(* Instances of ExpirationMap for TLC.                                     *)
(***************************************************************************)
EXTENDS ExpirationMap, TLC

CONSTANTS k1, k2, v1, v2

\* The embedded map has one entry, the other map has two.
InitialMaps == {1 :> (k1 :> v1) @@ 2 :> [k \in Keys |-> v2]}

\* MergeMap of a map with all keys.
AllOf == {[k \in Keys |-> v1]}

=============================================================================
