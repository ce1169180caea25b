------------------------------- MODULE MapOps -------------------------------
(***************************************************************************)
(* What the methods of tools/collection/map.go do to the Go map they       *)
(* guard: a map is a function with a finite domain.                        *)
(***************************************************************************)
EmptyMap == [k \in {} |-> k]

\* All maps from some of the keys to the values.
MapsOf(Ks, Vs) == UNION {[D -> Vs] : D \in SUBSET Ks}

MapSet(m, k, v) == [x \in DOMAIN m \cup {k} |-> IF x = k THEN v ELSE m[x]]

MapHas(m, k) == k \in DOMAIN m

MapDelete(m, k) == [x \in DOMAIN m \ {k} |-> m[x]]

\* for k, v := range other { m[k] = v }
MapMerge(m, other) ==
    [x \in DOMAIN m \cup DOMAIN other |-> IF x \in DOMAIN other THEN other[x] ELSE m[x]]

=============================================================================
