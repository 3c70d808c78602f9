-------------------------------- MODULE Maps --------------------------------
(***************************************************************************)
(* A JavaScript Map (or a Go map, or a directory of files) as a TLA+       *)
(* function whose DOMAIN is the set of keys present.                       *)
(***************************************************************************)

\* m maps some of the keys in K to values in V.
IsMap(m, K, V) == DOMAIN m \subseteq K /\ m \in [DOMAIN m -> V]

\* The map with no keys.
EmptyMap == [k \in {} |-> k]

\* m.set(k, v).
Put(m, k, v) == [x \in DOMAIN m \cup {k} |-> IF x = k THEN v ELSE m[x]]

\* m.delete(k) for every k in S.
Without(m, S) == [x \in DOMAIN m \ S |-> m[x]]

=============================================================================
