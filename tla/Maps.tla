-------------------------------- MODULE Maps --------------------------------
(***************************************************************************)
(* Partial functions, standing for the JavaScript Map and Record values of *)
(* the source: DOMAIN m is the set of keys the map has.                    *)
(***************************************************************************)

\* The maps with keys in K and values in V; K and V finite where TLC uses it.
MapsOf(K, V) == UNION {[S -> V] : S \in SUBSET K}

\* m is one of them, without enumerating V.
IsMap(m, K, V) == DOMAIN m \subseteq K /\ m \in [DOMAIN m -> V]

\* The map without any entry (new Map()).
EmptyMap == [x \in {} |-> x]

\* m.set(k, v)
Put(m, k, v) == [x \in DOMAIN m \cup {k} |-> IF x = k THEN v ELSE m[x]]

\* m.set(k, v) for every k in S.
PutAll(m, S, v) == [x \in DOMAIN m \cup S |-> IF x \in S THEN v ELSE m[x]]

\* m.delete(k)
Drop(m, k) == [x \in DOMAIN m \ {k} |-> m[x]]

=============================================================================
