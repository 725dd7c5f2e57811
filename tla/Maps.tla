-------------------------------- MODULE Maps --------------------------------
(***************************************************************************)
(* Finite maps as functions: the operations of std::unordered_map that the *)
(* runtime uses.                                                           *)
(***************************************************************************)

EmptyMap == [k \in {} |-> {}]

\* m[key] = value
Put(m, key, value) ==
    [k \in DOMAIN m \cup {key} |-> IF k = key THEN value ELSE m[k]]

\* m.erase(key)
Erase(m, key) == [k \in DOMAIN m \ {key} |-> m[k]]

\* The maps from some of the elements of K to elements of V.
MapsOf(K, V) == UNION {[D -> V] : D \in SUBSET K}

=============================================================================
