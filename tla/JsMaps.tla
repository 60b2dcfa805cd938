------------------------------- MODULE JsMaps -------------------------------
(***************************************************************************)
(* The operations of a JavaScript Map the code uses where the order of the *)
(* entries does not matter: a map is a function from its keys to its       *)
(* values.  (LruMap.tla models the one Map whose order matters.)           *)
(***************************************************************************)

EmptyMap == [key \in {} |-> key]

Has(map, key) == key \in DOMAIN map

\* map.set(key, value): adds the entry or overwrites it.
MapSet(map, key, value) ==
    [k \in DOMAIN map \cup {key} |-> IF k = key THEN value ELSE map[k]]

\* map.delete(key): no effect when the key is absent.
MapDelete(map, key) == [k \in DOMAIN map \ {key} |-> map[k]]

\* The map has its keys in Keys and its values in Values.
IsMap(map, Keys, Values) ==
    /\ DOMAIN map \subseteq Keys
    /\ \A k \in DOMAIN map : map[k] \in Values

MapValues(map) == {map[k] : k \in DOMAIN map}
=============================================================================
