------------------------------- MODULE LruMap -------------------------------
(***************************************************************************)
(* LruMap (src/src/utils/lru.ts): a JavaScript Map that evicts its oldest  *)
(* entry when it grows past maxSize.  A map is the sequence of its entries *)
(* <<key, value>> in the order a Map iterates over them.                   *)
(***************************************************************************)
EXTENDS Naturals, Sequences

CONSTANTS
    Undefined,      \* JavaScript's undefined
    EmptyString     \* '', the one key that is falsy

HasKey(map, key) == \E i \in DOMAIN map : map[i][1] = key

IndexOf(map, key) == CHOOSE i \in DOMAIN map : map[i][1] = key

\* What super.get returns.
Lookup(map, key) ==
    IF HasKey(map, key) THEN map[IndexOf(map, key)][2] ELSE Undefined

\* delete(key); super.set(key, value), for the entry at i.
MoveToEnd(map, i) ==
    [j \in 1 .. Len(map) |->
        IF j < i THEN map[j] ELSE IF j < Len(map) THEN map[j + 1] ELSE map[i]]

\* Mutated form: get is not overridden.
LruGetPlain(map, key) == map

\* The map after get(key); the call returns Lookup(map, key).
LruGet(map, key) ==
    IF Lookup(map, key) # Undefined
    THEN MoveToEnd(map, IndexOf(map, key))
    ELSE map

\* super.set: an entry that exists keeps its place.
Put(map, key, value) ==
    IF HasKey(map, key)
    THEN [map EXCEPT ![IndexOf(map, key)] = <<key, value>>]
    ELSE Append(map, <<key, value>>)

\* Mutated form: an off-by-one in the size check.
LruSetLate(map, key, value, maxSize) ==
    LET full == Put(map, key, value)
    IN  IF maxSize # 0 /\ Len(full) > maxSize + 1
        THEN Tail(full)
        ELSE full

\* The map after set(key, value).
LruSet(map, key, value, maxSize) ==
    LET full == Put(map, key, value)
    IN  IF maxSize # 0 /\ Len(full) > maxSize /\ full[1][1] # EmptyString
        THEN Tail(full)
        ELSE full
=============================================================================
