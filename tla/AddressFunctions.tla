--------------------------- MODULE AddressFunctions ---------------------------
(***************************************************************************)
(* What isAddress, checksumAddress and getAddress promise, caches aside:   *)
(* a caller gets what the function computes, whatever was asked before.    *)
(* Their caches are remembered only as a least-recently-used policy: the   *)
(* last MaxSize distinct keys looked up, least recent first.               *)
(***************************************************************************)
EXTENDS Naturals, Sequences, SequencesExt

CONSTANTS
    Addresses,      \* strings given as addresses
    WellFormed,     \* those addressRegex matches
    LowerCase,      \* toLowerCase, as a function on Addresses
    ChainIds,       \* chain ids, undefined included
    MaxSize         \* entries a cache holds

VARIABLES
    validRecent,    \* keys <<address, strict>> of isAddress looked up
    sumRecent,      \* keys <<address, chainId>> of checksumAddress looked up
    reply           \* what the last call was and what its caller got

IsValid(a, strict) == a \in WellFormed /\ (strict => LowerCase[a] = a)

Touch(keys, key) ==
    LET moved == Append(RemoveFirst(keys, key), key)
    IN  IF Len(moved) > MaxSize THEN Tail(moved) ELSE moved

Init == validRecent = <<>> /\ sumRecent = <<>> /\ reply = <<>>

IsAddress(a, strict) ==
    /\ validRecent' = Touch(validRecent, <<a, strict>>)
    /\ reply' = <<"isAddress", a, strict, IsValid(a, strict)>>
    /\ UNCHANGED sumRecent

ChecksumAddress(a, chainId) ==
    /\ sumRecent' = Touch(sumRecent, <<a, chainId>>)
    /\ reply' = <<"checksumAddress", a, chainId, LowerCase[a]>>
    /\ UNCHANGED validRecent

GetAddress(a, chainId) ==
    /\ validRecent' = Touch(validRecent, <<a, FALSE>>)
    /\ IF IsValid(a, FALSE)
       THEN /\ sumRecent' = Touch(sumRecent, <<a, chainId>>)
            /\ reply' = <<"getAddress", a, chainId, LowerCase[a]>>
       ELSE /\ reply' = <<"getAddress", a, chainId, "InvalidAddressError">>
            /\ UNCHANGED sumRecent

Next ==
    \E a \in Addresses :
        \/ \E strict \in BOOLEAN : IsAddress(a, strict)
        \/ \E chainId \in ChainIds :
            ChecksumAddress(a, chainId) \/ GetAddress(a, chainId)

Spec == Init /\ [][Next]_<<validRecent, sumRecent, reply>>
=============================================================================
