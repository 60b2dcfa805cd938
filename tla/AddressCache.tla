---------------------------- MODULE AddressCache ----------------------------
(***************************************************************************)
(* isAddress, checksumAddress and getAddress with their module-level       *)
(* caches (src/src/utils/address/isAddress.ts and getAddress.ts), shared   *)
(* by every caller in the process.  Each call is one step: the functions   *)
(* have no await.                                                          *)
(***************************************************************************)
EXTENDS LruMap

CONSTANTS
    Addresses,      \* strings given as addresses
    WellFormed,     \* those addressRegex matches
    LowerCase,      \* toLowerCase, as a function on Addresses
    ChainIds,       \* chain ids, Undefined included
    MaxSize         \* the size both caches are made with (8192)

ASSUME AddressAssumption ==
    /\ WellFormed \subseteq Addresses
    /\ LowerCase \in [Addresses -> Addresses]
    /\ \A a \in Addresses :
        /\ LowerCase[LowerCase[a]] = LowerCase[a]
        /\ a \in WellFormed => LowerCase[a] \in WellFormed
    /\ MaxSize \in Nat \ {0}
    /\ Undefined \notin BOOLEAN \cup Addresses
    /\ EmptyString \notin (Addresses \X BOOLEAN) \cup (Addresses \X ChainIds)

VARIABLES
    isAddressCache,         \* <<address, strict>> -> is it an address
    checksumAddressCache,   \* <<address, chainId>> -> its normal form
    reply                   \* what the last call was and what it returned

vars == <<isAddressCache, checksumAddressCache, reply>>

Init == isAddressCache = <<>> /\ checksumAddressCache = <<>> /\ reply = <<>>

\* Mutated form: strict is left out of the key.
CacheKeyLoose(a, strict) == <<a, FALSE>>

\* `${address}.${strict}`
CacheKey(a, strict) == <<a, strict>>

\* The function literal in isAddress.
ComputeIsAddress(a, strict) ==
    /\ a \in WellFormed
    /\ \/ LowerCase[a] = a
       \/ strict /\ a = LowerCase[a]
       \/ ~strict

\* isAddress returns IsAddressResult and leaves the cache IsAddressEffect.
IsAddressResult(a, strict) ==
    LET key == CacheKey(a, strict)
    IN  IF HasKey(isAddressCache, key)
        THEN Lookup(isAddressCache, key)
        ELSE ComputeIsAddress(a, strict)

IsAddressEffect(a, strict) ==
    LET key == CacheKey(a, strict)
    IN  IF HasKey(isAddressCache, key)
        THEN LruGet(isAddressCache, key)
        ELSE LruSet(isAddressCache, key, ComputeIsAddress(a, strict), MaxSize)

\* checksumAddress returns ChecksumResult and leaves the cache ChecksumEffect.
ChecksumResult(a, chainId) ==
    LET key == <<a, chainId>>
    IN  IF HasKey(checksumAddressCache, key)
        THEN Lookup(checksumAddressCache, key)
        ELSE LowerCase[a]

ChecksumEffect(a, chainId) ==
    LET key == <<a, chainId>>
    IN  IF HasKey(checksumAddressCache, key)
        THEN LruGet(checksumAddressCache, key)
        ELSE LruSet(checksumAddressCache, key, LowerCase[a], MaxSize)

IsAddress(a, strict) ==
    /\ isAddressCache' = IsAddressEffect(a, strict)
    /\ reply' = <<"isAddress", a, strict, IsAddressResult(a, strict)>>
    /\ UNCHANGED checksumAddressCache

ChecksumAddress(a, chainId) ==
    /\ checksumAddressCache' = ChecksumEffect(a, chainId)
    /\ reply' = <<"checksumAddress", a, chainId, ChecksumResult(a, chainId)>>
    /\ UNCHANGED isAddressCache

GetAddress(a, chainId) ==
    /\ isAddressCache' = IsAddressEffect(a, FALSE)
    /\ IF IsAddressResult(a, FALSE)
       THEN /\ checksumAddressCache' = ChecksumEffect(a, chainId)
            /\ reply' = <<"getAddress", a, chainId, ChecksumResult(a, chainId)>>
       ELSE /\ reply' = <<"getAddress", a, chainId, "InvalidAddressError">>
            /\ UNCHANGED checksumAddressCache

Next ==
    \E a \in Addresses :
        \/ \E strict \in BOOLEAN : IsAddress(a, strict)
        \/ \E chainId \in ChainIds :
            ChecksumAddress(a, chainId) \/ GetAddress(a, chainId)

Spec == Init /\ [][Next]_vars
-----------------------------------------------------------------------------
(***************************************************************************)
(* Properties.                                                             *)
(***************************************************************************)
DistinctKeys(map) ==
    \A i, j \in DOMAIN map : map[i][1] = map[j][1] => i = j

(***************************************************************************)
(* The caches stay within the size they were made with, with no key twice, *)
(* however many different addresses the process meets.                     *)
(***************************************************************************)
CachesBounded ==
    /\ Len(isAddressCache) <= MaxSize
    /\ Len(checksumAddressCache) <= MaxSize
    /\ DistinctKeys(isAddressCache)
    /\ DistinctKeys(checksumAddressCache)

(***************************************************************************)
(* What a cache holds for a key is what the function computes for it, so a *)
(* hit and a miss cannot be told apart.                                    *)
(***************************************************************************)
MemoIsCorrect ==
    /\ \A i \in DOMAIN isAddressCache :
        \E a \in Addresses, strict \in BOOLEAN :
            isAddressCache[i] = <<<<a, strict>>, ComputeIsAddress(a, strict)>>
    /\ \A i \in DOMAIN checksumAddressCache :
        \E a \in Addresses, chainId \in ChainIds :
            checksumAddressCache[i] = <<<<a, chainId>>, LowerCase[a]>>

(***************************************************************************)
(* The functions are the pure ones AddressFunctions states, and the caches *)
(* hold the keys looked up most recently: the policy LruMap is named for.  *)
(***************************************************************************)
Keys(map) == [i \in DOMAIN map |-> map[i][1]]

Functions == INSTANCE AddressFunctions WITH
    validRecent <- Keys(isAddressCache),
    sumRecent <- Keys(checksumAddressCache)

ImplementsFunctions == Functions!Spec
=============================================================================
