------------------------- MODULE AddressCache_proofs -------------------------
(***************************************************************************)
(* Theorems about AddressCache, for caches of any size and any addresses.  *)
(***************************************************************************)
EXTENDS AddressCache, TLAPS

(***************************************************************************)
(* Looking a key up: the entry found has that key.                         *)
(***************************************************************************)
LEMMA LookupFacts ==
    ASSUME NEW map, NEW key, HasKey(map, key)
    PROVE  /\ IndexOf(map, key) \in DOMAIN map
           /\ map[IndexOf(map, key)][1] = key
           /\ Lookup(map, key) = map[IndexOf(map, key)][2]
BY DEF HasKey, IndexOf, Lookup

(***************************************************************************)
(* A get permutes the entries.                                             *)
(***************************************************************************)
LEMMA LruGetFacts ==
    ASSUME NEW Entries, NEW map \in Seq(Entries), NEW key, HasKey(map, key),
           DistinctKeys(map)
    PROVE  /\ LruGet(map, key) \in Seq(Entries)
           /\ Len(LruGet(map, key)) = Len(map)
           /\ DistinctKeys(LruGet(map, key))
           /\ \A i \in DOMAIN LruGet(map, key) :
                \E j \in DOMAIN map : LruGet(map, key)[i] = map[j]
<1>1. PICK n \in DOMAIN map : n = IndexOf(map, key)
  BY LookupFacts
<1>2. CASE LruGet(map, key) = map
  BY <1>2
<1>3. CASE LruGet(map, key) = MoveToEnd(map, n)
  <2> DEFINE m == MoveToEnd(map, n)
             From(i) == IF i < n THEN i ELSE IF i < Len(map) THEN i + 1 ELSE n
  <2>1. /\ m \in Seq(Entries)
        /\ Len(m) = Len(map)
    BY DEF MoveToEnd
  <2>2. \A i \in DOMAIN m : From(i) \in DOMAIN map /\ m[i] = map[From(i)]
    BY DEF MoveToEnd
  <2>3. \A i, j \in DOMAIN m : From(i) = From(j) => i = j
    BY <2>1
  <2>4. DistinctKeys(m)
    <3> SUFFICES ASSUME NEW i \in DOMAIN m, NEW j \in DOMAIN m,
                        m[i][1] = m[j][1]
                 PROVE  i = j
      BY DEF DistinctKeys
    <3>1. From(i) = From(j)
      BY <2>2 DEF DistinctKeys
    <3> QED BY <2>3, <3>1
  <2> QED BY <1>3, <2>1, <2>2, <2>4
<1> QED BY <1>1, <1>2, <1>3 DEF LruGet

(***************************************************************************)
(* A set of a new key keeps the map within its size, and evicts no entry   *)
(* but the oldest.                                                         *)
(***************************************************************************)
LEMMA LruSetFacts ==
    ASSUME NEW Entries, NEW map \in Seq(Entries), NEW key, NEW value,
           <<key, value>> \in Entries,
           ~HasKey(map, key), DistinctKeys(map),
           NEW max \in Nat \ {0}, Len(map) <= max,
           \A e \in Entries : e[1] # EmptyString
    PROVE  LET m == LruSet(map, key, value, max)
           IN  /\ m \in Seq(Entries)
               /\ Len(m) <= max
               /\ DistinctKeys(m)
               /\ \A i \in DOMAIN m : \/ m[i] = <<key, value>>
                                      \/ \E j \in DOMAIN map : m[i] = map[j]
<1> DEFINE full == Append(map, <<key, value>>)
<1>1. /\ full \in Seq(Entries)
      /\ Len(full) = Len(map) + 1
      /\ full[Len(map) + 1] = <<key, value>>
      /\ \A i \in 1 .. Len(map) : full[i] = map[i]
      /\ DOMAIN full = 1 .. Len(map) + 1
      /\ DOMAIN map = 1 .. Len(map)
  OBVIOUS
<1>2. Put(map, key, value) = full
  BY DEF Put
<1>3. DistinctKeys(full)
  <2> SUFFICES ASSUME NEW i \in 1 .. Len(map) + 1,
                      NEW j \in 1 .. Len(map) + 1,
                      full[i][1] = full[j][1]
               PROVE  i = j
    BY <1>1 DEF DistinctKeys
  <2>1. \A p \in 1 .. Len(map) : map[p][1] # key
    BY DEF HasKey
  <2>2. CASE i = Len(map) + 1 \/ j = Len(map) + 1
    BY <1>1, <2>1, <2>2
  <2>3. CASE i \in 1 .. Len(map) /\ j \in 1 .. Len(map)
    BY <1>1, <2>3 DEF DistinctKeys
  <2> QED BY <2>2, <2>3
<1> HIDE DEF full
<1>4. CASE Len(full) > max
  <2>1. full[1][1] # EmptyString
    BY <1>1
  <2>2. LruSet(map, key, value, max) = Tail(full)
    BY <1>2, <1>4, <2>1 DEF LruSet
  <2>3. /\ Tail(full) \in Seq(Entries)
        /\ Len(Tail(full)) = Len(map)
        /\ DOMAIN Tail(full) = 1 .. Len(map)
        /\ \A i \in 1 .. Len(map) : Tail(full)[i] = full[i + 1]
    BY <1>1
  <2>4. DistinctKeys(Tail(full))
    <3> SUFFICES ASSUME NEW i \in 1 .. Len(map), NEW j \in 1 .. Len(map),
                        Tail(full)[i][1] = Tail(full)[j][1]
                 PROVE  i = j
      BY <2>3 DEF DistinctKeys
    <3>1. full[i + 1][1] = full[j + 1][1]
      BY <2>3
    <3>2. i + 1 \in DOMAIN full /\ j + 1 \in DOMAIN full
      BY <1>1
    <3>3. i + 1 = j + 1
      BY <1>3, <3>1, <3>2 DEF DistinctKeys
    <3> QED BY <3>3
  <2>5. \A i \in 1 .. Len(map) : \/ Tail(full)[i] = <<key, value>>
                                 \/ \E j \in DOMAIN map : Tail(full)[i] = map[j]
    <3> SUFFICES ASSUME NEW i \in 1 .. Len(map)
                 PROVE  \/ full[i + 1] = <<key, value>>
                        \/ \E j \in DOMAIN map : full[i + 1] = map[j]
      BY <2>3
    <3>1. CASE i = Len(map)
      BY <1>1, <3>1
    <3>2. CASE i + 1 \in 1 .. Len(map)
      BY <1>1, <3>2
    <3> QED BY <3>1, <3>2
  <2>6. Len(Tail(full)) <= max
    BY <2>3
  <2> QED BY <2>2, <2>3, <2>4, <2>5, <2>6
<1>5. CASE ~(Len(full) > max)
  <2>1. LruSet(map, key, value, max) = full
    BY <1>2, <1>5 DEF LruSet
  <2>2. \A i \in DOMAIN full : \/ full[i] = <<key, value>>
                               \/ \E j \in DOMAIN map : full[i] = map[j]
    BY <1>1
  <2>3. Len(full) <= max
    BY <1>1, <1>5
  <2>4. full \in Seq(Entries)
    BY <1>1
  <2> QED BY <1>3, <2>1, <2>2, <2>3, <2>4
<1> QED BY <1>4, <1>5
-----------------------------------------------------------------------------
(***************************************************************************)
(* The invariant: each cache is a bounded sequence, with no key twice, of  *)
(* entries that pair a key with what the function computes for it.         *)
(***************************************************************************)
IsAddressEntries ==
    {<<<<a, strict>>, ComputeIsAddress(a, strict)>> :
        a \in Addresses, strict \in BOOLEAN}

ChecksumEntries ==
    {<<<<a, chainId>>, LowerCase[a]>> : a \in Addresses, chainId \in ChainIds}

Memo(map, Entries) ==
    /\ map \in Seq(Entries)
    /\ Len(map) <= MaxSize
    /\ DistinctKeys(map)

CacheInv ==
    /\ Memo(isAddressCache, IsAddressEntries)
    /\ Memo(checksumAddressCache, ChecksumEntries)

(***************************************************************************)
(* Either path of a lookup, get of a hit or set of a miss, keeps a memo.   *)
(***************************************************************************)
LEMMA HitKeepsMemo ==
    ASSUME NEW Entries, NEW map, Memo(map, Entries), NEW key, HasKey(map, key)
    PROVE  Memo(LruGet(map, key), Entries)
BY LruGetFacts DEF Memo

\* A miss adds what the function computes, and evicts at most one entry.
LEMMA MissKeepsMemo ==
    ASSUME NEW Entries, NEW map, Memo(map, Entries), NEW key, NEW value,
           ~HasKey(map, key), <<key, value>> \in Entries,
           \A e \in Entries : e[1] # EmptyString
    PROVE  Memo(LruSet(map, key, value, MaxSize), Entries)
BY LruSetFacts, AddressAssumption DEF Memo

(***************************************************************************)
(* One call of isAddress, or of checksumAddress, keeps its cache a memo.   *)
(***************************************************************************)
LEMMA IsAddressKeepsMemo ==
    ASSUME CacheInv, NEW a \in Addresses, NEW strict \in BOOLEAN
    PROVE  Memo(IsAddressEffect(a, strict), IsAddressEntries)
<1> DEFINE key == <<a, strict>>
<1>1. <<key, ComputeIsAddress(a, strict)>> \in IsAddressEntries
  BY DEF IsAddressEntries
<1>2. \A e \in IsAddressEntries : e[1] # EmptyString
  BY AddressAssumption DEF IsAddressEntries
<1>3. CASE HasKey(isAddressCache, key)
  BY <1>3, HitKeepsMemo DEF IsAddressEffect, CacheKey, CacheInv
<1>4. CASE ~HasKey(isAddressCache, key)
  BY <1>1, <1>2, <1>4, MissKeepsMemo DEF IsAddressEffect, CacheKey, CacheInv
<1> QED BY <1>3, <1>4

\* checksumAddress keeps its cache right, hit or miss.
LEMMA ChecksumKeepsMemo ==
    ASSUME CacheInv, NEW a \in Addresses, NEW chainId \in ChainIds
    PROVE  Memo(ChecksumEffect(a, chainId), ChecksumEntries)
<1> DEFINE key == <<a, chainId>>
<1>1. <<key, LowerCase[a]>> \in ChecksumEntries
  BY DEF ChecksumEntries
<1>2. \A e \in ChecksumEntries : e[1] # EmptyString
  BY AddressAssumption DEF ChecksumEntries
<1>3. CASE HasKey(checksumAddressCache, key)
  BY <1>3, HitKeepsMemo DEF ChecksumEffect, CacheInv
<1>4. CASE ~HasKey(checksumAddressCache, key)
  BY <1>1, <1>2, <1>4, MissKeepsMemo DEF ChecksumEffect, CacheInv
<1> QED BY <1>3, <1>4

(***************************************************************************)
(* Every call preserves the invariant.                                     *)
(***************************************************************************)
LEMMA CacheStep == ASSUME CacheInv, [Next]_vars PROVE CacheInv'
<1>1. ASSUME NEW a \in Addresses, NEW strict \in BOOLEAN, IsAddress(a, strict)
      PROVE  CacheInv'
  BY <1>1, IsAddressKeepsMemo DEF IsAddress, CacheInv
<1>2. ASSUME NEW a \in Addresses, NEW chainId \in ChainIds,
             ChecksumAddress(a, chainId)
      PROVE  CacheInv'
  BY <1>2, ChecksumKeepsMemo DEF ChecksumAddress, CacheInv
<1>3. ASSUME NEW a \in Addresses, NEW chainId \in ChainIds,
             GetAddress(a, chainId)
      PROVE  CacheInv'
  <2>1. Memo(isAddressCache', IsAddressEntries)
    BY <1>3, IsAddressKeepsMemo DEF GetAddress
  <2>2. Memo(checksumAddressCache', ChecksumEntries)
    BY <1>3, ChecksumKeepsMemo DEF GetAddress, CacheInv
  <2> QED BY <2>1, <2>2 DEF CacheInv
<1>4. CASE UNCHANGED vars
  BY <1>4 DEF vars, CacheInv
<1> QED BY <1>1, <1>2, <1>3, <1>4 DEF Next

(***************************************************************************)
(* The invariant holds in every reachable state.                           *)
(***************************************************************************)
THEOREM CacheInvariance == Spec => []CacheInv
<1>1. Init => CacheInv
  BY AddressAssumption DEF Init, CacheInv, Memo, DistinctKeys
<1>2. CacheInv /\ [Next]_vars => CacheInv'
  BY CacheStep
<1> QED BY <1>1, <1>2, PTL DEF Spec

(***************************************************************************)
(* Neither cache outgrows its size or holds a key twice, whatever          *)
(* addresses isAddress, checksumAddress and getAddress are called with.    *)
(***************************************************************************)
THEOREM BoundedCaches == Spec => []CachesBounded
<1>1. CacheInv => CachesBounded
  BY DEF CacheInv, Memo, CachesBounded
<1> QED BY <1>1, CacheInvariance, PTL

(***************************************************************************)
(* A cached value is the value the function computes for its key: a hit    *)
(* and a miss return the same.                                             *)
(***************************************************************************)
THEOREM CorrectMemos == Spec => []MemoIsCorrect
<1>1. CacheInv => MemoIsCorrect
  BY DEF CacheInv, Memo, IsAddressEntries, ChecksumEntries, MemoIsCorrect
<1> QED BY <1>1, CacheInvariance, PTL

-----------------------------------------------------------------------------
(***************************************************************************)
(* The caches implement AddressFunctions: what they hold is what a policy  *)
(* that remembers the keys looked up most recently would remember.         *)
(***************************************************************************)

\* Two sequences of the same length with the same elements are the same.
LEMMA SameSequence ==
    ASSUME NEW S, NEW s \in Seq(S), NEW t \in Seq(S), Len(s) = Len(t),
           \A i \in 1 .. Len(s) : s[i] = t[i]
    PROVE  s = t
OBVIOUS

\* The elements of two sequences, one after the other.
LEMMA Concatenation ==
    ASSUME NEW S, NEW s \in Seq(S), NEW t \in Seq(S)
    PROVE  /\ s \o t \in Seq(S) /\ Len(s \o t) = Len(s) + Len(t)
           /\ \A i \in 1 .. Len(s) + Len(t) :
                (s \o t)[i] = IF i <= Len(s) THEN s[i] ELSE t[i - Len(s)]
OBVIOUS

\* Removing an element that occurs once.
LEMMA RemoveFacts ==
    ASSUME NEW S, NEW s \in Seq(S), NEW n \in 1 .. Len(s), NEW e, s[n] = e,
           \A i \in 1 .. Len(s) : s[i] = e => i = n
    PROVE  /\ Functions!RemoveFirst(s, e) \in Seq(S)
           /\ Len(Functions!RemoveFirst(s, e)) = Len(s) - 1
           /\ \A i \in 1 .. Len(s) - 1 :
                Functions!RemoveFirst(s, e)[i] = IF i < n THEN s[i] ELSE s[i + 1]
<1> DEFINE front == SubSeq(s, 1, n - 1)
           back == SubSeq(s, n + 1, Len(s))
<1>1. {i \in 1 .. Len(s) : s[i] = e} = {n}
  OBVIOUS
<1>2. Functions!Min({n}) = n
  BY DEF Functions!Min
<1>3. Functions!RemoveFirst(s, e) = front \o back
  BY <1>1, <1>2
  DEF Functions!RemoveFirst, Functions!SelectInSeq, Functions!RemoveAt
<1>4. /\ front \in Seq(S) /\ Len(front) = n - 1
      /\ \A i \in 1 .. n - 1 : front[i] = s[i]
  OBVIOUS
<1>5. /\ back \in Seq(S) /\ Len(back) = Len(s) - n
      /\ \A i \in 1 .. Len(s) - n : back[i] = s[i + n]
  OBVIOUS
<1> HIDE DEF front, back
<1>6. /\ front \o back \in Seq(S)
      /\ Len(front \o back) = Len(s) - 1
      /\ \A i \in 1 .. Len(s) - 1 :
            (front \o back)[i] = IF i < n THEN front[i] ELSE back[i - n + 1]
  <2>1. /\ front \o back \in Seq(S)
        /\ Len(front \o back) = Len(front) + Len(back)
        /\ \A i \in 1 .. Len(front) + Len(back) :
              (front \o back)[i] = IF i <= Len(front)
                                   THEN front[i] ELSE back[i - Len(front)]
    BY <1>4, <1>5, Concatenation
  <2>2. Len(front) + Len(back) = Len(s) - 1
    BY <1>4, <1>5
  <2>3. \A i \in 1 .. Len(s) - 1 :
          (i <= Len(front) <=> i < n) /\ i - Len(front) = i - n + 1
    BY <1>4
  <2> QED BY <2>1, <2>2, <2>3
<1>7. \A i \in 1 .. Len(s) - 1 :
        (front \o back)[i] = IF i < n THEN s[i] ELSE s[i + 1]
  BY <1>4, <1>5, <1>6
<1> QED BY <1>3, <1>6, <1>7

\* The keys of a cache, in the order of its entries.
LEMMA KeysFacts ==
    ASSUME NEW Entries, NEW K, \A e \in Entries : e[1] \in K,
           NEW map \in Seq(Entries)
    PROVE  /\ Keys(map) \in Seq(K)
           /\ Len(Keys(map)) = Len(map)
           /\ \A i \in 1 .. Len(map) : Keys(map)[i] = map[i][1]
<1>1. DOMAIN map = 1 .. Len(map)
  OBVIOUS
<1>2. \A i \in 1 .. Len(map) : map[i][1] \in K
  OBVIOUS
<1> QED BY <1>1, <1>2 DEF Keys

\* A hit moves its key to the end, as the policy does.
LEMMA HitTouches ==
    ASSUME NEW Entries, NEW K,
           \A e \in Entries : e[1] \in K /\ e[2] # Undefined,
           NEW map \in Seq(Entries), DistinctKeys(map),
           Len(map) <= MaxSize,
           NEW key \in K, HasKey(map, key)
    PROVE  Keys(LruGet(map, key)) = Functions!Touch(Keys(map), key)
<1> DEFINE n == IndexOf(map, key)
           keys == Keys(map)
           rest == Functions!RemoveFirst(keys, key)
           m == MoveToEnd(map, n)
<1>1. n \in 1 .. Len(map) /\ map[n][1] = key /\ Lookup(map, key) = map[n][2]
  BY LookupFacts
<1>2. LruGet(map, key) = m
  <2>1. map[n][2] # Undefined
    BY <1>1
  <2> QED BY <1>1, <2>1 DEF LruGet
<1>3. /\ keys \in Seq(K) /\ Len(keys) = Len(map)
      /\ \A i \in 1 .. Len(map) : keys[i] = map[i][1]
  BY KeysFacts
<1>4. /\ m \in Seq(Entries) /\ Len(m) = Len(map)
      /\ \A i \in 1 .. Len(map) :
            m[i] = IF i < n THEN map[i]
                   ELSE IF i < Len(map) THEN map[i + 1] ELSE map[n]
  BY <1>1 DEF MoveToEnd
<1>5. /\ Keys(m) \in Seq(K) /\ Len(Keys(m)) = Len(map)
      /\ \A i \in 1 .. Len(map) : Keys(m)[i] = m[i][1]
  BY <1>4, KeysFacts
<1>6. \A i \in 1 .. Len(keys) : keys[i] = key => i = n
  <2>1. DOMAIN map = 1 .. Len(map)
    OBVIOUS
  <2> HIDE DEF n, keys
  <2> QED BY <1>1, <1>3, <2>1 DEF DistinctKeys
<1> HIDE DEF n, keys, m
<1>7. /\ rest \in Seq(K) /\ Len(rest) = Len(map) - 1
      /\ \A i \in 1 .. Len(map) - 1 :
            rest[i] = IF i < n THEN keys[i] ELSE keys[i + 1]
  <2>1. n \in 1 .. Len(keys) /\ keys[n] = key
    BY <1>1, <1>3
  <2>2. /\ rest \in Seq(K) /\ Len(rest) = Len(keys) - 1
        /\ \A i \in 1 .. Len(keys) - 1 :
              rest[i] = IF i < n THEN keys[i] ELSE keys[i + 1]
    <3>1. keys \in Seq(K)
      BY <1>3
    <3> QED BY ONLY <1>6, <2>1, <3>1, RemoveFacts
  <2> QED BY <1>3, <2>2
<1> HIDE DEF rest
<1>8. /\ Append(rest, key) \in Seq(K) /\ Len(Append(rest, key)) = Len(map)
      /\ \A i \in 1 .. Len(map) :
            Append(rest, key)[i] = IF i < Len(map) THEN rest[i] ELSE key
  BY <1>1, <1>7
<1>9. \A i \in 1 .. Len(map) : Append(rest, key)[i] = Keys(m)[i]
  <2> TAKE i \in 1 .. Len(map)
  <2>0. Len(map) \in Nat /\ n \in Nat /\ n <= Len(map)
    BY <1>1
  <2>1. CASE i < n
    <3>1. i \in 1 .. Len(map) - 1 /\ i < Len(map)
      BY <2>0, <2>1
    <3>2. Append(rest, key)[i] = rest[i] /\ rest[i] = keys[i]
      BY <1>7, <1>8, <2>1, <3>1
    <3>3. Keys(m)[i] = m[i][1] /\ m[i] = map[i] /\ keys[i] = map[i][1]
      BY <1>3, <1>4, <1>5, <2>1
    <3> QED BY <3>2, <3>3
  <2>2. CASE ~(i < n) /\ i < Len(map)
    <3>1. i \in 1 .. Len(map) - 1 /\ i + 1 \in 1 .. Len(map)
      BY <2>2
    <3>2. Append(rest, key)[i] = rest[i] /\ rest[i] = keys[i + 1]
      BY <1>7, <1>8, <2>2, <3>1
    <3>3. Keys(m)[i] = m[i][1] /\ m[i] = map[i + 1] /\ keys[i + 1] = map[i + 1][1]
      BY <1>3, <1>4, <1>5, <2>2, <3>1
    <3> QED BY <3>2, <3>3
  <2>3. CASE i = Len(map)
    BY <1>1, <1>4, <1>5, <1>8, <2>3
  <2>4. i < n \/ (~(i < n) /\ i < Len(map)) \/ i = Len(map)
    BY <2>0
  <2> QED BY <2>1, <2>2, <2>3, <2>4
<1>10. Append(rest, key) = Keys(m)
  BY <1>5, <1>8, <1>9, SameSequence
<1>11. Functions!Touch(keys, key) = Append(rest, key)
  BY <1>8, AddressAssumption DEF Functions!Touch, rest
<1> QED BY <1>2, <1>10, <1>11 DEF keys

\* The keys of all entries but the oldest.
LEMMA TailOfKeys ==
    ASSUME NEW Entries, NEW map \in Seq(Entries), Len(map) > 0
    PROVE  Keys(Tail(map)) = Tail(Keys(map))
<1>1. /\ Len(Tail(map)) = Len(map) - 1
      /\ DOMAIN Tail(map) = 1 .. Len(map) - 1
      /\ \A i \in 1 .. Len(map) - 1 : Tail(map)[i] = map[i + 1]
  OBVIOUS
<1> DEFINE keys == Keys(map)
           K == {e[1] : e \in Entries}
<1>0. \A e \in Entries : e[1] \in K
  OBVIOUS
<1> HIDE DEF K
<1>2. /\ keys \in Seq(K) /\ Len(keys) = Len(map)
      /\ \A i \in 1 .. Len(map) : keys[i] = map[i][1]
  BY <1>0, KeysFacts
<1>3. /\ Keys(Tail(map)) \in Seq(K) /\ Len(Keys(Tail(map))) = Len(map) - 1
      /\ \A i \in 1 .. Len(map) - 1 : Keys(Tail(map))[i] = Tail(map)[i][1]
  <2>1. Tail(map) \in Seq(Entries)
    OBVIOUS
  <2> QED BY <1>0, <1>1, <2>1, KeysFacts
<1> HIDE DEF keys
<1>4. /\ Tail(keys) \in Seq(K) /\ Len(Tail(keys)) = Len(map) - 1
      /\ \A i \in 1 .. Len(map) - 1 : Tail(keys)[i] = keys[i + 1]
  BY <1>2
<1>5. \A i \in 1 .. Len(map) - 1 : Keys(Tail(map))[i] = Tail(keys)[i]
  BY <1>1, <1>2, <1>3, <1>4
<1>6. Keys(Tail(map)) = Tail(keys)
  BY <1>3, <1>4, <1>5, SameSequence
<1> QED BY <1>6 DEF keys

\* A miss adds its key at the end and drops the oldest of a full cache, as the
\* policy does.
LEMMA MissTouches ==
    ASSUME NEW Entries, NEW K,
           \A e \in Entries : e[1] \in K /\ e[1] # EmptyString,
           NEW map \in Seq(Entries),
           NEW key \in K, NEW value, <<key, value>> \in Entries,
           ~HasKey(map, key)
    PROVE  Keys(LruSet(map, key, value, MaxSize))
             = Functions!Touch(Keys(map), key)
<1> DEFINE keys == Keys(map)
           full == Append(map, <<key, value>>)
           moved == Append(keys, key)
<1>1. /\ keys \in Seq(K) /\ Len(keys) = Len(map)
      /\ \A i \in 1 .. Len(map) : keys[i] = map[i][1]
  BY KeysFacts
<1>2. /\ full \in Seq(Entries) /\ Len(full) = Len(map) + 1
      /\ \A i \in 1 .. Len(map) + 1 :
            full[i] = IF i <= Len(map) THEN map[i] ELSE <<key, value>>
  OBVIOUS
<1>3. \A i \in 1 .. Len(keys) : keys[i] # key
  <2>1. DOMAIN map = 1 .. Len(map)
    OBVIOUS
  <2> QED BY <1>1, <2>1 DEF HasKey
<1>4. Functions!RemoveFirst(keys, key) = keys
  BY <1>3 DEF Functions!RemoveFirst
<1>5. Put(map, key, value) = full
  BY DEF Put
<1>6. /\ Keys(full) \in Seq(K) /\ Len(Keys(full)) = Len(map) + 1
      /\ \A i \in 1 .. Len(map) + 1 : Keys(full)[i] = full[i][1]
  BY <1>2, KeysFacts
<1> HIDE DEF full, keys
<1>7. Keys(full) = moved
  <2>1. /\ moved \in Seq(K) /\ Len(moved) = Len(map) + 1
        /\ \A i \in 1 .. Len(map) + 1 :
              moved[i] = IF i <= Len(map) THEN keys[i] ELSE key
    BY <1>1
  <2> HIDE DEF moved
  <2>2. \A i \in 1 .. Len(map) + 1 : Keys(full)[i] = moved[i]
    <3> TAKE i \in 1 .. Len(map) + 1
    <3>1. CASE i <= Len(map)
      <4>1. i \in 1 .. Len(map)
        BY <3>1
      <4> QED BY <1>1, <1>2, <1>6, <2>1, <3>1, <4>1
    <3>2. CASE ~(i <= Len(map))
      <4>1. Keys(full)[i] = full[i][1] /\ full[i] = <<key, value>>
        BY <1>2, <1>6, <3>2
      <4>2. moved[i] = key
        BY <2>1, <3>2
      <4> QED BY <4>1, <4>2
    <3> QED BY <3>1, <3>2
  <2> QED BY <1>6, <2>1, <2>2, SameSequence
<1>8. MaxSize \in Nat \ {0}
  BY AddressAssumption
<1>9. Len(moved) = Len(full)
  BY <1>2, <1>6, <1>7
<1>10. CASE Len(full) > MaxSize
  <2>1. full[1] \in Entries
    BY <1>2
  <2>2. LruSet(map, key, value, MaxSize) = Tail(full)
    BY <1>5, <1>8, <1>10, <2>1 DEF LruSet
  <2>3. Functions!Touch(keys, key) = Tail(moved)
    BY <1>4, <1>9, <1>10 DEF Functions!Touch
  <2>4. Keys(Tail(full)) = Tail(Keys(full))
    BY <1>2, <2>1, TailOfKeys
  <2> QED BY <1>7, <2>2, <2>3, <2>4 DEF keys
<1>11. CASE ~(Len(full) > MaxSize)
  <2>1. LruSet(map, key, value, MaxSize) = full
    BY <1>5, <1>11 DEF LruSet
  <2>2. Functions!Touch(keys, key) = moved
    BY <1>4, <1>9, <1>11 DEF Functions!Touch
  <2> QED BY <1>7, <2>1, <2>2 DEF keys
<1> QED BY <1>10, <1>11

(***************************************************************************)
(* Under the invariant, what a call returns is what the function computes, *)
(* and what it leaves in the cache is what the policy remembers.           *)
(***************************************************************************)
LEMMA IsAddressMaps ==
    ASSUME CacheInv, NEW a \in Addresses, NEW strict \in BOOLEAN
    PROVE  /\ IsAddressResult(a, strict) = Functions!IsValid(a, strict)
           /\ Keys(IsAddressEffect(a, strict))
                = Functions!Touch(Keys(isAddressCache), <<a, strict>>)
<1> DEFINE key == <<a, strict>>
           K == Addresses \X BOOLEAN
<1>0. key \in K
  OBVIOUS
<1>1. ComputeIsAddress(a, strict) = Functions!IsValid(a, strict)
  BY DEF ComputeIsAddress, Functions!IsValid
<1>2. /\ isAddressCache \in Seq(IsAddressEntries)
      /\ DistinctKeys(isAddressCache)
      /\ Len(isAddressCache) <= MaxSize
  BY DEF CacheInv, Memo
<1>3. \A e \in IsAddressEntries :
        /\ e[1] \in K /\ e[1] # EmptyString /\ e[2] # Undefined
        /\ e[2] = ComputeIsAddress(e[1][1], e[1][2])
  <2> SUFFICES ASSUME NEW b \in Addresses, NEW s \in BOOLEAN
               PROVE  /\ <<b, s>> \in K /\ <<b, s>> # EmptyString
                      /\ ComputeIsAddress(b, s) # Undefined
    BY DEF IsAddressEntries
  <2>1. ComputeIsAddress(b, s) \in BOOLEAN
    BY DEF ComputeIsAddress
  <2> QED BY <2>1, AddressAssumption
<1>4. CASE HasKey(isAddressCache, key)
  <2>1. IsAddressResult(a, strict) = ComputeIsAddress(a, strict)
    BY <1>2, <1>3, <1>4, LookupFacts DEF IsAddressResult, CacheKey
  <2>2. Keys(LruGet(isAddressCache, key))
          = Functions!Touch(Keys(isAddressCache), key)
    <3> HIDE DEF key, K
    <3> QED BY <1>0, <1>2, <1>3, <1>4, HitTouches
  <2> QED BY <1>1, <1>4, <2>1, <2>2 DEF IsAddressEffect, CacheKey
<1>5. CASE ~HasKey(isAddressCache, key)
  <2>1. IsAddressResult(a, strict) = ComputeIsAddress(a, strict)
    BY <1>5 DEF IsAddressResult, CacheKey
  <2>2. <<key, ComputeIsAddress(a, strict)>> \in IsAddressEntries
    BY DEF IsAddressEntries
  <2>3. Keys(LruSet(isAddressCache, key, ComputeIsAddress(a, strict), MaxSize))
          = Functions!Touch(Keys(isAddressCache), key)
    <3> HIDE DEF key, K
    <3> QED BY <1>0, <1>2, <1>3, <1>5, <2>2, MissTouches
  <2> QED BY <1>1, <1>5, <2>1, <2>3 DEF IsAddressEffect, CacheKey
<1> QED BY <1>4, <1>5

\* The same of checksumAddress.
LEMMA ChecksumMaps ==
    ASSUME CacheInv, NEW a \in Addresses, NEW chainId \in ChainIds
    PROVE  /\ ChecksumResult(a, chainId) = LowerCase[a]
           /\ Keys(ChecksumEffect(a, chainId))
                = Functions!Touch(Keys(checksumAddressCache), <<a, chainId>>)
<1> DEFINE key == <<a, chainId>>
           K == Addresses \X ChainIds
<1>0. key \in K
  OBVIOUS
<1>1. /\ checksumAddressCache \in Seq(ChecksumEntries)
      /\ DistinctKeys(checksumAddressCache)
      /\ Len(checksumAddressCache) <= MaxSize
  BY DEF CacheInv, Memo
<1>2. \A e \in ChecksumEntries :
        /\ e[1] \in K /\ e[1] # EmptyString /\ e[2] # Undefined
        /\ e[2] = LowerCase[e[1][1]]
  <2> SUFFICES ASSUME NEW b \in Addresses, NEW c \in ChainIds
               PROVE  /\ <<b, c>> \in K /\ <<b, c>> # EmptyString
                      /\ LowerCase[b] # Undefined
    BY DEF ChecksumEntries
  <2> QED BY AddressAssumption
<1>3. CASE HasKey(checksumAddressCache, key)
  <2>1. ChecksumResult(a, chainId) = LowerCase[a]
    BY <1>1, <1>2, <1>3, LookupFacts DEF ChecksumResult
  <2>2. Keys(LruGet(checksumAddressCache, key))
          = Functions!Touch(Keys(checksumAddressCache), key)
    <3> HIDE DEF key, K
    <3> QED BY <1>0, <1>1, <1>2, <1>3, HitTouches
  <2> QED BY <1>3, <2>1, <2>2 DEF ChecksumEffect
<1>4. CASE ~HasKey(checksumAddressCache, key)
  <2>1. <<key, LowerCase[a]>> \in ChecksumEntries
    BY DEF ChecksumEntries
  <2>2. Keys(LruSet(checksumAddressCache, key, LowerCase[a], MaxSize))
          = Functions!Touch(Keys(checksumAddressCache), key)
    <3> HIDE DEF key, K
    <3> QED BY <1>0, <1>1, <1>2, <1>4, <2>1, MissTouches
  <2> QED BY <1>4, <2>2 DEF ChecksumEffect, ChecksumResult
<1> QED BY <1>3, <1>4

(***************************************************************************)
(* Every step of the cached functions is a step of the pure ones.          *)
(***************************************************************************)
LEMMA CallMaps ==
    ASSUME CacheInv, [Next]_vars
    PROVE  [Functions!Next]_<<Keys(isAddressCache), Keys(checksumAddressCache),
                              reply>>
<1>1. ASSUME NEW a \in Addresses, NEW strict \in BOOLEAN, IsAddress(a, strict)
      PROVE  Functions!Next
  <2>1. Functions!IsAddress(a, strict)
    BY <1>1, IsAddressMaps DEF IsAddress, Functions!IsAddress
  <2> QED BY <2>1 DEF Functions!Next
<1>2. ASSUME NEW a \in Addresses, NEW chainId \in ChainIds,
             ChecksumAddress(a, chainId)
      PROVE  Functions!Next
  <2>1. Functions!ChecksumAddress(a, chainId)
    BY <1>2, ChecksumMaps DEF ChecksumAddress, Functions!ChecksumAddress
  <2> QED BY <2>1 DEF Functions!Next
<1>3. ASSUME NEW a \in Addresses, NEW chainId \in ChainIds,
             GetAddress(a, chainId)
      PROVE  Functions!Next
  <2>1. /\ IsAddressResult(a, FALSE) = Functions!IsValid(a, FALSE)
        /\ Keys(isAddressCache')
             = Functions!Touch(Keys(isAddressCache), <<a, FALSE>>)
    BY <1>3, IsAddressMaps DEF GetAddress
  <2>2. CASE IsAddressResult(a, FALSE)
    <3>1. /\ Keys(checksumAddressCache')
               = Functions!Touch(Keys(checksumAddressCache), <<a, chainId>>)
          /\ reply' = <<"getAddress", a, chainId, LowerCase[a]>>
      BY <1>3, <2>2, ChecksumMaps DEF GetAddress
    <3>2. Functions!GetAddress(a, chainId)
      BY <2>1, <2>2, <3>1 DEF Functions!GetAddress
    <3> QED BY <3>2 DEF Functions!Next
  <2>3. CASE ~IsAddressResult(a, FALSE)
    <3>1. Functions!GetAddress(a, chainId)
      BY <1>3, <2>1, <2>3 DEF GetAddress, Functions!GetAddress
    <3> QED BY <3>1 DEF Functions!Next
  <2> QED BY <2>2, <2>3
<1>4. CASE UNCHANGED vars
  BY <1>4 DEF vars, Keys
<1> QED BY <1>1, <1>2, <1>3, <1>4 DEF Next

(***************************************************************************)
(* isAddress, checksumAddress and getAddress implement the functions that  *)
(* AddressFunctions states: what was asked before never changes an answer, *)
(* and the caches hold the keys looked up most recently, for caches of any *)
(* size (refinement, by the invariant above and step simulation).          *)
(***************************************************************************)
THEOREM CachesImplementFunctions == Spec => ImplementsFunctions
<1>1. Init => Functions!Init
  BY SMT DEF Init, Functions!Init, Keys
<1>2. CacheInv /\ [Next]_vars
        => [Functions!Next]_<<Keys(isAddressCache), Keys(checksumAddressCache),
                              reply>>
  BY CallMaps
<1> QED
  BY <1>1, <1>2, CacheInvariance, PTL DEF Spec, ImplementsFunctions, Functions!Spec
=============================================================================
