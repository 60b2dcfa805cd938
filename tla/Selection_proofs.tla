-------------------------- MODULE Selection_proofs --------------------------
(***************************************************************************)
(* The comparator of rankTrustedAgentProviders is a strict total order, so *)
(* the rank does not depend on the sort or on the order of the search, and *)
(* what resolvePreferredAgentProvider takes of it is the best that fits.   *)
(* The selection of agentRuntime.ts, written apart from the one of         *)
(* agentDiscovery.ts, is the same selection but for what cards offer: the  *)
(* same preferences entry by entry, the same order and the same choice     *)
(* unless modes or fees, which only agentDiscovery looks at, decide.       *)
(***************************************************************************)
EXTENDS SurfaceSelection, FiniteSetTheorems, WellFoundedInduction, TLAPS

Fees == Nat \cup {Undefined}

\* A provider as far as the comparator looks at it.
IsProvider(p) ==
    /\ p.search.node \in Nat
    /\ p.search.trust # Undefined /\ p.search.trust.score # Undefined =>
        p.search.trust.score \in Int
    /\ p.entry # Undefined =>
        p.entry.perRequest \in Fees /\ p.entry.session \in Fees

\* A list of any length of modes of any kind: the caller may override both.
IsPolicy(policy) ==
    /\ Len(policy.preferredModes) \in Nat
    /\ DOMAIN policy.preferredModes = 1 .. Len(policy.preferredModes)
    /\ policy.preferLowerFee \in BOOLEAN

Keys == Int \X Int \X Fees \X Nat

-----------------------------------------------------------------------------
\* A policy names modes, whatever the family.
LEMMA PolicyType ==
    ASSUME NEW f
    PROVE  IsPolicy(ExecutionPolicy(f))
<1>1. \A modes \in {SponsoredFirst, PaidFirst} :
        Len(modes) \in Nat /\ DOMAIN modes = 1 .. Len(modes)
    BY DEF SponsoredFirst, PaidFirst
<1>2. CASE f = "sponsor"
    <2>1. ExecutionPolicy(f) = [searchLimit |-> 6,
              preferredModes |-> SponsoredFirst, preferLowerFee |-> FALSE]
        BY <1>2 DEF ExecutionPolicy
    <2> QED
        BY <1>1, <2>1 DEF IsPolicy
<1>3. CASE f = "gateway"
    <2>1. ExecutionPolicy(f) = [searchLimit |-> 5,
              preferredModes |-> SponsoredFirst, preferLowerFee |-> FALSE]
        BY <1>3 DEF ExecutionPolicy
    <2> QED
        BY <1>1, <2>1 DEF IsPolicy
<1>4. CASE f \in {"observation", "oracle", "news", "proof", "storage"}
    <2>1. ExecutionPolicy(f) = [searchLimit |-> 10,
              preferredModes |-> PaidFirst, preferLowerFee |-> TRUE]
        BY <1>4 DEF ExecutionPolicy
    <2> QED
        BY <1>1, <2>1 DEF IsPolicy
<1>5. CASE f \notin {"sponsor", "gateway", "observation", "oracle", "news",
                     "proof", "storage"}
    <2>1. ExecutionPolicy(f) = [searchLimit |-> 10,
              preferredModes |-> SponsoredFirst, preferLowerFee |-> FALSE]
        BY <1>5 DEF ExecutionPolicy
    <2> QED
        BY <1>1, <2>1 DEF IsPolicy
<1> QED
    BY <1>2, <1>3, <1>4, <1>5

\* A provider's mode score is a number, whatever its card says.
LEMMA ModeScoreType ==
    ASSUME NEW p, NEW policy, IsPolicy(policy)
    PROVE  ModeScore(p, policy) \in Int
<1> DEFINE modes == policy.preferredModes
<1>1. Len(modes) \in Nat /\ DOMAIN modes = 1 .. Len(modes)
    BY DEF IsPolicy
<1>2. CASE p.entry # Undefined /\ \E i \in DOMAIN modes : modes[i] = p.entry.mode
    <2>1. (CHOOSE i \in DOMAIN modes : modes[i] = p.entry.mode) \in DOMAIN modes
        BY <1>2
    <2>2. ModeScore(p, policy)
            = Len(modes) + 1 - (CHOOSE i \in DOMAIN modes : modes[i] = p.entry.mode)
        BY <1>2 DEF ModeScore
    <2> HIDE DEF modes
    <2> QED
        BY <1>1, <2>1, <2>2
<1>3. CASE ~(p.entry # Undefined /\ \E i \in DOMAIN modes : modes[i] = p.entry.mode)
    <2>1. ModeScore(p, policy) = 0
        BY <1>3 DEF ModeScore
    <2> QED
        BY <2>1
<1> QED
    BY <1>2, <1>3

\* The other keys of a provider have their types too.
LEMMA ProviderTypes ==
    ASSUME NEW p, IsProvider(p)
    PROVE  /\ TrustScore(p) \in Int
           /\ AdvertisedFee(p) \in Fees
           /\ p.search.node \in Nat
BY DEF IsProvider, TrustScore, AdvertisedFee, Fees

\* No fee is after every fee, and two fees are in the order of numbers.
LEMMA FeeOrder ==
    ASSUME Undefined \notin Nat, NEW a \in Fees, NEW b \in Fees, NEW c \in Fees
    PROVE  /\ ~LowerFee(a, a)
           /\ LowerFee(a, b) /\ LowerFee(b, c) => LowerFee(a, c)
           /\ a # b => LowerFee(a, b) \/ LowerFee(b, a)
BY DEF Fees, LowerFee

\* The lexicographic order of rank keys is a strict total order.
LEMMA KeyOrder ==
    ASSUME Undefined \notin Nat, NEW k \in Keys, NEW l \in Keys, NEW m \in Keys
    PROVE  /\ ~KeyBefore(k, k)
           /\ KeyBefore(k, l) /\ KeyBefore(l, m) => KeyBefore(k, m)
           /\ k # l => KeyBefore(k, l) \/ KeyBefore(l, k)
<1>1. /\ k[1] \in Int /\ k[2] \in Int /\ k[3] \in Fees /\ k[4] \in Nat
      /\ l[1] \in Int /\ l[2] \in Int /\ l[3] \in Fees /\ l[4] \in Nat
      /\ m[1] \in Int /\ m[2] \in Int /\ m[3] \in Fees /\ m[4] \in Nat
    BY DEF Keys
<1>2. /\ ~LowerFee(k[3], k[3])
      /\ LowerFee(k[3], l[3]) /\ LowerFee(l[3], m[3]) => LowerFee(k[3], m[3])
      /\ k[3] # l[3] => LowerFee(k[3], l[3]) \/ LowerFee(l[3], k[3])
    BY <1>1, FeeOrder
<1>3. ~KeyBefore(k, k)
    BY <1>1, <1>2 DEF KeyBefore
<1>4. KeyBefore(k, l) /\ KeyBefore(l, m) => KeyBefore(k, m)
    BY <1>1, <1>2 DEF KeyBefore
<1>5. ASSUME k # l
      PROVE  KeyBefore(k, l) \/ KeyBefore(l, k)
    <2>1. k[1] # l[1] \/ k[2] # l[2] \/ k[3] # l[3] \/ k[4] # l[4]
        BY <1>5 DEF Keys
    <2> QED
        BY <1>1, <1>2, <2>1 DEF KeyBefore
<1> QED
    BY <1>3, <1>4, <1>5

-----------------------------------------------------------------------------
(***************************************************************************)
(* The filter of the rank and the explanation of the diagnostics, written  *)
(* apart, agree: a provider is ranked exactly when nothing is said against *)
(* its trust.                                                              *)
(***************************************************************************)
THEOREM TrustIsExplained ==
    ASSUME NEW p,
           p.search.trust # Undefined =>
               /\ p.search.trust.registered \in BOOLEAN
               /\ p.search.trust.suspended \in BOOLEAN
               /\ p.search.trust.onchain \in BOOLEAN
    PROVE  IsTrusted(p) <=> TrustFailures(p) = {}
<1>1. CASE p.search.trust = Undefined
    BY <1>1 DEF IsTrusted, TrustFailures
<1>2. CASE p.search.trust # Undefined
    <2>1. TrustFailures(p) = {} <=>
            /\ p.search.trust.registered
            /\ ~p.search.trust.suspended
            /\ p.search.trust.onchain
        BY <1>2 DEF TrustFailures
    <2> QED
        BY <1>2, <2>1 DEF IsTrusted
<1> QED
    BY <1>1, <1>2

(***************************************************************************)
(* The comparator, with its special cases for providers that advertise no  *)
(* fee, is the order of the rank keys: mode, trust, fee, record.           *)
(***************************************************************************)
THEOREM ComparatorIsKeyOrder ==
    ASSUME Undefined \notin Nat, NEW p, NEW q, NEW policy,
           IsProvider(p), IsProvider(q), IsPolicy(policy)
    PROVE  Before(p, q, policy)
               <=> KeyBefore(RankKey(p, policy), RankKey(q, policy))
<1> DEFINE k == RankKey(p, policy)
           l == RankKey(q, policy)
<1>1. /\ ModeScore(p, policy) \in Int /\ ModeScore(q, policy) \in Int
      /\ TrustScore(p) \in Int /\ TrustScore(q) \in Int
      /\ AdvertisedFee(p) \in Fees /\ AdvertisedFee(q) \in Fees
      /\ p.search.node \in Nat /\ q.search.node \in Nat
    BY ModeScoreType, ProviderTypes
<1>2. /\ k[1] = ModeScore(p, policy) /\ l[1] = ModeScore(q, policy)
      /\ k[2] = TrustScore(p) /\ l[2] = TrustScore(q)
      /\ k[3] = (IF policy.preferLowerFee THEN AdvertisedFee(p) ELSE Undefined)
      /\ l[3] = (IF policy.preferLowerFee THEN AdvertisedFee(q) ELSE Undefined)
      /\ k[4] = p.search.node /\ l[4] = q.search.node
    BY DEF RankKey
<1>3. FeesDecide(p, q, policy) <=> k[3] # l[3]
    BY <1>2 DEF FeesDecide, IsPolicy
<1>4. FeesDecide(p, q, policy) => (FeeBefore(p, q) <=> LowerFee(k[3], l[3]))
    BY <1>2 DEF FeesDecide, FeeBefore, LowerFee
<1>5. k[3] = l[3] => ~LowerFee(k[3], l[3])
    BY <1>1, <1>2 DEF LowerFee, Fees
<1> HIDE DEF k, l
<1>6. Before(p, q, policy) <=>
        \/ k[1] > l[1]
        \/ k[1] = l[1] /\ k[2] > l[2]
        \/ /\ k[1] = l[1] /\ k[2] = l[2]
           /\ IF FeesDecide(p, q, policy)
              THEN FeeBefore(p, q) ELSE k[4] < l[4]
    BY <1>1, <1>2 DEF Before
<1>7. Before(p, q, policy) <=> KeyBefore(k, l)
    BY <1>3, <1>4, <1>5, <1>6 DEF KeyBefore
<1> QED
    BY <1>7 DEF k, l

(***************************************************************************)
(* The comparator of the sort is irreflexive and transitive, and decides   *)
(* between any two different records: what Array.prototype.sort requires   *)
(* of it, for every policy and every set of trusted providers.             *)
(***************************************************************************)
THEOREM ComparatorIsStrictTotalOrder ==
    ASSUME Undefined \notin Nat, NEW p, NEW q, NEW r, NEW policy,
           IsProvider(p), IsProvider(q), IsProvider(r), IsPolicy(policy)
    PROVE  /\ ~Before(p, p, policy)
           /\ Before(p, q, policy) /\ Before(q, r, policy)
                => Before(p, r, policy)
           /\ p.search.node # q.search.node
                => Before(p, q, policy) \/ Before(q, p, policy)
<1>1. ASSUME NEW x, IsProvider(x)
      PROVE  RankKey(x, policy) \in Keys
    <2>1. /\ ModeScore(x, policy) \in Int
          /\ TrustScore(x) \in Int
          /\ AdvertisedFee(x) \in Fees
          /\ x.search.node \in Nat
        BY <1>1, ModeScoreType, ProviderTypes
    <2>2. (IF policy.preferLowerFee THEN AdvertisedFee(x) ELSE Undefined) \in Fees
        BY <2>1 DEF Fees
    <2> QED
        BY <2>1, <2>2 DEF RankKey, Keys
<1> DEFINE k == RankKey(p, policy)
           l == RankKey(q, policy)
           m == RankKey(r, policy)
<1>2. k \in Keys /\ l \in Keys /\ m \in Keys
    BY <1>1
<1>3. /\ Before(p, p, policy) <=> KeyBefore(k, k)
      /\ Before(p, q, policy) <=> KeyBefore(k, l)
      /\ Before(q, p, policy) <=> KeyBefore(l, k)
      /\ Before(q, r, policy) <=> KeyBefore(l, m)
      /\ Before(p, r, policy) <=> KeyBefore(k, m)
    BY ComparatorIsKeyOrder
<1>4. p.search.node # q.search.node => k # l
    BY DEF RankKey
<1> HIDE DEF k, l, m
<1>5. /\ ~KeyBefore(k, k)
      /\ KeyBefore(k, l) /\ KeyBefore(l, m) => KeyBefore(k, m)
      /\ k # l => KeyBefore(k, l) \/ KeyBefore(l, k)
    BY <1>2, KeyOrder
<1> QED
    BY <1>3, <1>4, <1>5

-----------------------------------------------------------------------------
(***************************************************************************)
(* A stable sort.                                                          *)
(***************************************************************************)
\* Every set of numbers has a least one.
LEMMA LeastNumber ==
    ASSUME NEW S, S \subseteq Nat, S # {}
    PROVE  \E i \in S : \A j \in S : i <= j
<1> DEFINE R == {ss \in Nat \X Nat : ss[1] < ss[2]}
<1>1. IsWellFoundedOn(R, Nat)
    BY NatLessThanWellFounded DEF OpToRel
<1>2. \A i, j \in Nat : j < i => <<j, i>> \in R
    OBVIOUS
<1> HIDE DEF R
<1>3. PICK i \in S : \A j \in S : ~ (<<j, i>> \in R)
    BY <1>1, WFMin
<1>4. ASSUME NEW j \in S
      PROVE  i <= j
    <2>1. i \in Nat /\ j \in Nat
        OBVIOUS
    <2>2. ~(j < i)
        BY <1>2, <1>3, <2>1
    <2> QED
        BY <2>1, <2>2
<1> QED
    BY <1>4

\* What a comparator has to be for a sort to make sense: if it decides between
\* two it decides one way, and a third is after the first or before the other.
IsWeakOrder(S, R) ==
    /\ \A i, j \in S : <<i, j>> \in R => <<j, i>> \notin R
    /\ \A i, j, k \in S : <<i, k>> \in R => <<i, j>> \in R \/ <<j, k>> \in R

\* r is the elements of s at the places kept in the order at: each is there
\* once, and none is before another that the comparator puts first.
IsArranged(r, at, s, kept, before) ==
    /\ at \in [1 .. Cardinality(kept) -> kept]
    /\ \A i \in kept : \E k \in 1 .. Cardinality(kept) : at[k] = i
    /\ \A k, l \in 1 .. Cardinality(kept) :
        /\ at[k] = at[l] => k = l
        /\ k < l => <<at[l], at[k]>> \notin before
    /\ DOMAIN r = 1 .. Cardinality(kept)
    /\ \A k \in 1 .. Cardinality(kept) : r[k] = s[at[k]]

\* A sort lists what it keeps in such an order.
LEMMA SortedFacts ==
    ASSUME NEW kept, kept \subseteq Nat, IsFiniteSet(kept), NEW before,
           IsWeakOrder(kept, before), NEW s
    PROVE  \E at : IsArranged(Sorted(s, kept, before), at, s, kept, before)
<1> DEFINE N == Cardinality(kept)
           T(j, i) == \/ <<j, i>> \in before
                      \/ <<i, j>> \notin before /\ j <= i
           upTo(i) == {j \in kept : T(j, i)}
           place == [i \in kept |-> Cardinality(upTo(i))]
           at == [k \in 1 .. N |-> CHOOSE i \in kept : Cardinality(upTo(i)) = k]
<1>1. IsFiniteSet(kept) /\ N \in Nat
    BY FS_CardinalityType
<1>2. \A i, j \in kept : T(i, i) /\ (T(i, j) \/ T(j, i))
    <2> TAKE i, j \in kept
    <2>1. i \in Int /\ j \in Int
        OBVIOUS
    <2>2. <<i, i>> \notin before /\ (<<i, j>> \in before => <<j, i>> \notin before)
        BY DEF IsWeakOrder
    <2> QED
        BY <2>1, <2>2
<1>3. \A i, j \in kept : T(i, j) /\ T(j, i) => i = j
    BY DEF IsWeakOrder
<1>4. \A i, j, k \in kept : T(i, j) /\ T(j, k) => T(i, k)
    BY DEF IsWeakOrder
<1>5. \A i, j \in kept : <<i, j>> \in before => T(i, j) /\ i # j
    BY DEF IsWeakOrder
<1>6. Sorted(s, kept, before) = [k \in 1 .. N |-> s[at[k]]]
    BY DEF Sorted
<1> HIDE DEF T
<1>7. ASSUME NEW i \in kept
      PROVE  place[i] \in 1 .. N
    <2>1. upTo(i) \in SUBSET kept /\ i \in upTo(i)
        BY <1>2
    <2> HIDE DEF upTo
    <2>2. IsFiniteSet(upTo(i)) /\ Cardinality(upTo(i)) <= N
        BY <1>1, <2>1, FS_Subset
    <2>3. Cardinality(upTo(i)) \in Nat /\ Cardinality(upTo(i)) # 0
        BY <2>1, <2>2, FS_CardinalityType, FS_EmptySet
    <2> QED
        BY <1>1, <2>2, <2>3
<1>8. ASSUME NEW i \in kept, NEW j \in kept, T(i, j), i # j
      PROVE  place[i] < place[j]
    <2>1. upTo(i) \in SUBSET upTo(j) /\ upTo(j) \in SUBSET kept
        BY <1>4, <1>8
    <2>2. j \in upTo(j) /\ j \notin upTo(i)
        BY <1>2, <1>3, <1>8
    <2> HIDE DEF upTo
    <2>3. IsFiniteSet(upTo(j)) /\ IsFiniteSet(upTo(i))
        BY <1>1, <2>1, FS_Subset
    <2>4. Cardinality(upTo(i)) <= Cardinality(upTo(j))
          /\ Cardinality(upTo(j)) # Cardinality(upTo(i))
        BY <2>1, <2>2, <2>3, FS_Subset
    <2>5. Cardinality(upTo(i)) \in Nat /\ Cardinality(upTo(j)) \in Nat
        BY <2>3, FS_CardinalityType
    <2> QED
        BY <2>4, <2>5
<1>9. place \in [kept -> 1 .. N]
    BY <1>7
<1>10. \A i, j \in kept : place[i] = place[j] => i = j
    BY <1>1, <1>2, <1>7, <1>8
<1>11. \A i \in kept : place[i] = Cardinality(upTo(i))
    OBVIOUS
<1> HIDE DEF place, upTo
<1>12. place \in Surjection(kept, 1 .. N)
    <2>1. place \in Injection(kept, 1 .. N)
        BY <1>9, <1>10 DEF Injection, IsInjective
    <2>2. IsFiniteSet(1 .. N) /\ Cardinality(1 .. N) = N
        BY <1>1, FS_Interval
    <2> QED
        BY <2>1, <2>2, FS_Injection
<1>13. \A k \in 1 .. N : at[k] \in kept /\ place[at[k]] = k
    <2> TAKE k \in 1 .. N
    <2>1. \E i \in kept : Cardinality(upTo(i)) = k
        BY <1>12, <1>11 DEF Surjection
    <2> QED
        BY <1>11, <2>1
<1>14. \A i \in kept : at[place[i]] = i
    BY <1>9, <1>10, <1>13
<1> HIDE DEF at, N
<1>15. at \in [1 .. N -> kept]
    BY <1>13 DEF at
<1>16. \A i \in kept : \E k \in 1 .. N : at[k] = i
    BY <1>7, <1>14
<1>17. ASSUME NEW k \in 1 .. N, NEW l \in 1 .. N, k < l,
              <<at[l], at[k]>> \in before
       PROVE  FALSE
    <2>1. at[l] \in kept /\ at[k] \in kept /\ place[at[l]] = l /\ place[at[k]] = k
        BY <1>13
    <2>2. place[at[l]] < place[at[k]]
        BY <1>5, <1>8, <1>17, <2>1
    <2> QED
        BY <1>17, <2>1, <2>2
<1> QED
    <2>1. \A k, l \in 1 .. N : at[k] = at[l] => k = l
        BY <1>13
    <2>2. IsArranged(Sorted(s, kept, before), at, s, kept, before)
        BY <1>6, <1>15, <1>16, <1>17, <2>1 DEF IsArranged, N
    <2> QED
        BY <2>2

\* The element of s at place i is good, and no other good one is before it.
Best(i, s, kept, before, good) ==
    /\ i \in kept /\ s[i] \in good
    /\ \A j \in kept : s[j] \in good => <<j, i>> \notin before

\* The places of the good elements of r.
AreGoodPlaces(places, r, good) ==
    \A k : k \in places <=> k \in DOMAIN r /\ r[k] \in good

\* The first of the places of r has the best element of s, if any is good.
FirstIsBest(places, r, s, kept, before, good) ==
    IF places = {} THEN \A i \in kept : s[i] \notin good
    ELSE \E i : Best(i, s, kept, before, good) /\ r[Min(places)] = s[i]

\* The first good element of what a sort makes of a list is a good element of
\* the list that no other good one is before; there is none if none is good.
LEMMA FirstOfSorted ==
    ASSUME NEW kept, kept \subseteq Nat, IsFiniteSet(kept), NEW before,
           IsWeakOrder(kept, before), NEW s, NEW good, NEW ranked, NEW places,
           ranked = Sorted(s, kept, before),
           AreGoodPlaces(places, ranked, good)
    PROVE  FirstIsBest(places, ranked, s, kept, before, good)
<1> DEFINE N == Cardinality(kept)
<1>0. PICK at : IsArranged(ranked, at, s, kept, before)
    BY SortedFacts
<1>1. /\ at \in [1 .. N -> kept]
      /\ \A i \in kept : \E k \in 1 .. N : at[k] = i
      /\ \A k, l \in 1 .. N : k < l => <<at[l], at[k]>> \notin before
      /\ DOMAIN ranked = 1 .. N
      /\ \A k \in 1 .. N : ranked[k] = s[at[k]]
    BY <1>0 DEF IsArranged
<1>2. \A i, j \in kept : <<i, j>> \in before => <<j, i>> \notin before
    BY DEF IsWeakOrder
<1> HIDE DEF N
<1>3. places = {k \in 1 .. N : s[at[k]] \in good}
    BY <1>1 DEF AreGoodPlaces
<1>4. CASE places = {}
    BY <1>1, <1>3, <1>4 DEF FirstIsBest
<1>5. CASE places # {}
    <2> DEFINE m == Min(places)
    <2>1. \E k \in places : \A l \in places : k <= l
        <3>1. places \subseteq Nat
            BY <1>3
        <3> QED
            BY <1>5, <3>1, LeastNumber
    <2>2. m \in places /\ \A l \in places : m <= l
        BY <2>1 DEF Min
    <2> HIDE DEF m
    <2>3. m \in 1 .. N /\ at[m] \in kept /\ s[at[m]] \in good
          /\ ranked[m] = s[at[m]]
        BY <1>1, <1>3, <2>2
    <2>4. ASSUME NEW j \in kept, s[j] \in good
          PROVE  <<j, at[m]>> \notin before
        <3>1. PICK l \in 1 .. N : at[l] = j
            BY <1>1
        <3>2. m <= l
            BY <1>3, <2>2, <2>4, <3>1
        <3>3. CASE m < l
            BY <1>1, <2>3, <3>1, <3>3
        <3>4. CASE m = l
            BY <1>2, <2>3, <3>1, <3>4
        <3>5. m < l \/ m = l
            BY <2>3, <3>2
        <3> QED
            BY <3>3, <3>4, <3>5
    <2>5. Best(at[m], s, kept, before, good)
        BY <2>3, <2>4 DEF Best
    <2> QED
        BY <1>5, <2>3, <2>5 DEF m, FirstIsBest
<1> QED
    BY <1>4, <1>5

\* A provider that is trusted and against which the preferences say nothing.
Fits(p, prefs) == IsTrusted(p) /\ PreferenceFailures(p, prefs) = {}

\* c is a provider that fits and that no other such one of ps comes before,
\* and Undefined only if none fits.
IsBestProvider(c, ps, policy, prefs) ==
    IF \A i \in DOMAIN ps : ~Fits(ps[i], prefs) THEN c = Undefined
    ELSE \E i \in DOMAIN ps :
            /\ c = ps[i] /\ Fits(ps[i], prefs)
            /\ \A j \in DOMAIN ps :
                Fits(ps[j], prefs) => ~Before(ps[j], ps[i], policy)

(***************************************************************************)
(* What resolvePreferredAgentProvider chooses of what                      *)
(* rankTrustedAgentProviders has ranked: the trusted provider that fits    *)
(* and that no other such one comes before, however many were found and in *)
(* whatever order; none only if none fits.                                 *)
(***************************************************************************)
THEOREM BestOfRank ==
    ASSUME Undefined \notin Nat, NEW n \in Nat, NEW ps, DOMAIN ps = 1 .. n,
           \A i \in 1 .. n : IsProvider(ps[i]),
           \A i, j \in 1 .. n : ps[i].search.node = ps[j].search.node => i = j,
           NEW policy, IsPolicy(policy), NEW prefs
    PROVE  IsBestProvider(Select(Rank(ps, policy), prefs), ps, policy, prefs)
<1> DEFINE kept == {i \in DOMAIN ps : IsTrusted(ps[i])}
           before == {pair \in kept \X kept :
                         Before(ps[pair[1]], ps[pair[2]], policy)}
           good == {p \in {ps[i] : i \in 1 .. n} :
                       PreferenceFailures(p, prefs) = {}}
           ranked == Rank(ps, policy)
           places == Preferred(ranked, prefs)
<1>1. kept \subseteq 1 .. n /\ kept \subseteq Nat /\ IsFiniteSet(kept)
    <2>1. IsFiniteSet(1 .. n) /\ kept \in SUBSET (1 .. n)
        BY FS_Interval
    <2> HIDE DEF kept
    <2>2. IsFiniteSet(kept)
        BY <2>1, FS_Subset
    <2> QED
        BY <2>1, <2>2
<1>2. \A i, j \in kept :
        <<i, j>> \in before <=> Before(ps[i], ps[j], policy)
    OBVIOUS
<1>3. IsWeakOrder(kept, before)
    <2>1. ASSUME NEW i \in kept, NEW j \in kept, NEW k \in kept
          PROVE  /\ ~Before(ps[i], ps[i], policy)
                 /\ Before(ps[i], ps[j], policy) /\ Before(ps[j], ps[k], policy)
                        => Before(ps[i], ps[k], policy)
                 /\ i # j => \/ Before(ps[i], ps[j], policy)
                             \/ Before(ps[j], ps[i], policy)
        BY <1>1, <2>1, ComparatorIsStrictTotalOrder
    <2> HIDE DEF kept, before
    <2> QED
        BY <1>2, <2>1 DEF IsWeakOrder
<1>4. ranked = Sorted(ps, kept, before)
    BY DEF Rank
<1>5. \A k \in DOMAIN ranked : ranked[k] \in {ps[i] : i \in 1 .. n}
    <2> HIDE DEF ranked, kept, before
    <2>1. PICK at : IsArranged(ranked, at, ps, kept, before)
        BY <1>1, <1>3, <1>4, SortedFacts
    <2>2. ASSUME NEW k \in DOMAIN ranked
          PROVE  at[k] \in 1 .. n /\ ranked[k] = ps[at[k]]
        BY <1>1, <2>1 DEF IsArranged
    <2> QED
        BY <2>2
<1>6. AreGoodPlaces(places, ranked, good)
    <2> HIDE DEF ranked
    <2> QED
        BY <1>5 DEF Preferred, AreGoodPlaces
<1>7. Select(ranked, prefs) = IF places = {} THEN Undefined ELSE ranked[Min(places)]
    BY DEF Select
<1>8. \A i \in kept : ps[i] \in good <=> PreferenceFailures(ps[i], prefs) = {}
    BY <1>1
<1> HIDE DEF before, good, ranked, places
<1>9. FirstIsBest(places, ranked, ps, kept, before, good)
    <2> HIDE DEF kept
    <2> QED
        BY <1>1, <1>3, <1>4, <1>6, FirstOfSorted
<1> QED
    BY <1>2, <1>7, <1>8, <1>9
    DEF ranked, Best, FirstIsBest, IsBestProvider, Fits

-----------------------------------------------------------------------------
\* An entry as far as its trust is looked at.
IsEntry(e) ==
    /\ e.search.node \in Nat
    /\ e.search.trust # Undefined =>
        /\ e.search.trust.registered \in BOOLEAN
        /\ e.search.trust.suspended \in BOOLEAN
        /\ e.search.trust.onchain \in BOOLEAN
        /\ e.search.trust.score # Undefined => e.search.trust.score \in Nat

IsSurfacePreference(prefs) ==
    /\ prefs.minTrust \in Nat
    /\ prefs.package \in BOOLEAN

\* A score is a natural number, 0 for an agent without one.
LEMMA ScoreType ==
    ASSUME NEW e, IsEntry(e)
    PROVE  TrustScore(e) \in Nat
BY DEF IsEntry, TrustScore

\* An offer as far as fees are looked at.
IsOffer(o) == o # Undefined => o.perRequest \in Fees /\ o.session \in Fees

\* An entry and the provider it stands for have one search result.
LEMMA SameSearch ==
    ASSUME NEW e, NEW o
    PROVE  /\ AsProvider(e, o).search = e.search
           /\ AsProvider(e, o).entry = o
           /\ TrustScore(AsProvider(e, o)) = TrustScore(e)
           /\ IsTrusted(AsProvider(e, o)) <=> IsTrusted(e)
BY DEF AsProvider, TrustScore, IsTrusted

\* It is a provider.
LEMMA EntryIsProvider ==
    ASSUME NEW e, IsEntry(e), NEW o, IsOffer(o)
    PROVE  IsProvider(AsProvider(e, o))
<1>1. /\ AsProvider(e, o).search = e.search
      /\ AsProvider(e, o).entry = o
    BY SameSearch
<1> QED
    BY <1>1 DEF IsEntry, IsOffer, IsProvider

-----------------------------------------------------------------------------
(***************************************************************************)
(* The filter of rankTrustedAgentSurfaces and the trust failures of the    *)
(* diagnostics, written apart, agree: a surface is ranked exactly when     *)
(* nothing is said against it, its published package included.             *)
(***************************************************************************)
THEOREM SurfaceTrustIsExplained ==
    ASSUME NEW e, IsEntry(e)
    PROVE  IsTrustedSurface(e) <=> SurfaceTrustFailures(e) = {}
<1>1. CASE e.search.trust = Undefined
    BY <1>1 DEF IsTrustedSurface, SurfaceTrustFailures, TrustFailures
<1>2. CASE e.search.trust # Undefined
    <2>1. TrustFailures(e) = {} <=>
            /\ e.search.trust.registered
            /\ ~e.search.trust.suspended
            /\ e.search.trust.onchain
        BY <1>2 DEF TrustFailures
    <2>2. SurfaceTrustFailures(e) = {} <=> TrustFailures(e) = {} /\ ~PackageRefused(e)
        BY DEF SurfaceTrustFailures
    <2> QED
        BY <1>2, <2>1, <2>2 DEF IsTrustedSurface
<1> QED
    BY <1>1, <1>2

(***************************************************************************)
(* The surfaces rankTrustedAgentSurfaces keeps are the providers           *)
(* rankTrustedAgentProviders would keep, less those whose package the      *)
(* chain refuses.                                                          *)
(***************************************************************************)
THEOREM TrustAgrees ==
    ASSUME NEW e, NEW o
    PROVE  IsTrustedSurface(e)
               <=> IsTrusted(AsProvider(e, o)) /\ ~PackageRefused(e)
BY SameSearch DEF IsTrustedSurface, IsTrusted

(***************************************************************************)
(* The comparator of rankTrustedAgentSurfaces is irreflexive and           *)
(* transitive, and decides between any two agents: what                    *)
(* Array.prototype.sort requires of it.                                    *)
(***************************************************************************)
THEOREM SurfaceOrderIsStrictTotal ==
    ASSUME NEW a, NEW b, NEW c, IsEntry(a), IsEntry(b), IsEntry(c)
    PROVE  /\ ~SurfaceBefore(a, a)
           /\ SurfaceBefore(a, b) /\ SurfaceBefore(b, c) => SurfaceBefore(a, c)
           /\ a.search.node # b.search.node
                => SurfaceBefore(a, b) \/ SurfaceBefore(b, a)
<1>1. /\ TrustScore(a) \in Nat /\ TrustScore(b) \in Nat /\ TrustScore(c) \in Nat
      /\ a.search.node \in Nat /\ b.search.node \in Nat /\ c.search.node \in Nat
    BY ScoreType DEF IsEntry
<1> QED
    BY <1>1 DEF SurfaceBefore

(***************************************************************************)
(* The comparator of agentDiscovery is that of agentRuntime where offers   *)
(* do not decide, whatever the policy and the cards: of two providers, the *)
(* first comes before the other if its offer is better, or if the other's  *)
(* is not and its surface comes first.                                     *)
(***************************************************************************)
THEOREM OrderAgrees ==
    ASSUME Undefined \notin Nat, NEW a, NEW b, IsEntry(a), IsEntry(b),
           NEW m, NEW o, IsOffer(m), IsOffer(o), NEW policy, IsPolicy(policy)
    PROVE  LET p == AsProvider(a, m)
               q == AsProvider(b, o)
           IN  Before(p, q, policy) <=>
                    \/ BetterOffer(p, q, policy)
                    \/ ~BetterOffer(q, p, policy) /\ SurfaceBefore(a, b)
<1> DEFINE p == AsProvider(a, m)
           q == AsProvider(b, o)
<1>1. /\ p.search = a.search /\ q.search = b.search
      /\ TrustScore(p) = TrustScore(a) /\ TrustScore(q) = TrustScore(b)
    BY SameSearch
<1>2. IsProvider(p) /\ IsProvider(q)
    BY EntryIsProvider
<1> HIDE DEF p, q
<1>3. /\ ModeScore(p, policy) \in Int /\ ModeScore(q, policy) \in Int
      /\ TrustScore(p) \in Int /\ TrustScore(q) \in Int
      /\ AdvertisedFee(p) \in Fees /\ AdvertisedFee(q) \in Fees
    BY <1>2, ModeScoreType, ProviderTypes
<1>4. /\ FeesDecide(p, q, policy) <=> FeesDecide(q, p, policy)
      /\ FeesDecide(p, q, policy) => (FeeBefore(p, q) <=> ~FeeBefore(q, p))
    BY <1>3 DEF FeesDecide, FeeBefore, Fees
<1>5. SurfaceBefore(a, b) <=>
        \/ TrustScore(p) > TrustScore(q)
        \/ TrustScore(p) = TrustScore(q) /\ p.search.node < q.search.node
    BY <1>1 DEF SurfaceBefore
<1>6. Before(p, q, policy) <=>
        \/ ModeScore(p, policy) > ModeScore(q, policy)
        \/ /\ ModeScore(p, policy) = ModeScore(q, policy)
           /\ \/ TrustScore(p) > TrustScore(q)
              \/ /\ TrustScore(p) = TrustScore(q)
                 /\ IF FeesDecide(p, q, policy) THEN FeeBefore(p, q)
                    ELSE p.search.node < q.search.node
    BY <1>3 DEF Before
<1>7. Before(p, q, policy) <=>
        \/ BetterOffer(p, q, policy)
        \/ ~BetterOffer(q, p, policy) /\ SurfaceBefore(a, b)
    BY <1>3, <1>4, <1>5, <1>6 DEF BetterOffer
<1> QED
    BY <1>7 DEF p, q

(***************************************************************************)
(* preferenceFailures says nothing against a surface exactly when          *)
(* getPreferenceFailures says nothing against the provider it stands for,  *)
(* although they name different failures for what is missing.  A minimum   *)
(* of 0 is no minimum to the one and holds of every score to the other.    *)
(***************************************************************************)
THEOREM PreferencesAgree ==
    ASSUME NEW e, NEW prefs, IsEntry(e), IsSurfacePreference(prefs),
           NEW o, AsProvider(e, o).card # Undefined
    PROVE  SurfaceFailures(e, prefs) = {}
               <=> PreferenceFailures(AsProvider(e, o), prefs) = {}
<1> DEFINE p == AsProvider(e, o)
           enough == prefs.minTrust <= TrustScore(e)
           reached == prefs.modes \subseteq e.search.modes
           low == "trust score below minimum"
           modes == "required connection modes missing"
           prefix == "package prefix mismatch"
           surfaceNamed ==
               {f \in {low, modes} :
                   \/ /\ f = low
                      /\ prefs.minTrust # 0 /\ TrustScore(e) < prefs.minTrust
                   \/ f = modes /\ ~(prefs.modes \subseteq e.search.modes)}
           named ==
               {f \in {low, modes, prefix} :
                   \/ f = low /\ prefs.minTrust > TrustScore(p)
                   \/ f = modes /\ ~(prefs.modes \subseteq p.search.modes)
                   \/ /\ f = prefix
                      /\ prefs.package
                      /\ p.card = Undefined \/ ~p.card.package}
           routed(profile) ==
               IF prefs.facets = {} THEN {}
               ELSE IF profile = Undefined THEN {"routing profile missing"}
               ELSE prefs.facets \ profile
<1>1. TrustScore(e) \in Nat /\ prefs.minTrust \in Nat /\ prefs.package \in BOOLEAN
    BY ScoreType DEF IsSurfacePreference
<1>2. /\ p.search = e.search /\ TrustScore(p) = TrustScore(e)
      /\ p.card # Undefined
      /\ e.runtime = Undefined => ~p.card.package /\ p.card.routing = Undefined
      /\ e.runtime # Undefined => /\ p.card.package <=> e.runtime.package
                                  /\ p.card.routing = e.runtime.routing
    BY SameSearch DEF AsProvider
<1>3. SurfaceFailures(e, prefs) =
        surfaceNamed \cup
            IF e.runtime = Undefined
            THEN IF prefs.package \/ prefs.facets # {}
                 THEN {"runtime metadata missing"} ELSE {}
            ELSE (IF prefs.package /\ ~e.runtime.package THEN {prefix} ELSE {})
                 \cup routed(e.runtime.routing)
    BY DEF SurfaceFailures
<1>4. PreferenceFailures(p, prefs) =
        named \cup
            IF prefs.facets = {} THEN {}
            ELSE IF p.card = Undefined \/ p.card.routing = Undefined
                 THEN {"routing profile missing"}
                 ELSE prefs.facets \ p.card.routing
    BY DEF PreferenceFailures
<1> HIDE DEF p
<1>5. surfaceNamed = {} <=> enough /\ reached
    <2>1. /\ surfaceNamed \subseteq {low, modes}
          /\ low \in surfaceNamed <=>
                prefs.minTrust # 0 /\ TrustScore(e) < prefs.minTrust
          /\ modes \in surfaceNamed <=> ~reached
        OBVIOUS
    <2>2. enough <=> ~(prefs.minTrust # 0 /\ TrustScore(e) < prefs.minTrust)
        BY <1>1
    <2> HIDE DEF surfaceNamed, enough, reached
    <2> QED
        BY <2>1, <2>2
<1>6. named = {} <=>
        enough /\ reached /\ (prefs.package => p.card # Undefined /\ p.card.package)
    <2>1. /\ named \subseteq {low, modes, prefix}
          /\ low \in named <=> prefs.minTrust > TrustScore(p)
          /\ modes \in named <=> ~(prefs.modes \subseteq p.search.modes)
          /\ prefix \in named <=>
                prefs.package /\ (p.card = Undefined \/ ~p.card.package)
        OBVIOUS
    <2>2. /\ enough <=> ~(prefs.minTrust > TrustScore(p))
          /\ reached <=> prefs.modes \subseteq p.search.modes
        BY <1>1, <1>2
    <2> HIDE DEF named, enough, reached
    <2> QED
        BY <1>1, <2>1, <2>2
<1> HIDE DEF surfaceNamed, named, enough, reached
<1>7. CASE e.runtime = Undefined
    <2>1. SurfaceFailures(e, prefs) = {} <=>
            surfaceNamed = {} /\ ~prefs.package /\ prefs.facets = {}
        BY <1>3, <1>7
    <2>2. PreferenceFailures(p, prefs) = {} <=> named = {} /\ prefs.facets = {}
        BY <1>2, <1>4, <1>7
    <2> QED
        BY <1>2, <1>5, <1>6, <1>7, <2>1, <2>2 DEF p
<1>8. CASE e.runtime # Undefined
    <2>1. SurfaceFailures(e, prefs) = {} <=>
            /\ surfaceNamed = {}
            /\ prefs.package => e.runtime.package
            /\ routed(e.runtime.routing) = {}
        BY <1>3, <1>8
    <2>2. PreferenceFailures(p, prefs) = {} <=>
            named = {} /\ routed(e.runtime.routing) = {}
        BY <1>2, <1>4, <1>8
    <2> QED
        BY <1>2, <1>5, <1>6, <1>8, <2>1, <2>2 DEF p
<1> QED
    BY <1>7, <1>8 DEF p

-----------------------------------------------------------------------------
\* A surface that is trusted and against which the preferences say nothing.
SurfaceFits(e, prefs) == IsTrustedSurface(e) /\ SurfaceFailures(e, prefs) = {}

\* c is a surface that fits and that no other such one of es comes before, and
\* Undefined only if none fits.
IsBestSurface(c, es, prefs) ==
    IF \A i \in DOMAIN es : ~SurfaceFits(es[i], prefs) THEN c = Undefined
    ELSE \E i \in DOMAIN es :
            /\ c = es[i] /\ SurfaceFits(es[i], prefs)
            /\ \A j \in DOMAIN es :
                SurfaceFits(es[j], prefs) => ~SurfaceBefore(es[j], es[i])

(***************************************************************************)
(* What selectPreferredAgentSurface chooses of what                        *)
(* rankTrustedAgentSurfaces has ranked: the trusted surface that fits and  *)
(* that no other such one comes before, whatever was found; none only if   *)
(* none fits.                                                              *)
(***************************************************************************)
THEOREM BestOfSurfaces ==
    ASSUME NEW n \in Nat, NEW es, DOMAIN es = 1 .. n,
           \A i \in 1 .. n : IsEntry(es[i]),
           \A i, j \in 1 .. n : es[i].search.node = es[j].search.node => i = j,
           NEW prefs
    PROVE  IsBestSurface(SelectSurface(RankSurfaces(es), prefs), es, prefs)
<1> DEFINE kept == {i \in DOMAIN es : IsTrustedSurface(es[i])}
           before == {pair \in kept \X kept :
                         SurfaceBefore(es[pair[1]], es[pair[2]])}
           good == {e \in {es[i] : i \in 1 .. n} : SurfaceFailures(e, prefs) = {}}
           ranked == RankSurfaces(es)
           places == {i \in DOMAIN ranked : SurfaceFailures(ranked[i], prefs) = {}}
<1>1. kept \subseteq 1 .. n /\ kept \subseteq Nat /\ IsFiniteSet(kept)
    <2>1. IsFiniteSet(1 .. n) /\ kept \in SUBSET (1 .. n)
        BY FS_Interval
    <2> HIDE DEF kept
    <2>2. IsFiniteSet(kept)
        BY <2>1, FS_Subset
    <2> QED
        BY <2>1, <2>2
<1>2. \A i, j \in kept : <<i, j>> \in before <=> SurfaceBefore(es[i], es[j])
    OBVIOUS
<1>3. IsWeakOrder(kept, before)
    <2>1. ASSUME NEW i \in kept, NEW j \in kept, NEW k \in kept
          PROVE  /\ ~SurfaceBefore(es[i], es[i])
                 /\ SurfaceBefore(es[i], es[j]) /\ SurfaceBefore(es[j], es[k])
                        => SurfaceBefore(es[i], es[k])
                 /\ i # j => \/ SurfaceBefore(es[i], es[j])
                             \/ SurfaceBefore(es[j], es[i])
        BY <1>1, <2>1, SurfaceOrderIsStrictTotal
    <2> HIDE DEF kept, before
    <2> QED
        BY <1>2, <2>1 DEF IsWeakOrder
<1>4. ranked = Sorted(es, kept, before)
    BY DEF RankSurfaces
<1>5. \A k \in DOMAIN ranked : ranked[k] \in {es[i] : i \in 1 .. n}
    <2> HIDE DEF ranked, kept, before
    <2>1. PICK at : IsArranged(ranked, at, es, kept, before)
        BY <1>1, <1>3, <1>4, SortedFacts
    <2>2. ASSUME NEW k \in DOMAIN ranked
          PROVE  at[k] \in 1 .. n /\ ranked[k] = es[at[k]]
        BY <1>1, <2>1 DEF IsArranged
    <2> QED
        BY <2>2
<1>6. AreGoodPlaces(places, ranked, good)
    <2> HIDE DEF ranked
    <2> QED
        BY <1>5 DEF AreGoodPlaces
<1>7. SelectSurface(ranked, prefs)
        = IF places = {} THEN Undefined ELSE ranked[Min(places)]
    BY DEF SelectSurface
<1>8. \A i \in kept : es[i] \in good <=> SurfaceFailures(es[i], prefs) = {}
    BY <1>1
<1> HIDE DEF before, good, ranked, places
<1>9. FirstIsBest(places, ranked, es, kept, before, good)
    <2> HIDE DEF kept
    <2> QED
        BY <1>1, <1>3, <1>4, <1>6, FirstOfSorted
<1> QED
    BY <1>2, <1>7, <1>8, <1>9
    DEF ranked, Best, FirstIsBest, IsBestSurface, SurfaceFits

(***************************************************************************)
(* The two selections choose the same but for offers: the surface that     *)
(* selectPreferredAgentSurface takes of the entries found stands for the   *)
(* provider that resolvePreferredAgentProvider takes of what the entries   *)
(* stand for, those left out whose package the chain refuses, whatever     *)
(* their cards offer and the policy prefers; unless others that fit offer  *)
(* more to that policy, of which the second then takes one.                *)
(***************************************************************************)
THEOREM ChoicesAgree ==
    ASSUME Undefined \notin Nat, NEW n \in Nat, NEW es, DOMAIN es = 1 .. n,
           \A i \in 1 .. n : IsEntry(es[i]) /\ es[i] # Undefined,
           \A i, j \in 1 .. n : es[i].search.node = es[j].search.node => i = j,
           NEW kept,
           kept = Sorted(es, {i \in DOMAIN es : ~PackageRefused(es[i])}, {}),
           NEW offers,
           \A k \in DOMAIN kept :
               /\ IsOffer(offers[k])
               /\ \A i \in 1 .. n : AsProvider(es[i], offers[k]).card # Undefined,
           NEW prefs, IsSurfacePreference(prefs),
           NEW policy, IsPolicy(policy)
    PROVE  SameButForOffers(SelectSurface(RankSurfaces(es), prefs), kept, offers,
                            policy, prefs)
<1> DEFINE places == {i \in DOMAIN es : ~PackageRefused(es[i])}
           providers == [i \in DOMAIN kept |-> AsProvider(kept[i], offers[i])]
           chosen == SelectSurface(RankSurfaces(es), prefs)
           best == Select(Rank(providers, policy), prefs)
           better(i) == {j \in DOMAIN kept :
                            /\ IsTrusted(providers[j])
                            /\ PreferenceFailures(providers[j], prefs) = {}
                            /\ BetterOffer(providers[j], providers[i], policy)}
           N == Cardinality(places)
           fit == {i \in 1 .. n : SurfaceFits(es[i], prefs)}
           fitting == {k \in 1 .. N : Fits(providers[k], prefs)}
<1>1. /\ places \subseteq 1 .. n /\ places \subseteq Nat /\ IsFiniteSet(places)
      /\ N \in Nat
    <2>0. places \subseteq DOMAIN es
        OBVIOUS
    <2> HIDE DEF places
    <2>1. IsFiniteSet(1 .. n) /\ places \in SUBSET (1 .. n)
        BY <2>0, FS_Interval
    <2>2. IsFiniteSet(places)
        BY <2>1, FS_Subset
    <2> QED
        BY <2>1, <2>2, FS_CardinalityType
<1>2. PICK at : IsArranged(kept, at, es, places, {})
    <2>1. IsWeakOrder(places, {})
        BY DEF IsWeakOrder
    <2>2. kept = Sorted(es, places, {})
        OBVIOUS
    <2> HIDE DEF places
    <2>3. \E at : IsArranged(Sorted(es, places, {}), at, es, places, {})
        BY <1>1, <2>1, SortedFacts
    <2> QED
        BY <2>2, <2>3
<1>3. /\ DOMAIN kept = 1 .. N /\ DOMAIN providers = 1 .. N
      /\ \A k \in 1 .. N : /\ at[k] \in places /\ kept[k] = es[at[k]]
                           /\ providers[k] = AsProvider(es[at[k]], offers[k])
      /\ \A k, l \in 1 .. N : at[k] = at[l] => k = l
      /\ \A i \in places : \E k \in 1 .. N : at[k] = i
    <2> HIDE DEF places
    <2> QED
        BY <1>2 DEF IsArranged
<1>4. \A i \in places : i \in 1 .. n /\ ~PackageRefused(es[i])
    OBVIOUS
<1>5. \A i \in fit : i \in places
    BY TrustAgrees DEF SurfaceFits
<1> HIDE DEF places, N
<1>6. ASSUME NEW k \in 1 .. N
      PROVE  /\ at[k] \in 1 .. n /\ ~PackageRefused(es[at[k]])
             /\ IsEntry(es[at[k]]) /\ IsOffer(offers[k])
             /\ AsProvider(es[at[k]], offers[k]).card # Undefined
    BY <1>3, <1>4
<1> HIDE DEF providers
<1>7. ASSUME NEW k \in 1 .. N
      PROVE  k \in fitting <=> at[k] \in fit
    <2>1. IsTrustedSurface(es[at[k]]) <=> IsTrusted(providers[k])
        BY <1>3, <1>6, TrustAgrees
    <2>2. SurfaceFailures(es[at[k]], prefs) = {}
            <=> PreferenceFailures(providers[k], prefs) = {}
        BY <1>3, <1>6, PreferencesAgree
    <2> QED
        BY <1>6, <2>1, <2>2 DEF Fits, SurfaceFits
<1>8. \A k \in 1 .. N : IsProvider(providers[k])
    BY <1>3, <1>6, EntryIsProvider
<1>9. \A k, l \in 1 .. N :
        providers[k].search.node = providers[l].search.node => k = l
    BY <1>3, <1>6, SameSearch
<1>10. IF fitting = {} THEN best = Undefined
       ELSE \E k \in fitting :
            /\ best = providers[k]
            /\ \A l \in fitting : ~Before(providers[l], providers[k], policy)
    <2>1. IsBestProvider(best, providers, policy, prefs)
        BY <1>1, <1>3, <1>8, <1>9, BestOfRank
    <2> HIDE DEF best
    <2> QED
        BY <1>3, <2>1 DEF IsBestProvider
<1>11. IF fit = {} THEN chosen = Undefined
       ELSE \E i \in fit : /\ chosen = es[i]
                           /\ \A j \in fit : ~SurfaceBefore(es[j], es[i])
    <2>1. IsBestSurface(chosen, es, prefs)
        BY BestOfSurfaces
    <2> HIDE DEF chosen
    <2> QED
        BY <2>1 DEF IsBestSurface
<1>12. \A i : better(i) = {j \in fitting :
                             BetterOffer(providers[j], providers[i], policy)}
    BY <1>3 DEF Fits
<1>13. IF chosen = Undefined THEN best = Undefined
       ELSE \E i \in DOMAIN kept :
               /\ kept[i] = chosen
               /\ \/ better(i) = {} /\ best = providers[i]
                  \/ \E j \in better(i) : best = providers[j]
  <2> HIDE DEF best, chosen, better
  <2>1. CASE fit = {}
    <3>1. fitting = {}
        BY <1>7, <2>1
    <3> QED
        BY <1>10, <1>11, <2>1, <3>1
  <2>2. CASE fit # {}
    <3>1. PICK i \in fit : /\ chosen = es[i]
                           /\ \A j \in fit : ~SurfaceBefore(es[j], es[i])
        BY <1>11, <2>2
    <3>2. PICK l \in 1 .. N : at[l] = i
        BY <1>3, <1>5
    <3>3. l \in fitting
        BY <1>7, <3>2
    <3>4. PICK k \in fitting :
            /\ best = providers[k]
            /\ \A m \in fitting : ~Before(providers[m], providers[k], policy)
        BY <1>10, <3>3
    <3>0. chosen # Undefined
        BY <3>1
    <3>5. l \in DOMAIN kept /\ kept[l] = chosen
        BY <1>3, <3>1, <3>2
    <3>6. ASSUME NEW x \in 1 .. N, NEW y \in 1 .. N
          PROVE  Before(providers[x], providers[y], policy) <=>
                    \/ BetterOffer(providers[x], providers[y], policy)
                    \/ /\ ~BetterOffer(providers[y], providers[x], policy)
                       /\ SurfaceBefore(es[at[x]], es[at[y]])
        BY <1>3, <1>6, OrderAgrees
    <3>7. CASE BetterOffer(providers[k], providers[l], policy)
        <4>1. k \in better(l)
            BY <1>12, <3>4, <3>7
        <4>2. \E j \in better(l) : best = providers[j]
            BY <3>4, <4>1
        <4> QED
            BY <3>0, <3>5, <4>2
    <3>8. CASE ~BetterOffer(providers[k], providers[l], policy)
        <4>1. ~SurfaceBefore(es[at[l]], es[at[k]])
            BY <3>3, <3>4, <3>6, <3>8
        <4>2. ~SurfaceBefore(es[at[k]], es[at[l]])
            BY <1>7, <3>1, <3>2
        <4>3. at[k] = at[l]
            BY <1>6, <3>2, <4>1, <4>2, SurfaceOrderIsStrictTotal
        <4>4. k = l
            BY <1>3, <4>3
        <4>5. \A j \in fitting : ~BetterOffer(providers[j], providers[l], policy)
            BY <3>4, <3>6, <4>4
        <4>6. better(l) = {}
            BY <1>12, <4>5
        <4> QED
            BY <3>0, <3>4, <3>5, <4>4, <4>6
    <3> QED
        BY <3>7, <3>8
  <2> QED
      BY <2>1, <2>2
<1> QED
    BY <1>13 DEF SameButForOffers, providers
=============================================================================
