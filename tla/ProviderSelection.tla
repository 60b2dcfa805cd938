-------------------------- MODULE ProviderSelection --------------------------
(***************************************************************************)
(* How src/src/surfaces/agentDiscovery.ts chooses a provider of an agent   *)
(* capability among those a search found: trust, rank, preferences and the *)
(* diagnostics that explain the choice.  Pure functions; AgentDiscovery    *)
(* models the calls that gather their arguments.                           *)
(*                                                                         *)
(* A provider is a record [search, entry, card]:                           *)
(*   search: what the search returned, [node, trust, modes].  A nodeRecord *)
(*           is a number, in the order of localeCompare; trust is          *)
(*           Undefined or [registered, suspended, onchain, score];         *)
(*   card:   its parsed card, Undefined or [capabilities, package,         *)
(*           routing]: package says whether its name has the prefix asked  *)
(*           for, and routing is Undefined or the set of facets the card's *)
(*           routing profile has as asked for;                             *)
(*   entry:  the card's entry for the capability, Undefined or [name,      *)
(*           mode, perRequest, session]; a fee is a number, or Undefined   *)
(*           when it is absent or is not a string of digits.               *)
(***************************************************************************)
EXTENDS Integers, Sequences, FiniteSets, SequencesExt

CONSTANT Undefined      \* JavaScript's undefined, and null

\* What a routing profile may be asked for (serviceKind, ...).
Facets == {"serviceKind", "capabilityKind", "privacyMode", "receiptMode",
           "disclosureReady"}

(***************************************************************************)
(* Policies.  A capability is named <family>.<rest>; only its family       *)
(* matters here.                                                           *)
(***************************************************************************)
SponsoredFirst == <<"sponsored", "hybrid", "paid">>
PaidFirst == <<"paid", "hybrid", "sponsored">>

\* resolveAgentProviderExecutionPolicy, without an override.
ExecutionPolicy(family) ==
    CASE family = "sponsor" -> [searchLimit |-> 6,
             preferredModes |-> SponsoredFirst, preferLowerFee |-> FALSE]
      [] family = "gateway" -> [searchLimit |-> 5,
             preferredModes |-> SponsoredFirst, preferLowerFee |-> FALSE]
      [] family \in {"observation", "oracle", "news", "proof", "storage"} ->
             [searchLimit |-> 10,
              preferredModes |-> PaidFirst, preferLowerFee |-> TRUE]
      [] OTHER -> [searchLimit |-> 10,
             preferredModes |-> SponsoredFirst, preferLowerFee |-> FALSE]

-----------------------------------------------------------------------------
(***************************************************************************)
(* Trust.                                                                  *)
(***************************************************************************)
TrustScore(p) ==
    IF p.search.trust = Undefined \/ p.search.trust.score = Undefined
    THEN 0
    ELSE p.search.trust.score

\* Mutated form: suspension is not looked at.
IsTrustedOnce(p) ==
    /\ p.search.trust # Undefined
    /\ p.search.trust.registered
    /\ p.search.trust.onchain

\* The filter of rankTrustedAgentProviders.
IsTrusted(p) ==
    /\ p.search.trust # Undefined
    /\ p.search.trust.registered
    /\ ~p.search.trust.suspended
    /\ p.search.trust.onchain

\* getTrustFailures.
TrustFailures(p) ==
    LET trust == p.search.trust
    IN  IF trust = Undefined THEN {"missing trust summary"}
        ELSE {f \in {"provider not registered", "provider suspended",
                     "capability missing on-chain"} :
                \/ f = "provider not registered" /\ ~trust.registered
                \/ f = "provider suspended" /\ trust.suspended
                \/ f = "capability missing on-chain" /\ ~trust.onchain}

-----------------------------------------------------------------------------
(***************************************************************************)
(* Rank.                                                                   *)
(***************************************************************************)

\* providerModeScore: 0, or more the earlier the mode is preferred.
ModeScore(p, policy) ==
    LET modes == policy.preferredModes
    IN  IF p.entry # Undefined /\ \E i \in DOMAIN modes : modes[i] = p.entry.mode
        THEN Len(modes) + 1 - (CHOOSE i \in DOMAIN modes :
                                   modes[i] = p.entry.mode)
        ELSE 0

\* providerAdvertisedFee.
AdvertisedFee(p) ==
    IF p.entry = Undefined THEN Undefined
    ELSE IF p.entry.perRequest # Undefined THEN p.entry.perRequest
    ELSE p.entry.session

\* The fees of two providers decide which is first.
FeesDecide(left, right, policy) ==
    policy.preferLowerFee /\ AdvertisedFee(left) # AdvertisedFee(right)

\* The provider with the lower fee; one that advertises none is last.
FeeBefore(left, right) ==
    /\ AdvertisedFee(left) # Undefined
    /\ \/ AdvertisedFee(right) = Undefined
       \/ AdvertisedFee(left) < AdvertisedFee(right)

\* Mutated form: fees are compared only when both are advertised.
BeforeIfBothPriced(left, right, policy) ==
    LET byMode == ModeScore(right, policy) - ModeScore(left, policy)
        byTrust == TrustScore(right) - TrustScore(left)
        priced == /\ AdvertisedFee(left) # Undefined
                  /\ AdvertisedFee(right) # Undefined
    IN  \/ byMode < 0
        \/ byMode = 0 /\ byTrust < 0
        \/ /\ byMode = 0 /\ byTrust = 0
           /\ IF priced /\ FeesDecide(left, right, policy)
              THEN FeeBefore(left, right)
              ELSE left.search.node < right.search.node

\* The comparator of the sort is negative: left comes before right.
Before(left, right, policy) ==
    LET byMode == ModeScore(right, policy) - ModeScore(left, policy)
        byTrust == TrustScore(right) - TrustScore(left)
    IN  \/ byMode < 0
        \/ byMode = 0 /\ byTrust < 0
        \/ /\ byMode = 0 /\ byTrust = 0
           /\ IF FeesDecide(left, right, policy)
              THEN FeeBefore(left, right)
              ELSE left.search.node < right.search.node

\* What filter and then sort make of s: its elements at the places kept.
\* before is the pairs of places of which the comparator puts the first before
\* the second; the sort is stable, so two elements neither of which comes
\* before the other stay as they were.
Sorted(s, kept, before) ==
    LET upTo(i) == {j \in kept : \/ <<j, i>> \in before
                                 \/ <<i, j>> \notin before /\ j <= i}
    IN  [k \in 1 .. Cardinality(kept) |->
            s[CHOOSE i \in kept : Cardinality(upTo(i)) = k]]

\* rankTrustedAgentProviders.
Rank(providers, policy) ==
    LET kept == {i \in DOMAIN providers : IsTrusted(providers[i])}
    IN  Sorted(providers, kept,
               {pair \in kept \X kept :
                   Before(providers[pair[1]], providers[pair[2]], policy)})

-----------------------------------------------------------------------------
(***************************************************************************)
(* Preferences: [minTrust, modes, package, facets].                        *)
(***************************************************************************)

\* getPreferenceFailures.  A search result without modes has mask 0.
PreferenceFailures(p, prefs) ==
    {f \in {"trust score below minimum", "required connection modes missing",
            "package prefix mismatch"} :
        \/ /\ f = "trust score below minimum"
           /\ prefs.minTrust > TrustScore(p)
        \/ /\ f = "required connection modes missing"
           /\ ~(prefs.modes \subseteq p.search.modes)
        \/ /\ f = "package prefix mismatch"
           /\ prefs.package
           /\ p.card = Undefined \/ ~p.card.package}
    \cup
    IF prefs.facets = {} THEN {}
    ELSE IF p.card = Undefined \/ p.card.routing = Undefined
         THEN {"routing profile missing"}
         ELSE prefs.facets \ p.card.routing

\* filterPreferredAgentProviders: the places of the rank it keeps.
Preferred(ranked, prefs) ==
    {i \in DOMAIN ranked : PreferenceFailures(ranked[i], prefs) = {}}

\* resolvePreferredAgentProvider: the first of these.
Select(ranked, prefs) ==
    LET preferred == Preferred(ranked, prefs)
    IN  IF preferred = {} THEN Undefined ELSE ranked[Min(preferred)]

\* diagnoseAgentProviders
Diagnose(providers, prefs) ==
    [i \in DOMAIN providers |->
        [provider |-> providers[i],
         preferred |-> /\ TrustFailures(providers[i]) = {}
                       /\ PreferenceFailures(providers[i], prefs) = {}]]

-----------------------------------------------------------------------------
(***************************************************************************)
(* The order the rank stands for: the more preferred mode first, then the  *)
(* higher trust, then the lower fee where the policy asks for it, no fee   *)
(* counting as the highest, then the lower record.                         *)
(***************************************************************************)
LowerFee(a, b) == a # Undefined /\ (b = Undefined \/ a < b)

RankKey(p, policy) ==
    <<ModeScore(p, policy), TrustScore(p),
      IF policy.preferLowerFee THEN AdvertisedFee(p) ELSE Undefined,
      p.search.node>>

KeyBefore(k, l) ==
    \/ k[1] > l[1]
    \/ k[1] = l[1] /\ k[2] > l[2]
    \/ k[1] = l[1] /\ k[2] = l[2] /\ LowerFee(k[3], l[3])
    \/ k[1] = l[1] /\ k[2] = l[2] /\ k[3] = l[3] /\ k[4] < l[4]
=============================================================================
