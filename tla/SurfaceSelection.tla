-------------------------- MODULE SurfaceSelection --------------------------
(***************************************************************************)
(* How src/src/surfaces/agentRuntime.ts chooses among agents: as           *)
(* agentDiscovery.ts does, but by what the chain says of the contract      *)
(* behind an agent and not by what the agent's card says.                  *)
(*                                                                         *)
(* An entry is a record [search, runtime]: search as in ProviderSelection; *)
(* runtime Undefined, or [address, package, routing, published], where     *)
(* package says whether the package name has the prefix asked for, routing *)
(* is as in a card, and published is Undefined or whether the published    *)
(* package is trusted.                                                     *)
(***************************************************************************)
EXTENDS ProviderSelection

\* normalizeRuntimeSurface, of [address, artifact, pkg].  artifact is
\* Undefined or [identity, routing], identity Undefined or whether the
\* profile's package name has the prefix; pkg Undefined or [named, published].
NormalizeRuntime(info) ==
    LET artifact == info.artifact
        pkg == info.pkg
    IN  [address |-> info.address,
         package |->
             IF artifact # Undefined /\ artifact.identity # Undefined
             THEN artifact.identity
             ELSE pkg # Undefined /\ pkg.named,
         routing |-> IF artifact = Undefined THEN Undefined
                     ELSE artifact.routing,
         published |-> IF pkg = Undefined THEN Undefined ELSE pkg.published]

PackageRefused(e) == e.runtime # Undefined /\ e.runtime.published = FALSE

\* Mutated form: the published package is left to the diagnostics.
IsTrustedSurfaceAlone(e) == IsTrusted(e)

\* isTrustedSearchSurface
IsTrustedSurface(e) ==
    /\ e.search.trust # Undefined
    /\ e.search.trust.registered
    /\ ~e.search.trust.suspended
    /\ e.search.trust.onchain
    /\ ~PackageRefused(e)

\* preferenceFailures
SurfaceFailures(e, prefs) ==
    {f \in {"trust score below minimum", "required connection modes missing"} :
        \/ /\ f = "trust score below minimum"
           /\ prefs.minTrust # 0 /\ TrustScore(e) < prefs.minTrust
        \/ /\ f = "required connection modes missing"
           /\ ~(prefs.modes \subseteq e.search.modes)}
    \cup
    IF e.runtime = Undefined
    THEN IF prefs.package \/ prefs.facets # {}
         THEN {"runtime metadata missing"} ELSE {}
    ELSE (IF prefs.package /\ ~e.runtime.package
          THEN {"package prefix mismatch"} ELSE {})
         \cup (IF prefs.facets = {} THEN {}
               ELSE IF e.runtime.routing = Undefined
                    THEN {"routing profile missing"}
                    ELSE prefs.facets \ e.runtime.routing)

\* Mutated form: in the order of trust only, as they were found.
SurfaceBeforeByTrust(a, b) == TrustScore(a) > TrustScore(b)

SurfaceBefore(a, b) ==
    \/ TrustScore(a) > TrustScore(b)
    \/ TrustScore(a) = TrustScore(b) /\ a.search.node < b.search.node

\* rankTrustedAgentSurfaces
RankSurfaces(entries) ==
    LET kept == {i \in DOMAIN entries : IsTrustedSurface(entries[i])}
    IN  Sorted(entries, kept,
               {pair \in kept \X kept :
                   SurfaceBefore(entries[pair[1]], entries[pair[2]])})

\* selectPreferredAgentSurface, by filterPreferredAgentSurfaces
SelectSurface(ranked, prefs) ==
    LET fit == {i \in DOMAIN ranked : SurfaceFailures(ranked[i], prefs) = {}}
    IN  IF fit = {} THEN Undefined ELSE ranked[Min(fit)]

\* The trust failures of diagnosePreferredAgentSurfaces.
SurfaceTrustFailures(e) ==
    TrustFailures(e)
    \cup IF PackageRefused(e) THEN {"package is untrusted"} ELSE {}

\* diagnosePreferredAgentSurfaces
DiagnoseSurfaces(entries, prefs) ==
    [i \in DOMAIN entries |->
        [entry |-> entries[i],
         preferred |-> /\ SurfaceTrustFailures(entries[i]) = {}
                       /\ SurfaceFailures(entries[i], prefs) = {}]]

-----------------------------------------------------------------------------
(***************************************************************************)
(* What the two selections have to do with each other.                     *)
(***************************************************************************)
\* The provider agentDiscovery judges if the agent's card makes that offer, or
\* none if it is Undefined, and says of package and routing what the chain says.
AsProvider(e, offer) ==
    [search |-> e.search,
     entry |-> offer,
     card |-> [capabilities |-> IF offer = Undefined THEN <<>> ELSE <<offer>>,
               package |-> e.runtime # Undefined /\ e.runtime.package,
               routing |-> IF e.runtime = Undefined THEN Undefined
                           ELSE e.runtime.routing]]

\* What only the order of providers looks at: a mode the policy prefers, or,
\* mode and trust the same, a lower fee where the policy prefers that.
BetterOffer(p, q, policy) ==
    \/ ModeScore(p, policy) > ModeScore(q, policy)
    \/ /\ ModeScore(p, policy) = ModeScore(q, policy)
       /\ TrustScore(p) = TrustScore(q)
       /\ FeesDecide(p, q, policy) /\ FeeBefore(p, q)

\* Of the agents kept, agentDiscovery chooses the one chosen unless others
\* that fit as well make a better offer; then it chooses one of those.
SameButForOffers(chosen, kept, offers, policy, prefs) ==
    LET provider == [i \in DOMAIN kept |-> AsProvider(kept[i], offers[i])]
        best == Select(Rank(provider, policy), prefs)
        better(i) == {j \in DOMAIN kept :
                         /\ IsTrusted(provider[j])
                         /\ PreferenceFailures(provider[j], prefs) = {}
                         /\ BetterOffer(provider[j], provider[i], policy)}
    IN  IF chosen = Undefined THEN best = Undefined
        ELSE \E i \in DOMAIN kept :
                /\ kept[i] = chosen
                /\ \/ better(i) = {} /\ best = provider[i]
                   \/ \E j \in better(i) : best = provider[j]
=============================================================================
