--------------------------- MODULE AgentDiscovery ---------------------------
(***************************************************************************)
(* searchPreferredAgentProviderWithDiagnostics and ...OrThrow, and their   *)
(* directory forms (src/src/surfaces/agentDiscovery.ts): a search, then    *)
(* one request after the other for the card of each result, then the       *)
(* choice.  Agents change what they publish while the requests run.        *)
(***************************************************************************)
EXTENDS ProviderSelection

CONSTANTS
    Nodes,          \* records of the agents the node knows
    Trusts,         \* trust summaries the chain may give
    Modes,          \* connection modes an agent may announce: a set of sets
    Cards,          \* cards an agent may publish, Undefined if not parseable
    Preferences,    \* what callers prefer
    Families,       \* families of capabilities callers ask for
    MaxChanges      \* bound: changes of what an agent is or publishes

\* Trust summaries; what makes a provider.
Summaries == [registered : BOOLEAN, suspended : BOOLEAN, onchain : BOOLEAN,
              score : Int \cup {Undefined}]
Results == [node : Nodes, trust : Trusts, modes : Modes]
Entries == UNION {ToSet(c.capabilities) : c \in Cards \ {Undefined}}
Providers == [search : Results, card : Cards, entry : Entries \cup {Undefined}]

\* Fees are numbers where they are there; what is there is not undefined.
ASSUME DiscoveryAssumption ==
    /\ Nodes \subseteq Nat /\ IsFiniteSet(Nodes)
    /\ Undefined \notin Nat \cup Providers
    /\ Trusts \subseteq Summaries \cup {Undefined}
    /\ \A c \in Cards \ {Undefined} : DOMAIN c.capabilities \subseteq Nat
    /\ \A e \in Entries : {e.perRequest, e.session} \subseteq Nat \cup {Undefined}
    /\ MaxChanges \in Nat

VARIABLES
    trust, modes, card, \* of each agent, now
    online,             \* agents whose card can be had
    changes,            \* how often something of these has changed
    status,             \* where the call is
    family,             \* of the capability it asks for
    prefs,
    results,            \* what the search returned
    providers,          \* what discoverAgentProviders has gathered so far
    resolution,         \* [provider, diagnostics]
    published           \* history: cards of each agent since the search

agentVars == <<trust, modes, card, online, changes>>
vars == <<trust, modes, card, online, changes, status, family, prefs, results,
          providers, resolution, published>>

Init ==
    /\ trust \in [Nodes -> Trusts]
    /\ modes \in [Nodes -> Modes]
    /\ card \in [Nodes -> Cards]
    /\ online = Nodes
    /\ changes = 0
    /\ status = "idle"
    /\ family \in Families
    /\ prefs \in Preferences
    /\ results = <<>>
    /\ providers = <<>>
    /\ resolution = Undefined
    /\ published = [n \in Nodes |-> {card[n]}]

-----------------------------------------------------------------------------
(***************************************************************************)
(* The call.                                                               *)
(***************************************************************************)
Start ==
    /\ status = "idle"
    /\ status' = "searching"
    /\ UNCHANGED <<agentVars, family, prefs, results, providers,
                   resolution, published>>

\* After the last await: the choice and its explanation; ...OrThrow throws
\* the error of requirePreferredAgentProvider when there is no provider.
Conclude(found) ==
    LET ranked == Rank(found, ExecutionPolicy(family))
        chosen == Select(ranked, prefs)
    IN  /\ resolution' = [provider |-> chosen,
                          diagnostics |-> Diagnose(found, prefs)]
        /\ \/ status' = "resolved"
           \/ chosen = Undefined /\ status' = "noProvider"

\* The loop of discoverAgentProviders goes on with what it has gathered.
Gather(found, count) ==
    /\ providers' = found
    /\ IF Len(found) = count THEN Conclude(found)
       ELSE status' = "gathering" /\ UNCHANGED resolution

\* The answer to the search arrives: some agents, each once, in an order the
\* node chooses (external), as they are now.
SearchAnswered ==
    /\ status = "searching"
    /\ \E found \in SUBSET Nodes : \E order \in SetToSeqs(found) :
        /\ Cardinality(found) <= ExecutionPolicy(family).searchLimit
        /\ results' = [i \in DOMAIN order |->
               [node |-> order[i], trust |-> trust[order[i]],
                modes |-> modes[order[i]]]]
        /\ Gather(<<>>, Len(order))
    /\ published' = [n \in Nodes |-> {card[n]}]
    /\ UNCHANGED <<agentVars, family, prefs>>

\* discoverCapabilityEntryFromCard: the first entry with the name.
CapabilityEntry(c) ==
    IF c = Undefined THEN Undefined
    ELSE LET named == {i \in DOMAIN c.capabilities :
                           c.capabilities[i].name = family}
         IN  IF named = {} THEN Undefined ELSE c.capabilities[Min(named)]

\* Mutated form: the record of the first result is asked for every time.
CardOfFirst(i) == card[results[1].node]

\* The card the i-th result's nodeRecord gets.
CardOf(i) == card[results[i].node]

CardAnswered ==
    /\ status = "gathering"
    /\ LET i == Len(providers) + 1
       IN  /\ results[i].node \in online
           /\ Gather(Append(providers,
                     [search |-> results[i], card |-> CardOf(i),
                      entry |-> CapabilityEntry(CardOf(i))]), Len(results))
    /\ UNCHANGED <<agentVars, family, prefs, results, published>>

\* One card cannot be had: the whole call is rejected.
CardFailed ==
    /\ status = "gathering"
    /\ results[Len(providers) + 1].node \notin online
    /\ status' = "rejected"
    /\ UNCHANGED <<agentVars, family, prefs, results, providers,
                   resolution, published>>

-----------------------------------------------------------------------------
(***************************************************************************)
(* The agents and the chain (external).                                    *)
(***************************************************************************)
\* Bound: they change only while their cards are asked for; the agents the
\* search finds are arbitrary anyway, and later changes are not seen.
Change ==
    /\ status = "gathering"
    /\ changes < MaxChanges
    /\ changes' = changes + 1
    /\ UNCHANGED <<status, family, prefs, results, providers,
                   resolution>>

Republish(n, c) ==
    /\ Change
    /\ card' = [card EXCEPT ![n] = c]
    /\ published' = [published EXCEPT ![n] = @ \cup {c}]
    /\ UNCHANGED <<trust, modes, online>>

Rejudge(n, t) ==
    /\ Change
    /\ trust' = [trust EXCEPT ![n] = t]
    /\ UNCHANGED <<modes, card, online, published>>

Leave(n) ==
    /\ Change
    /\ online' = online \ {n}
    /\ UNCHANGED <<trust, modes, card, published>>

Next ==
    \/ Start \/ SearchAnswered \/ CardAnswered \/ CardFailed
    \/ \E n \in Nodes :
        \/ \E c \in Cards : Republish(n, c)
        \/ \E t \in Trusts : Rejudge(n, t)
        \/ Leave(n)

Spec == Init /\ [][Next]_vars
-----------------------------------------------------------------------------
(***************************************************************************)
(* Properties.                                                             *)
(***************************************************************************)
Done == status \in {"resolved", "noProvider"}

(***************************************************************************)
(* The choice and its explanation agree although they are computed apart:  *)
(* there is a provider exactly when some diagnostic says preferred, it is  *)
(* one of those, and ...OrThrow throws only when there is none.            *)
(***************************************************************************)
SelectionExplained ==
    Done =>
        LET fit == {d.provider : d \in
                {e \in ToSet(resolution.diagnostics) : e.preferred}}
        IN  /\ resolution.provider = Undefined <=> fit = {}
            /\ resolution.provider # Undefined => resolution.provider \in fit
            /\ status = "noProvider" => fit = {}

(***************************************************************************)
(* No candidate that fits comes before the one chosen in the order the     *)
(* policy stands for, in whatever order the search returned them and       *)
(* whichever of them advertise a fee.                                      *)
(***************************************************************************)
BestIsChosen ==
    Done /\ resolution.provider # Undefined =>
        LET policy == ExecutionPolicy(family)
        IN  \A d \in ToSet(resolution.diagnostics) :
                d.preferred => ~KeyBefore(RankKey(d.provider, policy),
                                          RankKey(resolution.provider, policy))

(***************************************************************************)
(* What is judged is what was found: one provider for each search result,  *)
(* in its order, with a card that agent has published since the search.    *)
(***************************************************************************)
ProvidersAreJoined ==
    /\ \A i \in DOMAIN providers :
        /\ providers[i].search = results[i]
        /\ providers[i].card \in published[results[i].node]
    /\ Done => Len(resolution.diagnostics) = Len(results)
=============================================================================
