------------------------ MODULE AgentDiscovery_proofs ------------------------
(***************************************************************************)
(* What a search joins belongs together, and what it chooses is the best   *)
(* and is explained, for every set of agents and any number of changes     *)
(* while their cards are asked for.                                        *)
(***************************************************************************)
EXTENDS AgentDiscovery, Selection_proofs

\* A sequence, of whatever it holds.
IsList(s) == s \in Seq({s[i] : i \in DOMAIN s})

-----------------------------------------------------------------------------
(***************************************************************************)
(* The inductive invariant.                                                *)
(***************************************************************************)
\* Where the call is.
Statuses ==
    status \in {"idle", "searching", "gathering", "resolved", "noProvider",
                "rejected"}

\* The agents' cards, and the cards they have had.
CardsPublished ==
    /\ card \in [Nodes -> Cards]
    /\ published \in [Nodes -> SUBSET Cards]
    /\ \A n \in Nodes : card[n] \in published[n]

\* What was found are agents, and the cards are those of its first results;
\* while cards are missing there is a result to ask for.
Lists ==
    /\ IsList(results)
    /\ IsList(providers)
    /\ \A i \in DOMAIN results : results[i].node \in Nodes
    /\ Len(providers) <= Len(results)
    /\ status = "gathering" => Len(providers) < Len(results)

\* Each provider is made of the result at its place and of a card of it.
Joined ==
    \A i \in DOMAIN providers :
        /\ providers[i].search = results[i]
        /\ providers[i].card \in published[results[i].node]

\* The diagnostics are as many as the results.
Diagnosed == Done => Len(resolution.diagnostics) = Len(results)

JoinInv == Statuses /\ CardsPublished /\ Lists /\ Joined /\ Diagnosed

-----------------------------------------------------------------------------
\* A list has a length, and its domain is the numbers up to it.
LEMMA ListFacts ==
    ASSUME NEW s, IsList(s)
    PROVE  Len(s) \in Nat /\ DOMAIN s = 1 .. Len(s)
BY DEF IsList

\* The empty list.
LEMMA EmptyList == IsList(<<>>) /\ Len(<<>>) = 0 /\ DOMAIN <<>> = {}
BY DEF IsList

\* A function on the numbers up to n is a list.
LEMMA FunctionList ==
    ASSUME NEW n \in Nat, NEW s, DOMAIN s = 1 .. n, s = [i \in 1 .. n |-> s[i]]
    PROVE  IsList(s) /\ Len(s) = n
BY DEF IsList

\* A list with an element appended has it at the end, and the rest as it was.
LEMMA AppendList ==
    ASSUME NEW s, IsList(s), NEW e
    PROVE  /\ IsList(Append(s, e))
           /\ Len(Append(s, e)) = Len(s) + 1
           /\ Append(s, e)[Len(s) + 1] = e
           /\ \A i \in 1 .. Len(s) : Append(s, e)[i] = s[i]
<1> DEFINE S == {s[i] : i \in DOMAIN s} \cup {e}
           t == Append(s, e)
<1>1. s \in Seq(S)
    BY DEF IsList
<1>2. /\ t \in Seq(S) /\ Len(t) = Len(s) + 1 /\ t[Len(s) + 1] = e
      /\ \A i \in 1 .. Len(s) : t[i] = s[i]
    BY <1>1
<1> HIDE DEF t
<1>3. DOMAIN t = 1 .. Len(t) /\ Len(t) \in Nat /\ t = [i \in 1 .. Len(t) |-> t[i]]
    BY <1>2
<1>4. IsList(t)
    BY <1>3, FunctionList
<1> QED
    BY <1>2, <1>4 DEF t

\* There is one diagnostic for each provider.
LEMMA DiagnoseLength ==
    ASSUME NEW s, IsList(s), NEW pr
    PROVE  Len(Diagnose(s, pr)) = Len(s)
<1> DEFINE d == Diagnose(s, pr)
<1>1. Len(s) \in Nat /\ DOMAIN s = 1 .. Len(s)
    BY ListFacts
<1>2. DOMAIN d = 1 .. Len(s) /\ d = [i \in 1 .. Len(s) |-> d[i]]
    BY <1>1 DEF Diagnose
<1> HIDE DEF d
<1>3. Len(d) = Len(s)
    BY <1>1, <1>2, FunctionList
<1> QED
    BY <1>3 DEF d

-----------------------------------------------------------------------------
\* The invariant holds before the call.
LEMMA InitJoined ==
    ASSUME Init
    PROVE  JoinInv
<1>1. Statuses /\ CardsPublished
    BY DEF Init, Statuses, CardsPublished
<1>2. Lists /\ Joined
    BY EmptyList DEF Init, Lists, Joined
<1>3. Diagnosed
    BY DEF Init, Diagnosed, Done
<1> QED
    BY <1>1, <1>2, <1>3 DEF JoinInv

\* Concluding explains every provider found.
LEMMA ConcludeEffect ==
    ASSUME NEW s, IsList(s), Conclude(s)
    PROVE  /\ status' \in {"resolved", "noProvider"}
           /\ Len(resolution'.diagnostics) = Len(s)
<1>1. resolution'.diagnostics = Diagnose(s, prefs)
    BY DEF Conclude
<1>2. status' \in {"resolved", "noProvider"}
    BY DEF Conclude
<1> QED
    BY <1>1, <1>2, DiagnoseLength

\* The loop goes on while there are results left, or concludes.
LEMMA GatherEffect ==
    ASSUME NEW s, IsList(s), NEW n, n = Len(results'), Len(s) <= n, n \in Nat,
           Gather(s, n)
    PROVE  /\ providers' = s
           /\ Statuses' /\ Diagnosed'
           /\ status' = "gathering" => Len(s) < n
<1>1. Len(s) \in Nat
    BY ListFacts
<1>2. CASE Len(s) = n
    <2>1. Conclude(s) /\ providers' = s
        BY <1>2 DEF Gather
    <2>2. /\ status' \in {"resolved", "noProvider"}
          /\ Len(resolution'.diagnostics) = n
        BY <1>2, <2>1, ConcludeEffect
    <2> QED
        BY <2>1, <2>2 DEF Statuses, Diagnosed
<1>3. CASE Len(s) # n
    <2>1. status' = "gathering" /\ providers' = s
        BY <1>3 DEF Gather
    <2> QED
        BY <1>1, <1>3, <2>1 DEF Statuses, Diagnosed, Done
<1> QED
    BY <1>2, <1>3

\* The search's answer: nothing is joined yet, and the cards agents have now
\* are the first that count.
LEMMA SearchAnsweredStep ==
    ASSUME JoinInv, SearchAnswered
    PROVE  JoinInv'
<1>1. PICK found \in SUBSET Nodes : \E order \in SetToSeqs(found) :
        /\ results' = [i \in DOMAIN order |->
               [node |-> order[i], trust |-> trust[order[i]],
                modes |-> modes[order[i]]]]
        /\ Gather(<<>>, Len(order))
    BY DEF SearchAnswered
<1>2. PICK order \in SetToSeqs(found) :
        /\ results' = [i \in DOMAIN order |->
               [node |-> order[i], trust |-> trust[order[i]],
                modes |-> modes[order[i]]]]
        /\ Gather(<<>>, Len(order))
    BY <1>1
<1> DEFINE n == Cardinality(found)
<1>3. n \in Nat
    BY DiscoveryAssumption, FS_Subset, FS_CardinalityType DEF DiscoveryAssumption
<1>4. order \in [1 .. n -> found]
    BY DEF SetToSeqs
<1>5. Len(order) = n /\ DOMAIN order = 1 .. n
    <2>1. DOMAIN order = 1 .. n /\ order = [i \in 1 .. n |-> order[i]]
        BY <1>4
    <2> QED
        BY <1>3, <2>1, FunctionList
<1>6. /\ DOMAIN results' = 1 .. n
      /\ results' = [i \in 1 .. n |-> results'[i]]
      /\ \A i \in 1 .. n : results'[i].node \in Nodes
    BY <1>2, <1>4, <1>5
<1>7. IsList(results') /\ Len(results') = n
    BY <1>3, <1>6, FunctionList
<1>8. /\ providers' = <<>>
      /\ Statuses' /\ Diagnosed'
      /\ status' = "gathering" => 0 < n
    BY <1>2, <1>3, <1>5, <1>7, EmptyList, GatherEffect
<1>9. CardsPublished'
    BY DEF JoinInv, CardsPublished, SearchAnswered, agentVars
<1>10. Lists'
    BY <1>3, <1>6, <1>7, <1>8, EmptyList DEF Lists, IsList
<1>11. Joined'
    BY <1>8, EmptyList DEF Joined
<1> QED
    BY <1>8, <1>9, <1>10, <1>11 DEF JoinInv

\* A card's answer: it is one the agent of its result has published.
LEMMA CardAnsweredStep ==
    ASSUME JoinInv, CardAnswered
    PROVE  JoinInv'
<1> DEFINE k == Len(providers) + 1
           p == [search |-> results[k], card |-> CardOf(k),
                 entry |-> CapabilityEntry(CardOf(k))]
<1>1. /\ Len(providers) \in Nat /\ DOMAIN providers = 1 .. Len(providers)
      /\ Len(results) \in Nat /\ DOMAIN results = 1 .. Len(results)
      /\ IsList(providers)
    BY ListFacts DEF JoinInv, Lists
<1>2. /\ status = "gathering"
      /\ Gather(Append(providers, p), Len(results))
      /\ card' = card /\ results' = results /\ published' = published
    BY DEF CardAnswered, agentVars
<1>3. k \in DOMAIN results /\ results[k].node \in Nodes
    BY <1>1, <1>2 DEF JoinInv, Lists
<1>4. p.search = results[k] /\ p.card \in published[results[k].node]
    BY <1>3 DEF JoinInv, CardsPublished, CardOf
<1> HIDE DEF p
<1>5. /\ IsList(Append(providers, p))
      /\ Len(Append(providers, p)) = k
      /\ DOMAIN Append(providers, p) = 1 .. k
      /\ Append(providers, p)[k] = p
      /\ \A i \in 1 .. Len(providers) : Append(providers, p)[i] = providers[i]
    BY <1>1, AppendList, ListFacts
<1>6. k <= Len(results) /\ Len(results') = Len(results)
    BY <1>1, <1>2, <1>3
<1>7. /\ providers' = Append(providers, p)
      /\ Statuses' /\ Diagnosed'
      /\ status' = "gathering" => k < Len(results)
    BY <1>1, <1>2, <1>5, <1>6, GatherEffect
<1>8. CardsPublished'
    BY <1>2 DEF JoinInv, CardsPublished
<1>9. Lists'
    BY <1>1, <1>2, <1>5, <1>6, <1>7 DEF JoinInv, Lists
<1>10. Joined'
    <2> SUFFICES ASSUME NEW i \in 1 .. k
                 PROVE  /\ Append(providers, p)[i].search = results[i]
                        /\ Append(providers, p)[i].card
                               \in published[results[i].node]
        BY <1>2, <1>5, <1>7 DEF Joined
    <2>1. CASE i = k
        BY <1>4, <1>5, <2>1
    <2>2. CASE i # k
        <3>1. i \in DOMAIN providers
            BY <1>1, <2>2
        <3> QED
            BY <1>1, <1>5, <3>1 DEF JoinInv, Joined
    <2> QED
        BY <2>1, <2>2
<1> QED
    BY <1>7, <1>8, <1>9, <1>10 DEF JoinInv

\* What an agent does changes no list; the cards it has had are kept.
LEMMA AgentSteps ==
    ASSUME JoinInv, NEW n \in Nodes,
           \/ \E c \in Cards : Republish(n, c)
           \/ \E t \in Trusts : Rejudge(n, t)
           \/ Leave(n)
    PROVE  JoinInv'
<1>1. /\ UNCHANGED <<status, results, providers, resolution>>
      /\ \/ UNCHANGED <<card, published>>
         \/ \E c \in Cards :
                /\ card' = [card EXCEPT ![n] = c]
                /\ published' = [published EXCEPT ![n] = @ \cup {c}]
    BY DEF Republish, Rejudge, Leave, Change
<1>2. \A m \in Nodes : published[m] \subseteq published'[m]
    BY <1>1 DEF JoinInv, CardsPublished
<1>3. CardsPublished'
    BY <1>1 DEF JoinInv, CardsPublished
<1>4. Statuses' /\ Lists' /\ Diagnosed'
    BY <1>1 DEF JoinInv, Statuses, Lists, IsList, Diagnosed, Done
<1>5. Joined'
    <2>1. DOMAIN providers \subseteq DOMAIN results
        BY ListFacts DEF JoinInv, Lists
    <2> QED
        BY <1>1, <1>2, <2>1 DEF JoinInv, Lists, Joined
<1> QED
    BY <1>3, <1>4, <1>5 DEF JoinInv

(***************************************************************************)
(* JoinInv is an inductive invariant of discovery.                         *)
(***************************************************************************)
THEOREM JoinInvariance == Spec => []JoinInv
<1>1. Init => JoinInv
    BY InitJoined
<1>2. JoinInv /\ [Next]_vars => JoinInv'
    <2> SUFFICES ASSUME JoinInv, [Next]_vars
                 PROVE  JoinInv'
        OBVIOUS
    <2>1. CASE Start
        BY <2>1 DEF Start, agentVars, JoinInv, Statuses, CardsPublished, Lists,
                    IsList, Joined, Diagnosed, Done
    <2>2. CASE SearchAnswered
        BY <2>2, SearchAnsweredStep
    <2>3. CASE CardAnswered
        BY <2>3, CardAnsweredStep
    <2>4. CASE CardFailed
        BY <2>4 DEF CardFailed, agentVars, JoinInv, Statuses, CardsPublished,
                    Lists, IsList, Joined, Diagnosed, Done
    <2>5. ASSUME NEW n \in Nodes,
                 \/ \E c \in Cards : Republish(n, c)
                 \/ \E t \in Trusts : Rejudge(n, t)
                 \/ Leave(n)
          PROVE  JoinInv'
        BY <2>5, AgentSteps
    <2>6. CASE UNCHANGED vars
        BY <2>6 DEF vars, JoinInv, Statuses, CardsPublished, Lists, IsList,
                    Joined, Diagnosed, Done
    <2> QED
        BY <2>1, <2>2, <2>3, <2>4, <2>5, <2>6 DEF Next
<1> QED
    BY <1>1, <1>2, PTL DEF Spec

(***************************************************************************)
(* What is judged is what was found: one provider for each result of the   *)
(* search, in its order, with a card of that agent, for every set of       *)
(* agents and whatever they publish while their cards are asked for.       *)
(***************************************************************************)
THEOREM JoinsBelongTogether == Spec => []ProvidersAreJoined
<1>1. JoinInv => ProvidersAreJoined
    BY DEF JoinInv, Joined, Diagnosed, ProvidersAreJoined
<1> QED
    BY <1>1, JoinInvariance, PTL

-----------------------------------------------------------------------------
(***************************************************************************)
(* What is chosen of what was found.                                       *)
(***************************************************************************)
\* What was found and gathered is what agents and chain may say, each agent
\* once.
Gathered ==
    /\ trust \in [Nodes -> Trusts] /\ modes \in [Nodes -> Modes]
    /\ \A i \in DOMAIN results : results[i] \in Results
    /\ \A i, j \in DOMAIN results : results[i].node = results[j].node => i = j
    /\ \A i \in DOMAIN providers : providers[i] \in Providers

\* The resolution is the choice of what was gathered, and its diagnostics;
\* the call has thrown only if there was nothing to choose.
Judged ==
    Done =>
        /\ resolution =
            [provider |-> Select(Rank(providers, ExecutionPolicy(family)), prefs),
             diagnostics |-> Diagnose(providers, prefs)]
        /\ status = "noProvider" => resolution.provider = Undefined

JudgeInv == Gathered /\ Judged

\* The entry of a card is one of its entries.
LEMMA EntryOfCard ==
    ASSUME NEW c \in Cards
    PROVE  CapabilityEntry(c) \in Entries \cup {Undefined}
<1> DEFINE named == {i \in DOMAIN c.capabilities :
                        c.capabilities[i].name = family}
<1>1. CASE c = Undefined \/ named = {}
    BY <1>1 DEF CapabilityEntry
<1>2. CASE c # Undefined /\ named # {}
    <2>1. DOMAIN c.capabilities \subseteq Nat
        BY <1>2, DiscoveryAssumption
    <2>2. named \subseteq Nat
        BY <2>1
    <2>3. CapabilityEntry(c) = c.capabilities[Min(named)]
        BY <1>2 DEF CapabilityEntry
    <2>4. \E i \in named : \A j \in named : i <= j
        <3> HIDE DEF named
        <3> QED
            BY <1>2, <2>2, LeastNumber
    <2>5. Min(named) \in named
        <3> HIDE DEF named
        <3> QED
            BY <2>4 DEF Min
    <2>6. c.capabilities[Min(named)] \in ToSet(c.capabilities)
        BY <2>5 DEF ToSet
    <2> QED
        BY <1>2, <2>3, <2>6 DEF Entries
<1> QED
    BY <1>1, <1>2

\* Concluding chooses and explains.
LEMMA ConcludeJudges ==
    ASSUME NEW s, NEW n, Gather(s, n), UNCHANGED <<family, prefs>>
    PROVE  Judged'
<1>1. CASE Len(s) = n
    <2>1. /\ providers' = s
          /\ resolution' = [provider |-> Select(Rank(s, ExecutionPolicy(family)),
                                                prefs),
                            diagnostics |-> Diagnose(s, prefs)]
          /\ status' = "resolved" \/ resolution'.provider = Undefined
        BY <1>1 DEF Gather, Conclude
    <2>2. status' = "noProvider" => resolution'.provider = Undefined
        BY <1>1 DEF Gather, Conclude
    <2> QED
        BY <2>1, <2>2 DEF Judged
<1>2. CASE Len(s) # n
    BY <1>2 DEF Gather, Judged, Done
<1> QED
    BY <1>1, <1>2

\* The answer to the search names each agent once, as it is.
LEMMA SearchAnsweredJudged ==
    ASSUME JoinInv, JudgeInv, SearchAnswered
    PROVE  JudgeInv'
<1>1. PICK found \in SUBSET Nodes : \E order \in SetToSeqs(found) :
        /\ results' = [i \in DOMAIN order |->
               [node |-> order[i], trust |-> trust[order[i]],
                modes |-> modes[order[i]]]]
        /\ Gather(<<>>, Len(order))
    BY DEF SearchAnswered
<1>2. PICK order \in SetToSeqs(found) :
        /\ results' = [i \in DOMAIN order |->
               [node |-> order[i], trust |-> trust[order[i]],
                modes |-> modes[order[i]]]]
        /\ Gather(<<>>, Len(order))
    BY <1>1
<1>3. /\ order \in [1 .. Cardinality(found) -> found]
      /\ \A i, j \in 1 .. Cardinality(found) : order[i] = order[j] => i = j
    BY DEF SetToSeqs
<1>4. \A i \in DOMAIN results' : results'[i] \in Results
    BY <1>2, <1>3 DEF JudgeInv, Gathered, Results
<1>5. \A i, j \in DOMAIN results' : results'[i].node = results'[j].node => i = j
    BY <1>2, <1>3
<1>6. providers' = <<>>
    BY <1>2 DEF Gather
<1>7. Gathered'
    BY <1>4, <1>5, <1>6, EmptyList
    DEF JudgeInv, Gathered, SearchAnswered, agentVars
<1>8. Judged'
    BY <1>2, ConcludeJudges DEF SearchAnswered
<1> QED
    BY <1>7, <1>8 DEF JudgeInv

\* The answer for a card adds a provider.
LEMMA CardAnsweredJudged ==
    ASSUME JoinInv, JudgeInv, CardAnswered
    PROVE  JudgeInv'
<1> DEFINE k == Len(providers) + 1
           p == [search |-> results[k], card |-> CardOf(k),
                 entry |-> CapabilityEntry(CardOf(k))]
<1>1. /\ Len(providers) \in Nat /\ DOMAIN providers = 1 .. Len(providers)
      /\ Len(results) \in Nat /\ DOMAIN results = 1 .. Len(results)
      /\ IsList(providers)
    BY ListFacts DEF JoinInv, Lists
<1>2. /\ status = "gathering"
      /\ Gather(Append(providers, p), Len(results))
      /\ trust' = trust /\ modes' = modes /\ results' = results
      /\ family' = family /\ prefs' = prefs
    BY DEF CardAnswered, agentVars
<1>3. k \in DOMAIN results /\ results[k].node \in Nodes
    BY <1>1, <1>2 DEF JoinInv, Lists
<1>4. CardOf(k) \in Cards
    BY <1>3 DEF JoinInv, CardsPublished, CardOf
<1>5. p \in Providers
    BY <1>3, <1>4, EntryOfCard DEF JudgeInv, Gathered, Providers
<1> HIDE DEF p
<1>6. /\ DOMAIN Append(providers, p) = 1 .. k
      /\ Append(providers, p)[k] = p
      /\ \A i \in 1 .. Len(providers) : Append(providers, p)[i] = providers[i]
    BY <1>1, AppendList, ListFacts
<1>7. providers' = Append(providers, p)
    BY <1>2 DEF Gather
<1>8. \A i \in DOMAIN providers' : providers'[i] \in Providers
    <2> SUFFICES ASSUME NEW i \in 1 .. k
                 PROVE  Append(providers, p)[i] \in Providers
        BY <1>6, <1>7
    <2>1. CASE i = k
        BY <1>5, <1>6, <2>1
    <2>2. CASE i # k
        <3>1. i \in DOMAIN providers
            BY <1>1, <2>2
        <3> QED
            BY <1>1, <1>6, <3>1 DEF JudgeInv, Gathered
    <2> QED
        BY <2>1, <2>2
<1>9. Gathered'
    BY <1>2, <1>8 DEF JudgeInv, Gathered
<1>10. Judged'
    BY <1>2, ConcludeJudges
<1> QED
    BY <1>9, <1>10 DEF JudgeInv

(***************************************************************************)
(* What is judged is well formed, and the resolution is the choice of it.  *)
(***************************************************************************)
THEOREM JudgeInvariance == Spec => []JudgeInv
<1>1. Init => JudgeInv
    BY EmptyList DEF Init, JudgeInv, Gathered, Judged, Done
<1>2. JoinInv /\ JudgeInv /\ [Next]_vars => JudgeInv'
    <2> SUFFICES ASSUME JoinInv, JudgeInv, [Next]_vars
                 PROVE  JudgeInv'
        OBVIOUS
    <2>1. CASE Start
        BY <2>1 DEF Start, agentVars, JudgeInv, Gathered, Judged, Done
    <2>2. CASE SearchAnswered
        BY <2>2, SearchAnsweredJudged
    <2>3. CASE CardAnswered
        BY <2>3, CardAnsweredJudged
    <2>4. CASE CardFailed
        BY <2>4 DEF CardFailed, agentVars, JudgeInv, Gathered, Judged, Done
    <2>5. ASSUME NEW n \in Nodes, NEW c \in Cards, Republish(n, c)
          PROVE  JudgeInv'
        BY <2>5 DEF Republish, Change, JudgeInv, Gathered, Judged, Done
    <2>6. ASSUME NEW n \in Nodes, NEW t \in Trusts, Rejudge(n, t)
          PROVE  JudgeInv'
        BY <2>6 DEF Rejudge, Change, JudgeInv, Gathered, Judged, Done
    <2>7. ASSUME NEW n \in Nodes, Leave(n)
          PROVE  JudgeInv'
        BY <2>7 DEF Leave, Change, JudgeInv, Gathered, Judged, Done
    <2>8. CASE UNCHANGED vars
        BY <2>8 DEF vars, JudgeInv, Gathered, Judged, Done
    <2> QED
        BY <2>1, <2>2, <2>3, <2>4, <2>5, <2>6, <2>7, <2>8 DEF Next
<1> QED
    BY <1>1, <1>2, JoinInvariance, PTL DEF Spec
-----------------------------------------------------------------------------
\* What makes a provider is what the comparator and the trust failures need.
LEMMA ProviderFacts ==
    ASSUME NEW p \in Providers
    PROVE  /\ IsProvider(p) /\ p # Undefined
           /\ p.search.trust # Undefined =>
               /\ p.search.trust.registered \in BOOLEAN
               /\ p.search.trust.suspended \in BOOLEAN
               /\ p.search.trust.onchain \in BOOLEAN
<1>1. /\ p.search \in Results /\ p.entry \in Entries \cup {Undefined}
      /\ p # Undefined
    BY DiscoveryAssumption DEF Providers
<1>2. p.search.node \in Nat /\ p.search.trust \in Summaries \cup {Undefined}
    BY <1>1, DiscoveryAssumption DEF Results
<1>3. p.entry # Undefined => p.entry.perRequest \in Fees /\ p.entry.session \in Fees
    BY <1>1, DiscoveryAssumption DEF Fees
<1> QED
    BY <1>1, <1>2, <1>3 DEF IsProvider, Summaries

\* After the call, what is chosen is the best of the providers gathered, and
\* each diagnostic says whether its provider fits.
LEMMA Resolved ==
    ASSUME JoinInv, JudgeInv, Done
    PROVE  /\ IsBestProvider(resolution.provider, providers,
                             ExecutionPolicy(family), prefs)
           /\ \A i \in DOMAIN providers :
                providers[i] # Undefined /\ IsProvider(providers[i])
           /\ DOMAIN resolution.diagnostics = DOMAIN providers
           /\ \A i \in DOMAIN providers :
                /\ resolution.diagnostics[i].provider = providers[i]
                /\ resolution.diagnostics[i].preferred <=> Fits(providers[i], prefs)
<1> DEFINE policy == ExecutionPolicy(family)
<1>1. Len(providers) \in Nat /\ DOMAIN providers = 1 .. Len(providers)
      /\ DOMAIN providers \subseteq DOMAIN results
    BY ListFacts DEF JoinInv, Lists
<1>2. \A i \in DOMAIN providers : providers[i].search = results[i]
    BY DEF JoinInv, Joined
<1>3. \A i, j \in DOMAIN providers :
        providers[i].search.node = providers[j].search.node => i = j
    BY <1>1, <1>2 DEF JudgeInv, Gathered
<1>4. \A i \in DOMAIN providers :
        /\ IsProvider(providers[i]) /\ providers[i] # Undefined
        /\ IsTrusted(providers[i]) <=> TrustFailures(providers[i]) = {}
    BY ProviderFacts, TrustIsExplained DEF JudgeInv, Gathered
<1>5. /\ resolution.provider = Select(Rank(providers, policy), prefs)
      /\ resolution.diagnostics = Diagnose(providers, prefs)
    BY DEF JudgeInv, Judged
<1>6. IsPolicy(policy) /\ Undefined \notin Nat
    BY PolicyType, DiscoveryAssumption
<1> HIDE DEF policy
<1>7. IsBestProvider(Select(Rank(providers, policy), prefs), providers, policy,
                     prefs)
    BY <1>1, <1>3, <1>4, <1>6, BestOfRank
<1>8. /\ DOMAIN Diagnose(providers, prefs) = DOMAIN providers
      /\ \A i \in DOMAIN providers :
            /\ Diagnose(providers, prefs)[i].provider = providers[i]
            /\ Diagnose(providers, prefs)[i].preferred
                 <=> /\ TrustFailures(providers[i]) = {}
                     /\ PreferenceFailures(providers[i], prefs) = {}
    BY DEF Diagnose
<1> QED
    BY <1>4, <1>5, <1>7, <1>8 DEF Fits, policy

(***************************************************************************)
(* The choice of searchPreferredAgentProviderWithDiagnostics and its       *)
(* explanation agree although they are computed apart, and ...OrThrow      *)
(* throws only when no provider fits, for every set of agents and whatever *)
(* they publish while they are asked.                                      *)
(***************************************************************************)
THEOREM SelectionsAreExplained == Spec => []SelectionExplained
<1>1. JoinInv /\ JudgeInv => SelectionExplained
    <2> SUFFICES ASSUME JoinInv, JudgeInv, Done
                 PROVE  SelectionExplained
        BY DEF SelectionExplained
    <2> DEFINE fit == {d.provider : d \in
                {e \in ToSet(resolution.diagnostics) : e.preferred}}
    <2>1. /\ IsBestProvider(resolution.provider, providers,
                            ExecutionPolicy(family), prefs)
          /\ \A i \in DOMAIN providers : providers[i] # Undefined
          /\ DOMAIN resolution.diagnostics = DOMAIN providers
          /\ \A i \in DOMAIN providers :
               /\ resolution.diagnostics[i].provider = providers[i]
               /\ resolution.diagnostics[i].preferred <=> Fits(providers[i], prefs)
        BY Resolved
    <2>2. fit = {providers[i] : i \in {j \in DOMAIN providers :
                                          Fits(providers[j], prefs)}}
        BY <2>1 DEF ToSet
    <2>3. /\ resolution.provider = Undefined <=> fit = {}
          /\ resolution.provider # Undefined => resolution.provider \in fit
        <3> HIDE DEF fit
        <3> QED
            BY <2>1, <2>2 DEF IsBestProvider
    <2>4. status = "noProvider" => resolution.provider = Undefined
        BY DEF JudgeInv, Judged
    <2> HIDE DEF fit
    <2> QED
        BY <2>3, <2>4 DEF SelectionExplained, fit
<1> QED
    BY <1>1, JoinInvariance, JudgeInvariance, PTL

(***************************************************************************)
(* No provider that fits comes before the one chosen, in the order of      *)
(* modes, trust, fees and records the execution policy stands for, for     *)
(* every set of agents and every order of the search.                      *)
(***************************************************************************)
THEOREM BestIsAlwaysChosen == Spec => []BestIsChosen
<1>1. JoinInv /\ JudgeInv => BestIsChosen
    <2> SUFFICES ASSUME JoinInv, JudgeInv, Done, resolution.provider # Undefined,
                        NEW d \in ToSet(resolution.diagnostics), d.preferred
                 PROVE  ~KeyBefore(RankKey(d.provider, ExecutionPolicy(family)),
                                   RankKey(resolution.provider,
                                           ExecutionPolicy(family)))
        BY DEF BestIsChosen
    <2> DEFINE policy == ExecutionPolicy(family)
    <2>1. /\ IsBestProvider(resolution.provider, providers, policy, prefs)
          /\ \A i \in DOMAIN providers : IsProvider(providers[i])
          /\ DOMAIN resolution.diagnostics = DOMAIN providers
          /\ \A i \in DOMAIN providers :
               /\ resolution.diagnostics[i].provider = providers[i]
               /\ resolution.diagnostics[i].preferred <=> Fits(providers[i], prefs)
        BY Resolved
    <2>2. IsPolicy(policy) /\ Undefined \notin Nat
        BY PolicyType, DiscoveryAssumption
    <2> HIDE DEF policy
    <2>3. PICK j \in DOMAIN providers :
            d.provider = providers[j] /\ Fits(providers[j], prefs)
        BY <2>1 DEF ToSet
    <2>4. PICK i \in DOMAIN providers :
            /\ resolution.provider = providers[i]
            /\ ~Before(providers[j], providers[i], policy)
        BY <2>1, <2>3 DEF IsBestProvider
    <2>5. ~KeyBefore(RankKey(providers[j], policy), RankKey(providers[i], policy))
        BY <2>1, <2>2, <2>4, ComparatorIsKeyOrder
    <2> QED
        BY <2>3, <2>4, <2>5 DEF policy
<1> QED
    BY <1>1, JoinInvariance, JudgeInvariance, PTL
=============================================================================
