-------------------------- MODULE MCAgentDiscovery --------------------------
(***************************************************************************)
(* An instance of AgentDiscovery for TLC.                                  *)
(***************************************************************************)
EXTENDS AgentDiscovery

MCNodes == 1 .. 3

Trust(score) ==
    [registered |-> TRUE, suspended |-> FALSE, onchain |-> TRUE,
     score |-> score]

\* Two scores, and a suspended agent.
MCTrusts ==
    {Trust(1), Trust(2), [Trust(2) EXCEPT !.suspended = TRUE]}

MCModes == {{"https"}}

\* A card with one entry for the capability the callers ask for.
Offer(mode, perRequest, session) ==
    [capabilities |-> <<[name |-> "oracle", mode |-> mode,
                         perRequest |-> perRequest, session |-> session]>>,
     package |-> TRUE, routing |-> {"serviceKind"}]

\* Not parseable; two prices of one kind and of the other; no price, and no
\* routing profile.
MCCards ==
    {Undefined, Offer("paid", 1, Undefined), Offer("paid", Undefined, 2),
     [Offer("paid", Undefined, Undefined) EXCEPT !.routing = Undefined]}

\* Anything; a facet and a mode.
NoPreference ==
    [minTrust |-> 0, modes |-> {}, package |-> FALSE, facets |-> {}]

MCPreferences ==
    {NoPreference,
     [NoPreference EXCEPT !.facets = {"serviceKind"}, !.modes = {"https"}]}
=============================================================================
