--------------------------- MODULE MCAgentRuntime ---------------------------
(***************************************************************************)
(* An instance of AgentRuntime for TLC.                                    *)
(***************************************************************************)
EXTENDS AgentRuntime

\* A contract whose package and routing fit what callers ask for, one whose
\* package is not trusted, and none.
Trusty == [address |-> Undefined,
           artifact |-> [identity |-> TRUE, routing |-> {"serviceKind"}],
           pkg |-> [named |-> FALSE, published |-> TRUE]]
Dubious == [Trusty EXCEPT !.pkg.published = FALSE]
MCCodes == {Trusty, Dubious, Undefined}

MCAddresses == {"a", "b"}
MCRefs == {<<"receipt">>}
MCSenderOf == [r \in MCRefs |-> "a"]
MCRecipientOf == [r \in MCRefs |-> "b"]

Result(node, score) ==
    [node |-> node, modes |-> {"https"},
     trust |-> [registered |-> TRUE, suspended |-> FALSE, onchain |-> TRUE,
                score |-> score]]

MCResults == {Result(0, Undefined), Result(1, 1), Result(2, 1)}

NoPreference ==
    [minTrust |-> 0, modes |-> {}, package |-> FALSE, facets |-> {}]
MCPreferences ==
    {NoPreference,
     [minTrust |-> 1, modes |-> {"https"}, package |-> TRUE,
      facets |-> {"serviceKind"}]}

\* No offer, a paid one at two fees, and one without a fee.
Offer(mode, fee) ==
    [name |-> "oracle", mode |-> mode, perRequest |-> fee, session |-> Undefined]
MCOffers ==
    {Undefined, Offer("paid", 2), Offer("paid", 1), Offer("sponsored", Undefined)}

MCCallerBlocks ==
    {Undefined, [number |-> 0], [number |-> 1]}
=============================================================================
