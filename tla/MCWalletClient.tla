--------------------------- MODULE MCWalletClient ---------------------------
(***************************************************************************)
(* Instances of WalletClient for TLC.                                      *)
(***************************************************************************)
EXTENDS WalletClient, TLC

\* A call that leaves everything to the client.
Plain(kind) ==
    [kind |-> kind, nonce |-> Undefined, sponsored |-> FALSE,
     sponsorNonce |-> Undefined, sponsorSigned |-> Undefined,
     terminalClass |-> FALSE]

\* Every kind of call, with nonces given or not; sponsored ones with the
\* right signature, one for a nonce that is stale, and none.
MCParameters ==
    {Plain(kind) : kind \in {"send", "split", "lease", "renew", "node"}}
        \cup {[Plain(kind) EXCEPT !.nonce = 0] :
                kind \in {"send", "split", "lease", "node"}}
        \cup {[Plain("paymaster") EXCEPT !.sponsored = TRUE]}
        \cup {[Plain(kind) EXCEPT !.sponsored = TRUE, !.nonce = 0,
                                  !.sponsorNonce = 0,
                                  !.sponsorSigned = <<0, 0>>] :
                kind \in {"send", "split"}}
        \cup {[Plain("send") EXCEPT !.sponsored = TRUE],
              [Plain("send") EXCEPT !.sponsored = TRUE,
                                    !.sponsorSigned = <<1, 1>>]}

\* One transaction with terminal context.
TerminalParameters ==
    {[Plain("send") EXCEPT !.terminalClass = TRUE]}

Symmetry == Permutations(Calls)
=============================================================================
