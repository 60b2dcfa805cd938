----------------------- MODULE MCWebSocketTransport -----------------------
(***************************************************************************)
(* Instances of WebSocketTransport for TLC: identities are model values.   *)
(***************************************************************************)
EXTENDS WebSocketTransport, TLC

Symmetry == Permutations(Calls) \cup Permutations(Subs)
            \cup Permutations(Conns) \cup Permutations(SubIds)
=============================================================================
