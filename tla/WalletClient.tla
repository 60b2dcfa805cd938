---------------------------- MODULE WalletClient ----------------------------
(***************************************************************************)
(* The wallet client (src/src/clients/createWalletClient.ts) and the node  *)
(* it talks to: calls of one account that run at the same time, each from  *)
(* the nonces it reads to the envelope it sends and the answer it gets.    *)
(*                                                                         *)
(* A transaction is what its signatures and the node tell apart: the call  *)
(* it was built for, its nonces, whether it is sponsored, and its terminal *)
(* context.  A signature is the transaction it was made over.  A call is   *)
(* of one of these kinds:                                                  *)
(*   "send"       sendTransaction, and what ends in it with other data:    *)
(*                sendPackageTransaction, deployPackage, sendSystemAction  *)
(*                and setSignerMetadata                                    *)
(*   "split"      signAuthorization, then assembleTransaction              *)
(*   "lease"      leaseDeploy                                              *)
(*   "renew"      leaseRenew, leaseClose                                   *)
(*   "node"       setSigner, enterMaintenance, exitMaintenance and         *)
(*                submitMaliciousVoteEvidence, which the node signs        *)
(*   "paymaster"  a quote of a paymaster and its authorization             *)
(*                (src/src/clients/createPaymasterProviderClient.ts)       *)
(***************************************************************************)
EXTENDS Naturals, FiniteSets

CONSTANTS
    Calls,          \* calls of the wallet client
    Parameters,     \* what a call may be given, see ParametersAssumption
    Undefined,      \* JavaScript's undefined
    Faulty          \* a request may fail, and the message of either be lost

Nonces == Nat \cup {Undefined}

ASSUME ParametersAssumption ==
    /\ Undefined \notin Nat \cup Calls \cup Parameters
    /\ Faulty \in BOOLEAN
    /\ Parameters \subseteq
        [kind : {"send", "split", "lease", "renew", "node", "paymaster"},
         nonce : Nonces,                    \* parameters.nonce
         sponsored : BOOLEAN,               \* parameters.sponsor is given
         sponsorNonce : Nonces,             \* parameters.sponsorNonce
         sponsorSigned : (Nat \X Nat) \cup {Undefined},
                            \* parameters.sponsorSignature: the nonce and
                            \* sponsorNonce the sponsor signed for
         terminalClass : BOOLEAN]           \* terminal context is given
    /\ \A p \in Parameters :  \* what these kinds have no parameter for
        /\ p.kind \in {"lease", "renew", "node"} => ~p.sponsored
        /\ p.kind = "paymaster" => /\ p.nonce = Undefined
                                  /\ p.sponsorNonce = Undefined

VARIABLES
    \* The frame of each call.
    status,         \* where it is
    params,         \* its parameters
    awaiting,       \* the requests of its Promise.all not answered yet
    got,            \* the nonces it was given or has read
    signature,      \* the transaction the account signed for it
    envelope,       \* the transaction and signatures it sends
    contract,       \* built.contractAddress is there
    reason,         \* why it was rejected
    overlapped,     \* history: it was under way together with another call
    \* The node and the way to it.
    wire,           \* calls whose envelope is on its way to the node
    verdict,        \* what the node did with the envelope of each call
    pending,        \* the next nonces of the account and of its sponsor,
    latest          \* and what they are in the latest block

callVars == <<status, params, awaiting, got, signature, envelope, contract,
              reason, overlapped>>
nodeVars == <<wire, verdict, pending, latest>>
vars == <<callVars, nodeVars>>

NoNonces == [nonce |-> Undefined, sponsorNonce |-> Undefined]
FirstNonces == [nonce |-> 0, sponsorNonce |-> 0]

Init ==
    /\ status = [c \in Calls |-> "idle"]
    /\ params = [c \in Calls |-> Undefined]
    /\ awaiting = [c \in Calls |-> {}]
    /\ got = [c \in Calls |-> NoNonces]
    /\ signature = [c \in Calls |-> Undefined]
    /\ envelope = [c \in Calls |-> Undefined]
    /\ contract = [c \in Calls |-> FALSE]
    /\ reason = [c \in Calls |-> "none"]
    /\ overlapped = [c \in Calls |-> FALSE]
    /\ wire = {}
    /\ verdict = [c \in Calls |-> "none"]
    /\ pending = FirstNonces
    /\ latest = FirstNonces

-----------------------------------------------------------------------------
(***************************************************************************)
(* buildTransaction.                                                       *)
(***************************************************************************)

\* Mutated form: a nonce that is given as zero counts as not given.
NeedsFalsy(p) ==
    {"chainId"}
        \cup (IF p.nonce \in {Undefined, 0} THEN {"nonce"} ELSE {})
        \cup (IF p.sponsored /\ p.sponsorNonce \in {Undefined, 0}
              THEN {"sponsorNonce"} ELSE {})

\* The requests of its Promise.all; the chain id is never given here.
Needs(p) ==
    {"chainId"}
        \cup (IF p.nonce = Undefined THEN {"nonce"} ELSE {})
        \cup (IF p.sponsored /\ p.sponsorNonce = Undefined
              THEN {"sponsorNonce"} ELSE {})

\* It starts: the nonces given are used, the others are requested.
Build(c, p, next) ==
    /\ awaiting' = [awaiting EXCEPT ![c] = Needs(p)]
    /\ got' = [got EXCEPT ![c] =
                [nonce |-> p.nonce, sponsorNonce |-> p.sponsorNonce]]
    /\ status' = [status EXCEPT ![c] = next]

\* The node answers one of the requests from the given nonces.
ReplyFrom(c, need, nonces) ==
    /\ need \in awaiting[c]
    /\ params[c].kind = "paymaster" /\ need = "chainId" =>
        "nonce" \notin awaiting[c]
    /\ awaiting' = [awaiting EXCEPT ![c] = @ \ {need}]
    /\ got' = IF need = "chainId" THEN got
              ELSE [got EXCEPT ![c][need] = nonces[need]]
    /\ UNCHANGED <<status, params, signature, envelope, contract, reason,
                   overlapped, nodeVars>>

\* Mutated form: nonces are asked for without the block tag 'pending'.
ReplyLatest(c, need) == ReplyFrom(c, need, latest)

\* Nonces are asked for with the block tag 'pending'.
Reply(c, need) == ReplyFrom(c, need, pending)

\* The object it returns.  The terminal context is not one of its fields.
Transaction(c) ==
    [call |-> c,
     nonce |-> got[c].nonce,
     sponsored |-> params[c].sponsored,
     sponsorNonce |-> IF params[c].sponsored THEN got[c].sponsorNonce
                                             ELSE Undefined,
     terminalClass |-> FALSE]

Reject(c, why) ==
    /\ status' = [status EXCEPT ![c] = "rejected"]
    /\ reason' = [reason EXCEPT ![c] = why]

-----------------------------------------------------------------------------
(***************************************************************************)
(* The calls.                                                              *)
(***************************************************************************)

\* Between its start and its end, or with its envelope still on the wire.
UnderWay(c) == status[c] \notin {"idle", "resolved", "rejected"} \/ c \in wire

Begin(c, p) ==
    /\ status[c] = "idle"
    /\ params' = [params EXCEPT ![c] = p]
    /\ overlapped' = [d \in Calls |->
           \/ overlapped[d]
           \/ d = c /\ \E e \in Calls \ {c} : UnderWay(e)
           \/ d # c /\ UnderWay(d)]
    /\ UNCHANGED <<signature, contract, reason, verdict, pending, latest>>

\* sendTransaction or signAuthorization is called, which build at once; or
\* a lease or a paymaster, which first ask for a built transaction or quote.
Start(c, p) ==
    /\ p.kind # "node"
    /\ Begin(c, p)
    /\ IF p.kind \in {"lease", "renew", "paymaster"}
       THEN /\ status' = [status EXCEPT ![c] = "quoting"]
            /\ UNCHANGED <<awaiting, got>>
       ELSE Build(c, p, "building")
    /\ UNCHANGED <<envelope, wire>>

\* setSigner and its like are one request, with the nonce the caller gives.
StartOnNode(c, p) ==
    /\ p.kind = "node"
    /\ Begin(c, p)
    /\ status' = [status EXCEPT ![c] = "sending"]
    /\ LET tx == [call |-> c, nonce |-> p.nonce, sponsored |-> FALSE,
                  sponsorNonce |-> Undefined, terminalClass |-> FALSE]
       IN  envelope' = [envelope EXCEPT ![c] =
               [tx |-> tx, execution |-> tx, sponsor |-> Undefined]]
    /\ wire' = wire \cup {c}
    /\ UNCHANGED <<awaiting, got>>

\* A lease call gets its built transaction, with the nonce it was given or
\* the one the builder took: sendBuiltTransaction calls sendTransaction.
LeaseBuilt(c) ==
    /\ status[c] = "quoting" /\ params[c].kind \in {"lease", "renew"}
    /\ LET nonce == IF params[c].nonce = Undefined THEN pending.nonce
                    ELSE params[c].nonce
       IN  Build(c, [params[c] EXCEPT !.nonce = nonce], "building")
    /\ \E present \in BOOLEAN : contract' = [contract EXCEPT ![c] = present]
    /\ UNCHANGED <<params, signature, envelope, reason, overlapped, nodeVars>>

\* The paymaster's quote arrives, with the next nonce of the sponsor, and
\* buildPaymasterAuthorizationRequest asks for the account's, and then for
\* the chain id.
Quoted(c) ==
    /\ status[c] = "quoting" /\ params[c].kind = "paymaster"
    /\ status' = [status EXCEPT ![c] = "building"]
    /\ awaiting' = [awaiting EXCEPT ![c] = {"nonce", "chainId"}]
    /\ got' = [got EXCEPT ![c].sponsorNonce = pending.sponsorNonce]
    /\ UNCHANGED <<params, signature, envelope, contract, reason, overlapped,
                   nodeVars>>

Built(c) == status[c] = "building" /\ awaiting[c] = {}

\* signTransaction: the account signs what was built, and sendTransaction
\* sends it; a sponsored transaction needs the signature of its sponsor.
Sign(c) ==
    /\ Built(c) /\ params[c].kind \notin {"split", "paymaster"}
    /\ signature' = [signature EXCEPT ![c] = Transaction(c)]
    /\ IF params[c].sponsored /\ params[c].sponsorSigned = Undefined
       THEN /\ Reject(c, "sponsorSignature")
            /\ UNCHANGED <<envelope, wire>>
       ELSE /\ status' = [status EXCEPT ![c] = "sending"]
            /\ envelope' = [envelope EXCEPT ![c] =
                   [tx |-> Transaction(c), execution |-> Transaction(c),
                    sponsor |-> params[c].sponsorSigned]]
            /\ wire' = wire \cup {c}
            /\ UNCHANGED reason
    /\ UNCHANGED <<params, awaiting, got, contract, overlapped, verdict, pending,
                   latest>>

\* It has both: signAuthorization, which is given every nonce, signs without
\* another request.  The user authorizes the paymaster, which adds its own
\* signature for the nonces of the request and sends the transaction.
Authorize(c) ==
    /\ Built(c) /\ params[c].kind = "paymaster"
    /\ signature' = [signature EXCEPT ![c] = Transaction(c)]
    /\ status' = [status EXCEPT ![c] = "sending"]
    /\ envelope' = [envelope EXCEPT ![c] =
           [tx |-> Transaction(c), execution |-> Transaction(c),
            sponsor |-> <<got[c].nonce, got[c].sponsorNonce>>]]
    /\ wire' = wire \cup {c}
    /\ UNCHANGED <<params, awaiting, got, contract, reason, overlapped, verdict,
                   pending, latest>>

\* signAuthorization ends: the user has the signature.
SignAuthorization(c) ==
    /\ Built(c) /\ params[c].kind = "split"
    /\ signature' = [signature EXCEPT ![c] = Transaction(c)]
    /\ status' = [status EXCEPT ![c] = "signed"]
    /\ UNCHANGED <<params, awaiting, got, envelope, contract, reason,
                   overlapped, nodeVars>>

\* The user calls assembleTransaction with the same parameters: it builds
\* the transaction again.
Assemble(c) ==
    /\ status[c] = "signed"
    /\ Build(c, params[c], "assembling")
    /\ UNCHANGED <<params, signature, envelope, contract, reason, overlapped,
                   nodeVars>>

\* assembleTransaction ends; the user passes it to sendRawTransaction.
SendAssembled(c) ==
    /\ status[c] = "assembling" /\ awaiting[c] = {}
    /\ status' = [status EXCEPT ![c] = "sending"]
    /\ envelope' = [envelope EXCEPT ![c] =
           [tx |-> Transaction(c), execution |-> signature[c],
            sponsor |-> params[c].sponsorSigned]]
    /\ wire' = wire \cup {c}
    /\ UNCHANGED <<params, awaiting, got, signature, contract, reason,
                   overlapped, verdict, pending, latest>>

\* A request of the call is rejected by the transport, and the call with it.
\* What it has put on the wire stays there.
TransportFails(c) ==
    /\ Faulty
    /\ status[c] \in {"quoting", "building", "assembling", "sending"}
    /\ Reject(c, "transport")
    /\ awaiting' = [awaiting EXCEPT ![c] = {}]
    /\ UNCHANGED <<params, got, signature, envelope, contract, overlapped,
                   nodeVars>>

\* Mutated form: a deployment is checked before its answer is looked at.
SettleLeaseFirst(c) ==
    /\ status[c] = "sending"
    /\ verdict[c] # "none"
    /\ IF verdict[c] # "accepted" \/ params[c].kind = "lease"
       THEN Reject(c, verdict[c])
       ELSE status' = [status EXCEPT ![c] = "resolved"] /\ UNCHANGED reason
    /\ UNCHANGED <<params, awaiting, got, signature, envelope, contract,
                   overlapped, nodeVars>>

\* The answer to tos_sendRawTransaction arrives.  Only now does leaseDeploy
\* look for the contract address.
Settle(c) ==
    /\ status[c] = "sending"
    /\ verdict[c] # "none"
    /\ \/ /\ verdict[c] # "accepted"
          /\ Reject(c, verdict[c])
       \/ /\ verdict[c] = "accepted"
          /\ params[c].kind = "lease" /\ ~contract[c]
          /\ Reject(c, "noContractAddress")
       \/ /\ verdict[c] = "accepted"
          /\ params[c].kind = "lease" => contract[c]
          /\ status' = [status EXCEPT ![c] = "resolved"]
          /\ UNCHANGED reason
    /\ UNCHANGED <<params, awaiting, got, signature, envelope, contract,
                   overlapped, nodeVars>>

-----------------------------------------------------------------------------
(***************************************************************************)
(* The node and the wire (external).                                       *)
(***************************************************************************)

\* What the node finds wrong with an envelope, if anything.  The nonce of a
\* transaction it signs itself is its own choice, if none is given.
Judge(e) ==
    IF e.execution # e.tx THEN "executionSignature"
    ELSE IF e.tx.nonce \notin {pending.nonce, Undefined} THEN "nonce"
    ELSE IF e.tx.sponsored /\ e.sponsor # <<e.tx.nonce, e.tx.sponsorNonce>>
    THEN "sponsorSignature"
    ELSE IF e.tx.sponsored /\ e.tx.sponsorNonce # pending.sponsorNonce
    THEN "sponsorNonce"
    ELSE "accepted"

Deliver(c) ==
    /\ c \in wire
    /\ wire' = wire \ {c}
    /\ verdict' = [verdict EXCEPT ![c] = Judge(envelope[c])]
    /\ pending' =
        IF verdict'[c] # "accepted" THEN pending
        ELSE [nonce |-> pending.nonce + 1,
              sponsorNonce |-> pending.sponsorNonce
                  + (IF envelope[c].tx.sponsored THEN 1 ELSE 0)]
    /\ UNCHANGED <<callVars, latest>>

\* The pending transactions are mined.
Mine ==
    /\ latest' = pending
    /\ UNCHANGED <<callVars, wire, verdict, pending>>

\* The message is lost after its call has given up on it.
Lose(c) ==
    /\ Faulty
    /\ c \in wire /\ status[c] = "rejected"
    /\ wire' = wire \ {c}
    /\ UNCHANGED <<callVars, verdict, pending, latest>>

Next ==
    \/ Mine
    \/ \E c \in Calls :
        \/ \E p \in Parameters : Start(c, p) \/ StartOnNode(c, p)
        \/ \E need \in {"chainId", "nonce", "sponsorNonce"} : Reply(c, need)
        \/ LeaseBuilt(c) \/ Quoted(c) \/ Authorize(c)
        \/ Sign(c) \/ SignAuthorization(c) \/ Assemble(c)
        \/ SendAssembled(c) \/ TransportFails(c) \/ Settle(c)
        \/ Deliver(c) \/ Lose(c)

Spec == Init /\ [][Next]_vars
-----------------------------------------------------------------------------
(***************************************************************************)
(* Properties.                                                             *)
(***************************************************************************)

(***************************************************************************)
(* What is sent is what the account signed, whatever happens between the   *)
(* awaits of a call, a paymaster's included; signAuthorization and         *)
(* assembleTransaction agree when the caller gives every nonce.            *)
(***************************************************************************)
NoncesGiven(p) ==
    /\ p.nonce # Undefined
    /\ p.sponsored => p.sponsorNonce # Undefined

SignedIsSent ==
    \A c \in Calls :
        /\ envelope[c] # Undefined
        /\ params[c].kind = "split" => NoncesGiven(params[c])
        => envelope[c].execution = envelope[c].tx

(***************************************************************************)
(* A caller who gives the nonce may call again after a failure: two calls  *)
(* with the same nonce are never both accepted, although the envelope of   *)
(* the first may arrive after it was rejected, or even after the second.   *)
(***************************************************************************)
GivenNonceIsUsedOnce ==
    \A c, d \in Calls :
        /\ c # d
        /\ verdict[c] = "accepted"
        /\ verdict[d] = "accepted"
        /\ params[c].nonce # Undefined
        => params[c].nonce # params[d].nonce

(***************************************************************************)
(* A nonce that the wallet client read itself is refused only when another *)
(* call was under way: calls made one after the other never collide.       *)
(***************************************************************************)
OnlyOverlapCollides ==
    \A c \in Calls :
        /\ params[c] # Undefined => ~overlapped[c]
        /\ params[c] # Undefined => params[c].kind # "split"
        => /\ verdict[c] = "nonce" => params[c].nonce # Undefined
           /\ verdict[c] = "sponsorNonce" =>
                params[c].sponsorNonce # Undefined

(***************************************************************************)
(* A call that resolves was accepted; one whose transaction was accepted   *)
(* is rejected only when the transport failed, or a deployed lease comes   *)
(* without its contract address.                                           *)
(***************************************************************************)
OutcomeIsTrue ==
    \A c \in Calls :
        /\ status[c] = "resolved" => verdict[c] = "accepted"
        /\ status[c] = "rejected" /\ verdict[c] = "accepted" =>
            \/ reason[c] = "transport"
            \/ reason[c] = "noContractAddress" /\ ~contract[c]

(***************************************************************************)
(* A transaction carries the terminal context its caller gave.             *)
(***************************************************************************)
TerminalContextCarried ==
    \A c \in Calls : envelope[c] # Undefined =>
        envelope[c].tx.terminalClass = params[c].terminalClass
=============================================================================
