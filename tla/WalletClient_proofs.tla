-------------------------- MODULE WalletClient_proofs --------------------------
(***************************************************************************)
(* The properties of WalletClient hold for any calls, any parameters and   *)
(* any failures of requests.                                               *)
(***************************************************************************)
EXTENDS WalletClient, TLAPS

Statuses == {"idle", "quoting", "building", "signed", "assembling", "sending",
             "resolved", "rejected"}
Verdicts == {"none", "executionSignature", "nonce", "sponsorSignature", "sponsorNonce",
             "accepted"}
Reasons == Verdicts \cup {"transport", "noContractAddress"}
Requests == {"chainId", "nonce", "sponsorNonce"}
NoncePairs == [nonce : Nonces, sponsorNonce : Nonces]
Transactions ==
    [call : Calls, nonce : Nonces, sponsored : BOOLEAN, sponsorNonce : Nonces,
     terminalClass : BOOLEAN]
Envelopes ==
    [tx : Transactions, execution : Transactions \cup {Undefined},
     sponsor : (Nonces \X Nonces) \cup {Undefined}]

TypeInv ==
    /\ status \in [Calls -> Statuses]
    /\ params \in [Calls -> Parameters \cup {Undefined}]
    /\ awaiting \in [Calls -> SUBSET Requests]
    /\ got \in [Calls -> NoncePairs]
    /\ signature \in [Calls -> Transactions \cup {Undefined}]
    /\ envelope \in [Calls -> Envelopes \cup {Undefined}]
    /\ contract \in [Calls -> BOOLEAN]
    /\ reason \in [Calls -> Reasons]
    /\ overlapped \in [Calls -> BOOLEAN]
    /\ wire \subseteq Calls
    /\ verdict \in [Calls -> Verdicts]
    /\ pending \in [nonce : Nat, sponsorNonce : Nat]

\* Something of the call has been sent, or is there to be sent.
Sent(c) == envelope[c] # Undefined \/ c \in wire \/ verdict[c] # "none"

\* A call only sends at its end, and only waits where it builds.
Stages ==
    \A c \in Calls :
        /\ status[c] # "idle" => params[c] \in Parameters
        /\ status[c] \in {"idle", "quoting", "building", "signed", "assembling"}
            => ~Sent(c)
        /\ awaiting[c] # {} => status[c] \in {"building", "assembling"}
        /\ verdict[c] # "none" => c \notin wire

\* While it builds it has the nonces it was given and asks for none of them.
GivenIsGot ==
    \A c \in Calls : status[c] \in {"building", "signed", "assembling"} =>
        /\ params[c].nonce # Undefined =>
            got[c].nonce = params[c].nonce /\ "nonce" \notin awaiting[c]
        /\ params[c].sponsored /\ params[c].sponsorNonce # Undefined =>
            /\ got[c].sponsorNonce = params[c].sponsorNonce
            /\ "sponsorNonce" \notin awaiting[c]

\* The transaction of a call that was given its nonces.
GivenTransaction(c) ==
    [call |-> c,
     nonce |-> params[c].nonce,
     sponsored |-> params[c].sponsored,
     sponsorNonce |-> IF params[c].sponsored THEN params[c].sponsorNonce
                                             ELSE Undefined,
     terminalClass |-> FALSE]

SplitSigned ==
    \A c \in Calls : status[c] \in {"signed", "assembling"} =>
        /\ params[c].kind = "split"
        /\ NoncesGiven(params[c]) => signature[c] = GivenTransaction(c)

\* An envelope fits its call.
EnvelopeFits ==
    \A c \in Calls : Sent(c) =>
        /\ params[c] \in Parameters
        /\ envelope[c] \in Envelopes
        /\ (params[c].kind = "split" => NoncesGiven(params[c])) =>
            envelope[c].execution = envelope[c].tx
        /\ params[c].nonce # Undefined =>
            envelope[c].tx.nonce = params[c].nonce

\* A call that was rejected while its envelope is on the wire gave up on it.
WireOutcome ==
    \A c \in Calls :
        /\ status[c] = "rejected" /\ c \in wire => reason[c] = "transport"
        /\ status[c] = "resolved" => c \notin wire

\* Accepted nonces are below the pending one, and differ.
AcceptedNonces ==
    \A c \in Calls :
        verdict[c] = "accepted" /\ envelope[c].tx.nonce # Undefined =>
            /\ envelope[c].tx.nonce < pending.nonce
            /\ \A d \in Calls : d # c /\ verdict[d] = "accepted" =>
                envelope[d].tx.nonce # envelope[c].tx.nonce

\* A call that was never under way together with another is alone.
Alone ==
    \A c \in Calls : ~overlapped[c] /\ UnderWay(c) =>
        \A d \in Calls \ {c} : ~UnderWay(d)

\* What such a call has read is what the node expects.
Fresh ==
    \A c \in Calls :
        /\ ~overlapped[c] /\ status[c] = "building" =>
            /\ params[c].nonce = Undefined /\ "nonce" \notin awaiting[c] =>
                got[c].nonce = pending.nonce
            /\ params[c].sponsored /\ params[c].sponsorNonce = Undefined
                /\ "sponsorNonce" \notin awaiting[c] =>
                got[c].sponsorNonce = pending.sponsorNonce
        /\ ~overlapped[c] /\ c \in wire /\ params[c].kind # "split" =>
            /\ params[c].nonce = Undefined =>
                envelope[c].tx.nonce \in {pending.nonce, Undefined}
            /\ params[c].sponsorNonce = Undefined /\ envelope[c].tx.sponsored =>
                envelope[c].tx.sponsorNonce = pending.sponsorNonce

IInv ==
    /\ TypeInv /\ Stages /\ GivenIsGot /\ SplitSigned /\ EnvelopeFits
    /\ WireOutcome /\ AcceptedNonces /\ Alone /\ Fresh
    /\ OutcomeIsTrue /\ OnlyOverlapCollides

-----------------------------------------------------------------------------
\* What the node's judgement of an envelope says of it.
LEMMA JudgeFacts ==
    ASSUME NEW e
    PROVE  /\ Judge(e) \in Verdicts \ {"none"}
           /\ Judge(e) = "accepted" => e.tx.nonce \in {pending.nonce, Undefined}
           /\ Judge(e) = "nonce" => e.tx.nonce \notin {pending.nonce, Undefined}
           /\ Judge(e) = "sponsorNonce" =>
                e.tx.sponsored /\ e.tx.sponsorNonce # pending.sponsorNonce
BY DEF Judge, Verdicts

\* The types of what is built and of what it needs.
LEMMA TransactionType ==
    ASSUME TypeInv, ParametersAssumption, NEW c \in Calls, params[c] \in Parameters
    PROVE  Transaction(c) \in Transactions
BY DEF TypeInv, ParametersAssumption, Transaction, Transactions, NoncePairs, Nonces

\* What a call asks for is a set of requests.
LEMMA NeedsType ==
    ASSUME NEW p
    PROVE  Needs(p) \in SUBSET Requests
BY DEF Needs, Requests

\* The invariant holds before any call.
THEOREM InitHolds == Init => IInv
<1> SUFFICES ASSUME Init PROVE IInv
    OBVIOUS
<1>1. TypeInv
    BY DEF Init, TypeInv, Statuses, Verdicts, Reasons, NoNonces, NoncePairs, Nonces, FirstNonces
<1>2. /\ Stages /\ GivenIsGot /\ SplitSigned /\ EnvelopeFits /\ WireOutcome
      /\ AcceptedNonces /\ Alone /\ Fresh /\ OutcomeIsTrue /\ OnlyOverlapCollides
    BY DEF Init, Stages, Sent, GivenIsGot, SplitSigned, EnvelopeFits, WireOutcome,
           AcceptedNonces, Alone, Fresh, OutcomeIsTrue, OnlyOverlapCollides, UnderWay
<1> QED
    BY <1>1, <1>2 DEF IInv

\* No step leaves the types.
LEMMA TypeStep ==
    ASSUME ParametersAssumption, IInv, [Next]_vars
    PROVE  TypeInv'
<1> USE DEF TypeInv, IInv, vars, callVars, nodeVars
<1>1. CASE UNCHANGED vars
    BY <1>1
<1>2. CASE Mine
    BY <1>2 DEF Mine
<1>3. ASSUME NEW c \in Calls, NEW p \in Parameters, Start(c, p)
      PROVE  TypeInv'
  <2>1. CASE p.kind \in {"lease", "renew", "paymaster"}
    BY <1>3, <2>1 DEF Start, Begin, Statuses
  <2>2. CASE p.kind \notin {"lease", "renew", "paymaster"}
    <3>1. [nonce |-> p.nonce, sponsorNonce |-> p.sponsorNonce] \in NoncePairs
        BY DEF ParametersAssumption, NoncePairs
    <3>2. /\ Begin(c, p)
          /\ awaiting' = [awaiting EXCEPT ![c] = Needs(p)]
          /\ got' = [got EXCEPT ![c] = [nonce |-> p.nonce, sponsorNonce |-> p.sponsorNonce]]
          /\ status' = [status EXCEPT ![c] = "building"]
          /\ UNCHANGED <<envelope, wire>>
        BY <1>3, <2>2 DEF Start, Build
    <3> QED
        BY <3>1, <3>2, NeedsType DEF Begin, Statuses
  <2> QED
    BY <2>1, <2>2
<1>4. ASSUME NEW c \in Calls, NEW p \in Parameters, StartOnNode(c, p)
      PROVE  TypeInv'
    BY <1>4 DEF StartOnNode, Begin, Statuses, Envelopes, Transactions, Nonces,
                ParametersAssumption
<1>5. ASSUME NEW c \in Calls, NEW need \in Requests, Reply(c, need)
      PROVE  TypeInv'
    BY <1>5 DEF Reply, ReplyFrom, NoncePairs, Requests, Nonces
<1>6. ASSUME NEW c \in Calls, LeaseBuilt(c)
      PROVE  TypeInv'
    BY <1>6, NeedsType DEF LeaseBuilt, Build, Statuses, NoncePairs, Nonces, Stages,
                               ParametersAssumption
<1>7. ASSUME NEW c \in Calls, Quoted(c)
      PROVE  TypeInv'
    BY <1>7 DEF Quoted, Statuses, NoncePairs, Nonces, Requests
<1>8. ASSUME NEW c \in Calls, Authorize(c)
      PROVE  TypeInv'
    BY <1>8, TransactionType DEF Authorize, Built, Statuses, NoncePairs, Envelopes, Stages
<1>9. ASSUME NEW c \in Calls, Sign(c)
      PROVE  TypeInv'
    BY <1>9, TransactionType
    DEF Sign, Built, Reject, Statuses, Verdicts, Reasons, Envelopes, Stages, Nonces,
        ParametersAssumption
<1>10. ASSUME NEW c \in Calls, SignAuthorization(c)
       PROVE  TypeInv'
    BY <1>10, TransactionType DEF SignAuthorization, Built, Statuses, Stages
<1>11. ASSUME NEW c \in Calls, Assemble(c)
       PROVE  TypeInv'
    BY <1>11, NeedsType DEF Assemble, Build, Statuses, Stages, NoncePairs, ParametersAssumption
<1>12. ASSUME NEW c \in Calls, SendAssembled(c)
       PROVE  TypeInv'
    BY <1>12, TransactionType
    DEF SendAssembled, Statuses, Envelopes, Stages, Nonces, ParametersAssumption
<1>13. ASSUME NEW c \in Calls, TransportFails(c)
       PROVE  TypeInv'
    BY <1>13 DEF TransportFails, Reject, Statuses, Verdicts, Reasons
<1>14. ASSUME NEW c \in Calls, Settle(c)
       PROVE  TypeInv'
    BY <1>14 DEF Settle, Reject, Statuses, Verdicts, Reasons
<1>15. ASSUME NEW c \in Calls, Deliver(c)
       PROVE  TypeInv'
    BY <1>15, JudgeFacts DEF Deliver, Verdicts
<1>16. ASSUME NEW c \in Calls, Lose(c)
       PROVE  TypeInv'
    BY <1>16 DEF Lose
<1> HIDE DEF TypeInv, IInv, vars, callVars, nodeVars
<1> QED
    BY <1>1, <1>2, <1>3, <1>4, <1>5, <1>6, <1>7, <1>8, <1>9, <1>10, <1>11, <1>12,
       <1>13, <1>14, <1>15, <1>16 DEF Next, Requests
-----------------------------------------------------------------------------
(***************************************************************************)
(* Every other part of the invariant, with one step for each action.       *)
(***************************************************************************)

\* A step sends only at the end of a call.
LEMMA StagesStep ==
    ASSUME ParametersAssumption, IInv, TypeInv', [Next]_vars
    PROVE  Stages'
<1> USE DEF TypeInv, IInv, Stages, Sent
<1>1. CASE UNCHANGED vars
    BY <1>1 DEF vars, callVars, nodeVars
<1>2. CASE Mine
    BY <1>2 DEF Mine, callVars
<1>3. ASSUME NEW c \in Calls, NEW p \in Parameters, Start(c, p)
      PROVE  Stages'
    BY <1>3 DEF Start, Begin, Build, nodeVars
<1>4. ASSUME NEW c \in Calls, NEW p \in Parameters, StartOnNode(c, p)
      PROVE  Stages'
    BY <1>4 DEF StartOnNode, Begin, nodeVars
<1>5. ASSUME NEW c \in Calls, NEW need \in Requests, Reply(c, need)
      PROVE  Stages'
    BY <1>5 DEF Reply, ReplyFrom, nodeVars
<1>6. ASSUME NEW c \in Calls, LeaseBuilt(c)
      PROVE  Stages'
    BY <1>6 DEF LeaseBuilt, Build, nodeVars
<1>7. ASSUME NEW c \in Calls, Quoted(c)
      PROVE  Stages'
    BY <1>7 DEF Quoted, nodeVars
<1>8. ASSUME NEW c \in Calls, Authorize(c)
      PROVE  Stages'
    BY <1>8 DEF Authorize, Built, nodeVars
<1>9. ASSUME NEW c \in Calls, Sign(c)
      PROVE  Stages'
    BY <1>9 DEF Sign, Built, Reject, nodeVars
<1>10. ASSUME NEW c \in Calls, SignAuthorization(c)
      PROVE  Stages'
    BY <1>10 DEF SignAuthorization, Built, nodeVars
<1>11. ASSUME NEW c \in Calls, Assemble(c)
      PROVE  Stages'
    BY <1>11 DEF Assemble, Build, nodeVars
<1>12. ASSUME NEW c \in Calls, SendAssembled(c)
      PROVE  Stages'
    BY <1>12 DEF SendAssembled, nodeVars
<1>13. ASSUME NEW c \in Calls, TransportFails(c)
      PROVE  Stages'
    BY <1>13 DEF TransportFails, Reject, nodeVars
<1>14. ASSUME NEW c \in Calls, Settle(c)
      PROVE  Stages'
    BY <1>14 DEF Settle, Reject, nodeVars
<1>15. ASSUME NEW c \in Calls, Deliver(c)
      PROVE  Stages'
    BY <1>15 DEF Deliver, callVars
<1>16. ASSUME NEW c \in Calls, Lose(c)
      PROVE  Stages'
    BY <1>16 DEF Lose, callVars
<1> HIDE DEF TypeInv, IInv, Stages, Sent
<1> QED
    BY <1>1, <1>2, <1>3, <1>4, <1>5, <1>6, <1>7, <1>8, <1>9,
       <1>10, <1>11, <1>12, <1>13, <1>14, <1>15, <1>16
    DEF Next, Requests

\* No step forgets a nonce that was given.
LEMMA GivenIsGotStep ==
    ASSUME ParametersAssumption, IInv, TypeInv', [Next]_vars
    PROVE  GivenIsGot'
<1> USE DEF TypeInv, IInv, GivenIsGot, Stages
<1>1. CASE UNCHANGED vars
    BY <1>1 DEF vars, callVars, nodeVars
<1>2. CASE Mine
    BY <1>2 DEF Mine, callVars
<1>3. ASSUME NEW c \in Calls, NEW p \in Parameters, Start(c, p)
      PROVE  GivenIsGot'
    BY <1>3 DEF Start, Begin, Build, nodeVars, Needs, Requests
<1>4. ASSUME NEW c \in Calls, NEW p \in Parameters, StartOnNode(c, p)
      PROVE  GivenIsGot'
    BY <1>4 DEF StartOnNode, Begin, nodeVars
<1>5. ASSUME NEW c \in Calls, NEW need \in Requests, Reply(c, need)
      PROVE  GivenIsGot'
    BY <1>5 DEF Reply, ReplyFrom, nodeVars, Requests
<1>6. ASSUME NEW c \in Calls, LeaseBuilt(c)
      PROVE  GivenIsGot'
    BY <1>6 DEF LeaseBuilt, Build, nodeVars, Needs, ParametersAssumption
<1>7. ASSUME NEW c \in Calls, Quoted(c)
      PROVE  GivenIsGot'
    BY <1>7 DEF Quoted, nodeVars, ParametersAssumption
<1>8. ASSUME NEW c \in Calls, Authorize(c)
      PROVE  GivenIsGot'
    BY <1>8 DEF Authorize, Built, nodeVars
<1>9. ASSUME NEW c \in Calls, Sign(c)
      PROVE  GivenIsGot'
    BY <1>9 DEF Sign, Built, Reject, nodeVars
<1>10. ASSUME NEW c \in Calls, SignAuthorization(c)
      PROVE  GivenIsGot'
    BY <1>10 DEF SignAuthorization, Built, nodeVars
<1>11. ASSUME NEW c \in Calls, Assemble(c)
      PROVE  GivenIsGot'
    BY <1>11 DEF Assemble, Build, nodeVars, Needs, SplitSigned
<1>12. ASSUME NEW c \in Calls, SendAssembled(c)
      PROVE  GivenIsGot'
    BY <1>12 DEF SendAssembled, nodeVars
<1>13. ASSUME NEW c \in Calls, TransportFails(c)
      PROVE  GivenIsGot'
    BY <1>13 DEF TransportFails, Reject, nodeVars
<1>14. ASSUME NEW c \in Calls, Settle(c)
      PROVE  GivenIsGot'
    BY <1>14 DEF Settle, Reject, nodeVars
<1>15. ASSUME NEW c \in Calls, Deliver(c)
      PROVE  GivenIsGot'
    BY <1>15 DEF Deliver, callVars
<1>16. ASSUME NEW c \in Calls, Lose(c)
      PROVE  GivenIsGot'
    BY <1>16 DEF Lose, callVars
<1> HIDE DEF TypeInv, IInv, GivenIsGot, Stages
<1> QED
    BY <1>1, <1>2, <1>3, <1>4, <1>5, <1>6, <1>7, <1>8, <1>9,
       <1>10, <1>11, <1>12, <1>13, <1>14, <1>15, <1>16
    DEF Next, Requests

\* The two actions that sign what they do not assemble.
LEMMA SplitSignedSign ==
    ASSUME IInv, NEW c \in Calls, Sign(c)
    PROVE  SplitSigned'
<1>1. /\ signature' = [signature EXCEPT ![c] = Transaction(c)]
      /\ params' = params
      /\ \/ status' = [status EXCEPT ![c] = "rejected"]
         \/ status' = [status EXCEPT ![c] = "sending"]
    BY DEF Sign, Reject
<1>2. \A d \in Calls : status'[d] \in {"signed", "assembling"} =>
        d # c /\ status'[d] = status[d] /\ signature'[d] = signature[d]
    BY <1>1 DEF IInv, TypeInv
<1> QED
    BY <1>1, <1>2 DEF IInv, SplitSigned, NoncesGiven, GivenTransaction

\* An authorization is signed over the transaction of the nonces given.
LEMMA SplitSignedAuthorization ==
    ASSUME ParametersAssumption, IInv, NEW c \in Calls, SignAuthorization(c)
    PROVE  SplitSigned'
<1>1. params[c] \in Parameters /\ params' = params /\ params[c].kind = "split"
    BY DEF SignAuthorization, Built, IInv, Stages
<1>2. /\ params[c].nonce # Undefined => got[c].nonce = params[c].nonce
      /\ params[c].sponsored /\ params[c].sponsorNonce # Undefined =>
            got[c].sponsorNonce = params[c].sponsorNonce
    BY DEF SignAuthorization, Built, IInv, GivenIsGot
<1>3. NoncesGiven(params[c]) => Transaction(c) = GivenTransaction(c)
    BY <1>1, <1>2 DEF NoncesGiven, Transaction, GivenTransaction, ParametersAssumption
<1>4. /\ signature' = [signature EXCEPT ![c] = Transaction(c)]
      /\ status' = [status EXCEPT ![c] = "signed"]
    BY DEF SignAuthorization
<1>5. \A d \in Calls : GivenTransaction(d)' = GivenTransaction(d)
    BY <1>1 DEF GivenTransaction
<1>6. signature'[c] = Transaction(c)
    BY <1>4 DEF IInv, TypeInv
<1>7. \A d \in Calls \ {c} : status'[d] = status[d] /\ signature'[d] = signature[d]
    BY <1>4 DEF IInv, TypeInv
<1> QED
    BY <1>1, <1>3, <1>5, <1>6, <1>7 DEF IInv, SplitSigned, NoncesGiven

\* No step changes what a split call has signed.
LEMMA SplitSignedStep ==
    ASSUME ParametersAssumption, IInv, TypeInv', [Next]_vars
    PROVE  SplitSigned'
<1> USE DEF TypeInv, IInv, SplitSigned, Stages, GivenIsGot, GivenTransaction, NoncesGiven
<1>1. CASE UNCHANGED vars
    BY <1>1 DEF vars, callVars, nodeVars
<1>2. CASE Mine
    BY <1>2 DEF Mine, callVars
<1>3. ASSUME NEW c \in Calls, NEW p \in Parameters, Start(c, p)
      PROVE  SplitSigned'
    BY <1>3 DEF Start, Begin, Build, nodeVars
<1>4. ASSUME NEW c \in Calls, NEW p \in Parameters, StartOnNode(c, p)
      PROVE  SplitSigned'
    BY <1>4 DEF StartOnNode, Begin, nodeVars
<1>5. ASSUME NEW c \in Calls, NEW need \in Requests, Reply(c, need)
      PROVE  SplitSigned'
    BY <1>5 DEF Reply, ReplyFrom, nodeVars
<1>6. ASSUME NEW c \in Calls, LeaseBuilt(c)
      PROVE  SplitSigned'
    BY <1>6 DEF LeaseBuilt, Build, nodeVars
<1>7. ASSUME NEW c \in Calls, Quoted(c)
      PROVE  SplitSigned'
    BY <1>7 DEF Quoted, nodeVars
<1>8. ASSUME NEW c \in Calls, Authorize(c)
      PROVE  SplitSigned'
    BY <1>8 DEF Authorize, Built, nodeVars
<1>9. ASSUME NEW c \in Calls, Sign(c)
      PROVE  SplitSigned'
    BY <1>9, SplitSignedSign
<1>10. ASSUME NEW c \in Calls, SignAuthorization(c)
      PROVE  SplitSigned'
    BY <1>10, SplitSignedAuthorization
<1>11. ASSUME NEW c \in Calls, Assemble(c)
      PROVE  SplitSigned'
    BY <1>11 DEF Assemble, Build, nodeVars
<1>12. ASSUME NEW c \in Calls, SendAssembled(c)
      PROVE  SplitSigned'
    BY <1>12 DEF SendAssembled, nodeVars
<1>13. ASSUME NEW c \in Calls, TransportFails(c)
      PROVE  SplitSigned'
    BY <1>13 DEF TransportFails, Reject, nodeVars
<1>14. ASSUME NEW c \in Calls, Settle(c)
      PROVE  SplitSigned'
    BY <1>14 DEF Settle, Reject, nodeVars
<1>15. ASSUME NEW c \in Calls, Deliver(c)
      PROVE  SplitSigned'
    BY <1>15 DEF Deliver, callVars
<1>16. ASSUME NEW c \in Calls, Lose(c)
      PROVE  SplitSigned'
    BY <1>16 DEF Lose, callVars
<1> HIDE DEF TypeInv, IInv, SplitSigned, Stages, GivenIsGot, GivenTransaction, NoncesGiven
<1> QED
    BY <1>1, <1>2, <1>3, <1>4, <1>5, <1>6, <1>7, <1>8, <1>9,
       <1>10, <1>11, <1>12, <1>13, <1>14, <1>15, <1>16
    DEF Next, Requests

\* A call puts an envelope that fits it on the wire.
LEMMA EnvelopeSent ==
    ASSUME TypeInv, EnvelopeFits, NEW c \in Calls, NEW e \in Envelopes,
           params'[c] \in Parameters,
           \A d \in Calls \ {c} : params'[d] = params[d],
           envelope' = [envelope EXCEPT ![c] = e], wire' = wire \cup {c}, verdict' = verdict,
           (params'[c].kind = "split" => NoncesGiven(params'[c])) => e.execution = e.tx,
           params'[c].nonce # Undefined => e.tx.nonce = params'[c].nonce
    PROVE  EnvelopeFits'
<1>1. ASSUME NEW d \in Calls, Sent(d)', d # c
      PROVE  /\ params'[d] = params[d] /\ envelope'[d] = envelope[d]
             /\ Sent(d)
    BY <1>1 DEF TypeInv, Sent
<1>2. envelope'[c] = e
    BY DEF TypeInv
<1> QED
    BY <1>1, <1>2 DEF EnvelopeFits

\* The actions that send, each with the envelope it sends.
LEMMA EnvelopeFitsSign ==
    ASSUME ParametersAssumption, IInv, TypeInv', NEW c \in Calls, Sign(c)
    PROVE  EnvelopeFits'
<1> DEFINE e == [tx |-> Transaction(c), execution |-> Transaction(c),
                 sponsor |-> params[c].sponsorSigned]
<1>1. params[c] \in Parameters /\ params' = params /\ verdict' = verdict
    BY DEF Sign, Built, IInv, Stages
<1>2. e \in Envelopes
    BY <1>1, TransactionType DEF IInv, Envelopes, ParametersAssumption, Nonces
<1>3. params[c].nonce # Undefined => e.tx.nonce = params[c].nonce
    BY DEF Sign, Built, IInv, GivenIsGot, Transaction
<1>4. CASE params[c].sponsored /\ params[c].sponsorSigned = Undefined
    BY <1>1, <1>4 DEF Sign, IInv, EnvelopeFits, Sent
<1>5. CASE ~(params[c].sponsored /\ params[c].sponsorSigned = Undefined)
  <2>1. envelope' = [envelope EXCEPT ![c] = e] /\ wire' = wire \cup {c}
    BY <1>5 DEF Sign
  <2>2. e.execution = e.tx
    OBVIOUS
  <2> HIDE DEF e
  <2> QED
    BY <1>1, <1>2, <1>3, <2>1, <2>2, EnvelopeSent DEF IInv
<1> QED
    BY <1>4, <1>5

\* The authorization a paymaster is asked for.
LEMMA EnvelopeFitsAuthorize ==
    ASSUME ParametersAssumption, IInv, NEW c \in Calls, Authorize(c)
    PROVE  EnvelopeFits'
<1> DEFINE e == [tx |-> Transaction(c), execution |-> Transaction(c),
                 sponsor |-> <<got[c].nonce, got[c].sponsorNonce>>]
<1>1. params[c] \in Parameters /\ params' = params /\ verdict' = verdict
    BY DEF Authorize, Built, IInv, Stages
<1>2. got[c].nonce \in Nonces /\ got[c].sponsorNonce \in Nonces
    BY DEF IInv, TypeInv, NoncePairs
<1>3. e \in Envelopes
    BY <1>1, <1>2, TransactionType DEF IInv, Envelopes
<1>4. /\ e.execution = e.tx
      /\ params[c].nonce # Undefined => e.tx.nonce = params[c].nonce
    BY DEF Authorize, Built, IInv, GivenIsGot, Transaction
<1>5. envelope' = [envelope EXCEPT ![c] = e] /\ wire' = wire \cup {c}
    BY DEF Authorize
<1> HIDE DEF e
<1> QED
    BY <1>1, <1>3, <1>4, <1>5, EnvelopeSent DEF IInv

\* The envelope assembled from a signature made earlier.
LEMMA EnvelopeFitsAssembled ==
    ASSUME ParametersAssumption, IInv, NEW c \in Calls, SendAssembled(c)
    PROVE  EnvelopeFits'
<1> DEFINE e == [tx |-> Transaction(c), execution |-> signature[c],
                 sponsor |-> params[c].sponsorSigned]
<1>1. params[c] \in Parameters /\ params' = params /\ verdict' = verdict
    BY DEF SendAssembled, IInv, Stages
<1>2. e \in Envelopes
    BY <1>1, TransactionType DEF IInv, TypeInv, Envelopes, ParametersAssumption, Nonces
<1>3. /\ params[c].nonce # Undefined => got[c].nonce = params[c].nonce
      /\ params[c].sponsored /\ params[c].sponsorNonce # Undefined =>
            got[c].sponsorNonce = params[c].sponsorNonce
    BY DEF SendAssembled, IInv, GivenIsGot
<1>4. params[c].nonce # Undefined => e.tx.nonce = params[c].nonce
    BY <1>3 DEF Transaction
<1>5. NoncesGiven(params[c]) => Transaction(c) = GivenTransaction(c)
    BY <1>1, <1>3 DEF NoncesGiven, Transaction, GivenTransaction, ParametersAssumption
<1>6. params[c].kind = "split" /\ (NoncesGiven(params[c]) => signature[c] = GivenTransaction(c))
    BY DEF SendAssembled, IInv, SplitSigned
<1>7. (params[c].kind = "split" => NoncesGiven(params[c])) => e.execution = e.tx
    BY <1>5, <1>6
<1>8. envelope' = [envelope EXCEPT ![c] = e] /\ wire' = wire \cup {c}
    BY DEF SendAssembled
<1> HIDE DEF e
<1> QED
    BY <1>1, <1>2, <1>4, <1>7, <1>8, EnvelopeSent DEF IInv

\* The transaction of a call the node signs.
LEMMA EnvelopeFitsOnNode ==
    ASSUME ParametersAssumption, IInv, NEW c \in Calls, NEW p \in Parameters,
           StartOnNode(c, p)
    PROVE  EnvelopeFits'
<1> DEFINE tx == [call |-> c, nonce |-> p.nonce, sponsored |-> FALSE,
                  sponsorNonce |-> Undefined, terminalClass |-> FALSE]
           e == [tx |-> tx, execution |-> tx, sponsor |-> Undefined]
<1>1. e \in Envelopes /\ e.execution = e.tx /\ e.tx.nonce = p.nonce
    BY DEF ParametersAssumption, Nonces, Transactions, Envelopes
<1>2. /\ params' = [params EXCEPT ![c] = p] /\ verdict' = verdict
      /\ envelope' = [envelope EXCEPT ![c] = e] /\ wire' = wire \cup {c}
    BY DEF StartOnNode, Begin
<1>3. params'[c] = p /\ \A d \in Calls \ {c} : params'[d] = params[d]
    BY <1>2 DEF IInv, TypeInv
<1> HIDE DEF e
<1> QED
    BY <1>1, <1>2, <1>3, EnvelopeSent DEF IInv

\* No step makes an envelope that does not fit its call.
LEMMA EnvelopeFitsStep ==
    ASSUME ParametersAssumption, IInv, TypeInv', [Next]_vars
    PROVE  EnvelopeFits'
<1> USE DEF TypeInv, IInv, EnvelopeFits, Stages, Sent, GivenIsGot
<1>1. CASE UNCHANGED vars
    BY <1>1 DEF vars, callVars, nodeVars
<1>2. CASE Mine
    BY <1>2 DEF Mine, callVars
<1>3. ASSUME NEW c \in Calls, NEW p \in Parameters, Start(c, p)
      PROVE  EnvelopeFits'
    BY <1>3 DEF Start, Begin, Build, nodeVars
<1>4. ASSUME NEW c \in Calls, NEW p \in Parameters, StartOnNode(c, p)
      PROVE  EnvelopeFits'
    BY <1>4, EnvelopeFitsOnNode
<1>5. ASSUME NEW c \in Calls, NEW need \in Requests, Reply(c, need)
      PROVE  EnvelopeFits'
    BY <1>5 DEF Reply, ReplyFrom, nodeVars
<1>6. ASSUME NEW c \in Calls, LeaseBuilt(c)
      PROVE  EnvelopeFits'
    BY <1>6 DEF LeaseBuilt, Build, nodeVars
<1>7. ASSUME NEW c \in Calls, Quoted(c)
      PROVE  EnvelopeFits'
    BY <1>7 DEF Quoted, nodeVars
<1>8. ASSUME NEW c \in Calls, Authorize(c)
      PROVE  EnvelopeFits'
    BY <1>8, EnvelopeFitsAuthorize
<1>9. ASSUME NEW c \in Calls, Sign(c)
      PROVE  EnvelopeFits'
    BY <1>9, EnvelopeFitsSign
<1>10. ASSUME NEW c \in Calls, SignAuthorization(c)
      PROVE  EnvelopeFits'
    BY <1>10 DEF SignAuthorization, Built, nodeVars
<1>11. ASSUME NEW c \in Calls, Assemble(c)
      PROVE  EnvelopeFits'
    BY <1>11 DEF Assemble, Build, nodeVars
<1>12. ASSUME NEW c \in Calls, SendAssembled(c)
      PROVE  EnvelopeFits'
    BY <1>12, EnvelopeFitsAssembled
<1>13. ASSUME NEW c \in Calls, TransportFails(c)
      PROVE  EnvelopeFits'
    BY <1>13 DEF TransportFails, Reject, nodeVars
<1>14. ASSUME NEW c \in Calls, Settle(c)
      PROVE  EnvelopeFits'
    BY <1>14 DEF Settle, Reject, nodeVars
<1>15. ASSUME NEW c \in Calls, Deliver(c)
      PROVE  EnvelopeFits'
    BY <1>15 DEF Deliver, callVars
<1>16. ASSUME NEW c \in Calls, Lose(c)
      PROVE  EnvelopeFits'
    BY <1>16 DEF Lose, callVars
<1> HIDE DEF TypeInv, IInv, EnvelopeFits, Stages, Sent, GivenIsGot
<1> QED
    BY <1>1, <1>2, <1>3, <1>4, <1>5, <1>6, <1>7, <1>8, <1>9,
       <1>10, <1>11, <1>12, <1>13, <1>14, <1>15, <1>16
    DEF Next, Requests

\* A call is not settled before its envelope has arrived.
LEMMA WireOutcomeStep ==
    ASSUME ParametersAssumption, IInv, TypeInv', [Next]_vars
    PROVE  WireOutcome'
<1> USE DEF TypeInv, IInv, WireOutcome, Stages, Sent
<1>1. CASE UNCHANGED vars
    BY <1>1 DEF vars, callVars, nodeVars
<1>2. CASE Mine
    BY <1>2 DEF Mine, callVars
<1>3. ASSUME NEW c \in Calls, NEW p \in Parameters, Start(c, p)
      PROVE  WireOutcome'
    BY <1>3 DEF Start, Begin, Build, nodeVars
<1>4. ASSUME NEW c \in Calls, NEW p \in Parameters, StartOnNode(c, p)
      PROVE  WireOutcome'
    BY <1>4 DEF StartOnNode, Begin, nodeVars
<1>5. ASSUME NEW c \in Calls, NEW need \in Requests, Reply(c, need)
      PROVE  WireOutcome'
    BY <1>5 DEF Reply, ReplyFrom, nodeVars
<1>6. ASSUME NEW c \in Calls, LeaseBuilt(c)
      PROVE  WireOutcome'
    BY <1>6 DEF LeaseBuilt, Build, nodeVars
<1>7. ASSUME NEW c \in Calls, Quoted(c)
      PROVE  WireOutcome'
    BY <1>7 DEF Quoted, nodeVars
<1>8. ASSUME NEW c \in Calls, Authorize(c)
      PROVE  WireOutcome'
    BY <1>8 DEF Authorize, Built, nodeVars
<1>9. ASSUME NEW c \in Calls, Sign(c)
      PROVE  WireOutcome'
    BY <1>9 DEF Sign, Built, Reject, nodeVars
<1>10. ASSUME NEW c \in Calls, SignAuthorization(c)
      PROVE  WireOutcome'
    BY <1>10 DEF SignAuthorization, Built, nodeVars
<1>11. ASSUME NEW c \in Calls, Assemble(c)
      PROVE  WireOutcome'
    BY <1>11 DEF Assemble, Build, nodeVars
<1>12. ASSUME NEW c \in Calls, SendAssembled(c)
      PROVE  WireOutcome'
    BY <1>12 DEF SendAssembled, nodeVars
<1>13. ASSUME NEW c \in Calls, TransportFails(c)
      PROVE  WireOutcome'
    BY <1>13 DEF TransportFails, Reject, nodeVars
<1>14. ASSUME NEW c \in Calls, Settle(c)
      PROVE  WireOutcome'
    BY <1>14 DEF Settle, Reject, nodeVars
<1>15. ASSUME NEW c \in Calls, Deliver(c)
      PROVE  WireOutcome'
    BY <1>15 DEF Deliver, callVars
<1>16. ASSUME NEW c \in Calls, Lose(c)
      PROVE  WireOutcome'
    BY <1>16 DEF Lose, callVars
<1> HIDE DEF TypeInv, IInv, WireOutcome, Stages, Sent
<1> QED
    BY <1>1, <1>2, <1>3, <1>4, <1>5, <1>6, <1>7, <1>8, <1>9,
       <1>10, <1>11, <1>12, <1>13, <1>14, <1>15, <1>16
    DEF Next, Requests

\* The node accepts a nonce and is past it.
LEMMA AcceptedNoncesDeliver ==
    ASSUME IInv, NEW c \in Calls, Deliver(c)
    PROVE  AcceptedNonces'
<1>1. /\ envelope' = envelope
      /\ verdict[c] = "none" /\ verdict' = [verdict EXCEPT ![c] = Judge(envelope[c])]
      /\ pending.nonce \in Nat
    BY DEF Deliver, callVars, IInv, TypeInv, Stages
<1>2. \A d \in Calls : verdict'[d] = IF d = c THEN Judge(envelope[c]) ELSE verdict[d]
    BY <1>1 DEF IInv, TypeInv
<1>3. CASE Judge(envelope[c]) # "accepted"
  <2>1. pending' = pending
    BY <1>2, <1>3 DEF Deliver
  <2> QED
    BY <1>1, <1>2, <1>3, <2>1 DEF IInv, AcceptedNonces
<1>4. CASE Judge(envelope[c]) = "accepted"
  <2>1. pending'.nonce = pending.nonce + 1
    BY <1>2, <1>4 DEF Deliver
  <2>2. envelope[c].tx.nonce \in {pending.nonce, Undefined}
    BY <1>4, JudgeFacts
  <2>3. \A d \in Calls : verdict[d] = "accepted" /\ envelope[d].tx.nonce # Undefined =>
            envelope[d].tx.nonce < pending.nonce /\ envelope[d].tx.nonce \in Nat
    <3> SUFFICES ASSUME NEW d \in Calls, verdict[d] = "accepted",
                        envelope[d].tx.nonce # Undefined
                 PROVE  envelope[d].tx.nonce < pending.nonce /\ envelope[d].tx.nonce \in Nat
        OBVIOUS
    <3>1. envelope[d] \in Envelopes
        BY DEF IInv, EnvelopeFits, Sent
    <3> QED
        BY <3>1 DEF IInv, AcceptedNonces, Envelopes, Transactions, Nonces
  <2> QED
    BY <1>1, <1>2, <2>1, <2>2, <2>3 DEF IInv, AcceptedNonces
<1> QED
    BY <1>3, <1>4

\* What is sent has no verdict yet.
LEMMA AcceptedNoncesSent ==
    ASSUME IInv, NEW c \in Calls, Sign(c) \/ Authorize(c)
    PROVE  AcceptedNonces'
<1>1. verdict' = verdict /\ pending' = pending /\ verdict[c] = "none"
    BY DEF Sign, Authorize, Built, IInv, Stages, Sent
<1>2. \A d \in Calls \ {c} : envelope'[d] = envelope[d]
    BY DEF Sign, Authorize, IInv, TypeInv
<1> QED
    BY <1>1, <1>2 DEF IInv, AcceptedNonces

\* No step lets the node accept a nonce twice.
LEMMA AcceptedNoncesStep ==
    ASSUME ParametersAssumption, IInv, TypeInv', [Next]_vars
    PROVE  AcceptedNonces'
<1> USE DEF TypeInv, IInv, AcceptedNonces, Stages, Sent
<1>1. CASE UNCHANGED vars
    BY <1>1 DEF vars, callVars, nodeVars
<1>2. CASE Mine
    BY <1>2 DEF Mine, callVars
<1>3. ASSUME NEW c \in Calls, NEW p \in Parameters, Start(c, p)
      PROVE  AcceptedNonces'
    BY <1>3 DEF Start, Begin, Build, nodeVars
<1>4. ASSUME NEW c \in Calls, NEW p \in Parameters, StartOnNode(c, p)
      PROVE  AcceptedNonces'
    BY <1>4 DEF StartOnNode, Begin, nodeVars
<1>5. ASSUME NEW c \in Calls, NEW need \in Requests, Reply(c, need)
      PROVE  AcceptedNonces'
    BY <1>5 DEF Reply, ReplyFrom, nodeVars
<1>6. ASSUME NEW c \in Calls, LeaseBuilt(c)
      PROVE  AcceptedNonces'
    BY <1>6 DEF LeaseBuilt, Build, nodeVars
<1>7. ASSUME NEW c \in Calls, Quoted(c)
      PROVE  AcceptedNonces'
    BY <1>7 DEF Quoted, nodeVars
<1>8. ASSUME NEW c \in Calls, Authorize(c)
      PROVE  AcceptedNonces'
    BY <1>8, AcceptedNoncesSent
<1>9. ASSUME NEW c \in Calls, Sign(c)
      PROVE  AcceptedNonces'
    BY <1>9, AcceptedNoncesSent
<1>10. ASSUME NEW c \in Calls, SignAuthorization(c)
      PROVE  AcceptedNonces'
    BY <1>10 DEF SignAuthorization, Built, nodeVars
<1>11. ASSUME NEW c \in Calls, Assemble(c)
      PROVE  AcceptedNonces'
    BY <1>11 DEF Assemble, Build, nodeVars
<1>12. ASSUME NEW c \in Calls, SendAssembled(c)
      PROVE  AcceptedNonces'
    BY <1>12 DEF SendAssembled, nodeVars
<1>13. ASSUME NEW c \in Calls, TransportFails(c)
      PROVE  AcceptedNonces'
    BY <1>13 DEF TransportFails, Reject, nodeVars
<1>14. ASSUME NEW c \in Calls, Settle(c)
      PROVE  AcceptedNonces'
    BY <1>14 DEF Settle, Reject, nodeVars
<1>15. ASSUME NEW c \in Calls, Deliver(c)
      PROVE  AcceptedNonces'
    BY <1>15, AcceptedNoncesDeliver
<1>16. ASSUME NEW c \in Calls, Lose(c)
      PROVE  AcceptedNonces'
    BY <1>16 DEF Lose, callVars
<1> HIDE DEF TypeInv, IInv, AcceptedNonces, Stages, Sent
<1> QED
    BY <1>1, <1>2, <1>3, <1>4, <1>5, <1>6, <1>7, <1>8, <1>9,
       <1>10, <1>11, <1>12, <1>13, <1>14, <1>15, <1>16
    DEF Next, Requests

\* No step joins a call that is alone and says otherwise.
LEMMA AloneStep ==
    ASSUME ParametersAssumption, IInv, TypeInv', [Next]_vars
    PROVE  Alone'
<1> USE DEF TypeInv, IInv, Alone, Stages, Sent, UnderWay, WireOutcome
<1>1. CASE UNCHANGED vars
    BY <1>1 DEF vars, callVars, nodeVars
<1>2. CASE Mine
    BY <1>2 DEF Mine, callVars
<1>3. ASSUME NEW c \in Calls, NEW p \in Parameters, Start(c, p)
      PROVE  Alone'
    BY <1>3 DEF Start, Begin, Build, nodeVars
<1>4. ASSUME NEW c \in Calls, NEW p \in Parameters, StartOnNode(c, p)
      PROVE  Alone'
    BY <1>4 DEF StartOnNode, Begin, nodeVars
<1>5. ASSUME NEW c \in Calls, NEW need \in Requests, Reply(c, need)
      PROVE  Alone'
    BY <1>5 DEF Reply, ReplyFrom, nodeVars
<1>6. ASSUME NEW c \in Calls, LeaseBuilt(c)
      PROVE  Alone'
    BY <1>6 DEF LeaseBuilt, Build, nodeVars
<1>7. ASSUME NEW c \in Calls, Quoted(c)
      PROVE  Alone'
    BY <1>7 DEF Quoted, nodeVars
<1>8. ASSUME NEW c \in Calls, Authorize(c)
      PROVE  Alone'
    BY <1>8 DEF Authorize, Built, nodeVars
<1>9. ASSUME NEW c \in Calls, Sign(c)
      PROVE  Alone'
    BY <1>9 DEF Sign, Built, Reject, nodeVars
<1>10. ASSUME NEW c \in Calls, SignAuthorization(c)
      PROVE  Alone'
    BY <1>10 DEF SignAuthorization, Built, nodeVars
<1>11. ASSUME NEW c \in Calls, Assemble(c)
      PROVE  Alone'
    BY <1>11 DEF Assemble, Build, nodeVars
<1>12. ASSUME NEW c \in Calls, SendAssembled(c)
      PROVE  Alone'
    BY <1>12 DEF SendAssembled, nodeVars
<1>13. ASSUME NEW c \in Calls, TransportFails(c)
      PROVE  Alone'
    BY <1>13 DEF TransportFails, Reject, nodeVars
<1>14. ASSUME NEW c \in Calls, Settle(c)
      PROVE  Alone'
    BY <1>14 DEF Settle, Reject, nodeVars
<1>15. ASSUME NEW c \in Calls, Deliver(c)
      PROVE  Alone'
    BY <1>15 DEF Deliver, callVars
<1>16. ASSUME NEW c \in Calls, Lose(c)
      PROVE  Alone'
    BY <1>16 DEF Lose, callVars
<1> HIDE DEF TypeInv, IInv, Alone, Stages, Sent, UnderWay, WireOutcome
<1> QED
    BY <1>1, <1>2, <1>3, <1>4, <1>5, <1>6, <1>7, <1>8, <1>9,
       <1>10, <1>11, <1>12, <1>13, <1>14, <1>15, <1>16
    DEF Next, Requests

\* What is read is what the node expects.
LEMMA FreshReply ==
    ASSUME IInv, NEW c \in Calls, NEW need \in Requests, Reply(c, need)
    PROVE  Fresh'
<1>1. /\ UNCHANGED <<status, params, envelope, overlapped, wire, pending>>
      /\ awaiting' = [awaiting EXCEPT ![c] = @ \ {need}]
      /\ got' = IF need = "chainId" THEN got ELSE [got EXCEPT ![c][need] = pending[need]]
    BY DEF Reply, ReplyFrom, nodeVars
<1>2. \A d \in Calls \ {c} : got'[d] = got[d] /\ awaiting'[d] = awaiting[d]
    BY <1>1 DEF IInv, TypeInv
<1>3. /\ awaiting'[c] = awaiting[c] \ {need}
      /\ got'[c].nonce = IF need = "nonce" THEN pending.nonce ELSE got[c].nonce
      /\ got'[c].sponsorNonce =
            IF need = "sponsorNonce" THEN pending.sponsorNonce ELSE got[c].sponsorNonce
    BY <1>1 DEF IInv, TypeInv, NoncePairs, Requests
<1> QED
    BY <1>1, <1>2, <1>3 DEF IInv, Fresh

\* An assembled transaction is a split one.
LEMMA FreshAssembled ==
    ASSUME IInv, NEW c \in Calls, SendAssembled(c)
    PROVE  Fresh'
<1>1. /\ UNCHANGED <<params, awaiting, got, overlapped, pending>>
      /\ status' = [status EXCEPT ![c] = "sending"]
      /\ \A d \in Calls \ {c} : envelope'[d] = envelope[d]
      /\ wire' = wire \cup {c}
    BY DEF SendAssembled, IInv, TypeInv
<1>2. params[c].kind = "split"
    BY DEF SendAssembled, IInv, SplitSigned
<1>3. \A d \in Calls : status'[d] = "building" => d # c /\ status[d] = "building"
    BY <1>1 DEF IInv, TypeInv
<1> QED
    BY <1>1, <1>2, <1>3 DEF IInv, Fresh

\* What a call alone sends has the nonces it read.
LEMMA FreshSent ==
    ASSUME IInv, NEW c \in Calls, Sign(c) \/ Authorize(c)
    PROVE  Fresh'
<1>1. /\ UNCHANGED <<params, awaiting, got, overlapped, pending>>
      /\ status[c] = "building" /\ awaiting[c] = {} /\ c \notin wire
    BY DEF Sign, Authorize, Built, IInv, Stages, Sent
<1>2. \A d \in Calls \ {c} :
        /\ status'[d] = status[d] /\ envelope'[d] = envelope[d]
        /\ d \in wire' <=> d \in wire
    BY DEF Sign, Authorize, Reject, IInv, TypeInv
<1>3. status'[c] # "building" /\ (c \in wire' => envelope'[c].tx = Transaction(c))
    BY <1>1 DEF Sign, Authorize, Reject, IInv, TypeInv
<1>4. /\ Transaction(c).nonce = got[c].nonce
      /\ Transaction(c).sponsored = params[c].sponsored
      /\ params[c].sponsored => Transaction(c).sponsorNonce = got[c].sponsorNonce
    BY DEF Transaction
<1> QED
    BY <1>1, <1>2, <1>3, <1>4 DEF IInv, Fresh

\* No step makes a nonce stale for a call that is alone.
LEMMA FreshStep ==
    ASSUME ParametersAssumption, IInv, TypeInv', [Next]_vars
    PROVE  Fresh'
<1> USE DEF TypeInv, IInv, Fresh, Stages, Sent, Alone, UnderWay
<1>1. CASE UNCHANGED vars
    BY <1>1 DEF vars, callVars, nodeVars
<1>2. CASE Mine
    BY <1>2 DEF Mine, callVars
<1>3. ASSUME NEW c \in Calls, NEW p \in Parameters, Start(c, p)
      PROVE  Fresh'
    BY <1>3 DEF Start, Begin, Build, nodeVars, Needs
<1>4. ASSUME NEW c \in Calls, NEW p \in Parameters, StartOnNode(c, p)
      PROVE  Fresh'
    BY <1>4 DEF StartOnNode, Begin, nodeVars
<1>5. ASSUME NEW c \in Calls, NEW need \in Requests, Reply(c, need)
      PROVE  Fresh'
    BY <1>5, FreshReply
<1>6. ASSUME NEW c \in Calls, LeaseBuilt(c)
      PROVE  Fresh'
    BY <1>6 DEF LeaseBuilt, Build, nodeVars, Needs
<1>7. ASSUME NEW c \in Calls, Quoted(c)
      PROVE  Fresh'
    BY <1>7 DEF Quoted, nodeVars
<1>8. ASSUME NEW c \in Calls, Authorize(c)
      PROVE  Fresh'
    BY <1>8, FreshSent
<1>9. ASSUME NEW c \in Calls, Sign(c)
      PROVE  Fresh'
    BY <1>9, FreshSent
<1>10. ASSUME NEW c \in Calls, SignAuthorization(c)
      PROVE  Fresh'
    BY <1>10 DEF SignAuthorization, Built, nodeVars
<1>11. ASSUME NEW c \in Calls, Assemble(c)
      PROVE  Fresh'
    BY <1>11 DEF Assemble, Build, nodeVars
<1>12. ASSUME NEW c \in Calls, SendAssembled(c)
      PROVE  Fresh'
    BY <1>12, FreshAssembled
<1>13. ASSUME NEW c \in Calls, TransportFails(c)
      PROVE  Fresh'
    BY <1>13 DEF TransportFails, Reject, nodeVars
<1>14. ASSUME NEW c \in Calls, Settle(c)
      PROVE  Fresh'
    BY <1>14 DEF Settle, Reject, nodeVars
<1>15. ASSUME NEW c \in Calls, Deliver(c)
      PROVE  Fresh'
    BY <1>15 DEF Deliver, callVars
<1>16. ASSUME NEW c \in Calls, Lose(c)
      PROVE  Fresh'
    BY <1>16 DEF Lose, callVars
<1> HIDE DEF TypeInv, IInv, Fresh, Stages, Sent, Alone, UnderWay
<1> QED
    BY <1>1, <1>2, <1>3, <1>4, <1>5, <1>6, <1>7, <1>8, <1>9,
       <1>10, <1>11, <1>12, <1>13, <1>14, <1>15, <1>16
    DEF Next, Requests

\* No step settles a call against the verdict.
LEMMA OutcomeIsTrueStep ==
    ASSUME ParametersAssumption, IInv, TypeInv', [Next]_vars
    PROVE  OutcomeIsTrue'
<1> USE DEF TypeInv, IInv, OutcomeIsTrue, Stages, Sent, WireOutcome
<1>1. CASE UNCHANGED vars
    BY <1>1 DEF vars, callVars, nodeVars
<1>2. CASE Mine
    BY <1>2 DEF Mine, callVars
<1>3. ASSUME NEW c \in Calls, NEW p \in Parameters, Start(c, p)
      PROVE  OutcomeIsTrue'
    BY <1>3 DEF Start, Begin, Build, nodeVars
<1>4. ASSUME NEW c \in Calls, NEW p \in Parameters, StartOnNode(c, p)
      PROVE  OutcomeIsTrue'
    BY <1>4 DEF StartOnNode, Begin, nodeVars
<1>5. ASSUME NEW c \in Calls, NEW need \in Requests, Reply(c, need)
      PROVE  OutcomeIsTrue'
    BY <1>5 DEF Reply, ReplyFrom, nodeVars
<1>6. ASSUME NEW c \in Calls, LeaseBuilt(c)
      PROVE  OutcomeIsTrue'
    BY <1>6 DEF LeaseBuilt, Build, nodeVars
<1>7. ASSUME NEW c \in Calls, Quoted(c)
      PROVE  OutcomeIsTrue'
    BY <1>7 DEF Quoted, nodeVars
<1>8. ASSUME NEW c \in Calls, Authorize(c)
      PROVE  OutcomeIsTrue'
    BY <1>8 DEF Authorize, Built, nodeVars
<1>9. ASSUME NEW c \in Calls, Sign(c)
      PROVE  OutcomeIsTrue'
    BY <1>9 DEF Sign, Built, Reject, nodeVars
<1>10. ASSUME NEW c \in Calls, SignAuthorization(c)
      PROVE  OutcomeIsTrue'
    BY <1>10 DEF SignAuthorization, Built, nodeVars
<1>11. ASSUME NEW c \in Calls, Assemble(c)
      PROVE  OutcomeIsTrue'
    BY <1>11 DEF Assemble, Build, nodeVars
<1>12. ASSUME NEW c \in Calls, SendAssembled(c)
      PROVE  OutcomeIsTrue'
    BY <1>12 DEF SendAssembled, nodeVars
<1>13. ASSUME NEW c \in Calls, TransportFails(c)
      PROVE  OutcomeIsTrue'
    BY <1>13 DEF TransportFails, Reject, nodeVars
<1>14. ASSUME NEW c \in Calls, Settle(c)
      PROVE  OutcomeIsTrue'
    BY <1>14 DEF Settle, Reject, nodeVars
<1>15. ASSUME NEW c \in Calls, Deliver(c)
      PROVE  OutcomeIsTrue'
    BY <1>15 DEF Deliver, callVars
<1>16. ASSUME NEW c \in Calls, Lose(c)
      PROVE  OutcomeIsTrue'
    BY <1>16 DEF Lose, callVars
<1> HIDE DEF TypeInv, IInv, OutcomeIsTrue, Stages, Sent, WireOutcome
<1> QED
    BY <1>1, <1>2, <1>3, <1>4, <1>5, <1>6, <1>7, <1>8, <1>9,
       <1>10, <1>11, <1>12, <1>13, <1>14, <1>15, <1>16
    DEF Next, Requests

\* No step refuses a nonce read by a call that is alone.
LEMMA OnlyOverlapCollidesStep ==
    ASSUME ParametersAssumption, IInv, TypeInv', [Next]_vars
    PROVE  OnlyOverlapCollides'
<1> USE DEF TypeInv, IInv, OnlyOverlapCollides, Stages, Sent, Fresh
<1>1. CASE UNCHANGED vars
    BY <1>1 DEF vars, callVars, nodeVars
<1>2. CASE Mine
    BY <1>2 DEF Mine, callVars
<1>3. ASSUME NEW c \in Calls, NEW p \in Parameters, Start(c, p)
      PROVE  OnlyOverlapCollides'
    BY <1>3 DEF Start, Begin, Build, nodeVars
<1>4. ASSUME NEW c \in Calls, NEW p \in Parameters, StartOnNode(c, p)
      PROVE  OnlyOverlapCollides'
    BY <1>4 DEF StartOnNode, Begin, nodeVars
<1>5. ASSUME NEW c \in Calls, NEW need \in Requests, Reply(c, need)
      PROVE  OnlyOverlapCollides'
    BY <1>5 DEF Reply, ReplyFrom, nodeVars
<1>6. ASSUME NEW c \in Calls, LeaseBuilt(c)
      PROVE  OnlyOverlapCollides'
    BY <1>6 DEF LeaseBuilt, Build, nodeVars
<1>7. ASSUME NEW c \in Calls, Quoted(c)
      PROVE  OnlyOverlapCollides'
    BY <1>7 DEF Quoted, nodeVars
<1>8. ASSUME NEW c \in Calls, Authorize(c)
      PROVE  OnlyOverlapCollides'
    BY <1>8 DEF Authorize, Built, nodeVars
<1>9. ASSUME NEW c \in Calls, Sign(c)
      PROVE  OnlyOverlapCollides'
    BY <1>9 DEF Sign, Built, Reject, nodeVars
<1>10. ASSUME NEW c \in Calls, SignAuthorization(c)
      PROVE  OnlyOverlapCollides'
    BY <1>10 DEF SignAuthorization, Built, nodeVars
<1>11. ASSUME NEW c \in Calls, Assemble(c)
      PROVE  OnlyOverlapCollides'
    BY <1>11 DEF Assemble, Build, nodeVars
<1>12. ASSUME NEW c \in Calls, SendAssembled(c)
      PROVE  OnlyOverlapCollides'
    BY <1>12 DEF SendAssembled, nodeVars
<1>13. ASSUME NEW c \in Calls, TransportFails(c)
      PROVE  OnlyOverlapCollides'
    BY <1>13 DEF TransportFails, Reject, nodeVars
<1>14. ASSUME NEW c \in Calls, Settle(c)
      PROVE  OnlyOverlapCollides'
    BY <1>14 DEF Settle, Reject, nodeVars
<1>15. ASSUME NEW c \in Calls, Deliver(c)
      PROVE  OnlyOverlapCollides'
    BY <1>15, JudgeFacts DEF Deliver, callVars
<1>16. ASSUME NEW c \in Calls, Lose(c)
      PROVE  OnlyOverlapCollides'
    BY <1>16 DEF Lose, callVars
<1> HIDE DEF TypeInv, IInv, OnlyOverlapCollides, Stages, Sent, Fresh
<1> QED
    BY <1>1, <1>2, <1>3, <1>4, <1>5, <1>6, <1>7, <1>8, <1>9,
       <1>10, <1>11, <1>12, <1>13, <1>14, <1>15, <1>16
    DEF Next, Requests

-----------------------------------------------------------------------------
\* The invariant holds in every reachable state.
THEOREM Invariance == Spec => []IInv
<1>1. IInv /\ [Next]_vars => IInv'
    BY ParametersAssumption, TypeStep, StagesStep, GivenIsGotStep, SplitSignedStep,
       EnvelopeFitsStep, WireOutcomeStep, AcceptedNoncesStep, AloneStep, FreshStep,
       OutcomeIsTrueStep, OnlyOverlapCollidesStep DEF IInv
<1> QED
    BY InitHolds, <1>1, PTL DEF Spec

(***************************************************************************)
(* What is sent is what the account signed: a paymaster's or an assembled  *)
(* transaction too.  For an assembled one by SplitSigned: both times it    *)
(* was built of the nonces given.                                          *)
(***************************************************************************)
THEOREM SignedIsAlwaysSent == Spec => []SignedIsSent
<1>1. IInv => SignedIsSent
    BY DEF IInv, EnvelopeFits, SignedIsSent, Sent
<1> QED
    BY Invariance, <1>1, PTL

(***************************************************************************)
(* Two calls with one nonce given are never both accepted, however late    *)
(* the envelope of a call that has failed arrives: AcceptedNonces.         *)
(***************************************************************************)
THEOREM NonceIsUsedOnce == Spec => []GivenNonceIsUsedOnce
<1>1. IInv => GivenNonceIsUsedOnce
    BY DEF IInv, AcceptedNonces, EnvelopeFits, GivenNonceIsUsedOnce, Sent
<1> QED
    BY Invariance, <1>1, PTL

(***************************************************************************)
(* Calls made one after the other never collide on a nonce the client      *)
(* reads: Alone says that nothing comes between, and Fresh that the nonce  *)
(* read stays the pending one.                                             *)
(***************************************************************************)
THEOREM CollisionNeedsOverlap == Spec => []OnlyOverlapCollides
<1>1. IInv => OnlyOverlapCollides
    BY DEF IInv
<1> QED
    BY Invariance, <1>1, PTL

(***************************************************************************)
(* The outcome a caller sees is the node's, or the transport failed, or a  *)
(* deployed lease has no contract address.                                 *)
(***************************************************************************)
THEOREM OutcomeIsAlwaysTrue == Spec => []OutcomeIsTrue
<1>1. IInv => OutcomeIsTrue
    BY DEF IInv
<1> QED
    BY Invariance, <1>1, PTL
=============================================================================
