---------------------- MODULE WebSocketTransport_proofs ----------------------
(***************************************************************************)
(* Theorems about WebSocketTransport, for every number of calls,           *)
(* subscriptions, connections and ids, with every fault, for both kinds of *)
(* socket, and whatever an onError callback calls.                         *)
(***************************************************************************)
EXTENDS WebSocketTransport, TLAPS

(***************************************************************************)
(* The inductive invariant.  A connection that was not created yet has no  *)
(* socket; a frame past its first await has a connection; an entry of      *)
(* pendingRequests belongs to a request of that connection and id that was *)
(* sent; and a request the server holds is found in the map under its id,  *)
(* on an open socket.  While handleClose runs, its socket is closed and    *)
(* statePromise still stands for it.                                       *)
(***************************************************************************)
UnbornUntouched ==
    \A c \in Conns : promise[c] = "none" => socket[c] = "none"

ClosingIsShut ==
    closing # Undefined =>
        socket[closing] = "closed" /\ statePromise = closing

TellingIsClosing == telling # Undefined => closing # Undefined

OpenWires == \A c \in Conns : inbox[c] # {} => socket[c] = "open"

FramesHaveConn ==
    /\ \A o \in Ops : phase[o] # "idle" => conn[o] \in Conns
    /\ \A s \in Subs :
        stage[s] \in {"attaching", "active", "errored", "unsubscribed"}
            => home[s] \in Conns

PendingEntries ==
    \A c \in Conns : \A id \in DOMAIN pendingRequests[c] :
        LET o == pendingRequests[c][id]
        IN  /\ phase[o] \notin {"idle", "connecting"}
            /\ conn[o] = c
            /\ reqId[o] = id

InboxEntries ==
    \A c \in Conns : \A r \in inbox[c] :
        /\ phase[r[2]] = "sent"
        /\ conn[r[2]] = c
        /\ reqId[r[2]] = r[1]
        /\ r[1] \in DOMAIN pendingRequests[c]
        /\ pendingRequests[c][r[1]] = r[2]

(***************************************************************************)
(* A resolved subscribe request has an id that was issued to it; whoever   *)
(* got past it is a subscription with such an id.                          *)
(***************************************************************************)
Ticket(s) ==
    /\ answer[SubscribeOp(s)] # Undefined
    /\ SubscriptionId(s) \in SubIds
    /\ issued[SubscriptionId(s)] # Undefined
    /\ issued[SubscriptionId(s)][2] = s

ResolvedHasTicket ==
    \A s \in Subs : phase[SubscribeOp(s)] = "resolved" => Ticket(s)

OpenedIsResolved ==
    \A s \in Subs :
        stage[s] \in {"attaching", "active", "errored", "unsubscribed"}
            => phase[SubscribeOp(s)] = "resolved"

(***************************************************************************)
(* A handler is registered where its subscription looks for it, and only   *)
(* while the subscription is active, or on a closed connection.            *)
(***************************************************************************)
Handlers ==
    \A c \in Conns : \A k \in DOMAIN subscriptions[c] :
        LET s == subscriptions[c][k]
        IN  /\ c = home[s]
            /\ k = SubscriptionId(s)
            /\ stage[s] \in {"active", "errored"}
            /\ stage[s] = "errored" => socket[c] = "closed"

\* An id that some answer carries has been issued.
AnswersIssued ==
    \A o \in Ops :
        answer[o] # Undefined /\ answer[o][2] # Undefined
            => issued[answer[o][2]] # Undefined

ReceivedIssued ==
    \A s \in Subs : \A i \in 1 .. Len(received[s]) :
        /\ issued[received[s][i]] # Undefined
        /\ issued[received[s][i]][2] = s

IInv ==
    /\ TypeOK
    /\ OneLiveSocket
    /\ UnbornUntouched
    /\ ClosingIsShut
    /\ TellingIsClosing
    /\ OpenWires
    /\ FramesHaveConn
    /\ PendingEntries
    /\ InboxEntries
    /\ ResponseMatchesRequest
    /\ AnswersIssued
    /\ ResolvedHasTicket
    /\ OpenedIsResolved
    /\ Handlers
    /\ ReceivedIssued
-----------------------------------------------------------------------------
(***************************************************************************)
(* Maps.                                                                   *)
(***************************************************************************)
LEMMA MapSetFacts ==
    ASSUME NEW map, NEW key, NEW value
    PROVE  /\ DOMAIN MapSet(map, key, value) = DOMAIN map \cup {key}
           /\ MapSet(map, key, value)[key] = value
           /\ \A k \in DOMAIN map \ {key} :
                MapSet(map, key, value)[k] = map[k]
BY DEF MapSet

\* What delete leaves in a map: every entry but the one deleted.
LEMMA MapDeleteFacts ==
    ASSUME NEW map, NEW key
    PROVE  /\ DOMAIN MapDelete(map, key) = DOMAIN map \ {key}
           /\ \A k \in DOMAIN map \ {key} :
                MapDelete(map, key)[k] = map[k]
BY DEF MapDelete

\* clear() leaves a map with neither keys nor values.
LEMMA EmptyMapFacts == DOMAIN EmptyMap = {} /\ MapValues(EmptyMap) = {}
BY DEF EmptyMap, MapValues

\* set, delete and clear keep the types of a map's keys and values.
LEMMA MapTypes ==
    ASSUME NEW map, NEW K, NEW V, IsMap(map, K, V)
    PROVE  /\ \A key \in K : \A value \in V :
                IsMap(MapSet(map, key, value), K, V)
           /\ \A key : IsMap(MapDelete(map, key), K, V)
           /\ \A L : K \subseteq L => IsMap(map, L, V)
           /\ IsMap(EmptyMap, K, V)
<1>1. ASSUME NEW key \in K, NEW value \in V
      PROVE  IsMap(MapSet(map, key, value), K, V)
  BY DEF IsMap, MapSet
<1>2. ASSUME NEW key PROVE IsMap(MapDelete(map, key), K, V)
  BY DEF IsMap, MapDelete
<1>3. ASSUME NEW L, K \subseteq L PROVE IsMap(map, L, V)
  BY <1>3 DEF IsMap
<1>4. IsMap(EmptyMap, K, V)
  BY EmptyMapFacts DEF IsMap
<1> QED BY <1>1, <1>2, <1>3, <1>4

\* Updating a table at one key changes it there and nowhere else.
LEMMA UpdateFacts ==
    ASSUME NEW f, NEW S, DOMAIN f = S, NEW c \in S, NEW e
    PROVE  LET g == [f EXCEPT ![c] = e]
           IN  /\ DOMAIN g = S
               /\ g[c] = e
               /\ \A d \in S \ {c} : g[d] = f[d]
OBVIOUS

\* The ops of a subscription are ops, and tell subscriptions apart.
LEMMA OpFacts ==
    /\ \A s \in Subs : SubscribeOp(s) \in Ops /\ UnsubscribeOp(s) \in Ops
    /\ \A r \in Calls : <<r, "request">> \in Ops
    /\ \A o \in Ops : o[2] = "subscribe"
            => o[1] \in Subs /\ o = SubscribeOp(o[1])
    /\ \A s, t \in Subs : SubscribeOp(s) = SubscribeOp(t) => s = t
BY DEF Ops, SubscribeOp, UnsubscribeOp

-----------------------------------------------------------------------------
(***************************************************************************)
(* Initially.                                                              *)
(***************************************************************************)
LEMMA InitInv == ASSUME Init PROVE IInv
<1> USE ConstantsAssumption
<1>1. TypeOK
  BY EmptyMapFacts DEF Init, TypeOK, IsMap, Phases, Stages
<1>2. OneLiveSocket /\ UnbornUntouched /\ FramesHaveConn
  BY DEF Init, OneLiveSocket, UnbornUntouched, FramesHaveConn
<1>6. ClosingIsShut /\ TellingIsClosing /\ OpenWires
  BY DEF Init, ClosingIsShut, TellingIsClosing, OpenWires
<1>3. PendingEntries /\ InboxEntries /\ Handlers
  BY EmptyMapFacts DEF Init, PendingEntries, InboxEntries, Handlers
<1>4. ResponseMatchesRequest /\ AnswersIssued /\ ReceivedIssued
  BY DEF Init, ResponseMatchesRequest, AnswersIssued, ReceivedIssued
<1>5. ResolvedHasTicket /\ OpenedIsResolved
  BY OpFacts DEF Init, ResolvedHasTicket, OpenedIsResolved
<1> QED BY <1>1, <1>2, <1>3, <1>4, <1>5, <1>6 DEF IInv
-----------------------------------------------------------------------------
(***************************************************************************)
(* What the actions that share code do, spelled out.                       *)
(***************************************************************************)
LEMMA ConnectEffect ==
    ASSUME TypeOK, NEW c \in Conns, Connect(c)
    PROVE  \/ statePromise = c /\ UNCHANGED connVars
           \/ /\ statePromise = Undefined
              /\ statePromise' = c
              /\ promise[c] = "none"
              /\ \A d \in Conns \ {c} : /\ promise'[d] = promise[d]
                                        /\ socket'[d] = socket[d]
              /\ promise'[c] \in {"pending", "rejected"}
              /\ \/ socket'[c] = "connecting"
                 \/ socket'[c] = socket[c]
<1>1. CASE UNCHANGED connVars /\ c = statePromise
  BY <1>1
<1>2. CASE /\ statePromise = Undefined
           /\ promise[c] = "none"
           /\ statePromise' = c
           /\ promise' = [promise EXCEPT ![c] = "pending"]
           /\ socket' = [socket EXCEPT ![c] = "connecting"]
  BY <1>2 DEF TypeOK
<1>3. CASE /\ statePromise = Undefined
           /\ promise[c] = "none"
           /\ statePromise' = c
           /\ promise' = [promise EXCEPT ![c] = "rejected"]
           /\ UNCHANGED socket
  BY <1>3 DEF TypeOK
<1> QED BY <1>1, <1>2, <1>3 DEF Connect

\* What calling request does to the frames: one op starts to connect.
LEMMA CallEffect ==
    ASSUME TypeOK, NEW o \in Ops, CallRequest(o)
    PROVE  /\ phase[o] = "idle"
           /\ phase'[o] = "connecting"
           /\ conn'[o] \in Conns
           /\ \A p \in Ops \ {o} : /\ phase'[p] = phase[p]
                                   /\ conn'[p] = conn[p]
           /\ UNCHANGED <<reqId, answer, closing, telling, aborted>>
           /\ unheard \subseteq unheard'
           /\ closing # Undefined => o \in unheard'
           /\ \E c \in Conns : Connect(c)
BY DEF TypeOK, CallRequest

\* What a send adds: one pending entry, under an id not used before.
LEMMA SendEffect ==
    ASSUME IInv, NEW o \in Ops, Send(o)
    PROVE  LET c == conn[o]
               id == nextId[c]
           IN  /\ c \in Conns
               /\ phase[o] = "connecting"
               /\ phase'[o] \in {"sent", "unsent"}
               /\ reqId'[o] = id
               /\ \A p \in Ops \ {o} : /\ phase'[p] = phase[p]
                                       /\ reqId'[p] = reqId[p]
               /\ id \notin DOMAIN pendingRequests[c]
               /\ DOMAIN pendingRequests'[c]
                    = DOMAIN pendingRequests[c] \cup {id}
               /\ pendingRequests'[c][id] = o
               /\ \A i \in DOMAIN pendingRequests[c] :
                    pendingRequests'[c][i] = pendingRequests[c][i]
               /\ \A d \in Conns \ {c} :
                    pendingRequests'[d] = pendingRequests[d]
               /\ \A d \in Conns : \A r \in inbox'[d] :
                    \/ r \in inbox[d]
                    \/ d = c /\ r = <<id, o>> /\ phase'[o] = "sent"
<1> DEFINE c == conn[o]
           id == nextId[c]
<1>1. c \in Conns
  BY DEF IInv, FramesHaveConn, Send
<1>2. /\ phase[o] = "connecting"
      /\ phase'[o] \in {"sent", "unsent"}
      /\ reqId'[o] = id
      /\ \A p \in Ops \ {o} : phase'[p] = phase[p] /\ reqId'[p] = reqId[p]
  BY DEF IInv, TypeOK, Send
<1>3. /\ pendingRequests'[c] = MapSet(pendingRequests[c], id, o)
      /\ \A d \in Conns \ {c} : pendingRequests'[d] = pendingRequests[d]
  BY <1>1 DEF IInv, TypeOK, Send
<1>4. id \notin DOMAIN pendingRequests[c]
  BY <1>1 DEF IInv, TypeOK, IsMap
<1>5. /\ DOMAIN pendingRequests'[c] = DOMAIN pendingRequests[c] \cup {id}
      /\ pendingRequests'[c][id] = o
      /\ \A i \in DOMAIN pendingRequests[c] :
            pendingRequests'[c][i] = pendingRequests[c][i]
  BY <1>3, <1>4 DEF MapSet
<1>6. \A d \in Conns : \A r \in inbox'[d] :
        \/ r \in inbox[d]
        \/ d = c /\ r = <<id, o>> /\ phase'[o] = "sent"
  <2>1. CASE inbox' = inbox
    BY <2>1
  <2>2. CASE /\ inbox' = [inbox EXCEPT ![c] = @ \cup {<<id, o>>}]
             /\ phase' = [phase EXCEPT ![o] = "sent"]
    BY <1>1, <2>2 DEF IInv, TypeOK
  <2> QED BY <2>1, <2>2 DEF Send
<1> HIDE DEF c, id
<1> QED BY <1>1, <1>2, <1>3, <1>4, <1>5, <1>6 DEF c, id

\* What handleClose does before it tells the subscriptions: it empties two
\* tables, and a request that was in them waits no more.
LEMMA CloseEffect ==
    ASSUME TypeOK, NEW c \in Conns, Close(c)
    PROVE  /\ closing = Undefined
           /\ closing' = c
           /\ socket[c] \in {"open", "connecting"}
           /\ socket'[c] = "closed"
           /\ \A d \in Conns \ {c} :
                /\ socket'[d] = socket[d]
                /\ inbox'[d] = inbox[d]
                /\ pendingRequests'[d] = pendingRequests[d]
           /\ inbox'[c] = {}
           /\ DOMAIN pendingRequests'[c] = {}
           /\ \A o \in Ops :
                \/ phase'[o] = phase[o]
                \/ /\ phase'[o] = "closed"
                   /\ phase[o] = "sent"
                   /\ o \in MapValues(pendingRequests[c])
           /\ unheard \subseteq unheard'
           /\ \A o \in Ops : phase[o] = "connecting" /\ conn[o] = c
                => o \in unheard'
           /\ UNCHANGED <<statePromise, promise, aborted, subscriptions,
                          conn, reqId, answer, stage, home, received,
                          issued, alive, notified>>
<1>1. /\ closing = Undefined /\ closing' = c
      /\ socket[c] \in {"open", "connecting"}
      /\ socket'[c] = "closed"
      /\ inbox'[c] = {}
      /\ \A d \in Conns \ {c} : /\ socket'[d] = socket[d]
                                /\ inbox'[d] = inbox[d]
  BY DEF TypeOK, Close, CanDispatch
<1>2. /\ \A d \in Conns \ {c} : pendingRequests'[d] = pendingRequests[d]
      /\ DOMAIN pendingRequests'[c] = {}
      /\ \A o \in Ops :
           \/ phase'[o] = phase[o]
           \/ /\ phase'[o] = "closed"
              /\ phase[o] = "sent"
              /\ o \in MapValues(pendingRequests[c])
  BY EmptyMapFacts DEF TypeOK, Close, RejectPending
<1>3. UNCHANGED <<statePromise, promise, aborted, subscriptions, conn, reqId,
                  answer, stage, home, received, issued, alive, notified>>
  BY DEF Close, subVars
<1>4. unheard' = unheard \cup
        {o \in Ops : phase[o] = "connecting" /\ conn[o] = c}
  BY DEF Close
<1> QED BY <1>1, <1>2, <1>3, <1>4

\* What the loop does in one turn: an active subscription of the connection
\* that closes is told.
LEMMA TellEffect ==
    ASSUME TypeOK, NEW s \in Subs, Tell(s)
    PROVE  /\ closing \in Conns
           /\ s \in MapValues(subscriptions[closing])
           /\ stage[s] = "active" /\ stage'[s] = "errored"
           /\ \A u \in Subs \ {s} : stage'[u] = stage[u]
           /\ telling' = s
           /\ UNCHANGED <<connVars, closing, aborted, unheard, mapVars,
                          opVars, home, received, serverVars>>
BY DEF TypeOK, Tell, Untold

\* What is left when handleClose has ended: no handler of the connection,
\* no statePromise, and nobody on it that believes to be active.
LEMMA EndCloseEffect ==
    ASSUME TypeOK, EndClose
    PROVE  /\ closing \in Conns
           /\ \A s \in MapValues(subscriptions[closing]) : stage[s] # "active"
           /\ DOMAIN subscriptions'[closing] = {}
           /\ \A d \in Conns \ {closing} :
                subscriptions'[d] = subscriptions[d]
           /\ statePromise' = Undefined
           /\ closing' = Undefined
           /\ UNCHANGED <<promise, socket, aborted, unheard, nextId,
                          pendingRequests, opVars, subVars, serverVars>>
BY EmptyMapFacts DEF TypeOK, EndClose, Untold, Forget

\* The id a server's answer issues, if any: issued and answer agree on it.
Issues(o, c, outcome, p) ==
    \/ /\ issued' = issued
       /\ p = <<o, Undefined>>
       /\ outcome = "failed" \/ o[2] # "subscribe"
    \/ /\ o[2] = "subscribe"
       /\ outcome = "resolved"
       /\ \E k \in SubIds :
            /\ issued[k] = Undefined
            /\ issued' = [issued EXCEPT ![k] = <<c, o[1]>>]
            /\ p = <<o, k>>

\* What an answer does: it settles the request that has its id, if any.
LEMMA AnswerEffect ==
    ASSUME IInv, NEW o \in Ops, Answer(o)
    PROVE  LET c == conn[o]
               id == reqId[o]
           IN  /\ c \in Conns
               /\ <<id, o>> \in inbox[c]
               /\ phase[o] = "sent"
               /\ inbox' = [inbox EXCEPT ![c] = @ \ {<<id, o>>}]
               /\ pendingRequests' =
                    [pendingRequests EXCEPT ![c] = MapDelete(@, id)]
               /\ \E outcome \in {"failed", "resolved"} :
                  \E p \in Ops \X (SubIds \cup {Undefined}) :
                    /\ phase' = [phase EXCEPT ![o] = outcome]
                    /\ answer' = [answer EXCEPT ![o] = p]
                    /\ p[1] = o
                    /\ Issues(o, c, outcome, p)
<1>0. PICK c \in Conns : \E r \in inbox[c] :
          /\ r[2] = o
          /\ inbox' = [inbox EXCEPT ![c] = @ \ {r}]
          /\ Serve(o, c, r[1])
  BY DEF Answer
<1>1. PICK r \in inbox[c] :
          /\ r[2] = o
          /\ inbox' = [inbox EXCEPT ![c] = @ \ {r}]
          /\ Serve(o, c, r[1])
  BY <1>0
<1>2. /\ phase[o] = "sent"
      /\ c = conn[o]
      /\ r[1] = reqId[o]
      /\ r[1] \in DOMAIN pendingRequests[c]
      /\ pendingRequests[c][r[1]] = o
  BY <1>1 DEF IInv, InboxEntries
<1>3. r = <<reqId[o], o>>
  BY <1>1, <1>2 DEF IInv, TypeOK
<1>4. ASSUME NEW outcome, NEW p, Settle(c, r[1], outcome, p)
      PROVE  /\ pendingRequests' = [pendingRequests EXCEPT
                    ![c] = MapDelete(@, r[1])]
             /\ phase' = [phase EXCEPT ![o] = outcome]
             /\ answer' = [answer EXCEPT ![o] = p]
  BY <1>2, <1>4 DEF Settle, Finish, Has
<1>5. \E outcome \in {"failed", "resolved"} :
      \E p \in Ops \X (SubIds \cup {Undefined}) :
        /\ Settle(c, r[1], outcome, p)
        /\ p[1] = o
        /\ Issues(o, c, outcome, p)
  <2>1. CASE /\ Settle(c, r[1], "failed", <<o, Undefined>>)
             /\ UNCHANGED <<issued, alive>>
    BY <2>1 DEF Issues
  <2>2. CASE /\ o[2] # "subscribe"
             /\ Settle(c, r[1], "resolved", <<o, Undefined>>)
             /\ UNCHANGED issued
    BY <2>2 DEF Issues
  <2>3. CASE /\ o[2] = "subscribe"
             /\ \E k \in SubIds :
                  /\ issued[k] = Undefined
                  /\ issued' = [issued EXCEPT ![k] = <<c, o[1]>>]
                  /\ Settle(c, r[1], "resolved", <<o, k>>)
    <3>1. PICK k \in SubIds :
             /\ issued[k] = Undefined
             /\ issued' = [issued EXCEPT ![k] = <<c, o[1]>>]
             /\ Settle(c, r[1], "resolved", <<o, k>>)
      BY <2>3
    <3>2. Issues(o, c, "resolved", <<o, k>>)
      BY <2>3, <3>1 DEF Issues
    <3> QED BY <3>1, <3>2
  <2> QED BY <1>1, <2>1, <2>2, <2>3 DEF Serve
<1>6. \E outcome \in {"failed", "resolved"} :
      \E p \in Ops \X (SubIds \cup {Undefined}) :
        /\ pendingRequests' = [pendingRequests EXCEPT
               ![c] = MapDelete(@, r[1])]
        /\ phase' = [phase EXCEPT ![o] = outcome]
        /\ answer' = [answer EXCEPT ![o] = p]
        /\ p[1] = o
        /\ Issues(o, c, outcome, p)
  BY <1>4, <1>5
<1> QED BY <1>1, <1>2, <1>3, <1>6

\* It moves the frame of that request, and no other.
LEMMA AnswerFrames ==
    ASSUME IInv, NEW o \in Ops, Answer(o)
    PROVE  /\ phase[o] = "sent"
           /\ phase'[o] \in {"failed", "resolved"}
           /\ \A p \in Ops \ {o} : /\ phase'[p] = phase[p]
                                   /\ answer'[p] = answer[p]
<1>1. PICK outcome \in {"failed", "resolved"},
           p \in Ops \X (SubIds \cup {Undefined}) :
             /\ phase' = [phase EXCEPT ![o] = outcome]
             /\ answer' = [answer EXCEPT ![o] = p]
             /\ p[1] = o
             /\ Issues(o, conn[o], outcome, p)
  BY AnswerEffect
<1>2. phase[o] = "sent"
  BY AnswerEffect
<1> QED BY <1>1, <1>2 DEF IInv, TypeOK

\* What a notification does: at most one handler gets one more event.
LEMMA NotifyEffect ==
    ASSUME TypeOK, NEW c \in Conns, NEW k \in SubIds, Notify(c, k)
    PROVE  \/ received' = received
           \/ /\ k \in DOMAIN subscriptions[c]
              /\ subscriptions[c][k] \in Subs
              /\ socket[c] = "open"
              /\ received' = [received EXCEPT
                     ![subscriptions[c][k]] = Append(@, k)]
BY DEF TypeOK, IsMap, Notify, Deliver, Has
-----------------------------------------------------------------------------
(***************************************************************************)
(* Type correctness, one step per action.                                  *)
(***************************************************************************)
ConnMapsOK ==
    /\ nextId \in [Conns -> Nat \ {0}]
    /\ DOMAIN pendingRequests = Conns
    /\ DOMAIN subscriptions = Conns
    /\ DOMAIN inbox = Conns
    /\ \A c \in Conns :
        /\ IsMap(pendingRequests[c], 1 .. nextId[c] - 1, Ops)
        /\ IsMap(subscriptions[c], SubIds, Subs)
        /\ inbox[c] \subseteq (1 .. nextId[c] - 1) \X Ops

\* Every step keeps the types, and the tables have one entry per key.
LEMMA TypeStep == ASSUME IInv, [Next]_vars PROVE TypeOK'
<1> USE ConstantsAssumption
<1> USE DEF IInv
<1>0. ASSUME NEW c \in Conns, Connect(c)
      PROVE  /\ statePromise' \in Conns \cup {Undefined}
             /\ promise' \in [Conns -> {"none", "pending", "fulfilled",
                                        "rejected"}]
             /\ socket' \in [Conns -> {"none", "connecting", "open",
                                       "closed"}]
  <2>1. CASE UNCHANGED connVars
    BY <2>1 DEF TypeOK, connVars
  <2>2. CASE /\ statePromise' = c
             /\ promise' = [promise EXCEPT ![c] = "pending"]
             /\ socket' = [socket EXCEPT ![c] = "connecting"]
    BY <2>2 DEF TypeOK
  <2>3. CASE /\ statePromise' = c
             /\ promise' = [promise EXCEPT ![c] = "rejected"]
             /\ UNCHANGED socket
    BY <2>3 DEF TypeOK
  <2> QED BY <1>0, <2>1, <2>2, <2>3 DEF Connect
<1>1. ASSUME NEW o \in Ops, CallRequest(o)
      PROVE  /\ statePromise' \in Conns \cup {Undefined}
             /\ promise' \in [Conns -> {"none", "pending", "fulfilled",
                                        "rejected"}]
             /\ socket' \in [Conns -> {"none", "connecting", "open",
                                       "closed"}]
             /\ phase' \in [Ops -> Phases]
             /\ conn' \in [Ops -> Conns \cup {Undefined}]
             /\ closing' \in Conns \cup {Undefined}
             /\ telling' \in Subs \cup {Undefined}
             /\ aborted' \subseteq Conns
             /\ unheard' \subseteq Ops
             /\ reqId' = reqId
             /\ answer' = answer
  <2>1. PICK c \in Conns : Connect(c) /\ conn' = [conn EXCEPT ![o] = c]
    BY <1>1 DEF CallRequest
  <2> QED
    BY <1>0, <1>1, <2>1 DEF TypeOK, CallRequest, Phases
<1>2. ASSUME NEW r \in Calls, Request(r) PROVE TypeOK'
  BY <1>1, <1>2, OpFacts DEF TypeOK, Request, mapVars, subVars, serverVars
<1>3. ASSUME NEW s \in Subs, Subscribe(s) PROVE TypeOK'
  BY <1>1, <1>3, OpFacts DEF TypeOK, Subscribe, mapVars, serverVars, Stages
<1>4. ASSUME NEW s \in Subs, Unsubscribe(s) PROVE TypeOK'
  <2>0. home[s] \in Conns
    BY <1>4 DEF Unsubscribe, FramesHaveConn
  <2>1. /\ DOMAIN subscriptions' = Conns
        /\ \A c \in Conns : IsMap(subscriptions'[c], SubIds, Subs)
    BY <1>4, <2>0, UpdateFacts, MapTypes DEF TypeOK, Unsubscribe, RemoveHandler
  <2> QED
    BY <1>1, <1>4, <2>1, OpFacts DEF TypeOK, Unsubscribe, serverVars, Stages
<1>5. ASSUME NEW o \in Ops, Send(o) PROVE TypeOK'
  <2>1. conn[o] \in Conns
    BY <1>5 DEF FramesHaveConn, Send
  <2> DEFINE c == conn[o]
             id == nextId[c]
             Ids(d) == 1 .. nextId'[d] - 1
  <2>2. /\ nextId' \in [Conns -> Nat \ {0}]
        /\ id \in Ids(c)
        /\ \A d \in Conns : 1 .. nextId[d] - 1 \subseteq Ids(d)
    BY <1>5, <2>1 DEF TypeOK, Send, TakeId
  <2>3. /\ DOMAIN pendingRequests' = Conns
        /\ pendingRequests'[c] = MapSet(pendingRequests[c], id, o)
        /\ \A d \in Conns \ {c} : pendingRequests'[d] = pendingRequests[d]
    BY <1>5, <2>1 DEF TypeOK, Send
  <2>4. \A d \in Conns : IsMap(pendingRequests[d], Ids(d), Ops)
    BY <2>2, MapTypes DEF TypeOK
  <2>5. \A d \in Conns : IsMap(pendingRequests'[d], Ids(d), Ops)
    <3>1. ASSUME NEW d \in Conns, d = c
          PROVE  IsMap(pendingRequests'[d], Ids(d), Ops)
      BY <2>2, <2>3, <2>4, <3>1 DEF IsMap, MapSet
    <3>2. ASSUME NEW d \in Conns \ {c}
          PROVE  IsMap(pendingRequests'[d], Ids(d), Ops)
      BY <2>3, <2>4, <3>2
    <3> QED BY <3>1, <3>2
  <2>6. DOMAIN inbox' = Conns
    BY <1>5 DEF TypeOK, Send
  <2>7. \A d \in Conns : inbox'[d] \subseteq inbox[d] \cup {<<id, o>>}
    <3>1. CASE inbox' = inbox
      BY <3>1
    <3>2. CASE inbox' = [inbox EXCEPT ![c] = @ \cup {<<id, o>>}]
      BY <2>1, <3>2 DEF TypeOK
    <3> QED BY <1>5, <3>1, <3>2 DEF Send
  <2>8. \A d \in Conns \ {c} : inbox'[d] = inbox[d]
    BY <1>5, <2>1 DEF TypeOK, Send
  <2>9. \A d \in Conns : inbox'[d] \subseteq Ids(d) \X Ops
    <3>1. ASSUME NEW d \in Conns, d = c
          PROVE  inbox'[d] \subseteq Ids(d) \X Ops
      <4>1. <<id, o>> \in Ids(d) \X Ops
        BY <2>2, <3>1
      <4>2. inbox[d] \subseteq Ids(d) \X Ops
        BY <2>2 DEF TypeOK
      <4> QED BY <2>7, <4>1, <4>2
    <3>2. ASSUME NEW d \in Conns \ {c}
          PROVE  inbox'[d] \subseteq Ids(d) \X Ops
      BY <2>2, <2>8, <3>2 DEF TypeOK
    <3> QED BY <3>1, <3>2
  <2> QED
    BY <1>5, <2>1, <2>2, <2>3, <2>5, <2>6, <2>9
    DEF TypeOK, Send, connVars, closeVars, subVars, Phases
<1>6. ASSUME NEW o \in Ops, ConnectFailed(o) PROVE TypeOK'
  BY <1>6 DEF TypeOK, ConnectFailed, connVars, closeVars, mapVars, subVars,
              serverVars, Phases
<1>7. ASSUME NEW s \in Subs, Reconnect(s) PROVE TypeOK'
  BY <1>0, <1>7
  DEF TypeOK, Reconnect, closeVars, mapVars, opVars, serverVars, Stages
<1>8. ASSUME NEW s \in Subs, Attach(s) PROVE TypeOK'
  <2>1. home[s] \in Conns /\ SubscriptionId(s) \in SubIds
    BY <1>8 DEF FramesHaveConn, Attach, OpenedIsResolved, ResolvedHasTicket,
                Ticket
  <2>2. /\ DOMAIN subscriptions' = Conns
        /\ \A c \in Conns : IsMap(subscriptions'[c], SubIds, Subs)
    BY <1>8, <2>1, UpdateFacts, MapTypes DEF TypeOK, Attach
  <2> QED
    BY <1>8, <2>2
    DEF TypeOK, Attach, connVars, closeVars, opVars, serverVars, Stages
<1>9. ASSUME NEW s \in Subs, SubscribeFailed(s) PROVE TypeOK'
  BY <1>9 DEF TypeOK, SubscribeFailed, connVars, closeVars, mapVars, opVars,
              serverVars, Stages
<1>10. ASSUME NEW c \in Conns, Open(c) PROVE TypeOK'
  BY <1>10 DEF TypeOK, Open, closeVars, mapVars, opVars, subVars, serverVars
<1>11. ASSUME NEW c \in Conns, Close(c) PROVE TypeOK'
  <2>1. ConnMapsOK'
    <3>1. /\ DOMAIN pendingRequests' = Conns
          /\ \A d \in Conns : \/ pendingRequests'[d] = pendingRequests[d]
                               \/ pendingRequests'[d] = EmptyMap
      BY <1>11 DEF TypeOK, Close, RejectPending
    <3>2. subscriptions' = subscriptions
      BY <1>11 DEF Close
    <3>3. /\ DOMAIN inbox' = Conns
          /\ \A d \in Conns : inbox'[d] \subseteq inbox[d]
      BY <1>11 DEF TypeOK, Close
    <3>4. nextId' = nextId
      BY <1>11 DEF Close
    <3>5. \A d \in Conns :
             /\ IsMap(pendingRequests'[d], 1 .. nextId[d] - 1, Ops)
             /\ IsMap(subscriptions'[d], SubIds, Subs)
      BY <3>1, <3>2, EmptyMapFacts DEF TypeOK, IsMap
    <3>6. \A d \in Conns : inbox'[d] \subseteq (1 .. nextId[d] - 1) \X Ops
      BY <3>3 DEF TypeOK
    <3> QED
      BY <3>1, <3>2, <3>3, <3>4, <3>5, <3>6 DEF TypeOK, ConnMapsOK
  <2>2. phase' \in [Ops -> Phases]
    BY <1>11 DEF TypeOK, Close, RejectPending, Phases
  <2>3. /\ closing' = c
        /\ UNCHANGED <<telling, aborted>>
        /\ unheard' \subseteq unheard \cup Ops
    BY <1>11 DEF Close
  <2>4. /\ UNCHANGED <<statePromise, promise, stage>>
        /\ socket' = [socket EXCEPT ![c] = "closed"]
        /\ UNCHANGED <<conn, reqId, answer, home, issued, alive>>
        /\ UNCHANGED <<notified, received>>
    BY <1>11 DEF Close, subVars
  <2> QED
    BY <2>1, <2>2, <2>3, <2>4 DEF TypeOK, ConnMapsOK
<1>12. ASSUME NEW o \in Ops, Answer(o) PROVE TypeOK'
  <2> DEFINE c == conn[o]
             id == reqId[o]
  <2>1. PICK outcome \in {"failed", "resolved"},
             p \in Ops \X (SubIds \cup {Undefined}) :
               /\ phase' = [phase EXCEPT ![o] = outcome]
               /\ answer' = [answer EXCEPT ![o] = p]
               /\ p[1] = o
               /\ Issues(o, c, outcome, p)
    BY <1>12, AnswerEffect
  <2>2. /\ c \in Conns
        /\ inbox' = [inbox EXCEPT ![c] = @ \ {<<id, o>>}]
        /\ pendingRequests' = [pendingRequests EXCEPT ![c] = MapDelete(@, id)]
    BY <1>12, AnswerEffect
  <2>3. /\ phase' \in [Ops -> Phases]
        /\ answer' \in [Ops -> (Ops \X (SubIds \cup {Undefined}))
                                \cup {Undefined}]
    BY <2>1 DEF TypeOK, Phases
  <2>4. /\ DOMAIN pendingRequests' = Conns
        /\ \A d \in Conns :
             IsMap(pendingRequests'[d], 1 .. nextId[d] - 1, Ops)
    BY <2>2 DEF TypeOK, IsMap, MapDelete
  <2>5. issued' \in [SubIds -> (Conns \X Subs) \cup {Undefined}]
    <3>1. ASSUME o[2] = "subscribe" PROVE <<c, o[1]>> \in Conns \X Subs
      BY <2>2, <3>1, OpFacts
    <3>2. issued \in [SubIds -> (Conns \X Subs) \cup {Undefined}]
      BY DEF TypeOK
    <3>3. CASE issued' = issued
      BY <3>2, <3>3
    <3>4. CASE /\ o[2] = "subscribe"
               /\ \E k \in SubIds : issued' = [issued EXCEPT ![k] = <<c, o[1]>>]
      BY <3>1, <3>2, <3>4
    <3> QED BY <2>1, <3>3, <3>4 DEF Issues
  <2>6. alive' \subseteq SubIds
    <3>1. PICK d \in Conns : \E r \in inbox[d] : Serve(o, d, r[1])
      BY <1>12 DEF Answer
    <3>2. \/ alive' \subseteq alive
          \/ \E k \in SubIds : alive' = alive \cup {k}
      BY <3>1 DEF Serve
    <3> QED BY <3>2 DEF TypeOK
  <2>7. /\ DOMAIN inbox' = Conns
        /\ \A d \in Conns : inbox'[d] \subseteq inbox[d]
    BY <2>2 DEF TypeOK
  <2>8. \A d \in Conns : inbox'[d] \subseteq (1 .. nextId[d] - 1) \X Ops
    BY <2>7 DEF TypeOK
  <2>9. UNCHANGED <<connVars, closeVars, nextId, subscriptions, conn, reqId,
                    subVars, notified>>
    BY <1>12 DEF Answer
  <2> HIDE DEF c, id
  <2> QED
    BY <2>3, <2>4, <2>5, <2>6, <2>7, <2>8, <2>9
    DEF TypeOK, connVars, closeVars, subVars
<1>13. ASSUME NEW c \in Conns, NEW k \in SubIds, Notify(c, k) PROVE TypeOK'
  BY <1>13 DEF TypeOK, Notify, Deliver, Has, IsMap, connVars, closeVars,
               mapVars, opVars
<1>15. ASSUME NEW s \in Subs, Tell(s) PROVE TypeOK'
  BY <1>15 DEF TypeOK, Tell, connVars, mapVars, opVars, serverVars, Stages
<1>16. CASE EndClose
  <2>1. /\ DOMAIN subscriptions' = Conns
        /\ \A d \in Conns : \/ subscriptions'[d] = subscriptions[d]
                             \/ subscriptions'[d] = EmptyMap
    BY <1>16 DEF TypeOK, EndClose, Forget
  <2>2. \A d \in Conns : IsMap(subscriptions'[d], SubIds, Subs)
    BY <2>1, EmptyMapFacts DEF TypeOK, IsMap
  <2> QED
    BY <1>16, <2>1, <2>2
    DEF TypeOK, EndClose, Forget, opVars, subVars, serverVars
<1>17. CASE OnErrorThrows
  <2>1. aborted' \subseteq Conns
    <3>1. telling # Undefined /\ aborted' = aborted \cup {closing}
      BY <1>17 DEF OnErrorThrows
    <3>2. closing \in Conns
      BY <3>1 DEF TellingIsClosing, TypeOK
    <3> QED BY <3>1, <3>2 DEF TypeOK
  <2> QED
    BY <1>17, <2>1
    DEF TypeOK, OnErrorThrows, connVars, mapVars, opVars, subVars, serverVars
<1>14. ASSUME UNCHANGED vars PROVE TypeOK'
  BY <1>14 DEF TypeOK, vars
<1> QED
  BY <1>2, <1>3, <1>4, <1>5, <1>6, <1>7, <1>8, <1>9, <1>10, <1>11, <1>12,
     <1>13, <1>14, <1>15, <1>16, <1>17
  DEF Next, User, Job, Event, Listener
-----------------------------------------------------------------------------
(***************************************************************************)
(* Every other conjunct of the invariant, one lemma per group that the     *)
(* same actions disturb.                                                   *)
(***************************************************************************)

\* connect(), the socket's open and close and the end of handleClose are
\* all that matters here.
LEMMA SocketsStep ==
    ASSUME IInv, [Next]_vars
    PROVE  (OneLiveSocket /\ UnbornUntouched /\ ClosingIsShut)'
<1> USE ConstantsAssumption
<1> USE DEF IInv
<1> DEFINE Goal == OneLiveSocket /\ UnbornUntouched /\ ClosingIsShut
<1>1. ASSUME NEW c \in Conns, Connect(c), closing' = closing PROVE Goal'
  <2>1. CASE UNCHANGED connVars
    BY <1>1, <2>1 DEF OneLiveSocket, UnbornUntouched, ClosingIsShut, connVars
  <2>2. CASE ~UNCHANGED connVars
    <3>1. /\ statePromise = Undefined
          /\ statePromise' = c
          /\ promise'[c] \in {"pending", "rejected"}
          /\ \A d \in Conns \ {c} : /\ promise'[d] = promise[d]
                                    /\ socket'[d] = socket[d]
      BY <1>1, <2>2, ConnectEffect
    <3>2. OneLiveSocket'
      BY <3>1 DEF OneLiveSocket
    <3>3. UnbornUntouched'
      BY <3>1 DEF UnbornUntouched
    <3>4. closing = Undefined
      BY <3>1 DEF ClosingIsShut
    <3> QED BY <1>1, <3>2, <3>3, <3>4 DEF ClosingIsShut
  <2> QED BY <2>1, <2>2
<1>2. ASSUME NEW c \in Conns, Open(c) PROVE Goal'
  BY <1>2
  DEF TypeOK, Open, CanDispatch, closeVars, OneLiveSocket, UnbornUntouched,
      ClosingIsShut
<1>3. ASSUME NEW c \in Conns, Close(c) PROVE Goal'
  <2>1. UNCHANGED <<statePromise, promise>> /\ closing' = c
    BY <1>3, CloseEffect
  <2>2. /\ socket[c] \in {"open", "connecting"}
        /\ socket'[c] = "closed"
        /\ \A d \in Conns \ {c} : socket'[d] = socket[d]
    BY <1>3, CloseEffect
  <2>3. \A d \in Conns : socket'[d] \notin {"connecting", "open"}
    BY <2>2 DEF OneLiveSocket
  <2>4. UnbornUntouched'
    BY <2>1, <2>2 DEF UnbornUntouched
  <2>5. statePromise = c
    BY <2>2 DEF OneLiveSocket
  <2> QED BY <2>1, <2>2, <2>3, <2>4, <2>5 DEF OneLiveSocket, ClosingIsShut
<1>4. CASE UNCHANGED <<connVars, closing>>
  BY <1>4 DEF OneLiveSocket, UnbornUntouched, ClosingIsShut, connVars
<1>5. CASE EndClose
  <2>1. /\ socket[closing] = "closed" /\ statePromise = closing
        /\ UNCHANGED <<promise, socket>> /\ closing' = Undefined
    BY <1>5, EndCloseEffect DEF ClosingIsShut
  <2> QED BY <2>1 DEF OneLiveSocket, UnbornUntouched, ClosingIsShut
<1>6. CASE OnErrorThrows
  BY <1>6
  DEF OnErrorThrows, connVars, OneLiveSocket, UnbornUntouched, ClosingIsShut
<1>7. \/ \E c \in Conns : Connect(c) /\ closing' = closing
      \/ \E c \in Conns : Open(c) \/ Close(c)
      \/ EndClose \/ OnErrorThrows
      \/ UNCHANGED <<connVars, closing>>
  BY DEF Next, User, Job, Event, Listener, vars, Request, Subscribe,
         Unsubscribe, CallRequest, Send, ConnectFailed, Reconnect, Attach,
         SubscribeFailed, Tell, Answer, Notify, connVars, closeVars
<1> QED BY <1>1, <1>2, <1>3, <1>4, <1>5, <1>6, <1>7

\* onError is only called in handleClose.
LEMMA TellingStep == ASSUME IInv, [Next]_vars PROVE TellingIsClosing'
<1>1. CASE Listener
  BY <1>1
  DEF Listener, Tell, EndClose, OnErrorThrows, TellingIsClosing, IInv
<1>2. ASSUME NEW c \in Conns, Close(c) PROVE TellingIsClosing'
  BY <1>2, ConstantsAssumption DEF Close, TellingIsClosing
<1>3. CASE UNCHANGED <<closing, telling>>
  BY <1>3 DEF IInv, TellingIsClosing
<1> QED
  BY <1>1, <1>2, <1>3
  DEF Next, User, Job, Event, vars, Request, Subscribe, Unsubscribe,
      CallRequest, Send, ConnectFailed, Reconnect, Attach, SubscribeFailed,
      Open, Answer, Notify, closeVars

\* A request is on the wire of an open socket, and the close empties it.
LEMMA WiresStep == ASSUME IInv, [Next]_vars PROVE OpenWires'
<1> USE DEF IInv
<1>1. ASSUME NEW o \in Ops, Send(o) PROVE OpenWires'
  <2>1. conn[o] \in Conns
    BY <1>1, SendEffect
  <2>2. socket' = socket
    BY <1>1 DEF Send, connVars
  <2>3. CASE inbox' = inbox
    BY <2>2, <2>3 DEF OpenWires
  <2>4. CASE /\ socket[conn[o]] = "open"
             /\ inbox' = [inbox EXCEPT
                    ![conn[o]] = @ \cup {<<nextId[conn[o]], o>>}]
    BY <2>1, <2>2, <2>4 DEF OpenWires, TypeOK
  <2> QED BY <1>1, <2>3, <2>4 DEF Send
<1>2. ASSUME NEW c \in Conns, Close(c) PROVE OpenWires'
  BY <1>2, CloseEffect DEF OpenWires
<1>3. ASSUME NEW o \in Ops, Answer(o) PROVE OpenWires'
  <2>1. inbox' = [inbox EXCEPT ![conn[o]] = @ \ {<<reqId[o], o>>}]
    BY <1>3, AnswerEffect
  <2>2. socket' = socket
    BY <1>3 DEF Answer, connVars
  <2> QED BY <2>1, <2>2 DEF OpenWires, TypeOK
<1>4. ASSUME NEW c \in Conns, Connect(c), inbox' = inbox PROVE OpenWires'
  BY <1>4, ConnectEffect DEF OpenWires, UnbornUntouched, connVars
<1>5. ASSUME NEW c \in Conns, Open(c) PROVE OpenWires'
  BY <1>5 DEF OpenWires, TypeOK, Open, serverVars
<1>6. CASE UNCHANGED <<socket, inbox>>
  BY <1>6 DEF OpenWires
<1>7. \/ \E o \in Ops : Send(o) \/ Answer(o)
      \/ \E c \in Conns : Open(c) \/ Close(c)
      \/ \E c \in Conns : Connect(c) /\ inbox' = inbox
      \/ UNCHANGED <<socket, inbox>>
  BY DEF Next, User, Job, Event, Listener, vars, Request, Subscribe,
         Unsubscribe, CallRequest, ConnectFailed, Reconnect, Attach,
         SubscribeFailed, Tell, EndClose, OnErrorThrows, Notify, connVars,
         serverVars
<1> QED BY <1>1, <1>2, <1>3, <1>4, <1>5, <1>6, <1>7

\* The frames of request and the tables they use.
LEMMA RequestsStep ==
    ASSUME IInv, [Next]_vars
    PROVE  (FramesHaveConn /\ PendingEntries /\ InboxEntries)'
<1> USE ConstantsAssumption
<1> USE DEF IInv
<1> DEFINE Goal == FramesHaveConn /\ PendingEntries /\ InboxEntries
<1>1. ASSUME NEW o \in Ops, CallRequest(o),
             UNCHANGED <<pendingRequests, inbox, home>>,
             \A s \in Subs : \/ stage'[s] \in {stage[s], "requesting"}
                            \/ home[s] \in Conns
      PROVE  Goal'
  <2>0. /\ phase[o] = "idle"
        /\ \A p \in Ops \ {o} : phase'[p] = phase[p] /\ conn'[p] = conn[p]
        /\ reqId' = reqId
    BY <1>1, CallEffect
  <2>1. FramesHaveConn'
    BY <1>1, CallEffect DEF TypeOK, FramesHaveConn
  <2>2. PendingEntries'
    <3> SUFFICES ASSUME NEW d \in Conns, NEW i \in DOMAIN pendingRequests[d]
                 PROVE  LET p == pendingRequests[d][i]
                        IN  /\ phase'[p] \notin {"idle", "connecting"}
                            /\ conn'[p] = d
                            /\ reqId'[p] = i
      BY <1>1 DEF PendingEntries
    <3>1. pendingRequests[d][i] \in Ops \ {o}
      BY <2>0 DEF PendingEntries, TypeOK, IsMap
    <3> QED BY <2>0, <3>1 DEF PendingEntries
  <2>3. InboxEntries'
    <3> SUFFICES ASSUME NEW d \in Conns, NEW r \in inbox[d]
                 PROVE  /\ phase'[r[2]] = "sent"
                        /\ conn'[r[2]] = d
                        /\ reqId'[r[2]] = r[1]
                        /\ r[1] \in DOMAIN pendingRequests[d]
                        /\ pendingRequests[d][r[1]] = r[2]
      BY <1>1 DEF InboxEntries
    <3>1. r[2] \in Ops
      BY DEF TypeOK
    <3> QED BY <2>0, <3>1 DEF InboxEntries
  <2> QED BY <2>1, <2>2, <2>3
<1> HIDE DEF Goal
<1>2. ASSUME NEW r \in Calls, Request(r) PROVE Goal'
  <2>1. /\ CallRequest(<<r, "request">>)
        /\ UNCHANGED <<pendingRequests, inbox, home>>
        /\ stage' = stage
    BY <1>2 DEF Request, mapVars, subVars, serverVars
  <2>2. <<r, "request">> \in Ops
    BY OpFacts
  <2> QED BY <1>1, <2>1, <2>2
<1>3. ASSUME NEW s \in Subs, Subscribe(s) PROVE Goal'
  <2>1. /\ CallRequest(SubscribeOp(s))
        /\ UNCHANGED <<pendingRequests, inbox, home>>
    BY <1>3 DEF Subscribe, mapVars, serverVars
  <2>2. SubscribeOp(s) \in Ops
    BY OpFacts
  <2>3. \A t \in Subs : stage'[t] \in {stage[t], "requesting"}
    BY <1>3 DEF Subscribe, TypeOK
  <2> QED BY <1>1, <2>1, <2>2, <2>3
<1>4. ASSUME NEW s \in Subs, Unsubscribe(s) PROVE Goal'
  <2>1. home[s] \in Conns
    BY <1>4 DEF Unsubscribe, FramesHaveConn
  <2>2. /\ CallRequest(UnsubscribeOp(s))
        /\ UNCHANGED <<pendingRequests, inbox, home>>
    BY <1>4 DEF Unsubscribe, serverVars
  <2>3. UnsubscribeOp(s) \in Ops
    BY OpFacts
  <2>4. \A t \in Subs : \/ stage'[t] \in {stage[t], "requesting"}
                        \/ home[t] \in Conns
    BY <1>4, <2>1 DEF Unsubscribe, TypeOK
  <2> QED BY <1>1, <2>2, <2>3, <2>4
<1> USE DEF Goal
<1>5. ASSUME NEW o \in Ops, Send(o) PROVE Goal'
  <2>1. UNCHANGED <<conn, stage, home>>
    BY <1>5 DEF Send, subVars
  <2>2. FramesHaveConn'
    BY <1>5, <2>1, SendEffect DEF FramesHaveConn
  <2>3. PendingEntries'
    <3> SUFFICES ASSUME NEW d \in Conns, NEW i \in DOMAIN pendingRequests'[d]
                 PROVE  LET p == pendingRequests'[d][i]
                        IN  /\ phase'[p] \notin {"idle", "connecting"}
                            /\ conn'[p] = d
                            /\ reqId'[p] = i
      BY DEF PendingEntries
    <3>0. /\ pendingRequests'[conn[o]][nextId[conn[o]]] = o
          /\ phase'[o] \in {"sent", "unsent"}
          /\ reqId'[o] = nextId[conn[o]]
      BY <1>5, SendEffect
    <3>1. CASE d = conn[o] /\ i = nextId[d]
      BY <2>1, <3>0, <3>1
    <3>2. CASE i \in DOMAIN pendingRequests[d]
               /\ pendingRequests'[d][i] = pendingRequests[d][i]
      BY <1>5, <2>1, <3>2, SendEffect DEF PendingEntries, TypeOK, IsMap
    <3> QED BY <1>5, <3>1, <3>2, SendEffect
  <2>4. InboxEntries'
    <3> SUFFICES ASSUME NEW d \in Conns, NEW r \in inbox'[d]
                 PROVE  /\ phase'[r[2]] = "sent"
                        /\ conn'[r[2]] = d
                        /\ reqId'[r[2]] = r[1]
                        /\ r[1] \in DOMAIN pendingRequests'[d]
                        /\ pendingRequests'[d][r[1]] = r[2]
      BY DEF InboxEntries
    <3>1. CASE d = conn[o] /\ r = <<nextId[d], o>> /\ phase'[o] = "sent"
      BY <1>5, <2>1, <3>1, SendEffect
    <3>2. CASE r \in inbox[d]
      <4>1. r[2] \in Ops \ {o}
        BY <1>5, <3>2, SendEffect DEF InboxEntries, TypeOK
      <4>2. r[1] \in DOMAIN pendingRequests[d]
        BY <3>2 DEF InboxEntries
      <4>3. \A i \in DOMAIN pendingRequests[d] :
              /\ i \in DOMAIN pendingRequests'[d]
              /\ pendingRequests'[d][i] = pendingRequests[d][i]
        <5>1. CASE d = conn[o]
          BY <1>5, <5>1, SendEffect
        <5>2. CASE d # conn[o]
          BY <1>5, <5>2, SendEffect
        <5> QED BY <5>1, <5>2
      <4>4. /\ r[1] \in DOMAIN pendingRequests'[d]
            /\ pendingRequests'[d][r[1]] = pendingRequests[d][r[1]]
        BY <4>2, <4>3
      <4> QED
        BY <1>5, <2>1, <3>2, <4>1, <4>4, SendEffect DEF InboxEntries
    <3> QED BY <1>5, <3>1, <3>2, SendEffect
  <2> QED BY <2>2, <2>3, <2>4
<1>6. ASSUME NEW o \in Ops, ConnectFailed(o) PROVE Goal'
  <2>1. /\ phase[o] = "connecting" /\ phase'[o] = "unavailable"
        /\ \A p \in Ops \ {o} : phase'[p] = phase[p]
        /\ UNCHANGED <<conn, reqId, pendingRequests, inbox, stage, home>>
    BY <1>6 DEF TypeOK, ConnectFailed, mapVars, subVars, serverVars
  <2>2. FramesHaveConn'
    BY <2>1 DEF FramesHaveConn
  <2>3. PendingEntries'
    BY <2>1 DEF PendingEntries, TypeOK, IsMap
  <2>4. InboxEntries'
    BY <2>1 DEF InboxEntries, TypeOK
  <2> QED BY <2>2, <2>3, <2>4
<1>7. ASSUME NEW s \in Subs,
             Reconnect(s) \/ Attach(s) \/ SubscribeFailed(s)
      PROVE  Goal'
  <2>1. UNCHANGED <<phase, conn, reqId, pendingRequests, inbox>>
    BY <1>7 DEF Reconnect, Attach, SubscribeFailed, mapVars, opVars,
                serverVars
  <2>2. FramesHaveConn'
    BY <1>7, <2>1
    DEF FramesHaveConn, TypeOK, Reconnect, Attach, SubscribeFailed
  <2>3. PendingEntries' /\ InboxEntries'
    BY <2>1 DEF PendingEntries, InboxEntries
  <2> QED BY <2>2, <2>3
<1>8. ASSUME NEW c \in Conns, Close(c) PROVE Goal'
  <2>1. UNCHANGED <<conn, reqId, stage, home>>
    BY <1>8, CloseEffect
  <2>2. FramesHaveConn'
    BY <1>8, <2>1, CloseEffect DEF FramesHaveConn
  <2>3. PendingEntries'
    <3> SUFFICES ASSUME NEW d \in Conns \ {c},
                        NEW i \in DOMAIN pendingRequests[d]
                 PROVE  phase'[pendingRequests[d][i]]
                            \notin {"idle", "connecting"}
      BY <1>8, <2>1, CloseEffect DEF PendingEntries
    <3>1. pendingRequests[d][i] \in Ops
      BY DEF TypeOK, IsMap
    <3> QED BY <1>8, <3>1, CloseEffect DEF PendingEntries
  <2>4. InboxEntries'
    <3> SUFFICES ASSUME NEW d \in Conns \ {c}, NEW r \in inbox[d]
                 PROVE  phase'[r[2]] = "sent"
      BY <1>8, <2>1, CloseEffect DEF InboxEntries
    <3>1. r[2] \in Ops /\ phase[r[2]] = "sent" /\ conn[r[2]] = d
      BY DEF InboxEntries, TypeOK
    <3>2. \A o \in MapValues(pendingRequests[c]) : conn[o] = c
      BY DEF PendingEntries, MapValues
    <3> QED BY <1>8, <3>1, <3>2, CloseEffect
  <2> QED BY <2>2, <2>3, <2>4
<1>9. ASSUME NEW o \in Ops, Answer(o) PROVE Goal'
  <2> DEFINE c == conn[o]
             id == reqId[o]
  <2>1. UNCHANGED <<conn, reqId, stage, home>>
    BY <1>9 DEF Answer, subVars
  <2>2. /\ phase[o] = "sent"
        /\ phase'[o] \in {"failed", "resolved"}
        /\ \A p \in Ops \ {o} : phase'[p] = phase[p]
    <3>1. PICK outcome \in {"failed", "resolved"} :
              phase' = [phase EXCEPT ![o] = outcome]
      BY <1>9, AnswerEffect
    <3>2. phase[o] = "sent"
      BY <1>9, AnswerEffect
    <3> QED BY <3>1, <3>2 DEF TypeOK
  <2>3. /\ c \in Conns
        /\ <<id, o>> \in inbox[c]
        /\ inbox'[c] = inbox[c] \ {<<id, o>>}
        /\ \A d \in Conns \ {c} : inbox'[d] = inbox[d]
    BY <1>9, AnswerEffect DEF TypeOK
  <2>4. /\ DOMAIN pendingRequests'[c] = DOMAIN pendingRequests[c] \ {id}
        /\ \A i \in DOMAIN pendingRequests[c] \ {id} :
              pendingRequests'[c][i] = pendingRequests[c][i]
        /\ \A d \in Conns \ {c} : pendingRequests'[d] = pendingRequests[d]
    <3>1. pendingRequests' =
            [pendingRequests EXCEPT ![c] = MapDelete(@, id)]
      BY <1>9, AnswerEffect
    <3> QED BY <2>3, <3>1 DEF TypeOK, MapDelete
  <2>5. FramesHaveConn'
    BY <2>1, <2>2 DEF FramesHaveConn
  <2>6. PendingEntries'
    <3> SUFFICES ASSUME NEW d \in Conns, NEW i \in DOMAIN pendingRequests'[d]
                 PROVE  LET p == pendingRequests'[d][i]
                        IN  /\ phase'[p] \notin {"idle", "connecting"}
                            /\ conn'[p] = d
                            /\ reqId'[p] = i
      BY DEF PendingEntries
    <3>1. /\ i \in DOMAIN pendingRequests[d]
          /\ pendingRequests'[d][i] = pendingRequests[d][i]
      BY <2>3, <2>4
    <3>2. pendingRequests[d][i] \in Ops
      BY <3>1 DEF TypeOK, IsMap
    <3> QED BY <2>1, <2>2, <3>1, <3>2 DEF PendingEntries
  <2>7. InboxEntries'
    <3> SUFFICES ASSUME NEW d \in Conns, NEW r \in inbox'[d]
                 PROVE  /\ phase'[r[2]] = "sent"
                        /\ conn'[r[2]] = d
                        /\ reqId'[r[2]] = r[1]
                        /\ r[1] \in DOMAIN pendingRequests'[d]
                        /\ pendingRequests'[d][r[1]] = r[2]
      BY DEF InboxEntries
    <3>0. r \in inbox[d] /\ inbox[d] \subseteq (1 .. nextId[d] - 1) \X Ops
      BY <2>3 DEF TypeOK
    <3>1. r \in inbox[d] /\ r[2] \in Ops /\ r = <<r[1], r[2]>>
      BY <3>0
    <3>2. r[2] # o
      BY <2>3, <3>1 DEF InboxEntries
    <3>3. d = c => r[1] # id
      BY <2>3, <3>1, <3>2 DEF InboxEntries
    <3> QED
      BY <2>1, <2>2, <2>3, <2>4, <3>1, <3>2, <3>3 DEF InboxEntries
  <2> QED BY <2>5, <2>6, <2>7
<1>10. ASSUME \/ \E c \in Conns : Open(c)
              \/ \E c \in Conns, k \in SubIds : Notify(c, k)
              \/ UNCHANGED vars
       PROVE  Goal'
  <2>1. UNCHANGED <<phase, conn, reqId, pendingRequests, inbox, stage, home>>
    BY <1>10 DEF Open, Notify, vars, mapVars, opVars, subVars, serverVars
  <2> QED
    BY <2>1 DEF FramesHaveConn, PendingEntries, InboxEntries
<1>11. CASE Listener
  <2>1. UNCHANGED <<phase, conn, reqId, pendingRequests, inbox, home>>
    BY <1>11
    DEF Listener, Tell, EndClose, OnErrorThrows, mapVars, opVars, subVars,
        serverVars
  <2>2. \A s \in Subs : \/ stage'[s] = stage[s]
                        \/ stage[s] = "active" /\ stage'[s] = "errored"
    BY <1>11, TellEffect, EndCloseEffect
    DEF Listener, OnErrorThrows, subVars
  <2> QED
    BY <2>1, <2>2 DEF FramesHaveConn, PendingEntries, InboxEntries
<1> QED
  BY <1>2, <1>3, <1>4, <1>5, <1>6, <1>7, <1>8, <1>9, <1>10, <1>11
  DEF Next, User, Job, Event

\* A resolved request stays resolved, with the same answer; an id that was
\* issued stays issued to the same subscription; and only the server's
\* answer resolves a request.
LEMMA Stable ==
    ASSUME IInv, [Next]_vars
    PROVE  /\ \A o \in Ops : phase[o] = "resolved"
                => phase'[o] = "resolved" /\ answer'[o] = answer[o]
           /\ \A k \in SubIds : issued[k] # Undefined => issued'[k] = issued[k]
           /\ \A o \in Ops : phase[o] # "resolved" /\ phase'[o] = "resolved"
                => Answer(o)
<1> USE DEF IInv
<1>1. ASSUME NEW o \in Ops, CallRequest(o)
      PROVE  /\ \A p \in Ops : phase[p] = "resolved" <=> phase'[p] = "resolved"
             /\ answer' = answer
  BY <1>1, CallEffect
<1>2. ASSUME \/ \E r \in Calls : Request(r)
             \/ \E s \in Subs : Subscribe(s) \/ Unsubscribe(s)
      PROVE  /\ \A p \in Ops : phase[p] = "resolved" <=> phase'[p] = "resolved"
             /\ answer' = answer
             /\ issued' = issued
  <2>1. issued' = issued
    BY <1>2 DEF Request, Subscribe, Unsubscribe, serverVars
  <2>2. PICK o \in Ops : CallRequest(o)
    BY <1>2, OpFacts DEF Request, Subscribe, Unsubscribe
  <2> QED BY <1>1, <2>1, <2>2
<1>3. ASSUME NEW o \in Ops, Send(o) \/ ConnectFailed(o)
      PROVE  /\ \A p \in Ops : phase[p] = "resolved" <=> phase'[p] = "resolved"
             /\ answer' = answer
             /\ issued' = issued
  BY <1>3 DEF TypeOK, Send, ConnectFailed, serverVars
<1>4. ASSUME NEW c \in Conns, Close(c)
      PROVE  /\ \A p \in Ops : phase[p] = "resolved" <=> phase'[p] = "resolved"
             /\ answer' = answer
             /\ issued' = issued
  <2>1. UNCHANGED <<answer, issued>>
    BY <1>4 DEF Close
  <2> QED BY <1>4, <2>1, CloseEffect
<1>5. ASSUME NEW o \in Ops, Answer(o)
      PROVE  /\ phase[o] = "sent"
             /\ \A p \in Ops \ {o} : /\ phase'[p] = phase[p]
                                     /\ answer'[p] = answer[p]
             /\ \A k \in SubIds :
                    issued[k] # Undefined => issued'[k] = issued[k]
  <2>1. PICK outcome \in {"failed", "resolved"},
             p \in Ops \X (SubIds \cup {Undefined}) :
               /\ phase' = [phase EXCEPT ![o] = outcome]
               /\ answer' = [answer EXCEPT ![o] = p]
               /\ p[1] = o
               /\ Issues(o, conn[o], outcome, p)
    BY <1>5, AnswerEffect
  <2>2. \A k \in SubIds : issued[k] # Undefined => issued'[k] = issued[k]
    BY <2>1 DEF Issues, TypeOK
  <2>3. phase[o] = "sent"
    BY <1>5, AnswerEffect
  <2> QED BY <2>1, <2>2, <2>3 DEF TypeOK
<1>6. ASSUME \/ \E s \in Subs :
                    Reconnect(s) \/ Attach(s) \/ SubscribeFailed(s)
             \/ \E c \in Conns : Open(c)
             \/ \E c \in Conns, k \in SubIds : Notify(c, k)
             \/ Listener
             \/ UNCHANGED vars
      PROVE  UNCHANGED <<phase, answer, issued>>
  BY <1>6 DEF Reconnect, Attach, SubscribeFailed, Open, Notify, Listener,
              Tell, EndClose, OnErrorThrows, vars, opVars, serverVars
<1> QED
  BY <1>2, <1>3, <1>4, <1>5, <1>6 DEF Next, User, Job, Event

\* Every step keeps answers, and the ids in them, with the op they are for.
LEMMA AnswersStep ==
    ASSUME IInv, [Next]_vars
    PROVE  /\ ResponseMatchesRequest'
           /\ AnswersIssued'
           /\ ResolvedHasTicket'
           /\ OpenedIsResolved'
<1> USE ConstantsAssumption
<1>1. ASSUME NEW o \in Ops, Answer(o)
      PROVE  /\ answer'[o][1] = o
             /\ answer'[o][2] # Undefined => issued'[answer'[o][2]] # Undefined
             /\ \A p \in Ops \ {o} : answer'[p] = answer[p]
             /\ \A s \in Subs : o = SubscribeOp(s) /\ phase'[o] = "resolved"
                    => Ticket(s)'
  <2>1. PICK outcome \in {"failed", "resolved"},
             p \in Ops \X (SubIds \cup {Undefined}) :
               /\ phase' = [phase EXCEPT ![o] = outcome]
               /\ answer' = [answer EXCEPT ![o] = p]
               /\ p[1] = o
               /\ Issues(o, conn[o], outcome, p)
    BY <1>1, AnswerEffect
  <2>2. answer'[o] = p /\ \A q \in Ops \ {o} : answer'[q] = answer[q]
    BY <2>1 DEF IInv, TypeOK
  <2>3. ASSUME NEW s \in Subs, o = SubscribeOp(s), phase'[o] = "resolved"
        PROVE  Ticket(s)'
    <3>1. o[1] = s /\ o[2] = "subscribe" /\ outcome = "resolved"
      BY <2>1, <2>3 DEF SubscribeOp, IInv, TypeOK
    <3>2. PICK k \in SubIds : /\ issued' = [issued EXCEPT ![k] = <<conn[o], s>>]
                              /\ p = <<o, k>>
      BY <2>1, <3>1 DEF Issues
    <3>3. issued'[k] = <<conn[o], s>> /\ issued'[k] # Undefined
      <4>1. conn[o] \in Conns
        BY <1>1, AnswerEffect
      <4>2. issued' \in [SubIds -> (Conns \X Subs) \cup {Undefined}]
        BY <3>2, <4>1 DEF IInv, TypeOK
      <4>3. issued'[k] = <<conn[o], s>>
        BY <3>2 DEF IInv, TypeOK
      <4> QED BY <4>1, <4>3, UndefinedAssumption
    <3>4. p # Undefined
      BY <2>1, UndefinedAssumption
    <3> QED
      BY <2>2, <2>3, <3>2, <3>3, <3>4 DEF Ticket, SubscriptionId
  <2>4. ASSUME p[2] # Undefined PROVE issued'[p[2]] # Undefined
    <3>1. conn[o] \in Conns /\ o[2] = "subscribe" /\ o[1] \in Subs
      <4>1. conn[o] \in Conns
        BY <1>1, AnswerEffect
      <4>2. o[2] = "subscribe"
        BY <2>1, <2>4 DEF Issues
      <4> QED BY <4>1, <4>2, OpFacts
    <3>2. issued'[p[2]] = <<conn[o], o[1]>>
      BY <2>1, <2>4 DEF Issues, IInv, TypeOK
    <3> QED BY <3>1, <3>2, UndefinedAssumption
  <2> QED BY <2>1, <2>2, <2>3, <2>4
<1>2. ResponseMatchesRequest'
  <2>1. CASE \E o \in Ops : Answer(o)
    BY <1>1, <2>1 DEF IInv, ResponseMatchesRequest
  <2>2. CASE answer' = answer
    BY <2>2 DEF IInv, ResponseMatchesRequest
  <2>3. (\E o \in Ops : Answer(o)) \/ answer' = answer
    BY DEF Next, User, Job, Event, Listener, Tell, EndClose, OnErrorThrows,
           vars, Request, Subscribe, Unsubscribe,
           CallRequest, Send, ConnectFailed, Reconnect, Attach,
           SubscribeFailed, Open, Close, Notify, opVars
  <2> QED BY <2>1, <2>2, <2>3
<1>3. ResolvedHasTicket'
  <2> SUFFICES ASSUME NEW s \in Subs, phase'[SubscribeOp(s)] = "resolved"
               PROVE  Ticket(s)'
    BY DEF ResolvedHasTicket
  <2>0. SubscribeOp(s) \in Ops
    BY OpFacts
  <2>1. CASE phase[SubscribeOp(s)] = "resolved"
    BY <2>0, <2>1, Stable DEF IInv, ResolvedHasTicket, Ticket, SubscriptionId
  <2>2. CASE phase[SubscribeOp(s)] # "resolved"
    <3>1. Answer(SubscribeOp(s))
      BY <2>0, <2>2, Stable
    <3> QED BY <1>1, <2>0, <3>1
  <2> QED BY <2>1, <2>2
<1>4. OpenedIsResolved'
  <2> DEFINE Opened(st) ==
               st \in {"attaching", "active", "errored", "unsubscribed"}
  <2> SUFFICES ASSUME NEW s \in Subs, Opened(stage'[s])
               PROVE  phase[SubscribeOp(s)] = "resolved"
    BY Stable, OpFacts DEF OpenedIsResolved
  <2>1. CASE stage'[s] = stage[s]
    BY <2>1 DEF IInv, OpenedIsResolved
  <2>2. CASE \E t \in Subs : Tell(t)
    BY <2>2, TellEffect DEF IInv, OpenedIsResolved
  <2>3. CASE \E t \in Subs : \/ Subscribe(t) \/ Unsubscribe(t)
                             \/ Reconnect(t) \/ Attach(t) \/ SubscribeFailed(t)
    BY <2>3 DEF IInv, OpenedIsResolved, TypeOK, Subscribe, Unsubscribe,
                Reconnect, Attach, SubscribeFailed
  <2>4. \/ \E t \in Subs : Tell(t)
        \/ \E t \in Subs : \/ Subscribe(t) \/ Unsubscribe(t)
                           \/ Reconnect(t) \/ Attach(t) \/ SubscribeFailed(t)
        \/ stage'[s] = stage[s]
    BY DEF Next, User, Job, Event, Listener, vars, Request, Send,
           ConnectFailed, Open, Close, EndClose, OnErrorThrows, Answer,
           Notify, subVars
  <2> QED BY <2>1, <2>2, <2>3, <2>4
<1>5. AnswersIssued'
  <2> SUFFICES ASSUME NEW o \in Ops,
                      answer'[o] # Undefined, answer'[o][2] # Undefined
               PROVE  issued'[answer'[o][2]] # Undefined
    BY DEF AnswersIssued
  <2>1. CASE Answer(o)
    BY <1>1, <2>1
  <2>2. CASE answer'[o] = answer[o]
    <3>1. answer[o][2] \in SubIds
      BY <2>2 DEF IInv, TypeOK
    <3> QED BY <2>2, <3>1, Stable DEF IInv, AnswersIssued
  <2>3. (\E p \in Ops : Answer(p)) \/ answer' = answer
    BY DEF Next, User, Job, Event, Listener, Tell, EndClose, OnErrorThrows,
           vars, Request, Subscribe, Unsubscribe,
           CallRequest, Send, ConnectFailed, Reconnect, Attach,
           SubscribeFailed, Open, Close, Notify, opVars
  <2> QED BY <1>1, <2>1, <2>2, <2>3
<1> QED BY <1>2, <1>3, <1>4, <1>5

\* Every event onData got had been issued to that subscription.
LEMMA ReceivedStep == ASSUME IInv, [Next]_vars PROVE ReceivedIssued'
<1> USE DEF IInv
<1>1. CASE received' = received
  <2> SUFFICES ASSUME NEW s \in Subs, NEW i \in 1 .. Len(received[s])
               PROVE  /\ issued'[received[s][i]] # Undefined
                      /\ issued'[received[s][i]][2] = s
    BY <1>1 DEF ReceivedIssued
  <2>1. received[s][i] \in SubIds
    BY DEF TypeOK
  <2> QED BY <2>1, Stable DEF ReceivedIssued
<1>2. CASE \E c \in Conns, k \in SubIds : Notify(c, k)
  <2>1. PICK c \in Conns, k \in SubIds : Notify(c, k)
    BY <1>2
  <2> DEFINE t == subscriptions[c][k]
  <2>2. CASE /\ k \in DOMAIN subscriptions[c]
             /\ t \in Subs
             /\ received' = [received EXCEPT ![t] = Append(@, k)]
    <3>1. issued' = issued
      BY <2>1 DEF Notify
    <3>2. issued[k] # Undefined /\ issued[k][2] = t
      BY <2>2
      DEF Handlers, OpenedIsResolved, ResolvedHasTicket, Ticket
    <3>3. /\ received'[t] = Append(received[t], k)
          /\ \A s \in Subs \ {t} : received'[s] = received[s]
          /\ received[t] \in Seq(SubIds)
      BY <2>2 DEF TypeOK
    <3> HIDE DEF t
    <3>4. ASSUME NEW i \in 1 .. Len(received'[t])
          PROVE  /\ issued'[received'[t][i]] # Undefined
                 /\ issued'[received'[t][i]][2] = t
      <4>1. \/ i = Len(received[t]) + 1 /\ received'[t][i] = k
            \/ i \in 1 .. Len(received[t]) /\ received'[t][i] = received[t][i]
        BY <3>3
      <4> QED BY <2>2, <3>1, <3>2, <4>1 DEF ReceivedIssued
    <3> SUFFICES ASSUME NEW s \in Subs, NEW i \in 1 .. Len(received'[s])
                 PROVE  /\ issued'[received'[s][i]] # Undefined
                        /\ issued'[received'[s][i]][2] = s
      BY DEF ReceivedIssued
    <3>5. CASE s = t
      BY <3>4, <3>5
    <3>6. CASE s # t
      <4>1. i \in 1 .. Len(received[s]) /\ received'[s][i] = received[s][i]
        BY <3>3, <3>6
      <4> QED BY <3>1, <4>1 DEF ReceivedIssued
    <3> QED BY <3>5, <3>6
  <2> QED BY <1>1, <2>1, <2>2, NotifyEffect
<1>3. received' = received \/ \E c \in Conns, k \in SubIds : Notify(c, k)
  BY DEF Next, User, Job, Event, Listener, vars, Request, Subscribe,
         Unsubscribe, Send, ConnectFailed, Reconnect, Attach,
         SubscribeFailed, Open, Close, Tell, EndClose, OnErrorThrows, Answer,
         subVars
<1> QED BY <1>1, <1>2, <1>3

\* Handlers, for one registered handler s under k on connection c.
HandlerOK(c, k, s) ==
    /\ c = home[s]
    /\ k = SubscriptionId(s)
    /\ stage[s] \in {"active", "errored"}
    /\ stage[s] = "errored" => socket[c] = "closed"

\* Every step keeps each handler where its subscription looks for it.
LEMMA HandlersStep == ASSUME IInv, [Next]_vars PROVE Handlers'
<1> USE DEF IInv
<1>0. ASSUME NEW c \in Conns, NEW k \in DOMAIN subscriptions[c],
             NEW s, s = subscriptions[c][k]
      PROVE  /\ s \in Subs
             /\ HandlerOK(c, k, s)
             /\ SubscriptionId(s)' = k
  <2>1. s \in Subs
    BY <1>0 DEF TypeOK, IsMap
  <2>2. HandlerOK(c, k, s)
    BY <1>0 DEF Handlers, HandlerOK
  <2>3. phase[SubscribeOp(s)] = "resolved"
    BY <2>1, <2>2 DEF HandlerOK, OpenedIsResolved
  <2>4. answer'[SubscribeOp(s)] = answer[SubscribeOp(s)]
    BY <2>1, <2>3, Stable, OpFacts
  <2> QED BY <2>1, <2>2, <2>4 DEF SubscriptionId, HandlerOK
\* A handler that stays registered, when its own frame does not change and
\* its connection does not reopen.
<1>1. ASSUME NEW c \in Conns, NEW k \in DOMAIN subscriptions[c],
             NEW s, s = subscriptions[c][k],
             home'[s] = home[s],
             \/ stage'[s] = stage[s]
             \/ stage'[s] = "errored" /\ socket'[c] = "closed",
             socket[c] = "closed" => socket'[c] = "closed"
      PROVE  HandlerOK(c, k, s)'
  BY <1>0, <1>1 DEF HandlerOK
<1>2. ASSUME NEW c \in Conns, Connect(c)
      PROVE  \A d \in Conns : socket[d] = "closed" => socket'[d] = "closed"
  BY <1>2, ConnectEffect DEF UnbornUntouched, connVars
<1> SUFFICES ASSUME NEW c \in Conns, NEW k \in DOMAIN subscriptions'[c],
                    NEW s, s = subscriptions'[c][k]
             PROVE  HandlerOK(c, k, s)'
  BY DEF Handlers, HandlerOK
<1>3. CASE (\E r \in Calls : Request(r)) \/ (\E t \in Subs : Subscribe(t))
  <2>1. UNCHANGED <<subscriptions, home>>
    BY <1>3 DEF Request, Subscribe, mapVars, subVars
  <2>2. PICK d \in Conns : Connect(d)
    BY <1>3 DEF Request, Subscribe, CallRequest
  <2>3. \A t \in Subs : stage'[t] = stage[t] \/ stage[t] = "idle"
    BY <1>3 DEF TypeOK, Request, Subscribe, subVars
  <2>4. s \in Subs /\ HandlerOK(c, k, s)
    BY <1>0, <2>1
  <2>5. stage'[s] = stage[s]
    BY <2>3, <2>4 DEF HandlerOK
  <2> QED BY <1>1, <1>2, <2>1, <2>2, <2>5
<1>4. ASSUME NEW t \in Subs, Unsubscribe(t) PROVE HandlerOK(c, k, s)'
  <2>1. PICK d \in Conns : Connect(d)
    BY <1>4 DEF Unsubscribe, CallRequest
  <2>2. home[t] \in Conns
    BY <1>4 DEF Unsubscribe, FramesHaveConn
  <2>3. /\ home' = home
        /\ subscriptions' = [subscriptions EXCEPT
              ![home[t]] = MapDelete(@, SubscriptionId(t))]
        /\ \A u \in Subs \ {t} : stage'[u] = stage[u]
    BY <1>4 DEF Unsubscribe, RemoveHandler, TypeOK
  <2>4. /\ k \in DOMAIN subscriptions[c]
        /\ s = subscriptions[c][k]
        /\ c = home[t] => k # SubscriptionId(t)
    BY <2>2, <2>3 DEF TypeOK, MapDelete
  <2>5. s \in Subs \ {t}
    BY <1>0, <2>4 DEF HandlerOK
  <2> QED BY <1>1, <1>2, <2>1, <2>3, <2>4, <2>5
<1>5. ASSUME NEW t \in Subs, Reconnect(t) PROVE HandlerOK(c, k, s)'
  <2>1. PICK d \in Conns : Connect(d)
    BY <1>5 DEF Reconnect
  <2>2. /\ subscriptions' = subscriptions
        /\ stage[t] = "requesting"
        /\ \A u \in Subs \ {t} : stage'[u] = stage[u] /\ home'[u] = home[u]
    BY <1>5 DEF Reconnect, TypeOK, mapVars
  <2>3. s \in Subs \ {t}
    BY <1>0, <2>2 DEF HandlerOK
  <2> QED BY <1>1, <1>2, <2>1, <2>2, <2>3
<1>6. ASSUME NEW t \in Subs, Attach(t) PROVE HandlerOK(c, k, s)'
  <2>1. home[t] \in Conns
    BY <1>6 DEF Attach, FramesHaveConn
  <2>2. /\ UNCHANGED <<home, socket, answer>>
        /\ stage[t] = "attaching"
        /\ stage'[t] = "active"
        /\ \A u \in Subs \ {t} : stage'[u] = stage[u]
        /\ subscriptions' = [subscriptions EXCEPT
              ![home[t]] = MapSet(@, SubscriptionId(t), t)]
    BY <1>6 DEF Attach, TypeOK, connVars, opVars
  <2>3. CASE c = home[t] /\ k = SubscriptionId(t) /\ s = t
    BY <2>2, <2>3 DEF HandlerOK, SubscriptionId
  <2>4. CASE k \in DOMAIN subscriptions[c] /\ s = subscriptions[c][k]
    <3>1. s \in Subs \ {t}
      BY <1>0, <2>2, <2>4 DEF HandlerOK
    <3> QED BY <1>1, <2>2, <2>4, <3>1
  <2> QED BY <2>1, <2>2, <2>3, <2>4 DEF TypeOK, MapSet
<1>7. ASSUME NEW d \in Conns, Close(d) PROVE HandlerOK(c, k, s)'
  <2>1. UNCHANGED <<home, stage, subscriptions>>
    BY <1>7, CloseEffect
  <2>2. socket[c] = "closed" => socket'[c] = "closed"
    BY <1>7, CloseEffect
  <2> QED BY <1>1, <2>1, <2>2
<1>12. ASSUME NEW t \in Subs, Tell(t) PROVE HandlerOK(c, k, s)'
  <2>1. /\ UNCHANGED <<home, socket, subscriptions>>
        /\ closing \in Conns /\ t \in MapValues(subscriptions[closing])
        /\ stage'[t] = "errored"
        /\ \A u \in Subs \ {t} : stage'[u] = stage[u]
    BY <1>12, TellEffect DEF connVars, mapVars
  <2>2. s \in Subs /\ HandlerOK(c, k, s)
    BY <1>0, <2>1
  <2>3. CASE s = t
    <3>1. home[t] = closing
      BY <1>0, <2>1 DEF HandlerOK, MapValues
    <3>2. socket[c] = "closed"
      BY <2>1, <2>2, <2>3, <3>1, ConstantsAssumption
      DEF HandlerOK, ClosingIsShut
    <3> QED BY <1>1, <2>1, <2>3, <3>2
  <2>4. CASE s # t
    BY <1>1, <2>1, <2>2, <2>4
  <2> QED BY <2>3, <2>4
<1>13. CASE EndClose
  <2>1. /\ UNCHANGED <<home, stage, socket>>
        /\ k \in DOMAIN subscriptions[c] /\ s = subscriptions[c][k]
    BY <1>13, EndCloseEffect DEF subVars
  <2> QED BY <1>1, <2>1
<1>8. CASE \E d \in Conns : Open(d)
  <2>1. PICK d \in Conns : Open(d)
    BY <1>8
  <2>2. /\ UNCHANGED <<subscriptions, stage, home>>
        /\ socket[c] = "closed" => socket'[c] = "closed"
    BY <2>1 DEF Open, mapVars, subVars, TypeOK
  <2> QED BY <1>1, <2>2
<1>9. CASE \E t \in Subs : SubscribeFailed(t)
  <2>1. PICK t \in Subs : SubscribeFailed(t)
    BY <1>9
  <2>2. /\ UNCHANGED <<subscriptions, home, socket>>
        /\ stage[t] \in {"requesting", "attaching"}
        /\ \A u \in Subs \ {t} : stage'[u] = stage[u]
    BY <2>1 DEF SubscribeFailed, TypeOK, connVars, mapVars
  <2>3. s \in Subs \ {t}
    BY <1>0, <2>2 DEF HandlerOK
  <2> QED BY <1>1, <2>2, <2>3
<1>10. CASE UNCHANGED <<subscriptions, stage, home, socket>>
  BY <1>1, <1>10
<1>11. \/ \E r \in Calls : Request(r)
       \/ \E t \in Subs : \/ Subscribe(t) \/ Unsubscribe(t) \/ Reconnect(t)
                          \/ Attach(t) \/ SubscribeFailed(t) \/ Tell(t)
       \/ \E d \in Conns : Open(d) \/ Close(d)
       \/ EndClose
       \/ UNCHANGED <<subscriptions, stage, home, socket>>
  BY DEF Next, User, Job, Event, Listener, vars, Send, ConnectFailed, Answer,
         Notify, OnErrorThrows, connVars, mapVars, subVars
<1> QED
  BY <1>3, <1>4, <1>5, <1>6, <1>7, <1>8, <1>9, <1>10, <1>11, <1>12, <1>13

-----------------------------------------------------------------------------
(***************************************************************************)
(* The theorems.                                                           *)
(***************************************************************************)

\* The parts of the invariant together are inductive.
LEMMA Inductive == ASSUME IInv, [Next]_vars PROVE IInv'
BY TypeStep, SocketsStep, TellingStep, WiresStep, RequestsStep, AnswersStep,
   HandlersStep, ReceivedStep
DEF IInv

(***************************************************************************)
(* The inductive invariant holds in every reachable state: the request     *)
(* maps, the wires, the subscription ids and the handlers of webSocket.ts  *)
(* fit together, whatever the calls, closes and faults.                    *)
(***************************************************************************)
THEOREM Invariance == Spec => []IInv
<1>1. Init => IInv
  BY InitInv
<1>2. IInv /\ [Next]_vars => IInv'
  BY Inductive
<1> QED BY <1>1, <1>2, PTL DEF Spec

(***************************************************************************)
(* The transport's variables keep their types, whatever the interleaving.  *)
(***************************************************************************)
THEOREM TypeCorrectness == Spec => []TypeOK
<1>1. IInv => TypeOK
  BY DEF IInv
<1> QED BY <1>1, Invariance, PTL

(***************************************************************************)
(* A transport never holds two live sockets, however its calls interleave  *)
(* with sockets that open, close and fail (connect, handleClose).          *)
(***************************************************************************)
THEOREM AtMostOneLiveSocket == Spec => []OneLiveSocket
<1>1. IInv => OneLiveSocket
  BY DEF IInv
<1> QED BY <1>1, Invariance, PTL

(***************************************************************************)
(* A request is settled by the server's answer to that very request, even  *)
(* though each connection numbers its requests from 1 (handleMessage).     *)
(***************************************************************************)
THEOREM NoCrossedResponses == Spec => []ResponseMatchesRequest
<1>1. IInv => ResponseMatchesRequest
  BY DEF IInv
<1> QED BY <1>1, Invariance, PTL

(***************************************************************************)
(* onData gets the events of its own subscription only (handleMessage).    *)
(***************************************************************************)
THEOREM NoCrossedNotifications == Spec => []NotificationsReachOwner
<1>1. IInv => NotificationsReachOwner
  BY DEF IInv, ReceivedIssued, NotificationsReachOwner
<1> QED BY <1>1, Invariance, PTL

(***************************************************************************)
(* After unsubscribe(), onError or a rejected subscribe(), onData is not   *)
(* called any more.                                                        *)
(***************************************************************************)
THEOREM NoEventAfterEnd == Spec => SilentAfterEnd
<1>1. ASSUME IInv, [Next]_vars
      PROVE  \A s \in Subs :
                stage[s] \in {"unsubscribed", "errored", "failed"}
                    => received'[s] = received[s]
  <2>1. CASE received' = received
    BY <2>1
  <2>2. CASE \E c \in Conns, k \in SubIds : Notify(c, k)
    <3>1. PICK c \in Conns, k \in SubIds : Notify(c, k)
      BY <2>2
    <3>2. CASE /\ k \in DOMAIN subscriptions[c]
               /\ subscriptions[c][k] \in Subs
               /\ socket[c] = "open"
               /\ received' = [received EXCEPT
                      ![subscriptions[c][k]] = Append(@, k)]
      <4>1. stage[subscriptions[c][k]] = "active"
        BY <1>1, <3>2 DEF IInv, Handlers
      <4> QED BY <1>1, <3>2, <4>1 DEF IInv, TypeOK
    <3> QED BY <1>1, <2>1, <3>1, <3>2, NotifyEffect DEF IInv
  <2>3. received' = received \/ \E c \in Conns, k \in SubIds : Notify(c, k)
    BY <1>1
    DEF Next, User, Job, Event, Listener, vars, Request, Subscribe,
        Unsubscribe, Send, ConnectFailed, Reconnect, Attach, SubscribeFailed,
        Open, Close, Tell, EndClose, OnErrorThrows, Answer, subVars
  <2> QED BY <2>1, <2>2, <2>3
<1>2. IInv /\ [Next]_vars =>
        [\A s \in Subs :
            stage[s] \in {"unsubscribed", "errored", "failed"}
                => received'[s] = received[s]]_vars
  BY <1>1
<1> QED BY <1>2, Invariance, PTL DEF Spec, SilentAfterEnd
-----------------------------------------------------------------------------
(***************************************************************************)
(* The transport implements RpcSession: every step is, through CallOf and  *)
(* WatchOf, a step of the session or none at all.                          *)
(***************************************************************************)

\* Both modules speak of the same requests.
LEMMA SessionOps == Session!Ops = Ops
BY DEF Session!Ops, Ops

\* The session's view of a step that moves the frame of one request.
LEMMA MappedCalls ==
    ASSUME NEW o \in Ops, \A p \in Ops \ {o} : phase'[p] = phase[p]
    PROVE  [p \in Ops |-> CallOf(p)]'
            = [[p \in Ops |-> CallOf(p)] EXCEPT ![o] = CallOf(o)']
<1>1. \A p \in Ops \ {o} : CallOf(p)' = CallOf(p)
  BY DEF CallOf
<1> QED BY <1>1

\* The session's view of a step that moves the frame of one subscription.
LEMMA MappedWatches ==
    ASSUME NEW s \in Subs, \A t \in Subs \ {s} : stage'[t] = stage[t]
    PROVE  [t \in Subs |-> WatchOf(t)]'
            = [[t \in Subs |-> WatchOf(t)] EXCEPT ![s] = WatchOf(s)']
<1>1. \A t \in Subs \ {s} : WatchOf(t)' = WatchOf(t)
  BY DEF WatchOf
<1> QED BY <1>1

\* Frames that do not move look the same to the session.
LEMMA MappedSame ==
    /\ phase' = phase => [o \in Ops |-> CallOf(o)]' = [o \in Ops |-> CallOf(o)]
    /\ stage' = stage
        => [s \in Subs |-> WatchOf(s)]' = [s \in Subs |-> WatchOf(s)]
BY DEF CallOf, WatchOf

\* A call of request is an Invoke of the session.
LEMMA CallMaps ==
    ASSUME TypeOK, NEW o \in Ops, CallRequest(o), received' = received
    PROVE  Session!Invoke(o)
<1> DEFINE calls == [p \in Ops |-> CallOf(p)]
<1>1. calls[o] = "idle" /\ CallOf(o)' = "pending"
  BY CallEffect DEF CallOf
<1>2. calls' = [calls EXCEPT ![o] = CallOf(o)']
  BY CallEffect, MappedCalls
<1>3. answer' = answer
  BY CallEffect
<1> QED BY <1>1, <1>2, <1>3 DEF Session!Invoke

\* What user code does, the session's user does.
LEMMA UserMaps ==
    ASSUME TypeOK, User
    PROVE  \/ \E r \in Calls : Session!Request(r)
           \/ \E s \in Subs : Session!Subscribe(s) \/ Session!Unsubscribe(s)
<1> DEFINE watches == [t \in Subs |-> WatchOf(t)]
<1>1. ASSUME NEW r \in Calls, Request(r) PROVE Session!Request(r)
  <2>1. <<r, "request">> \in Ops
    BY OpFacts
  <2>2. Session!Invoke(<<r, "request">>)
    BY <1>1, <2>1, CallMaps DEF Request, subVars
  <2>3. watches' = watches
    BY <1>1, MappedSame DEF Request, subVars
  <2> QED BY <2>2, <2>3 DEF Session!Request
<1>2. ASSUME NEW s \in Subs, Subscribe(s) PROVE Session!Subscribe(s)
  <2>1. Session!Invoke(<<s, "subscribe">>)
    BY <1>2, CallMaps, OpFacts DEF Subscribe, SubscribeOp
  <2>2. /\ stage[s] = "idle" /\ stage'[s] = "requesting"
        /\ \A t \in Subs \ {s} : stage'[t] = stage[t]
    BY <1>2 DEF Subscribe, TypeOK
  <2>3. watches[s] = "idle" /\ WatchOf(s)' = "opening"
    BY <2>2 DEF WatchOf
  <2>4. watches' = [watches EXCEPT ![s] = WatchOf(s)']
    BY <2>2, MappedWatches
  <2> QED BY <2>1, <2>3, <2>4 DEF Session!Subscribe
<1>3. ASSUME NEW s \in Subs, Unsubscribe(s) PROVE Session!Unsubscribe(s)
  <2>1. Session!Invoke(<<s, "unsubscribe">>)
    BY <1>3, CallMaps, OpFacts DEF Unsubscribe, UnsubscribeOp
  <2>2. /\ stage[s] \in {"active", "errored"} /\ stage'[s] = "unsubscribed"
        /\ \A t \in Subs \ {s} : stage'[t] = stage[t]
    BY <1>3 DEF Unsubscribe, TypeOK
  <2>3. watches[s] \in {"watching", "lost"} /\ WatchOf(s)' = "stopped"
    BY <2>2 DEF WatchOf
  <2>4. watches' = [watches EXCEPT ![s] = WatchOf(s)']
    BY <2>2, MappedWatches
  <2> QED BY <2>1, <2>3, <2>4 DEF Session!Unsubscribe
<1> QED BY <1>1, <1>2, <1>3 DEF User

\* A request that fails before it leaves is rejected; one that leaves goes
\* unnoticed; a subscription is opened, or its opening fails.
LEMMA JobMaps ==
    ASSUME IInv, Job
    PROVE  \/ \E o \in Ops : Session!Reject(o)
           \/ \E s \in Subs : Session!Opened(s) \/ Session!OpenFailed(s)
           \/ UNCHANGED Session!vars
<1> DEFINE calls == [p \in Ops |-> CallOf(p)]
           watches == [t \in Subs |-> WatchOf(t)]
<1>1. ASSUME NEW o \in Ops, Send(o) \/ ConnectFailed(o)
      PROVE  Session!Reject(o) \/ UNCHANGED Session!vars
  <2>1. /\ phase[o] = "connecting"
        /\ phase'[o] \in {"sent", "unsent", "unavailable"}
        /\ \A p \in Ops \ {o} : phase'[p] = phase[p]
        /\ UNCHANGED <<answer, stage, received>>
    BY <1>1 DEF IInv, TypeOK, Send, ConnectFailed, subVars
  <2>2. calls' = [calls EXCEPT ![o] = CallOf(o)'] /\ calls[o] = "pending"
    BY <2>1, MappedCalls DEF CallOf
  <2>3. watches' = watches
    BY <2>1, MappedSame
  <2>4. CASE phase'[o] = "sent"
    <3>1. CallOf(o)' = "pending"
      BY <2>4 DEF CallOf
    <3>2. calls' = calls
      BY <2>2, <3>1
    <3> QED BY <2>1, <2>3, <3>2 DEF Session!vars
  <2>5. CASE phase'[o] # "sent"
    <3>1. CallOf(o)' = "rejected"
      BY <2>1, <2>5 DEF CallOf
    <3> QED BY <2>1, <2>2, <2>3, <3>1 DEF Session!Reject
  <2> QED BY <2>4, <2>5
<1>2. ASSUME NEW s \in Subs, Reconnect(s) PROVE UNCHANGED Session!vars
  <2>1. /\ stage[s] = "requesting" /\ stage'[s] = "attaching"
        /\ \A t \in Subs \ {s} : stage'[t] = stage[t]
        /\ UNCHANGED <<phase, answer, received>>
    BY <1>2 DEF IInv, TypeOK, Reconnect, opVars
  <2>2. watches' = watches
    BY <2>1 DEF WatchOf
  <2>3. calls' = calls
    BY <2>1, MappedSame
  <2> QED BY <2>1, <2>2, <2>3 DEF Session!vars
<1>3. ASSUME NEW s \in Subs, Attach(s) PROVE Session!Opened(s)
  <2>1. /\ stage[s] = "attaching" /\ stage'[s] = "active"
        /\ \A t \in Subs \ {s} : stage'[t] = stage[t]
        /\ UNCHANGED <<phase, answer, received>>
    BY <1>3 DEF IInv, TypeOK, Attach, opVars
  <2>2. watches[s] = "opening" /\ WatchOf(s)' = "watching"
    BY <2>1 DEF WatchOf
  <2>3. watches' = [watches EXCEPT ![s] = WatchOf(s)'] /\ calls' = calls
    BY <2>1, MappedWatches, MappedSame
  <2>4. calls[<<s, "subscribe">>] = "resolved"
    BY <2>1, OpFacts DEF IInv, OpenedIsResolved, SubscribeOp, CallOf
  <2> QED BY <2>1, <2>2, <2>3, <2>4 DEF Session!Opened
<1>4. ASSUME NEW s \in Subs, SubscribeFailed(s) PROVE Session!OpenFailed(s)
  <2>1. /\ stage[s] \in {"requesting", "attaching"} /\ stage'[s] = "failed"
        /\ \A t \in Subs \ {s} : stage'[t] = stage[t]
        /\ UNCHANGED <<phase, answer, received>>
    BY <1>4 DEF IInv, TypeOK, SubscribeFailed, opVars
  <2>2. watches[s] = "opening" /\ WatchOf(s)' = "failed"
    BY <2>1 DEF WatchOf
  <2>3. watches' = [watches EXCEPT ![s] = WatchOf(s)'] /\ calls' = calls
    BY <2>1, MappedWatches, MappedSame
  <2>4. phase[SubscribeOp(s)] \in
            {"failed", "closed", "unsent", "unavailable", "resolved"}
    BY <1>4 DEF IInv, OpenedIsResolved, SubscribeFailed
  <2>5. calls[<<s, "subscribe">>] \in {"resolved", "rejected"}
    BY <2>4, OpFacts DEF SubscribeOp, CallOf
  <2> QED BY <2>1, <2>2, <2>3, <2>5 DEF Session!OpenFailed
<1> QED BY <1>1, <1>2, <1>3, <1>4 DEF Job

\* A close loses the connection to the requests it had taken; then one
\* subscription after the other loses it.
LEMMA CloseMaps ==
    ASSUME IInv, NEW c \in Conns, Close(c)
    PROVE  Session!ConnectionLost
<1> DEFINE calls == [p \in Ops |-> CallOf(p)]
           watches == [t \in Subs |-> WatchOf(t)]
           O == {o \in Ops : phase'[o] # phase[o]}
<1>1. \A o \in Ops : o \in O => phase[o] = "sent" /\ phase'[o] = "closed"
  BY CloseEffect DEF IInv
<1>2. O \in SUBSET {o \in Ops : calls[o] = "pending"}
  BY <1>1 DEF CallOf
<1>3. calls' = [o \in Ops |-> IF o \in O THEN "rejected" ELSE calls[o]]
  BY <1>1 DEF CallOf
<1>4. UNCHANGED <<answer, stage, received>>
  BY CloseEffect DEF IInv
<1>5. watches' = watches
  BY <1>4, MappedSame
<1>6. watches' = [s \in Subs |-> IF s \in {} THEN "lost" ELSE watches[s]]
  BY <1>5
<1> HIDE DEF O
<1>7. /\ {o \in Session!Ops : calls[o] = "pending"}
            = {o \in Ops : calls[o] = "pending"}
      /\ [o \in Session!Ops |-> IF o \in O THEN "rejected" ELSE calls[o]]
            = [o \in Ops |-> IF o \in O THEN "rejected" ELSE calls[o]]
  BY SessionOps
<1> HIDE DEF calls, watches
<1>8. \E Lost \in SUBSET {o \in Session!Ops : calls[o] = "pending"} :
         calls' = [o \in Session!Ops |->
                    IF o \in Lost THEN "rejected" ELSE calls[o]]
  BY <1>2, <1>3, <1>7
<1>9. \E Lost \in SUBSET {s \in Subs : watches[s] = "watching"} :
         watches' = [s \in Subs |-> IF s \in Lost THEN "lost" ELSE watches[s]]
  <2>1. {} \in SUBSET {s \in Subs : watches[s] = "watching"}
    OBVIOUS
  <2> WITNESS {} \in SUBSET {s \in Subs : watches[s] = "watching"}
  <2> QED BY <1>6
<1> QED BY <1>4, <1>8, <1>9 DEF Session!ConnectionLost, calls, watches

\* onError tells one watching subscription that the connection is lost.
LEMMA TellMaps ==
    ASSUME IInv, NEW s \in Subs, Tell(s)
    PROVE  Session!ConnectionLost
<1> DEFINE calls == [p \in Ops |-> CallOf(p)]
           watches == [t \in Subs |-> WatchOf(t)]
<1>1. /\ stage[s] = "active" /\ stage'[s] = "errored"
      /\ \A u \in Subs \ {s} : stage'[u] = stage[u]
      /\ UNCHANGED <<phase, answer, received>>
  BY TellEffect DEF IInv, opVars
<1>2. watches[s] = "watching" /\ WatchOf(s)' = "lost"
  BY <1>1 DEF WatchOf
<1>3. watches' = [watches EXCEPT ![s] = WatchOf(s)']
  BY <1>1, MappedWatches
<1>4. watches' = [t \in Subs |-> IF t \in {s} THEN "lost" ELSE watches[t]]
  BY <1>2, <1>3
<1>5. calls' = calls
  BY <1>1, MappedSame
<1>6. calls' = [o \in Session!Ops |-> IF o \in {} THEN "rejected" ELSE calls[o]]
  BY <1>5, SessionOps
<1>7. {s} \in SUBSET {t \in Subs : watches[t] = "watching"}
  BY <1>2
<1> HIDE DEF calls, watches
<1>8. \E Lost \in SUBSET {o \in Session!Ops : calls[o] = "pending"} :
         calls' = [o \in Session!Ops |->
                    IF o \in Lost THEN "rejected" ELSE calls[o]]
  <2>1. {} \in SUBSET {o \in Session!Ops : calls[o] = "pending"}
    OBVIOUS
  <2> WITNESS {} \in SUBSET {o \in Session!Ops : calls[o] = "pending"}
  <2> QED BY <1>6
<1>9. \E Lost \in SUBSET {t \in Subs : watches[t] = "watching"} :
         watches' = [t \in Subs |-> IF t \in Lost THEN "lost" ELSE watches[t]]
  BY <1>4, <1>7
<1> QED BY <1>1, <1>8, <1>9 DEF Session!ConnectionLost, calls, watches

\* The end of handleClose, orderly or not, goes unnoticed.
LEMMA EndMaps ==
    ASSUME IInv, EndClose \/ OnErrorThrows
    PROVE  UNCHANGED Session!vars
<1>1. UNCHANGED <<phase, stage, answer, received>>
  BY DEF EndClose, OnErrorThrows, opVars, subVars
<1> QED BY <1>1, MappedSame DEF Session!vars

\* An answer resolves or rejects the request it is for; an id it brings is
\* in no other answer.
LEMMA AnswerMaps ==
    ASSUME IInv, NEW o \in Ops, Answer(o)
    PROVE  Session!Resolve(o) \/ Session!Reject(o)
<1> DEFINE calls == [p \in Ops |-> CallOf(p)]
           watches == [t \in Subs |-> WatchOf(t)]
<1>1. PICK outcome \in {"failed", "resolved"},
           p \in Ops \X (SubIds \cup {Undefined}) :
             /\ phase' = [phase EXCEPT ![o] = outcome]
             /\ answer' = [answer EXCEPT ![o] = p]
             /\ p[1] = o
             /\ Issues(o, conn[o], outcome, p)
  BY AnswerEffect
<1>2. phase[o] = "sent"
  BY AnswerEffect
<1>3. received' = received /\ stage' = stage
  BY DEF Answer, subVars
<1>4. watches' = watches
  BY <1>3, MappedSame
<1>5. phase'[o] = outcome /\ \A q \in Ops \ {o} : phase'[q] = phase[q]
  BY <1>1 DEF IInv, TypeOK
<1>6. calls[o] = "pending" /\ calls' = [calls EXCEPT ![o] = CallOf(o)']
  BY <1>2, <1>5, MappedCalls DEF CallOf
<1>7. CASE outcome = "failed"
  <2>1. CallOf(o)' = "rejected"
    BY <1>5, <1>7 DEF CallOf
  <2>2. p = <<o, Undefined>>
    BY <1>1, <1>7 DEF Issues
  <2> QED BY <1>1, <1>3, <1>4, <1>6, <2>1, <2>2 DEF Session!Reject
<1>8. CASE outcome = "resolved"
  <2>1. CallOf(o)' = "resolved"
    BY <1>5, <1>8 DEF CallOf
  <2>2. \E result \in SubIds \cup {Undefined} :
           /\ o[2] = "subscribe" <=> result # Undefined
           /\ result # Undefined => \A q \in Ops :
                answer[q] # Undefined => answer[q][2] # result
           /\ p = <<o, result>>
    <3>1. CASE p = <<o, Undefined>> /\ o[2] # "subscribe"
      BY <3>1
    <3>2. CASE \E k \in SubIds :
                  o[2] = "subscribe" /\ issued[k] = Undefined /\ p = <<o, k>>
      <4>1. PICK k \in SubIds :
                  o[2] = "subscribe" /\ issued[k] = Undefined /\ p = <<o, k>>
        BY <3>2
      <4>2. k # Undefined
        BY ConstantsAssumption
      <4>3. \A q \in Ops : answer[q] # Undefined => answer[q][2] # k
        BY <4>1, <4>2 DEF IInv, AnswersIssued
      <4> QED BY <4>1, <4>2, <4>3
    <3> QED BY <1>1, <1>8, <3>1, <3>2 DEF Issues
  <2>3. \E result \in SubIds \cup {Undefined} :
           /\ o[2] = "subscribe" <=> result # Undefined
           /\ result # Undefined => \A q \in Session!Ops :
                answer[q] # Undefined => answer[q][2] # result
           /\ answer' = [answer EXCEPT ![o] = <<o, result>>]
    BY <1>1, <2>2, SessionOps
  <2> QED BY <1>3, <1>4, <1>6, <2>1, <2>3 DEF Session!Resolve
<1> QED BY <1>7, <1>8

\* A notification is an event of the watching subscription that has its id,
\* or nobody hears it.
LEMMA NotifyMaps ==
    ASSUME IInv, NEW c \in Conns, NEW k \in SubIds, Notify(c, k)
    PROVE  (\E s \in Subs : Session!Event(s)) \/ UNCHANGED Session!vars
<1> DEFINE calls == [p \in Ops |-> CallOf(p)]
           watches == [t \in Subs |-> WatchOf(t)]
<1>1. UNCHANGED <<phase, stage, answer>>
  BY DEF Notify, opVars
<1>2. calls' = calls /\ watches' = watches
  BY <1>1, MappedSame
<1>3. CASE received' = received
  BY <1>1, <1>2, <1>3 DEF Session!vars
<1>4. CASE /\ k \in DOMAIN subscriptions[c]
           /\ subscriptions[c][k] \in Subs
           /\ socket[c] = "open"
           /\ received' = [received EXCEPT ![subscriptions[c][k]] =
                Append(@, k)]
  <2>1. PICK s \in Subs : s = subscriptions[c][k]
    BY <1>4
  <2>2. stage[s] = "active" /\ k = answer[<<s, "subscribe">>][2]
    BY <1>4, <2>1 DEF IInv, Handlers, SubscriptionId, SubscribeOp
  <2>3. watches[s] = "watching"
    BY <2>2 DEF WatchOf
  <2>4. received' = [received EXCEPT
            ![s] = Append(@, answer[<<s, "subscribe">>][2])]
    BY <1>4, <2>1, <2>2
  <2>5. Session!Event(s)
    BY <1>1, <1>2, <2>3, <2>4 DEF Session!Event
  <2> QED BY <2>5
<1> QED BY <1>3, <1>4, NotifyEffect DEF IInv

\* The steps of the three kinds put together.
LEMMA StepMaps ==
    ASSUME IInv, [Next]_vars PROVE [Session!Next]_(Session!vars)
<1>1. CASE User
  BY <1>1, UserMaps DEF IInv, Session!Next
<1>2. CASE Job
  BY <1>2, JobMaps, SessionOps DEF Session!Next
<1>3. ASSUME NEW c \in Conns, Open(c) PROVE UNCHANGED Session!vars
  <2>1. UNCHANGED <<phase, stage, answer, received>>
    BY <1>3 DEF Open, opVars, subVars
  <2> QED BY <2>1, MappedSame DEF Session!vars
<1>4. CASE Event
  BY <1>3, <1>4, CloseMaps, AnswerMaps, NotifyMaps, SessionOps
  DEF Event, Session!Next
<1>5. CASE UNCHANGED vars
  <2>1. UNCHANGED <<phase, stage, answer, received>>
    BY <1>5 DEF vars
  <2> QED BY <2>1, MappedSame DEF Session!vars
<1>6. CASE Listener
  BY <1>6, TellMaps, EndMaps DEF Listener, Session!Next
<1> QED BY <1>1, <1>2, <1>4, <1>5, <1>6 DEF Next

(***************************************************************************)
(* The transport implements the session its interface promises: promises   *)
(* and callbacks behave as RpcSession says, whatever connections, request  *)
(* ids, closes and faults are behind them.                                 *)
(***************************************************************************)
THEOREM TransportImplementsSession == Spec => ImplementsSession
<1>1. Init => Session!Init
  BY SessionOps DEF Init, Session!Init, CallOf, WatchOf
<1>2. IInv /\ [Next]_vars => [Session!Next]_(Session!vars)
  BY StepMaps
<1> QED
  BY <1>1, <1>2, Invariance, PTL
  DEF Spec, ImplementsSession, Session!Spec
-----------------------------------------------------------------------------
(***************************************************************************)
(* What holds of those who wait, whatever the socket does and an onError   *)
(* calls or throws.  The connection that connect() hands out is open when  *)
(* its promise is fulfilled, but for one that is closing and one whose     *)
(* handleClose did not end; so a caller that awaits a fulfilled promise    *)
(* will send on an open socket, if it has not missed a close.              *)
(***************************************************************************)
PromiseIsLive ==
    statePromise # Undefined =>
        \/ promise[statePromise] \in {"pending", "rejected"}
        \/ socket[statePromise] = "open"
        \/ statePromise = closing
        \/ statePromise \in aborted

OpenIsFulfilled ==
    \A c \in Conns : socket[c] = "open" => promise[c] = "fulfilled"

CallersAreConnected ==
    \A o \in Ops :
        /\ phase[o] = "connecting"
        /\ promise[conn[o]] = "fulfilled"
        /\ o \notin unheard
        /\ conn[o] \notin aborted
        => socket[conn[o]] = "open"

WaitInv ==
    /\ PromiseIsLive
    /\ OpenIsFulfilled
    /\ CallersAreConnected
    /\ NoOrphanedRequest

\* Before anything is called, nobody waits.
LEMMA InitWaits == ASSUME Init PROVE WaitInv
BY DEF Init, WaitInv, PromiseIsLive, OpenIsFulfilled, CallersAreConnected,
       NoOrphanedRequest

\* The connection connect() hands out is the one statePromise holds, and it
\* is open if its promise is fulfilled and no close is at work on it.
LEMMA ConnectIsLive ==
    ASSUME IInv, WaitInv, NEW c \in Conns, Connect(c),
           UNCHANGED <<closing, aborted>>
    PROVE  /\ PromiseIsLive' /\ OpenIsFulfilled'
           /\ statePromise' = c
           /\ promise'[c] = "fulfilled" =>
                socket'[c] = "open" \/ c = closing \/ c \in aborted
           /\ \A d \in Conns :
                /\ promise'[d] = "fulfilled" => promise[d] = "fulfilled"
                /\ socket[d] = "open" => socket'[d] = "open"
<1> USE DEF WaitInv, PromiseIsLive, OpenIsFulfilled
<1>1. CASE statePromise = c /\ UNCHANGED connVars
  <2>1. UNCHANGED <<statePromise, promise, socket>>
    BY <1>1 DEF connVars
  <2>2. statePromise # Undefined
    BY <1>1, ConstantsAssumption
  <2> QED BY <1>1, <2>1, <2>2
<1>2. CASE statePromise = Undefined
  <2>1. /\ statePromise' = c
        /\ promise[c] = "none"
        /\ promise'[c] \in {"pending", "rejected"}
        /\ \A d \in Conns \ {c} : /\ promise'[d] = promise[d]
                                  /\ socket'[d] = socket[d]
        /\ socket'[c] \in {"connecting", socket[c]}
    BY <1>2, ConnectEffect, ConstantsAssumption DEF IInv
  <2>2. socket[c] = "none"
    BY <2>1 DEF IInv, UnbornUntouched
  <2> QED BY <2>1, <2>2
<1> QED BY <1>1, <1>2, ConnectEffect DEF IInv

\* A call of request leaves every connection open that was, and gets one
\* that it can use, unless it is made in an onError.
LEMMA CallIsLive ==
    ASSUME IInv, WaitInv, NEW o \in Ops, CallRequest(o)
    PROVE  /\ PromiseIsLive' /\ OpenIsFulfilled' /\ CallersAreConnected'
           /\ \A d \in Conns : socket[d] = "open" => socket'[d] = "open"
<1>1. PICK c \in Conns : Connect(c) /\ conn' = [conn EXCEPT ![o] = c]
  BY DEF CallRequest
<1>2. /\ conn'[o] = c
      /\ \A p \in Ops \ {o} : phase'[p] = phase[p] /\ conn'[p] = conn[p]
      /\ UNCHANGED <<closing, aborted>>
      /\ unheard \subseteq unheard'
      /\ closing # Undefined => o \in unheard'
  BY <1>1, CallEffect DEF IInv, TypeOK
<1>3. CallersAreConnected'
  <2> SUFFICES ASSUME NEW p \in Ops, phase'[p] = "connecting",
                      promise'[conn'[p]] = "fulfilled",
                      p \notin unheard', conn'[p] \notin aborted'
               PROVE  socket'[conn'[p]] = "open"
    BY DEF CallersAreConnected
  <2>1. CASE p = o
    <3>1. closing = Undefined /\ c # Undefined
      BY <1>2, <2>1, ConstantsAssumption
    <3> QED BY <1>1, <1>2, <2>1, <3>1, ConnectIsLive
  <2>2. CASE p # o
    <3>1. /\ phase[p] = "connecting" /\ conn'[p] = conn[p]
          /\ conn[p] \in Conns
          /\ p \notin unheard /\ conn[p] \notin aborted
      BY <1>2, <2>2 DEF IInv, FramesHaveConn
    <3>2. promise[conn[p]] = "fulfilled"
      BY <1>1, <1>2, <3>1, ConnectIsLive
    <3> QED
      BY <1>1, <1>2, <3>1, <3>2, ConnectIsLive
      DEF WaitInv, CallersAreConnected
  <2> QED BY <2>1, <2>2
<1> QED BY <1>1, <1>2, <1>3, ConnectIsLive

\* Every step keeps the connections that callers hold usable.
LEMMA ConnectedStep ==
    ASSUME IInv, WaitInv, [Next]_vars
    PROVE  (PromiseIsLive /\ OpenIsFulfilled /\ CallersAreConnected)'
<1> DEFINE Goal == PromiseIsLive /\ OpenIsFulfilled /\ CallersAreConnected
<1>1. CASE User
  <2>1. PICK o \in Ops : CallRequest(o)
    BY <1>1, OpFacts DEF User, Request, Subscribe, Unsubscribe
  <2> QED BY <2>1, CallIsLive
<1>2. ASSUME NEW o \in Ops, Send(o) \/ ConnectFailed(o) PROVE Goal'
  <2>1. /\ UNCHANGED <<statePromise, promise, socket, conn, closing, aborted,
                       unheard>>
        /\ \A p \in Ops : phase'[p] = "connecting" => phase[p] = "connecting"
    BY <1>2 DEF IInv, TypeOK, Send, ConnectFailed, connVars, closeVars
  <2> QED
    BY <2>1 DEF WaitInv, PromiseIsLive, OpenIsFulfilled, CallersAreConnected
<1>3. ASSUME NEW s \in Subs, Reconnect(s) PROVE Goal'
  <2>1. PICK c \in Conns : Connect(c)
    BY <1>3 DEF Reconnect
  <2>2. UNCHANGED <<phase, conn, closing, aborted, unheard>>
    BY <1>3 DEF Reconnect, opVars, closeVars
  <2>3. CallersAreConnected'
    <3> SUFFICES ASSUME NEW p \in Ops, phase[p] = "connecting",
                        promise'[conn[p]] = "fulfilled",
                        p \notin unheard, conn[p] \notin aborted
                 PROVE  socket'[conn[p]] = "open"
      BY <2>2 DEF CallersAreConnected
    <3>1. conn[p] \in Conns
      BY DEF IInv, FramesHaveConn
    <3> QED
      BY <2>1, <2>2, <3>1, ConnectIsLive DEF WaitInv, CallersAreConnected
  <2> QED BY <2>1, <2>2, <2>3, ConnectIsLive
<1>4. ASSUME NEW c \in Conns, Open(c) PROVE Goal'
  <2>1. /\ UNCHANGED <<statePromise, phase, conn, closing, aborted, unheard>>
        /\ socket'[c] = "open" /\ promise'[c] = "fulfilled"
        /\ \A d \in Conns \ {c} : /\ socket'[d] = socket[d]
                                  /\ promise'[d] = promise[d]
    BY <1>4 DEF IInv, TypeOK, Open, opVars, closeVars
  <2>2. \A o \in Ops : phase[o] = "connecting" => conn[o] \in Conns
    BY DEF IInv, FramesHaveConn
  <2>3. statePromise # Undefined => statePromise \in Conns
    BY DEF IInv, TypeOK
  <2>4. PromiseIsLive'
    BY <2>1, <2>3 DEF WaitInv, PromiseIsLive
  <2> QED
    BY <2>1, <2>2, <2>4 DEF WaitInv, OpenIsFulfilled, CallersAreConnected
<1>5. ASSUME NEW c \in Conns, Close(c) PROVE Goal'
  <2>1. /\ UNCHANGED <<statePromise, promise, conn, aborted>>
        /\ closing' = c
        /\ socket[c] \in {"open", "connecting"}
        /\ unheard \subseteq unheard'
        /\ \A o \in Ops : phase[o] = "connecting" /\ conn[o] = c
              => o \in unheard'
        /\ \A d \in Conns : /\ socket'[d] = "open" => socket[d] = "open"
                            /\ d # c => socket'[d] = socket[d]
        /\ \A o \in Ops : phase'[o] = "connecting" => phase[o] = "connecting"
    BY <1>5, CloseEffect DEF IInv
  <2>2. statePromise' = closing'
    BY <2>1 DEF IInv, OneLiveSocket
  <2>3. CallersAreConnected'
    <3>1. \A o \in Ops : phase[o] = "connecting" => conn[o] \in Conns
      BY DEF IInv, FramesHaveConn
    <3> QED BY <2>1, <3>1 DEF WaitInv, CallersAreConnected
  <2> QED
    BY <2>1, <2>2, <2>3 DEF WaitInv, PromiseIsLive, OpenIsFulfilled
<1>6. ASSUME NEW o \in Ops, Answer(o) PROVE Goal'
  <2>1. UNCHANGED <<statePromise, promise, socket, conn, closing, aborted,
                    unheard>>
    BY <1>6 DEF Answer, connVars, closeVars
  <2>2. \A p \in Ops : phase'[p] = "connecting" => phase[p] = "connecting"
    BY <1>6, AnswerFrames
  <2> QED
    BY <2>1, <2>2
    DEF WaitInv, PromiseIsLive, OpenIsFulfilled, CallersAreConnected
<1>7. ASSUME \/ \E s \in Subs : Attach(s) \/ SubscribeFailed(s) \/ Tell(s)
             \/ \E c \in Conns, k \in SubIds : Notify(c, k)
             \/ UNCHANGED vars
      PROVE  Goal'
  <2>1. UNCHANGED <<statePromise, promise, socket, phase, conn, closing,
                    aborted, unheard>>
    BY <1>7
    DEF Attach, SubscribeFailed, Tell, Notify, vars, connVars, closeVars,
        opVars
  <2> QED
    BY <2>1 DEF WaitInv, PromiseIsLive, OpenIsFulfilled, CallersAreConnected
<1>8. CASE EndClose
  <2>1. /\ UNCHANGED <<promise, socket, phase, conn, aborted, unheard>>
        /\ statePromise' = Undefined
    BY <1>8 DEF EndClose, Forget, opVars
  <2> QED
    BY <2>1 DEF WaitInv, PromiseIsLive, OpenIsFulfilled, CallersAreConnected
<1>9. CASE OnErrorThrows
  <2>1. /\ UNCHANGED <<statePromise, promise, socket, phase, conn, unheard>>
        /\ aborted' = aborted \cup {closing}
    BY <1>9 DEF OnErrorThrows, connVars, opVars
  <2> QED
    BY <2>1 DEF WaitInv, PromiseIsLive, OpenIsFulfilled, CallersAreConnected
<1> QED
  BY <1>1, <1>2, <1>3, <1>4, <1>5, <1>6, <1>7, <1>8, <1>9
  DEF Next, Job, Event, Listener

\* NoOrphanedRequest, for one request.
Waits(o) ==
    /\ socket[conn[o]] = "open"
    /\ reqId[o] \in DOMAIN pendingRequests[conn[o]]
    /\ pendingRequests[conn[o]][reqId[o]] = o

\* What has missed a close, or was left by a throw, stays known as such.
LEMMA HistoriesGrow ==
    ASSUME IInv, [Next]_vars
    PROVE  unheard \subseteq unheard' /\ aborted \subseteq aborted'
BY CallEffect, CloseEffect, OpFacts
DEF IInv, Next, User, Job, Event, Listener, vars, closeVars, Request,
    Subscribe, Unsubscribe, Send, ConnectFailed, Reconnect, Attach,
    SubscribeFailed, Open, Tell, EndClose, OnErrorThrows, Answer, Notify

\* Every step keeps a request that waits where its answer will look for it.
LEMMA OrphansStep ==
    ASSUME IInv, WaitInv, [Next]_vars
    PROVE  NoOrphanedRequest'
<1> SUFFICES ASSUME NEW p \in Ops, phase'[p] = "sent",
                    p \notin unheard', conn'[p] \notin aborted'
             PROVE  Waits(p)'
  BY DEF NoOrphanedRequest, Waits, Has
<1>0. phase[p] = "sent" /\ conn'[p] = conn[p]
        => Waits(p) /\ conn[p] \in Conns
  <2>1. unheard \subseteq unheard' /\ aborted \subseteq aborted'
    BY HistoriesGrow
  <2> QED
    BY <2>1 DEF WaitInv, NoOrphanedRequest, Waits, Has, IInv, FramesHaveConn
<1>1. CASE User
  <2>1. PICK o \in Ops : CallRequest(o)
    BY <1>1, OpFacts DEF User, Request, Subscribe, Unsubscribe
  <2>2. UNCHANGED <<pendingRequests, reqId>>
    BY <1>1, CallEffect DEF User, Request, Subscribe, Unsubscribe, mapVars,
                            CallRequest
  <2>3. phase[p] = "sent" /\ conn'[p] = conn[p]
    BY <2>1, CallEffect DEF IInv
  <2> QED BY <1>0, <2>1, <2>2, <2>3, CallIsLive DEF Waits
<1>2. ASSUME NEW o \in Ops, Send(o) PROVE Waits(p)'
  <2>1. /\ UNCHANGED <<socket, conn, unheard, aborted>>
        /\ promise[conn[o]] = "fulfilled"
    BY <1>2 DEF Send, connVars, closeVars
  <2>2. CASE p = o
    <3>1. socket[conn[o]] = "open"
      BY <1>2, <2>1, <2>2, SendEffect DEF WaitInv, CallersAreConnected
    <3> QED BY <1>2, <2>1, <2>2, <3>1, SendEffect DEF Waits
  <2>3. CASE p # o
    <3>1. phase[p] = "sent" /\ reqId'[p] = reqId[p]
      BY <1>2, <2>3, SendEffect
    <3>2. CASE conn[p] = conn[o]
      BY <1>0, <1>2, <2>1, <3>1, <3>2, SendEffect DEF Waits
    <3>3. CASE conn[p] # conn[o]
      BY <1>0, <1>2, <2>1, <3>1, <3>3, SendEffect DEF Waits
    <3> QED BY <3>2, <3>3
  <2> QED BY <2>2, <2>3
<1>3. ASSUME NEW c \in Conns, Close(c) PROVE Waits(p)'
  <2>1. UNCHANGED <<conn, reqId>> /\ phase[p] = "sent"
    BY <1>3, CloseEffect DEF Close, IInv
  <2>2. conn[p] # c
    <3> SUFFICES ASSUME conn[p] = c PROVE FALSE
      OBVIOUS
    <3>1. p \in MapValues(pendingRequests[c])
      BY <1>0, <2>1 DEF Waits, MapValues
    <3> QED BY <1>3, <2>1, <3>1 DEF Close, RejectPending
  <2> QED BY <1>0, <1>3, <2>1, <2>2, CloseEffect DEF Waits, IInv
<1>4. ASSUME NEW o \in Ops, Answer(o) PROVE Waits(p)'
  <2>1. UNCHANGED <<socket, conn, reqId>>
    BY <1>4 DEF Answer, connVars
  <2>2. p # o /\ phase[p] = "sent" /\ conn[o] \in Conns
    BY <1>4, AnswerFrames, AnswerEffect
  <2>3. <<reqId[o], o>> \in inbox[conn[o]]
    BY <1>4, AnswerEffect
  <2>4. pendingRequests[conn[o]][reqId[o]] = o
    BY <2>2, <2>3 DEF IInv, InboxEntries
  <2>5. conn[p] = conn[o] => reqId[p] # reqId[o]
    BY <1>0, <2>1, <2>2, <2>4 DEF Waits
  <2>6. pendingRequests' =
            [pendingRequests EXCEPT ![conn[o]] = MapDelete(@, reqId[o])]
    BY <1>4, AnswerEffect
  <2>7. /\ reqId[p] \in DOMAIN pendingRequests'[conn[p]]
        /\ pendingRequests'[conn[p]][reqId[p]]
              = pendingRequests[conn[p]][reqId[p]]
    <3>1. CASE conn[p] = conn[o]
      <4>1. pendingRequests'[conn[p]]
                = MapDelete(pendingRequests[conn[p]], reqId[o])
        BY <2>2, <2>6, <3>1 DEF IInv, TypeOK
      <4>2. reqId[p] \in DOMAIN pendingRequests[conn[p]] \ {reqId[o]}
        BY <1>0, <2>1, <2>2, <2>5, <3>1 DEF Waits
      <4> QED BY <4>1, <4>2 DEF MapDelete
    <3>2. CASE conn[p] # conn[o]
      BY <1>0, <2>1, <2>2, <2>6, <3>2 DEF Waits, IInv, TypeOK
    <3> QED BY <3>1, <3>2
  <2> QED BY <1>0, <2>1, <2>2, <2>7 DEF Waits
<1>5. ASSUME \/ \E o \in Ops : ConnectFailed(o)
             \/ \E s \in Subs :
                  Reconnect(s) \/ Attach(s) \/ SubscribeFailed(s) \/ Tell(s)
             \/ EndClose \/ OnErrorThrows
             \/ \E c \in Conns : Open(c)
             \/ \E c \in Conns, k \in SubIds : Notify(c, k)
             \/ UNCHANGED vars
      PROVE  Waits(p)'
  <2>1. UNCHANGED <<conn, reqId, pendingRequests>>
    BY <1>5 DEF ConnectFailed, Reconnect, Attach, SubscribeFailed, Tell,
                EndClose, OnErrorThrows, Open, Notify, vars, mapVars, opVars
  <2>2. phase[p] = "sent"
    BY <1>5 DEF IInv, TypeOK, ConnectFailed, Reconnect, Attach,
                SubscribeFailed, Tell, EndClose, OnErrorThrows, Open, Notify,
                vars, opVars
  <2>3. \A c \in Conns : socket[c] = "open" => socket'[c] = "open"
    <3>1. CASE \E s \in Subs : Reconnect(s)
      BY <3>1, ConnectIsLive DEF Reconnect, closeVars
    <3>2. CASE \E c \in Conns : Open(c)
      BY <3>2 DEF IInv, TypeOK, Open
    <3>3. CASE UNCHANGED socket
      BY <3>3
    <3> QED
      BY <1>5, <3>1, <3>2, <3>3
      DEF ConnectFailed, Attach, SubscribeFailed, Tell, EndClose,
          OnErrorThrows, Notify, vars, connVars
  <2> QED BY <1>0, <2>1, <2>2, <2>3 DEF Waits
<1> QED BY <1>1, <1>2, <1>3, <1>4, <1>5 DEF Next, Job, Event, Listener

(***************************************************************************)
(* Nobody waits where no answer and no close will reach him, but for those *)
(* that missed a close and those on a connection that a throw left.        *)
(***************************************************************************)
THEOREM WaitInvariance == Spec => []WaitInv
<1>1. Init => WaitInv
  BY InitWaits
<1>2. IInv /\ WaitInv /\ [Next]_vars => WaitInv'
  BY ConnectedStep, OrphansStep DEF WaitInv
<1> QED BY <1>1, <1>2, Invariance, PTL DEF Spec

(***************************************************************************)
(* A request that waits for its answer waits on an open socket, and its    *)
(* promise is where the answer, or the close, will look for it (request,   *)
(* handleMessage and handleClose): on every socket, with every fault, for  *)
(* every request but those that missed the close of their connection and   *)
(* those of a connection that a throwing onError left.                     *)
(***************************************************************************)
THEOREM RequestsAreNotOrphaned == Spec => []NoOrphanedRequest
<1>1. WaitInv => NoOrphanedRequest
  BY DEF WaitInv
<1> QED BY <1>1, WaitInvariance, PTL

-----------------------------------------------------------------------------
(***************************************************************************)
(* What holds of the subscriptions when the socket lets the jobs run       *)
(* between two events and no onError throws.  A subscription on its way    *)
(* from its answer to its handler is still on the open connection that     *)
(* issued its id, and has missed nothing; an active one has its handler    *)
(* on a connection that is open, or whose close is still telling.          *)
(***************************************************************************)
Orderly == EventsWaitForJobs /\ "onErrorThrows" \notin Faults

Issued(s, c) == issued[SubscriptionId(s)] = <<c, s>> /\ socket[c] = "open"

Wired(s) ==
    LET k == SubscriptionId(s)
    IN  /\ issued[k] = <<home[s], s>>
        /\ socket[home[s]] = "open" \/ closing = home[s]
        /\ k \in DOMAIN subscriptions[home[s]]
        /\ subscriptions[home[s]][k] = s

SubscriptionOK(s) ==
    LET k == SubscriptionId(s)
    IN  /\ stage[s] = "requesting" /\ phase[SubscribeOp(s)] = "resolved"
            => Issued(s, conn[SubscribeOp(s)]) /\ notified[k] = 0
        /\ stage[s] = "attaching" => Issued(s, home[s]) /\ notified[k] = 0
        /\ stage[s] = "active" => Wired(s) /\ Len(received[s]) = notified[k]
        /\ stage[s] \in {"idle", "requesting", "attaching"}
            => received[s] = <<>>

UnissuedIsSilent ==
    /\ \A k \in alive : issued[k] # Undefined
    /\ \A k \in SubIds : issued[k] = Undefined => notified[k] = 0

WiredInv ==
    /\ \A s \in Subs : SubscriptionOK(s)
    /\ UnissuedIsSilent

\* Before anything is called, no subscription is on its way.
LEMMA InitWired == ASSUME Init PROVE WiredInv
BY DEF Init, WiredInv, SubscriptionOK, UnissuedIsSilent

\* No event is dispatched while a caller or a subscription is on its way.
LEMMA NoJobAtEvent ==
    ASSUME IInv, WaitInv, WiredInv, Orderly, CanDispatch
    PROVE  \A s \in Subs :
             /\ stage[s] = "requesting"
                 => phase[SubscribeOp(s)] # "resolved"
             /\ stage[s] # "attaching"
<1>1. ~JobWaiting
  BY DEF Orderly, CanDispatch
<1>2. ASSUME NEW s \in Subs, stage[s] = "attaching" PROVE FALSE
  <2>1. home[s] \in Conns /\ socket[home[s]] = "open"
    BY <1>2 DEF IInv, FramesHaveConn, WiredInv, SubscriptionOK, Issued
  <2>2. promise[home[s]] = "fulfilled"
    BY <2>1 DEF WaitInv, OpenIsFulfilled
  <2> QED BY <1>1, <1>2, <2>2 DEF JobWaiting, Settled
<1> QED BY <1>1, <1>2 DEF JobWaiting, Settled

\* A subscription that has its id keeps it, and the server keeps it for it.
LEMMA IdIsStable ==
    ASSUME IInv, [Next]_vars, NEW s \in Subs,
           phase[SubscribeOp(s)] = "resolved"
    PROVE  /\ SubscriptionId(s) \in SubIds
           /\ SubscriptionId(s)' = SubscriptionId(s)
           /\ issued'[SubscriptionId(s)] = issued[SubscriptionId(s)]
           /\ issued[SubscriptionId(s)] # Undefined
           /\ issued[SubscriptionId(s)][2] = s
<1>1. Ticket(s)
  BY DEF IInv, ResolvedHasTicket
<1>2. answer'[SubscribeOp(s)] = answer[SubscribeOp(s)]
  BY Stable, OpFacts
<1> QED BY <1>1, <1>2, Stable DEF Ticket, SubscriptionId

\* A subscription past its first await has such an id.
LEMMA OpenedHasId ==
    ASSUME IInv, NEW s \in Subs,
           stage[s] \in {"attaching", "active", "errored", "unsubscribed"}
    PROVE  phase[SubscribeOp(s)] = "resolved" /\ home[s] \in Conns
BY DEF IInv, OpenedIsResolved, FramesHaveConn

\* A step that does not move a subscription's frame, its events, its
\* connection or its handler keeps what is said of it.
LEMMA Unmoved ==
    ASSUME IInv, [Next]_vars, NEW s \in Subs, SubscriptionOK(s),
           stage'[s] = stage[s], home'[s] = home[s],
           received'[s] = received[s], notified' = notified,
           conn'[SubscribeOp(s)] = conn[SubscribeOp(s)],
           phase'[SubscribeOp(s)] = "resolved"
                => phase[SubscribeOp(s)] = "resolved",
           stage[s] = "active" => Wired(s)',
           \A c \in Conns : socket[c] = "open" => socket'[c] = "open"
    PROVE  SubscriptionOK(s)'
<1>1. CASE stage[s] = "requesting" /\ phase'[SubscribeOp(s)] = "resolved"
  <2>1. conn[SubscribeOp(s)] \in Conns
    BY <1>1, OpFacts DEF IInv, FramesHaveConn
  <2> QED BY <1>1, <2>1, IdIsStable DEF SubscriptionOK, Issued
<1>2. CASE stage[s] = "attaching"
  BY <1>2, OpenedHasId, IdIsStable DEF SubscriptionOK, Issued
<1>3. CASE stage[s] = "active"
  BY <1>3, OpenedHasId, IdIsStable DEF SubscriptionOK
<1>4. CASE /\ stage[s] \notin {"attaching", "active"}
           /\ ~(stage[s] = "requesting" /\ phase'[SubscribeOp(s)] = "resolved")
  BY <1>4 DEF SubscriptionOK
<1> QED BY <1>1, <1>2, <1>3, <1>4

\* Its handler stays when the map of its connection keeps that entry.
LEMMA WiredStays ==
    ASSUME IInv, [Next]_vars, NEW s \in Subs, SubscriptionOK(s),
           stage[s] = "active", home'[s] = home[s],
           socket'[home[s]] = "open" \/ closing' = home[s],
           LET k == SubscriptionId(s)
           IN  /\ k \in DOMAIN subscriptions'[home[s]]
               /\ subscriptions'[home[s]][k] = subscriptions[home[s]][k]
    PROVE  Wired(s)'
<1>1. /\ SubscriptionId(s)' = SubscriptionId(s)
      /\ issued'[SubscriptionId(s)] = issued[SubscriptionId(s)]
  BY OpenedHasId, IdIsStable
<1>2. Wired(s)
  BY DEF SubscriptionOK
<1> QED BY <1>1, <1>2 DEF Wired

\* The two together, for a step that leaves every map of handlers alone.
LEMMA Untouched ==
    ASSUME IInv, [Next]_vars, NEW s \in Subs, SubscriptionOK(s),
           stage'[s] = stage[s], home'[s] = home[s],
           received'[s] = received[s],
           UNCHANGED <<notified, subscriptions, closing>>,
           conn'[SubscribeOp(s)] = conn[SubscribeOp(s)],
           phase'[SubscribeOp(s)] = "resolved"
                => phase[SubscribeOp(s)] = "resolved",
           \A c \in Conns : socket[c] = "open" => socket'[c] = "open"
    PROVE  SubscriptionOK(s)'
<1>1. ASSUME stage[s] = "active" PROVE Wired(s)'
  <2>1. Wired(s) /\ home[s] \in Conns
    BY <1>1, OpenedHasId DEF SubscriptionOK
  <2> QED BY <1>1, <2>1, WiredStays DEF Wired
<1> QED BY <1>1, Unmoved

\* Two subscriptions that have ids have different ones.
LEMMA IdsDiffer ==
    ASSUME IInv, NEW s \in Subs, NEW t \in Subs, s # t,
           phase[SubscribeOp(s)] = "resolved",
           phase[SubscribeOp(t)] = "resolved"
    PROVE  SubscriptionId(s) # SubscriptionId(t)
BY DEF IInv, ResolvedHasTicket, Ticket

\* What user code does keeps what is said of each subscription.
LEMMA UserKeepsSubscriptions ==
    ASSUME IInv, WaitInv, WiredInv, User, NEW s \in Subs
    PROVE  SubscriptionOK(s)'
<1>0. SubscriptionOK(s) /\ [Next]_vars
  BY DEF WiredInv, Next
<1>1. ASSUME NEW o \in Ops, CallRequest(o), o # SubscribeOp(s)
      PROVE  /\ conn'[SubscribeOp(s)] = conn[SubscribeOp(s)]
             /\ phase'[SubscribeOp(s)] = phase[SubscribeOp(s)]
             /\ closing' = closing
             /\ \A c \in Conns : socket[c] = "open" => socket'[c] = "open"
  BY <1>1, CallEffect, CallIsLive, OpFacts DEF IInv
<1>2. ASSUME NEW r \in Calls, Request(r) PROVE SubscriptionOK(s)'
  <2>1. <<r, "request">> \in Ops /\ <<r, "request">> # SubscribeOp(s)
    BY OpFacts DEF SubscribeOp
  <2>2. /\ CallRequest(<<r, "request">>)
        /\ UNCHANGED <<stage, home, received, subscriptions, notified>>
    BY <1>2 DEF Request, mapVars, subVars, serverVars
  <2> QED BY <1>0, <1>1, <2>1, <2>2, Untouched
<1>3. ASSUME NEW t \in Subs, Subscribe(t) PROVE SubscriptionOK(s)'
  <2>1. /\ CallRequest(SubscribeOp(t)) /\ SubscribeOp(t) \in Ops
        /\ UNCHANGED <<home, received, subscriptions, notified>>
        /\ stage[t] = "idle" /\ stage'[t] = "requesting"
        /\ \A u \in Subs \ {t} : stage'[u] = stage[u]
    BY <1>3, OpFacts DEF Subscribe, IInv, TypeOK, mapVars, serverVars
  <2>2. CASE s = t
    <3>1. phase'[SubscribeOp(s)] = "connecting"
      BY <2>1, <2>2, CallEffect DEF IInv
    <3>2. received'[s] = <<>>
      BY <1>0, <2>1, <2>2 DEF SubscriptionOK
    <3> QED BY <2>1, <2>2, <3>1, <3>2 DEF SubscriptionOK
  <2>3. CASE s # t
    <3>1. SubscribeOp(t) # SubscribeOp(s)
      BY <2>3, OpFacts
    <3> QED BY <1>0, <1>1, <2>1, <2>3, <3>1, Untouched
  <2> QED BY <2>2, <2>3
<1>4. ASSUME NEW t \in Subs, Unsubscribe(t) PROVE SubscriptionOK(s)'
  <2>1. /\ CallRequest(UnsubscribeOp(t))
        /\ UnsubscribeOp(t) \in Ops
        /\ UNCHANGED <<home, received, notified>>
        /\ stage[t] \in {"active", "errored"} /\ stage'[t] = "unsubscribed"
        /\ \A u \in Subs \ {t} : stage'[u] = stage[u]
        /\ subscriptions' = [subscriptions EXCEPT
              ![home[t]] = MapDelete(@, SubscriptionId(t))]
    BY <1>4, OpFacts DEF Unsubscribe, RemoveHandler, IInv, TypeOK, serverVars
  <2>2. CASE s = t
    BY <2>1, <2>2 DEF SubscriptionOK
  <2>3. CASE s # t
    <3>1. UnsubscribeOp(t) # SubscribeOp(s)
      BY DEF UnsubscribeOp, SubscribeOp
    <3>2. /\ closing' = closing
          /\ \A c \in Conns : socket[c] = "open" => socket'[c] = "open"
      BY <1>1, <2>1, <3>1
    <3>3. ASSUME stage[s] = "active" PROVE Wired(s)'
      <4> DEFINE k == SubscriptionId(s)
                 h == home[s]
      <4>1. Wired(s) /\ h \in Conns
        BY <1>0, <3>3, OpenedHasId DEF SubscriptionOK
      <4>2. k # SubscriptionId(t)
        BY <2>1, <2>3, <3>3, OpenedHasId, IdsDiffer
      <4>3. subscriptions'[h] \in
                {subscriptions[h],
                 MapDelete(subscriptions[h], SubscriptionId(t))}
        BY <2>1, <4>1 DEF IInv, TypeOK
      <4>4. k \in DOMAIN subscriptions'[h]
              /\ subscriptions'[h][k] = subscriptions[h][k]
        BY <4>1, <4>2, <4>3 DEF Wired, MapDelete
      <4>5. socket'[h] = "open" \/ closing' = h
        BY <3>2, <4>1 DEF Wired
      <4> QED BY <1>0, <2>1, <3>3, <4>4, <4>5, WiredStays
    <3> QED BY <1>0, <1>1, <2>1, <2>3, <3>1, <3>3, Unmoved
  <2> QED BY <2>2, <2>3
<1> QED BY <1>2, <1>3, <1>4 DEF User

\* So does a job: a subscription that reconnects gets the connection that
\* issued its id, since that one is still open; one that attaches has
\* missed nothing, since the server has sent nothing yet.
LEMMA JobKeepsSubscriptions ==
    ASSUME IInv, WaitInv, WiredInv, Job, NEW s \in Subs
    PROVE  SubscriptionOK(s)'
<1>0. SubscriptionOK(s) /\ [Next]_vars
  BY DEF WiredInv, Next
<1>1. ASSUME NEW o \in Ops, Send(o) \/ ConnectFailed(o)
      PROVE  SubscriptionOK(s)'
  <2>1. /\ UNCHANGED <<conn, socket, closing, stage, home, received,
                       subscriptions, notified>>
        /\ \A p \in Ops : phase'[p] = "resolved" => phase[p] = "resolved"
    BY <1>1 DEF Send, ConnectFailed, IInv, TypeOK, connVars, closeVars,
                mapVars, subVars, serverVars
  <2> QED BY <1>0, <2>1, OpFacts, Untouched
<1>2. ASSUME NEW t \in Subs, Reconnect(t) PROVE SubscriptionOK(s)'
  <2>1. PICK c \in Conns : Connect(c) /\ home' = [home EXCEPT ![t] = c]
    BY <1>2 DEF Reconnect
  <2>2. /\ UNCHANGED <<phase, conn, answer, received, subscriptions, issued,
                       notified, closing, aborted>>
        /\ stage[t] = "requesting" /\ phase[SubscribeOp(t)] = "resolved"
        /\ stage'[t] = "attaching" /\ home'[t] = c
        /\ \A u \in Subs \ {t} : stage'[u] = stage[u] /\ home'[u] = home[u]
    BY <1>2, <2>1
    DEF Reconnect, IInv, TypeOK, closeVars, mapVars, opVars, serverVars
  <2>3. CASE s = t
    <3>1. /\ Issued(s, conn[SubscribeOp(s)]) /\ notified[SubscriptionId(s)] = 0
          /\ received[s] = <<>>
      BY <1>0, <2>2, <2>3 DEF SubscriptionOK
    <3>2. conn[SubscribeOp(s)] \in Conns
      BY <2>2, <2>3, OpFacts DEF IInv, FramesHaveConn
    <3>3. statePromise = conn[SubscribeOp(s)]
      BY <3>1, <3>2 DEF Issued, IInv, OneLiveSocket
    <3>4. c = conn[SubscribeOp(s)] /\ UNCHANGED socket
      BY <2>1, <3>2, <3>3, ConstantsAssumption DEF Connect, connVars
    <3>5. SubscriptionId(s)' = SubscriptionId(s)
      BY <2>2 DEF SubscriptionId
    <3> QED
      BY <2>2, <2>3, <3>1, <3>4, <3>5 DEF SubscriptionOK, Issued
  <2>4. CASE s # t
    BY <1>0, <2>1, <2>2, <2>4, ConnectIsLive, Untouched
  <2> QED BY <2>3, <2>4
<1>3. ASSUME NEW t \in Subs, Attach(t) PROVE SubscriptionOK(s)'
  <2>1. /\ UNCHANGED <<socket, closing, phase, conn, answer, home, received,
                       issued, notified>>
        /\ stage[t] = "attaching" /\ stage'[t] = "active"
        /\ \A u \in Subs \ {t} : stage'[u] = stage[u]
        /\ subscriptions' = [subscriptions EXCEPT
              ![home[t]] = MapSet(@, SubscriptionId(t), t)]
    BY <1>3
    DEF Attach, IInv, TypeOK, connVars, closeVars, opVars, serverVars
  <2>2. home[t] \in Conns /\ phase[SubscribeOp(t)] = "resolved"
    BY <2>1, OpenedHasId
  <2>3. CASE s = t
    <3>1. /\ Issued(s, home[s]) /\ notified[SubscriptionId(s)] = 0
          /\ received[s] = <<>>
      BY <1>0, <2>1, <2>3 DEF SubscriptionOK
    <3>2. SubscriptionId(s)' = SubscriptionId(s)
      BY <2>1 DEF SubscriptionId
    <3>3. subscriptions'[home[s]]
            = MapSet(subscriptions[home[s]], SubscriptionId(s), s)
      BY <2>1, <2>2, <2>3 DEF IInv, TypeOK
    <3>4. Wired(s)'
      <4>1. /\ SubscriptionId(s) \in DOMAIN subscriptions'[home[s]]
            /\ subscriptions'[home[s]][SubscriptionId(s)] = s
        BY <3>3 DEF MapSet
      <4> QED BY <2>1, <3>1, <3>2, <4>1 DEF Wired, Issued
    <3>5. Len(received'[s]) = 0
      BY <2>1, <3>1
    <3> QED BY <2>1, <2>3, <3>1, <3>2, <3>4, <3>5 DEF SubscriptionOK
  <2>4. CASE s # t
    <3>1. ASSUME stage[s] = "active" PROVE Wired(s)'
      <4> DEFINE k == SubscriptionId(s)
                 h == home[s]
      <4>1. Wired(s) /\ h \in Conns
        BY <1>0, <3>1, OpenedHasId DEF SubscriptionOK
      <4>2. k # SubscriptionId(t)
        BY <2>2, <2>4, <3>1, OpenedHasId, IdsDiffer
      <4>3. subscriptions'[h] \in
                {subscriptions[h],
                 MapSet(subscriptions[h], SubscriptionId(t), t)}
        BY <2>1, <4>1 DEF IInv, TypeOK
      <4>4. k \in DOMAIN subscriptions'[h]
              /\ subscriptions'[h][k] = subscriptions[h][k]
        BY <4>1, <4>2, <4>3 DEF Wired, MapSet
      <4> QED BY <1>0, <2>1, <3>1, <4>1, <4>4, WiredStays DEF Wired
    <3> QED BY <1>0, <2>1, <2>4, <3>1, Unmoved
  <2> QED BY <2>3, <2>4
<1>4. ASSUME NEW t \in Subs, SubscribeFailed(t) PROVE SubscriptionOK(s)'
  <2>1. /\ UNCHANGED <<socket, closing, phase, conn, home, received,
                       subscriptions, notified>>
        /\ stage'[t] = "failed"
        /\ \A u \in Subs \ {t} : stage'[u] = stage[u]
    BY <1>4 DEF SubscribeFailed, IInv, TypeOK, connVars, closeVars, mapVars,
                opVars, serverVars
  <2>2. CASE s = t
    BY <2>1, <2>2 DEF SubscriptionOK
  <2>3. CASE s # t
    BY <1>0, <2>1, <2>3, Untouched
  <2> QED BY <2>2, <2>3
<1> QED BY <1>1, <1>2, <1>3, <1>4 DEF Job

\* So does an event, which finds no subscription between its answer and its
\* handler: only its answer takes it there.  The handler of an active one is
\* still in its map when its connection starts to close.
LEMMA CloseKeepsSubscriptions ==
    ASSUME IInv, WaitInv, WiredInv, Orderly, NEW c \in Conns, Close(c),
           NEW s \in Subs
    PROVE  SubscriptionOK(s)'
<1>0. SubscriptionOK(s) /\ [Next]_vars
  BY DEF WiredInv, Next, Event
<1>1. /\ CanDispatch
      /\ UNCHANGED <<conn, stage, home, received, notified, subscriptions>>
      /\ closing = Undefined /\ closing' = c
      /\ \A d \in Conns \ {c} : socket'[d] = socket[d]
  BY CloseEffect DEF IInv, Close
<1>2. stage[s] # "attaching"
        /\ (stage[s] = "requesting" => phase[SubscribeOp(s)] # "resolved")
  BY <1>1, NoJobAtEvent
<1>3. phase'[SubscribeOp(s)] = "resolved" => phase[SubscribeOp(s)] = "resolved"
  BY CloseEffect, OpFacts DEF IInv
<1>4. CASE stage[s] = "active"
  <2>1. Wired(s) /\ home[s] \in Conns
    BY <1>0, <1>4, OpenedHasId DEF SubscriptionOK
  <2>2. socket'[home[s]] = "open" \/ closing' = home[s]
    BY <1>1, <2>1, ConstantsAssumption DEF Wired
  <2>3. Wired(s)'
    BY <1>0, <1>1, <1>4, <2>1, <2>2, WiredStays DEF Wired
  <2>4. SubscriptionId(s)' = SubscriptionId(s)
    BY <1>0, <1>4, OpenedHasId, IdIsStable
  <2> QED BY <1>0, <1>1, <1>4, <2>3, <2>4 DEF SubscriptionOK
<1>5. CASE stage[s] # "active"
  BY <1>0, <1>1, <1>2, <1>3, <1>5 DEF SubscriptionOK
<1> QED BY <1>4, <1>5

\* The loop of handleClose ends the subscription it tells, and no other.
LEMMA TellKeepsSubscriptions ==
    ASSUME IInv, WaitInv, WiredInv, NEW t \in Subs, Tell(t), NEW s \in Subs
    PROVE  SubscriptionOK(s)'
<1>0. SubscriptionOK(s) /\ [Next]_vars
  BY DEF WiredInv, Next, Listener
<1>1. /\ UNCHANGED <<socket, closing, phase, conn, home, received,
                     subscriptions, notified>>
      /\ stage'[t] = "errored"
      /\ \A u \in Subs \ {t} : stage'[u] = stage[u]
  BY TellEffect DEF IInv, connVars, mapVars, opVars, serverVars
<1>2. CASE s = t
  BY <1>1, <1>2 DEF SubscriptionOK
<1>3. CASE s # t
  BY <1>0, <1>1, <1>3, Untouched
<1> QED BY <1>2, <1>3

\* When it has ended, no active subscription was on that connection: its
\* handler would be in the map, and the loop would have come to it.
LEMMA EndKeepsSubscriptions ==
    ASSUME IInv, WaitInv, WiredInv, EndClose, NEW s \in Subs
    PROVE  SubscriptionOK(s)'
<1>0. SubscriptionOK(s) /\ [Next]_vars
  BY DEF WiredInv, Next, Listener
<1>1. /\ UNCHANGED <<socket, phase, conn, stage, home, received, notified>>
      /\ \A t \in MapValues(subscriptions[closing]) : stage[t] # "active"
      /\ \A d \in Conns \ {closing} : subscriptions'[d] = subscriptions[d]
  BY EndCloseEffect DEF IInv, opVars, subVars, serverVars
<1>2. ASSUME stage[s] = "active" PROVE Wired(s)'
  <2>1. Wired(s) /\ home[s] \in Conns
    BY <1>0, <1>2, OpenedHasId DEF SubscriptionOK
  <2>2. home[s] # closing
    <3>1. s \in MapValues(subscriptions[home[s]])
      BY <2>1 DEF Wired, MapValues
    <3> QED BY <1>1, <1>2, <3>1
  <2> QED BY <1>0, <1>1, <1>2, <2>1, <2>2, WiredStays DEF Wired
<1> QED BY <1>0, <1>1, <1>2, Unmoved

\* The answer to a subscribe request comes over the open connection it was
\* sent on, and issues an id the server has sent nothing for.
LEMMA AnswerKeepsSubscriptions ==
    ASSUME IInv, WaitInv, WiredInv, NEW o \in Ops, Answer(o), NEW s \in Subs
    PROVE  SubscriptionOK(s)'
<1>0. SubscriptionOK(s) /\ [Next]_vars
  BY DEF WiredInv, Next, Event
<1>1. UNCHANGED <<socket, closing, conn, stage, home, received, subscriptions,
                  notified>>
  BY DEF Answer, connVars, closeVars, subVars
<1>2. CASE o # SubscribeOp(s)
  <2>1. phase'[SubscribeOp(s)] = phase[SubscribeOp(s)]
    BY <1>2, AnswerFrames, OpFacts
  <2> QED BY <1>0, <1>1, <2>1, Untouched
<1>3. CASE o = SubscribeOp(s)
  <2>1. /\ phase[o] = "sent"
        /\ conn[o] \in Conns /\ <<reqId[o], o>> \in inbox[conn[o]]
    BY AnswerEffect
  <2>2. stage[s] \notin {"attaching", "active"}
    BY <1>3, <2>1, OpenedHasId
  <2>3. CASE stage[s] = "requesting" /\ phase'[o] = "resolved"
    <3>1. PICK outcome \in {"failed", "resolved"},
               p \in Ops \X (SubIds \cup {Undefined}) :
                 /\ phase' = [phase EXCEPT ![o] = outcome]
                 /\ answer' = [answer EXCEPT ![o] = p]
                 /\ p[1] = o
                 /\ Issues(o, conn[o], outcome, p)
      BY AnswerEffect
    <3>2. /\ o[1] = s /\ o[2] = "subscribe" /\ outcome = "resolved"
          /\ answer'[o] = p
      BY <1>3, <2>3, <3>1 DEF SubscribeOp, IInv, TypeOK
    <3>3. PICK k \in SubIds : /\ issued[k] = Undefined
                              /\ issued' = [issued EXCEPT ![k] = <<conn[o], s>>]
                              /\ p = <<o, k>>
      BY <3>1, <3>2 DEF Issues
    <3>4. SubscriptionId(s)' = k
      BY <1>3, <3>2, <3>3 DEF SubscriptionId
    <3>5. issued'[k] = <<conn[o], s>>
      BY <3>3 DEF IInv, TypeOK
    <3>6. socket[conn[o]] = "open"
      BY <2>1 DEF IInv, OpenWires
    <3>7. notified[k] = 0
      BY <3>3 DEF WiredInv, UnissuedIsSilent
    <3>8. Issued(s, conn[o])'
      BY <1>1, <3>4, <3>5, <3>6 DEF Issued
    <3> QED
      BY <1>0, <1>1, <1>3, <2>3, <3>4, <3>7, <3>8 DEF SubscriptionOK
  <2>4. CASE ~(stage[s] = "requesting" /\ phase'[o] = "resolved")
    BY <1>0, <1>1, <1>3, <2>2, <2>4 DEF SubscriptionOK
  <2> QED BY <2>3, <2>4
<1> QED BY <1>2, <1>3

\* A notification of an active subscription is handed to it, and to nobody
\* else.
LEMMA NotifyKeepsSubscriptions ==
    ASSUME IInv, WaitInv, WiredInv, Orderly, NEW c \in Conns, NEW k \in SubIds,
           Notify(c, k), NEW s \in Subs
    PROVE  SubscriptionOK(s)'
<1>0. SubscriptionOK(s) /\ [Next]_vars
  BY DEF WiredInv, Next, Event
<1>1. /\ CanDispatch
      /\ issued[k][1] = c
      /\ notified' = [notified EXCEPT ![k] = @ + 1]
      /\ UNCHANGED <<socket, closing, phase, conn, answer, stage, home,
                     subscriptions, issued>>
  BY DEF Notify, connVars, closeVars, mapVars, opVars
<1>2. stage[s] # "attaching"
        /\ (stage[s] = "requesting" => phase[SubscribeOp(s)] # "resolved")
  BY <1>1, NoJobAtEvent
<1>3. \/ received'[s] = received[s]
      \/ k \in DOMAIN subscriptions[c] /\ subscriptions[c][k] = s
  <2>1. CASE received' = received
    BY <2>1
  <2>2. CASE /\ k \in DOMAIN subscriptions[c]
             /\ subscriptions[c][k] \in Subs
             /\ received' = [received EXCEPT
                    ![subscriptions[c][k]] = Append(@, k)]
    BY <2>2 DEF IInv, TypeOK
  <2> QED BY <2>1, <2>2, NotifyEffect DEF IInv
<1>4. CASE stage[s] = "active"
  <2>1. Wired(s) /\ Len(received[s]) = notified[SubscriptionId(s)]
    BY <1>0, <1>4 DEF SubscriptionOK
  <2>2. /\ SubscriptionId(s)' = SubscriptionId(s)
        /\ SubscriptionId(s) \in SubIds
    BY <1>0, <1>4, OpenedHasId, IdIsStable
  <2>3. Wired(s)'
    BY <1>1, <2>1, <2>2 DEF Wired
  <2>4. CASE SubscriptionId(s) = k
    <3>1. c = home[s]
      BY <1>1, <2>1, <2>4 DEF Wired
    <3>2. k \in DOMAIN subscriptions[c] /\ subscriptions[c][k] = s
      BY <2>1, <2>4, <3>1 DEF Wired
    <3>3. received' = [received EXCEPT ![s] = Append(@, k)]
      BY <3>2 DEF Notify, Deliver, Has
    <3>4. Len(received'[s]) = Len(received[s]) + 1
      BY <3>3 DEF IInv, TypeOK
    <3>5. notified'[k] = notified[k] + 1
      BY <1>1 DEF IInv, TypeOK
    <3> QED
      BY <1>1, <1>4, <2>1, <2>2, <2>3, <2>4, <3>4, <3>5 DEF SubscriptionOK
  <2>5. CASE SubscriptionId(s) # k
    <3>1. ~(k \in DOMAIN subscriptions[c] /\ subscriptions[c][k] = s)
      BY <2>5 DEF IInv, Handlers
    <3>2. received'[s] = received[s]
      BY <1>3, <3>1
    <3>3. notified'[SubscriptionId(s)] = notified[SubscriptionId(s)]
      BY <1>1, <2>2, <2>5 DEF IInv, TypeOK
    <3> QED
      BY <1>1, <1>4, <2>1, <2>2, <2>3, <3>2, <3>3 DEF SubscriptionOK
  <2> QED BY <2>4, <2>5
<1>5. CASE stage[s] # "active"
  <2>1. socket[c] = "open"
    BY DEF Notify
  <2>2. ~(k \in DOMAIN subscriptions[c] /\ subscriptions[c][k] = s)
    BY <1>5, <2>1 DEF IInv, Handlers
  <2>3. received'[s] = received[s]
    BY <1>3, <2>2
  <2> QED BY <1>0, <1>1, <1>2, <1>5, <2>3 DEF SubscriptionOK
<1> QED BY <1>4, <1>5

\* Every step keeps what is said of each subscription.
LEMMA SubscriptionsStep ==
    ASSUME IInv, WaitInv, WiredInv, Orderly, [Next]_vars, NEW s \in Subs
    PROVE  SubscriptionOK(s)'
<1>0. SubscriptionOK(s)
  BY DEF WiredInv
<1>1. ASSUME NEW c \in Conns, Open(c) PROVE SubscriptionOK(s)'
  <2>1. /\ UNCHANGED <<closing, phase, conn, stage, home, received,
                       subscriptions, notified>>
        /\ \A d \in Conns : socket[d] = "open" => socket'[d] = "open"
    BY <1>1
    DEF Open, IInv, TypeOK, closeVars, mapVars, opVars, subVars, serverVars
  <2> QED BY <1>0, <2>1, Untouched
<1>2. CASE UNCHANGED vars
  <2>1. UNCHANGED <<socket, closing, phase, conn, stage, home, received,
                    subscriptions, notified>>
    BY <1>2 DEF vars
  <2> QED BY <1>0, <2>1, Untouched
<1> QED
  BY <1>1, <1>2, UserKeepsSubscriptions, JobKeepsSubscriptions,
     CloseKeepsSubscriptions, TellKeepsSubscriptions,
     EndKeepsSubscriptions, AnswerKeepsSubscriptions,
     NotifyKeepsSubscriptions
  DEF Next, Event, Listener, OnErrorThrows, Orderly

\* Every step keeps the ids the server cancels or notifies among those it
\* issued.
LEMMA UnissuedStep ==
    ASSUME IInv, WaitInv, WiredInv, [Next]_vars PROVE UnissuedIsSilent'
<1> USE DEF WiredInv, UnissuedIsSilent
<1>1. ASSUME NEW o \in Ops, Answer(o) PROVE UnissuedIsSilent'
  <2>1. PICK c \in Conns : \E r \in inbox[c] : r[2] = o /\ Serve(o, c, r[1])
    BY <1>1 DEF Answer
  <2>2. \A k \in alive' : k \in alive \/ issued'[k] # Undefined
    <3>1. CASE alive' \subseteq alive
      BY <3>1
    <3>2. CASE /\ o[2] = "subscribe"
               /\ \E k \in SubIds :
                    /\ issued' = [issued EXCEPT ![k] = <<c, o[1]>>]
                    /\ alive' = alive \cup {k}
      <4>1. PICK k \in SubIds :
                    /\ issued' = [issued EXCEPT ![k] = <<c, o[1]>>]
                    /\ alive' = alive \cup {k}
        BY <3>2
      <4>2. <<c, o[1]>> \in Conns \X Subs
        BY <3>2, OpFacts
      <4>3. issued'[k] = <<c, o[1]>>
        BY <4>1 DEF IInv, TypeOK
      <4> QED BY <4>1, <4>2, <4>3, UndefinedAssumption
    <3> QED BY <2>1, <3>1, <3>2 DEF Serve
  <2>3. notified' = notified /\ alive \subseteq SubIds
    BY <1>1 DEF Answer, IInv, TypeOK
  <2> QED BY <2>2, <2>3, Stable
<1>2. ASSUME NEW c \in Conns, NEW k \in SubIds, Notify(c, k)
      PROVE  UnissuedIsSilent'
  <2>1. /\ k \in alive
        /\ notified' = [notified EXCEPT ![k] = @ + 1]
        /\ UNCHANGED <<issued, alive>>
    BY <1>2 DEF Notify
  <2> QED BY <2>1 DEF IInv, TypeOK
<1>3. CASE UNCHANGED <<issued, alive, notified>>
  BY <1>3
<1> QED
  BY <1>1, <1>2, <1>3
  DEF Next, User, Job, Event, vars, Request, Subscribe, Unsubscribe, Send,
      ConnectFailed, Reconnect, Attach, SubscribeFailed, Open, Close,
      Listener, Tell, EndClose, OnErrorThrows, serverVars

(***************************************************************************)
(* With a socket that lets jobs run between two events, and callbacks that *)
(* do not throw, every subscription is where events and closes look for    *)
(* it, from the answer that opens it on.                                   *)
(***************************************************************************)
THEOREM WiredInvariance == ASSUME Orderly PROVE Spec => []WiredInv
<1>1. Init => WiredInv
  BY InitWired
<1>2. IInv /\ WaitInv /\ WiredInv /\ [Next]_vars => WiredInv'
  BY SubscriptionsStep, UnissuedStep DEF WiredInv
<1> QED BY <1>1, <1>2, Invariance, WaitInvariance, PTL DEF Spec

(***************************************************************************)
(* A subscription the user believes active has its handler on the          *)
(* connection that issued its id, although subscribe() connects a second   *)
(* time after its answer, and that connection is open, or its handleClose  *)
(* is still telling its subscriptions, whatever they call.                 *)
(***************************************************************************)
THEOREM SubscriptionsAreWired ==
    ASSUME Orderly PROVE Spec => []ActiveSubscriptionIsWired
<1>1. WiredInv => ActiveSubscriptionIsWired
  BY DEF WiredInv, SubscriptionOK, Wired, Has, ActiveSubscriptionIsWired
<1> QED BY <1>1, WiredInvariance, PTL

(***************************************************************************)
(* An active subscription was given every event the server sent it, those  *)
(* right behind the answer to its subscribe included.                      *)
(***************************************************************************)
THEOREM NotificationsAreNotMissed ==
    ASSUME Orderly PROVE Spec => []NoNotificationMissed
<1>1. WiredInv => NoNotificationMissed
  BY DEF WiredInv, SubscriptionOK, NoNotificationMissed
<1> QED BY <1>1, WiredInvariance, PTL
=============================================================================
