------------------------- MODULE WebSocketTransport -------------------------
(***************************************************************************)
(* The JSON-RPC transport over a WebSocket that createWebSocketTransport   *)
(* returns (src/src/transports/webSocket.ts).                              *)
(*                                                                         *)
(* One JavaScript thread runs three kinds of step, and this module has one *)
(* action per step:                                                        *)
(*   - user code calls request, subscribe or unsubscribe: the call runs up *)
(*     to its first await;                                                 *)
(*   - a job (microtask) resumes an async function after an await;         *)
(*   - the socket dispatches an event (open, message, close) to the        *)
(*     listener of its own connection.                                     *)
(* The listener of close calls the onError of every subscription before it *)
(* forgets the connection, and an onError may call the transport again, so *)
(* that one listener is a sequence of actions here (Close, Tell, EndClose, *)
(* OnErrorThrows), between which the user acts and nothing else does.      *)
(* Whether a socket may dispatch an event while jobs are waiting depends   *)
(* on its implementation: a browser runs the jobs between two events, a    *)
(* socket that emits several events from one callback does not (Node       *)
(* libraries, the FakeWebSocket of test/client.test.ts).  The constant     *)
(* EventsWaitForJobs says which socket is modelled.                        *)
(*                                                                         *)
(* Jobs are resumed in any order, where the engine uses queue order: the   *)
(* model has more behaviours than the code, never fewer.                   *)
(***************************************************************************)
EXTENDS Naturals, Sequences, JsMaps

CONSTANTS
    Calls,              \* calls of transport.request made by user code
    Subs,               \* calls of transport.subscribe made by user code
    Conns,              \* WebSocketState objects: a socket and its two maps
    SubIds,             \* subscription ids the server hands out
    Undefined,          \* JavaScript's undefined
    MaxNotify,          \* bound: notifications the server sends for one id
    EventsWaitForJobs,  \* the socket dispatches only when no job is waiting
    CallsInOnError,     \* onError callbacks may call the transport
    Faults              \* what may go wrong outside the transport's code

(***************************************************************************)
(* The faults: a connection attempt fails (close without open), the        *)
(* factory of sockets throws, JSON.stringify or socket.send throws, the    *)
(* onError callback of a subscription throws.                              *)
(***************************************************************************)
FaultKinds ==
    {"closeBeforeOpen", "factoryThrows", "sendThrows", "onErrorThrows"}

\* One op per invocation of the function request: a subscribe call invokes
\* it for <ns>_subscribe, and its unsubscribe for <ns>_unsubscribe.
Ops == (Calls \X {"request"}) \cup (Subs \X {"subscribe", "unsubscribe"})

ASSUME ConstantsAssumption ==
    /\ Undefined \notin Calls \cup Subs \cup Conns \cup SubIds
    /\ Undefined \notin Nat
    /\ MaxNotify \in Nat
    /\ EventsWaitForJobs \in BOOLEAN
    /\ CallsInOnError \in BOOLEAN
    /\ Faults \subseteq FaultKinds

\* undefined is not a pair either.
ASSUME UndefinedAssumption ==
    /\ Undefined \notin Conns \X Subs
    /\ Undefined \notin Ops \X (SubIds \cup {Undefined})

SubscribeOp(s) == <<s, "subscribe">>
UnsubscribeOp(s) == <<s, "unsubscribe">>

VARIABLES
    \* The closure of createWebSocketTransport, and the connections it made.
    statePromise,       \* the connection whose promise it holds, or Undefined
    promise,            \* what became of the promise of each connection
    socket,             \* what became of each socket
    closing,            \* the connection whose handleClose is running
    telling,            \* the sub whose onError it has called last
    aborted,            \* history: connections whose handleClose threw
    nextId,             \* state.nextId
    pendingRequests,    \* state.pendingRequests: request id -> op
    subscriptions,      \* state.subscriptions: subscription id -> sub
    \* The frames of request: one per op.
    phase,              \* where the op is
    conn,               \* the connection it awaits, later its `state`
    reqId,              \* its `id`
    answer,             \* the payload that settled it: <<op served, result>>
    unheard,            \* history: ops that missed their connection's close
    \* The frames of subscribe: one per sub.
    stage,              \* where the subscription is
    home,               \* the connection of its second connect()
    received,           \* history: subscription ids of the events onData got
    \* The server.
    inbox,              \* requests received and not answered: <<id, op>>
    issued,             \* whom a subscription id was issued to: <<conn, sub>>
    alive,              \* subscription ids not cancelled
    notified            \* notifications sent for each subscription id

connVars == <<statePromise, promise, socket>>
closeVars == <<closing, telling, aborted, unheard>>
mapVars == <<nextId, pendingRequests, subscriptions>>
opVars == <<phase, conn, reqId, answer>>
subVars == <<stage, home, received>>
serverVars == <<inbox, issued, alive, notified>>
vars == <<statePromise, promise, socket, closing, telling, aborted, unheard,
          nextId, pendingRequests, subscriptions, phase, conn, reqId, answer,
          stage, home, received, inbox, issued, alive, notified>>

Init ==
    /\ statePromise = Undefined
    /\ promise = [c \in Conns |-> "none"]
    /\ socket = [c \in Conns |-> "none"]
    /\ closing = Undefined
    /\ telling = Undefined
    /\ aborted = {}
    /\ unheard = {}
    /\ nextId = [c \in Conns |-> 1]
    /\ pendingRequests = [c \in Conns |-> EmptyMap]
    /\ subscriptions = [c \in Conns |-> EmptyMap]
    /\ phase = [o \in Ops |-> "idle"]
    /\ conn = [o \in Ops |-> Undefined]
    /\ reqId = [o \in Ops |-> 0]
    /\ answer = [o \in Ops |-> Undefined]
    /\ stage = [s \in Subs |-> "idle"]
    /\ home = [s \in Subs |-> Undefined]
    /\ received = [s \in Subs |-> <<>>]
    /\ inbox = [c \in Conns |-> {}]
    /\ issued = [k \in SubIds |-> Undefined]
    /\ alive = {}
    /\ notified = [k \in SubIds |-> 0]

-----------------------------------------------------------------------------
\* Mutated form: statePromise is not assigned until the socket opens.
ConnectUncached(c) ==
    /\ promise[c] = "none"
    /\ promise' = [promise EXCEPT ![c] = "pending"]
    /\ socket' = [socket EXCEPT ![c] = "connecting"]
    /\ UNCHANGED statePromise

(***************************************************************************)
(* connect(): the connection a caller awaits.  A throw of createWebSocket  *)
(* happens inside the promise's executor, so it rejects that promise, and  *)
(* statePromise keeps it.                                                  *)
(***************************************************************************)
Connect(c) ==
    \/ /\ statePromise # Undefined
       /\ c = statePromise
       /\ UNCHANGED connVars
    \/ /\ statePromise = Undefined
       /\ promise[c] = "none"
       /\ statePromise' = c
       /\ \/ /\ promise' = [promise EXCEPT ![c] = "pending"]
             /\ socket' = [socket EXCEPT ![c] = "connecting"]
          \/ /\ "factoryThrows" \in Faults
             /\ promise' = [promise EXCEPT ![c] = "rejected"]
             /\ UNCHANGED socket

\* The user's code runs between two listeners, and inside an onError.
UserRuns ==
    closing # Undefined => CallsInOnError /\ telling # Undefined

\* request() up to `await connect()`.  A call made in an onError gets the
\* connection that is closing, whose pending requests were rejected before.
CallRequest(o) ==
    /\ UserRuns
    /\ phase[o] = "idle"
    /\ unheard' = IF closing = Undefined THEN unheard ELSE unheard \cup {o}
    /\ UNCHANGED <<closing, telling, aborted>>
    /\ \E c \in Conns :
        /\ Connect(c)
        /\ conn' = [conn EXCEPT ![o] = c]
    /\ phase' = [phase EXCEPT ![o] = "connecting"]
    /\ UNCHANGED <<reqId, answer>>

Settled(c) == promise[c] \in {"fulfilled", "rejected"}

\* Some async function can be resumed.
JobWaiting ==
    \/ \E o \in Ops : phase[o] = "connecting" /\ Settled(conn[o])
    \/ \E s \in Subs :
        \/ stage[s] = "requesting"
           /\ phase[SubscribeOp(s)] \notin {"connecting", "sent"}
        \/ stage[s] = "attaching" /\ Settled(home[s])

CanDispatch ==
    /\ closing = Undefined
    /\ EventsWaitForJobs => ~JobWaiting

-----------------------------------------------------------------------------
(***************************************************************************)
(* User code.                                                              *)
(***************************************************************************)
Request(call) ==
    /\ CallRequest(<<call, "request">>)
    /\ UNCHANGED <<mapVars, subVars, serverVars>>

Subscribe(s) ==
    /\ stage[s] = "idle"
    /\ stage' = [stage EXCEPT ![s] = "requesting"]
    /\ CallRequest(SubscribeOp(s))
    /\ UNCHANGED <<mapVars, home, received, serverVars>>

\* The subscription id subscribe() got from the server.
SubscriptionId(s) == answer[SubscribeOp(s)][2]

\* Mutated form: the handler stays until the server has answered.
RemoveLater(s) == UNCHANGED subscriptions

\* Mutated form: clear() for delete().
RemoveAll(s) ==
    subscriptions' = [subscriptions EXCEPT ![home[s]] = EmptyMap]

RemoveHandler(s) ==
    subscriptions' = [subscriptions EXCEPT
        ![home[s]] = MapDelete(@, SubscriptionId(s))]

\* The unsubscribe function of the RpcSubscription; called at most once.
Unsubscribe(s) ==
    /\ stage[s] \in {"active", "errored"}
    /\ RemoveHandler(s)
    /\ stage' = [stage EXCEPT ![s] = "unsubscribed"]
    /\ CallRequest(UnsubscribeOp(s))
    /\ UNCHANGED <<nextId, pendingRequests, home, received, serverVars>>

-----------------------------------------------------------------------------
(***************************************************************************)
(* Jobs.                                                                   *)
(***************************************************************************)

\* Mutated form: the id is used again.
TakeSameId(c) == UNCHANGED nextId

TakeId(c) == nextId' = [nextId EXCEPT ![c] = @ + 1]

\* request() after `await connect()`.  A socket that is not open any more
\* discards what is sent on it.  A throw while sending rejects the promise
\* and leaves the entry in the map.
Send(o) ==
    LET c == conn[o]
        id == nextId[c]
    IN  /\ closing = Undefined
        /\ phase[o] = "connecting"
        /\ promise[c] = "fulfilled"
        /\ TakeId(c)
        /\ reqId' = [reqId EXCEPT ![o] = id]
        /\ pendingRequests' = [pendingRequests EXCEPT
               ![c] = MapSet(@, id, o)]
        /\ \/ /\ phase' = [phase EXCEPT ![o] = "sent"]
              /\ inbox' = IF socket[c] = "open"
                          THEN [inbox EXCEPT ![c] = @ \cup {<<id, o>>}]
                          ELSE inbox
           \/ /\ "sendThrows" \in Faults
              /\ phase' = [phase EXCEPT ![o] = "unsent"]
              /\ UNCHANGED inbox
        /\ UNCHANGED <<connVars, closeVars, subscriptions, conn, answer,
                       subVars, issued, alive, notified>>

\* request() when the promise it awaits was rejected.
ConnectFailed(o) ==
    /\ closing = Undefined
    /\ phase[o] = "connecting"
    /\ promise[conn[o]] = "rejected"
    /\ phase' = [phase EXCEPT ![o] = "unavailable"]
    /\ UNCHANGED <<connVars, closeVars, mapVars, conn, reqId, answer,
                   subVars, serverVars>>

\* subscribe() after `await request(...)`: it connects a second time.
Reconnect(s) ==
    /\ closing = Undefined
    /\ stage[s] = "requesting"
    /\ phase[SubscribeOp(s)] = "resolved"
    /\ \E c \in Conns :
        /\ Connect(c)
        /\ home' = [home EXCEPT ![s] = c]
    /\ stage' = [stage EXCEPT ![s] = "attaching"]
    /\ UNCHANGED <<closeVars, mapVars, opVars, received, serverVars>>

\* subscribe() after the second `await connect()`.
Attach(s) ==
    /\ closing = Undefined
    /\ stage[s] = "attaching"
    /\ promise[home[s]] = "fulfilled"
    /\ subscriptions' = [subscriptions EXCEPT
           ![home[s]] = MapSet(@, SubscriptionId(s), s)]
    /\ stage' = [stage EXCEPT ![s] = "active"]
    /\ UNCHANGED <<connVars, closeVars, nextId, pendingRequests, opVars,
                   home, received, serverVars>>

\* subscribe() when a promise it awaits was rejected.
SubscribeFailed(s) ==
    /\ closing = Undefined
    /\ \/ /\ stage[s] = "requesting"
          /\ phase[SubscribeOp(s)] \in
                 {"failed", "closed", "unsent", "unavailable"}
       \/ /\ stage[s] = "attaching"
          /\ promise[home[s]] = "rejected"
    /\ stage' = [stage EXCEPT ![s] = "failed"]
    /\ UNCHANGED <<connVars, closeVars, mapVars, opVars, home, received,
                   serverVars>>

-----------------------------------------------------------------------------
(***************************************************************************)
(* Socket events.                                                          *)
(***************************************************************************)

\* handleOpen
Open(c) ==
    /\ CanDispatch
    /\ socket[c] = "connecting"
    /\ socket' = [socket EXCEPT ![c] = "open"]
    /\ promise' = [promise EXCEPT ![c] = "fulfilled"]
    /\ UNCHANGED <<statePromise, closeVars, mapVars, opVars, subVars,
                   serverVars>>

\* Mutated form: the loop over the pending requests is missing.
RejectNone(c) ==
    /\ pendingRequests' = [pendingRequests EXCEPT ![c] = EmptyMap]
    /\ UNCHANGED phase

\* The first loop of handleClose.  A promise that has settled stays settled.
RejectPending(c) ==
    /\ phase' = [o \in Ops |->
           IF o \in MapValues(pendingRequests[c]) /\ phase[o] = "sent"
           THEN "closed"
           ELSE phase[o]]
    /\ pendingRequests' = [pendingRequests EXCEPT ![c] = EmptyMap]

\* handleClose up to its second loop.  Who still awaits connect() is not
\* told.  Bound: the last of Conns is never closed, so that a later
\* connect() always finds a connection to create.
Close(c) ==
    /\ CanDispatch
    /\ \/ socket[c] = "open"
       \/ socket[c] = "connecting" /\ "closeBeforeOpen" \in Faults
    /\ \E d \in Conns : promise[d] = "none"
    /\ socket' = [socket EXCEPT ![c] = "closed"]
    /\ inbox' = [inbox EXCEPT ![c] = {}]
    /\ RejectPending(c)
    /\ closing' = c
    /\ unheard' = unheard \cup
           {o \in Ops : phase[o] = "connecting" /\ conn[o] = c}
    /\ UNCHANGED <<statePromise, promise, telling, aborted, nextId,
                   subscriptions, conn, reqId, answer, subVars, issued, alive,
                   notified>>

\* Mutated form: the loop over the subscriptions is missing.
UntoldNone(c) == {}

\* The subscriptions the second loop of handleClose has yet to reach.  One
\* that an onError unsubscribes leaves the map and is not reached any more.
Untold(c) == {s \in MapValues(subscriptions[c]) : stage[s] = "active"}

\* The loop calls the onError of a subscription, in any order of the map.
Tell(s) ==
    /\ closing # Undefined
    /\ s \in Untold(closing)
    /\ stage' = [stage EXCEPT ![s] = "errored"]
    /\ telling' = s
    /\ UNCHANGED <<connVars, closing, aborted, unheard, mapVars, opVars,
                   home, received, serverVars>>

\* Mutated form: statePromise is not reset.
ForgetHandlers(c) ==
    /\ subscriptions' = [subscriptions EXCEPT ![c] = EmptyMap]
    /\ UNCHANGED statePromise

Forget(c) ==
    /\ subscriptions' = [subscriptions EXCEPT ![c] = EmptyMap]
    /\ statePromise' = Undefined

\* The rest of handleClose.
EndClose ==
    /\ closing # Undefined
    /\ Untold(closing) = {}
    /\ Forget(closing)
    /\ closing' = Undefined
    /\ telling' = Undefined
    /\ UNCHANGED <<promise, socket, aborted, unheard, nextId,
                   pendingRequests, opVars, subVars, serverVars>>

\* An onError that throws leaves handleClose at once: the subscriptions
\* after it are not told, and neither the map nor statePromise is reset.
OnErrorThrows ==
    /\ "onErrorThrows" \in Faults
    /\ telling # Undefined
    /\ aborted' = aborted \cup {closing}
    /\ closing' = Undefined
    /\ telling' = Undefined
    /\ UNCHANGED <<connVars, unheard, mapVars, opVars, subVars, serverVars>>

\* Mutated form: an error payload is dropped.
FinishResultsOnly(o, outcome, payload) ==
    IF outcome = "resolved"
    THEN /\ phase' = [phase EXCEPT ![o] = "resolved"]
         /\ answer' = [answer EXCEPT ![o] = payload]
    ELSE UNCHANGED <<phase, answer>>

\* Mutated form: an error payload resolves the request.
FinishAlwaysResolving(o, outcome, payload) ==
    /\ phase' = [phase EXCEPT ![o] = "resolved"]
    /\ answer' = [answer EXCEPT ![o] = payload]

\* The promise of a pending request settles, with what the server sent.
Finish(o, outcome, payload) ==
    /\ phase' = [phase EXCEPT ![o] = outcome]
    /\ answer' = [answer EXCEPT ![o] = payload]

\* handleMessage, for a payload with an id.
Settle(c, id, outcome, payload) ==
    IF Has(pendingRequests[c], id)
    THEN /\ pendingRequests' = [pendingRequests EXCEPT
                ![c] = MapDelete(@, id)]
         /\ Finish(pendingRequests[c][id], outcome, payload)
    ELSE UNCHANGED <<pendingRequests, phase, answer>>

\* What the server does with a request and answers: it refuses it; it
\* serves it, and cancels a subscription of that connection when asked; it
\* opens a subscription, under an id it never used.
Serve(o, c, id) ==
    \/ /\ Settle(c, id, "failed", <<o, Undefined>>)
       /\ UNCHANGED <<issued, alive>>
    \/ /\ o[2] # "subscribe"
       /\ Settle(c, id, "resolved", <<o, Undefined>>)
       /\ alive' = IF /\ o[2] = "unsubscribe"
                      /\ issued[SubscriptionId(o[1])][1] = c
                   THEN alive \ {SubscriptionId(o[1])}
                   ELSE alive
       /\ UNCHANGED issued
    \/ /\ o[2] = "subscribe"
       /\ \E k \in SubIds :
           /\ issued[k] = Undefined
           /\ issued' = [issued EXCEPT ![k] = <<c, o[1]>>]
           /\ alive' = alive \cup {k}
           /\ Settle(c, id, "resolved", <<o, k>>)

\* The server answers a request it received, in any order, and the socket
\* dispatches the answer.
Answer(o) ==
    /\ CanDispatch
    /\ \E c \in Conns : \E request \in inbox[c] :
        /\ request[2] = o
        /\ inbox' = [inbox EXCEPT ![c] = @ \ {request}]
        /\ Serve(o, c, request[1])
    /\ UNCHANGED <<connVars, closeVars, nextId, subscriptions, conn, reqId,
                   subVars, notified>>

\* Mutated form: every handler of the connection gets the event.
DeliverToAll(c, k) ==
    received' = [s \in Subs |->
        IF s \in MapValues(subscriptions[c])
        THEN Append(received[s], k)
        ELSE received[s]]

\* handleMessage, for a notification.  It takes those of the method
\* tos_subscription, which this server uses for every subscription, and
\* ignores any other.
Deliver(c, k) ==
    received' = IF Has(subscriptions[c], k)
                THEN [received EXCEPT ![subscriptions[c][k]] = Append(@, k)]
                ELSE received

\* The server notifies subscription k and handleMessage looks its handler up
\* in the maps of the connection the notification came on.
Notify(c, k) ==
    /\ CanDispatch
    /\ socket[c] = "open"
    /\ k \in alive
    /\ issued[k][1] = c
    /\ notified[k] < MaxNotify
    /\ notified' = [notified EXCEPT ![k] = @ + 1]
    /\ Deliver(c, k)
    /\ UNCHANGED <<connVars, closeVars, mapVars, opVars, stage, home, inbox,
                   issued, alive>>

-----------------------------------------------------------------------------
User ==
    \/ \E call \in Calls : Request(call)
    \/ \E s \in Subs : Subscribe(s) \/ Unsubscribe(s)

Job ==
    \/ \E o \in Ops : Send(o) \/ ConnectFailed(o)
    \/ \E s \in Subs : Reconnect(s) \/ Attach(s) \/ SubscribeFailed(s)

Event ==
    \/ \E c \in Conns : Open(c) \/ Close(c)
    \/ \E o \in Ops : Answer(o)
    \/ \E c \in Conns, k \in SubIds : Notify(c, k)

Listener ==
    \/ \E s \in Subs : Tell(s)
    \/ EndClose
    \/ OnErrorThrows

Next == User \/ Job \/ Event \/ Listener

Spec == Init /\ [][Next]_vars
-----------------------------------------------------------------------------
(***************************************************************************)
(* Properties.                                                             *)
(***************************************************************************)
Phases == {"idle", "connecting", "sent", "resolved", "failed", "closed",
           "unsent", "unavailable"}
Stages == {"idle", "requesting", "attaching", "active", "errored",
           "unsubscribed", "failed"}

(***************************************************************************)
(* Every variable has its type; the ids in a connection's map and on its   *)
(* wire are ids it has already used.                                       *)
(***************************************************************************)
TypeOK ==
    /\ statePromise \in Conns \cup {Undefined}
    /\ promise \in [Conns -> {"none", "pending", "fulfilled", "rejected"}]
    /\ socket \in [Conns -> {"none", "connecting", "open", "closed"}]
    /\ closing \in Conns \cup {Undefined}
    /\ telling \in Subs \cup {Undefined}
    /\ aborted \subseteq Conns
    /\ unheard \subseteq Ops
    /\ nextId \in [Conns -> Nat \ {0}]
    /\ DOMAIN pendingRequests = Conns
    /\ DOMAIN subscriptions = Conns
    /\ DOMAIN inbox = Conns
    /\ \A c \in Conns :
        /\ IsMap(pendingRequests[c], 1 .. nextId[c] - 1, Ops)
        /\ IsMap(subscriptions[c], SubIds, Subs)
        /\ inbox[c] \subseteq (1 .. nextId[c] - 1) \X Ops
    /\ phase \in [Ops -> Phases]
    /\ conn \in [Ops -> Conns \cup {Undefined}]
    /\ reqId \in [Ops -> Nat]
    /\ answer \in [Ops -> (Ops \X (SubIds \cup {Undefined}))
                            \cup {Undefined}]
    /\ stage \in [Subs -> Stages]
    /\ home \in [Subs -> Conns \cup {Undefined}]
    /\ received \in [Subs -> Seq(SubIds)]
    /\ issued \in [SubIds -> (Conns \X Subs) \cup {Undefined}]
    /\ alive \subseteq SubIds
    /\ notified \in [SubIds -> 0 .. MaxNotify]

(***************************************************************************)
(* A transport never holds two sockets: one that is connecting or open is  *)
(* the one statePromise stands for.                                        *)
(***************************************************************************)
OneLiveSocket ==
    \A c \in Conns :
        socket[c] \in {"connecting", "open"} => statePromise = c

(***************************************************************************)
(* The payload that settles a request is the server's answer to that very  *)
(* request, although ids start again at 1 on each connection.              *)
(***************************************************************************)
ResponseMatchesRequest ==
    \A o \in Ops : answer[o] # Undefined => answer[o][1] = o

(***************************************************************************)
(* onData is only called with events of its own subscription.              *)
(***************************************************************************)
NotificationsReachOwner ==
    \A s \in Subs : \A i \in 1 .. Len(received[s]) :
        issued[received[s][i]][2] = s

(***************************************************************************)
(* onData is never called after unsubscribe() was called, after onError    *)
(* was called, or after subscribe() was rejected.                          *)
(***************************************************************************)
SilentAfterEnd ==
    [][\A s \in Subs :
        stage[s] \in {"unsubscribed", "errored", "failed"}
            => received'[s] = received[s]]_vars

(***************************************************************************)
(* A request that waits for its answer waits on an open socket, whose      *)
(* close will reject it, in the map where its answer will look for it.     *)
(* The only ones that do not are those that missed the close of their      *)
(* connection, because they were called in an onError or the close came    *)
(* between their call and the job that sends, and those of a connection    *)
(* whose handleClose was left by an onError that threw.                    *)
(***************************************************************************)
NoOrphanedRequest ==
    \A o \in Ops :
        phase[o] = "sent" /\ o \notin unheard /\ conn[o] \notin aborted =>
        /\ socket[conn[o]] = "open"
        /\ Has(pendingRequests[conn[o]], reqId[o])
        /\ pendingRequests[conn[o]][reqId[o]] = o

(***************************************************************************)
(* A subscription the user believes active has its handler on the          *)
(* connection that issued its id, and that connection is open, or its      *)
(* handleClose is at work and will come to this handler: the subscription  *)
(* can get events, and it will be told when the connection closes.         *)
(***************************************************************************)
ActiveSubscriptionIsWired ==
    \A s \in Subs : stage[s] = "active" =>
        LET k == SubscriptionId(s)
        IN  /\ issued[k] = <<home[s], s>>
            /\ socket[home[s]] = "open" \/ closing = home[s]
            /\ Has(subscriptions[home[s]], k)
            /\ subscriptions[home[s]][k] = s

(***************************************************************************)
(* An active subscription has been given every event the server sent it,   *)
(* the ones right behind the answer to its subscribe included.             *)
(***************************************************************************)
NoNotificationMissed ==
    \A s \in Subs : stage[s] = "active" =>
        Len(received[s]) = notified[SubscriptionId(s)]

(***************************************************************************)
(* The transport implements RpcSession: its connections, ids and maps      *)
(* cannot be told apart by a user who sees promises and callbacks only.    *)
(***************************************************************************)
CallOf(o) ==
    CASE phase[o] = "idle" -> "idle"
      [] phase[o] \in {"connecting", "sent"} -> "pending"
      [] phase[o] = "resolved" -> "resolved"
      [] OTHER -> "rejected"

WatchOf(s) ==
    CASE stage[s] \in {"requesting", "attaching"} -> "opening"
      [] stage[s] = "active" -> "watching"
      [] stage[s] = "errored" -> "lost"
      [] stage[s] = "unsubscribed" -> "stopped"
      [] OTHER -> stage[s]

Session == INSTANCE RpcSession WITH
    call <- [o \in Ops |-> CallOf(o)],
    payload <- answer,
    watch <- [s \in Subs |-> WatchOf(s)],
    events <- received

ImplementsSession == Session!Spec

(***************************************************************************)
(* Liveness.  The engine runs every job that waits, and a listener to its  *)
(* end; a connection attempt ends one way or the other; the server answers *)
(* every request, or closes the connection.  Nothing makes the user call   *)
(* or the server notify.                                                   *)
(***************************************************************************)
Fairness ==
    /\ \A o \in Ops : /\ WF_vars(Send(o))
                      /\ WF_vars(ConnectFailed(o))
                      /\ WF_vars(Answer(o))
    /\ \A s \in Subs : /\ WF_vars(Reconnect(s))
                       /\ WF_vars(Attach(s))
                       /\ WF_vars(SubscribeFailed(s))
                       /\ WF_vars(Tell(s))
    /\ WF_vars(EndClose)
    /\ \A c \in Conns : WF_vars(Open(c) \/ Close(c))

FairSpec == Spec /\ Fairness

Waiting(o) == phase[o] \in {"connecting", "sent"}
Opening(s) == stage[s] \in {"requesting", "attaching"}

(***************************************************************************)
(* Every request() settles, unless it missed the close of its connection:  *)
(* it awaited the connection then, or was called in an onError.            *)
(***************************************************************************)
CallsSettle ==
    \A o \in Ops : Waiting(o) ~> ~Waiting(o) \/ o \in unheard

(***************************************************************************)
(* Every subscribe() settles, with the same exception: the subscription is *)
(* active in the end, or the user is told that it is not.                  *)
(***************************************************************************)
SubscribesSettle ==
    \A s \in Subs : Opening(s) ~> ~Opening(s) \/ SubscribeOp(s) \in unheard

(***************************************************************************)
(* Every request() settles: it is resolved or rejected in the end.         *)
(***************************************************************************)
EveryCallSettles == \A o \in Ops : Waiting(o) ~> ~Waiting(o)

(***************************************************************************)
(* Every subscribe() settles: the subscription is active in the end, or    *)
(* the user is told that it is not.                                        *)
(***************************************************************************)
EverySubscribeSettles == \A s \in Subs : Opening(s) ~> ~Opening(s)
=============================================================================
