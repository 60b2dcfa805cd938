----------------------------- MODULE RpcSession -----------------------------
(***************************************************************************)
(* What the interface of a subscription transport promises its user        *)
(* (RpcTransport, RpcSubscription and SubscriptionTransport in             *)
(* src/src/types/client.ts), with no connection, id or message in sight:   *)
(*   - a request is resolved or rejected at most once, and a payload that  *)
(*     settles it was made for it;                                         *)
(*   - a subscription gives its user events of its own id, from the moment *)
(*     subscribe() resolves until the user stops it or it reports an       *)
(*     error, and none before or after;                                    *)
(*   - losing the connection rejects requests and ends subscriptions.      *)
(* WebSocketTransport implements this specification.                       *)
(***************************************************************************)
EXTENDS Naturals, Sequences

CONSTANTS Calls, Subs, SubIds, Undefined

Ops == (Calls \X {"request"}) \cup (Subs \X {"subscribe", "unsubscribe"})

VARIABLES
    call,       \* the promise of each request
    payload,    \* what the server said to it: <<request, result>>
    watch,      \* the life of each subscription
    events      \* the events given to its onData

vars == <<call, payload, watch, events>>

Init ==
    /\ call = [o \in Ops |-> "idle"]
    /\ payload = [o \in Ops |-> Undefined]
    /\ watch = [s \in Subs |-> "idle"]
    /\ events = [s \in Subs |-> <<>>]

Invoke(o) ==
    /\ call[o] = "idle"
    /\ call' = [call EXCEPT ![o] = "pending"]
    /\ UNCHANGED <<payload, events>>

Request(r) ==
    /\ Invoke(<<r, "request">>)
    /\ UNCHANGED watch

Subscribe(s) ==
    /\ watch[s] = "idle"
    /\ watch' = [watch EXCEPT ![s] = "opening"]
    /\ Invoke(<<s, "subscribe">>)

Unsubscribe(s) ==
    /\ watch[s] \in {"watching", "lost"}
    /\ watch' = [watch EXCEPT ![s] = "stopped"]
    /\ Invoke(<<s, "unsubscribe">>)

\* The server answers; no two subscriptions get the same id.
Resolve(o) ==
    /\ call[o] = "pending"
    /\ call' = [call EXCEPT ![o] = "resolved"]
    /\ \E result \in SubIds \cup {Undefined} :
        /\ o[2] = "subscribe" <=> result # Undefined
        /\ result # Undefined =>
            \A p \in Ops : payload[p] # Undefined => payload[p][2] # result
        /\ payload' = [payload EXCEPT ![o] = <<o, result>>]
    /\ UNCHANGED <<watch, events>>

\* The request fails before it is sent, or the server refuses it.
Reject(o) ==
    /\ call[o] = "pending"
    /\ call' = [call EXCEPT ![o] = "rejected"]
    /\ payload' \in {payload, [payload EXCEPT ![o] = <<o, Undefined>>]}
    /\ UNCHANGED <<watch, events>>

Opened(s) ==
    /\ watch[s] = "opening"
    /\ call[<<s, "subscribe">>] = "resolved"
    /\ watch' = [watch EXCEPT ![s] = "watching"]
    /\ UNCHANGED <<call, payload, events>>

OpenFailed(s) ==
    /\ watch[s] = "opening"
    /\ call[<<s, "subscribe">>] \in {"resolved", "rejected"}
    /\ watch' = [watch EXCEPT ![s] = "failed"]
    /\ UNCHANGED <<call, payload, events>>

Event(s) ==
    /\ watch[s] = "watching"
    /\ events' = [events EXCEPT
           ![s] = Append(@, payload[<<s, "subscribe">>][2])]
    /\ UNCHANGED <<call, payload, watch>>

\* The connection is lost to some requests and to some subscriptions.
ConnectionLost ==
    /\ \E O \in SUBSET {o \in Ops : call[o] = "pending"} :
        call' = [o \in Ops |-> IF o \in O THEN "rejected" ELSE call[o]]
    /\ \E S \in SUBSET {s \in Subs : watch[s] = "watching"} :
        watch' = [s \in Subs |-> IF s \in S THEN "lost" ELSE watch[s]]
    /\ UNCHANGED <<payload, events>>

Next ==
    \/ \E r \in Calls : Request(r)
    \/ \E s \in Subs : Subscribe(s) \/ Unsubscribe(s) \/ Opened(s)
                       \/ OpenFailed(s) \/ Event(s)
    \/ \E o \in Ops : Resolve(o) \/ Reject(o)
    \/ ConnectionLost

Spec == Init /\ [][Next]_vars
=============================================================================
