--------------------------- MODULE ReceiptPolling ---------------------------
(***************************************************************************)
(* waitForTransactionReceipt of the public client                          *)
(* (src/src/clients/createPublicClient.ts): one call, the clock it reads,  *)
(* and the node it polls.  Time is a count of units; every step but Tick   *)
(* takes none.                                                             *)
(***************************************************************************)
EXTENDS Naturals

CONSTANTS
    PollInterval,   \* pollIntervalMs
    Timeouts,       \* the timeoutMs a caller may give
    MaxLag,         \* how late a response or a timer may be (the network's
                    \* and the event loop's; the code bounds neither)
    Horizon         \* bound: the clock stops there

ASSUME TimeAssumption ==
    /\ PollInterval \in Nat
    /\ Timeouts \subseteq Nat
    /\ MaxLag \in Nat
    /\ Horizon \in Nat

VARIABLES
    now,            \* Date.now()
    status,         \* where the call is
    start,          \* when it was made
    deadline,       \* its deadline
    since,          \* when it last sent a request
    receipt,        \* whether the response it awaits holds the receipt
    wakeAt,         \* when the timer of delay() is due
    mined,          \* the node has the receipt
    minedAt         \* since when

vars == <<now, status, start, deadline, since, receipt, wakeAt, mined,
          minedAt>>

Running == {"polling", "answered", "sleeping"}

Init ==
    /\ now = 0
    /\ status = "idle"
    /\ start = 0 /\ deadline = 0 /\ since = 0 /\ wakeAt = 0 /\ minedAt = 0
    /\ receipt = FALSE /\ mined = FALSE

\* Mutated form: the deadline is looked at after the request, not before.
LoopOnceMore(end) ==
    IF since < end \/ now < end
    THEN status' = "polling" /\ since' = now
    ELSE status' = "timedOut" /\ UNCHANGED since

\* The head of the while loop: poll, or give up.
Loop(end) ==
    IF now < end
    THEN status' = "polling" /\ since' = now
    ELSE status' = "timedOut" /\ UNCHANGED since

\* The call.  Bound: it is made early enough to end before the Horizon.
Wait ==
    /\ status = "idle"
    /\ \E timeout \in Timeouts :
        /\ now + timeout + PollInterval + 2 * MaxLag <= Horizon
        /\ deadline' = now + timeout
        /\ Loop(now + timeout)
    /\ start' = now
    /\ UNCHANGED <<now, receipt, wakeAt, mined, minedAt>>

\* The node answers tos_getTransactionReceipt with what it has then.
Serve ==
    /\ status = "polling"
    /\ status' = "answered"
    /\ receipt' = mined
    /\ UNCHANGED <<now, start, deadline, since, wakeAt, mined, minedAt>>

\* The request is rejected: so is the call, which does not try again.
Fail ==
    /\ status = "polling"
    /\ status' = "rejected"
    /\ UNCHANGED <<now, start, deadline, since, receipt, wakeAt, mined,
                   minedAt>>

\* Mutated form: the delay doubles as a backoff.
ReceiveBackingOff ==
    /\ status = "answered"
    /\ IF receipt
       THEN status' = "resolved" /\ UNCHANGED wakeAt
       ELSE status' = "sleeping" /\ wakeAt' = now + 2 * PollInterval
    /\ UNCHANGED <<now, start, deadline, since, receipt, mined, minedAt>>

\* The response arrives: return the receipt, or delay().
Receive ==
    /\ status = "answered"
    /\ IF receipt
       THEN status' = "resolved" /\ UNCHANGED wakeAt
       ELSE status' = "sleeping" /\ wakeAt' = now + PollInterval
    /\ UNCHANGED <<now, start, deadline, since, receipt, mined, minedAt>>

\* Mutated form: every round gets a deadline of its own.
WakeAnew ==
    /\ status = "sleeping"
    /\ now >= wakeAt
    /\ deadline' = now + (deadline - start)
    /\ Loop(deadline')
    /\ UNCHANGED <<now, start, receipt, wakeAt, mined, minedAt>>

\* The timer fires.
Wake ==
    /\ status = "sleeping"
    /\ now >= wakeAt
    /\ Loop(deadline)
    /\ UNCHANGED <<now, start, deadline, receipt, wakeAt, mined, minedAt>>

\* The node includes the transaction in a block.
Mine ==
    /\ ~mined
    /\ mined' = TRUE
    /\ minedAt' = now
    /\ UNCHANGED <<now, status, start, deadline, since, receipt, wakeAt>>

Tick ==
    /\ now < Horizon
    /\ status \in {"polling", "answered"} => now < since + MaxLag
    /\ status = "sleeping" => now < wakeAt + MaxLag
    /\ now' = now + 1
    /\ UNCHANGED <<status, start, deadline, since, receipt, wakeAt, mined,
                   minedAt>>

Next == Wait \/ Serve \/ Fail \/ Receive \/ Wake \/ Mine \/ Tick

Spec == Init /\ [][Next]_vars

(***************************************************************************)
(* The node answers or the request fails, the engine runs jobs and timers, *)
(* and time passes.  Nobody has to call, and the node need not mine.       *)
(***************************************************************************)
FairSpec ==
    /\ Spec
    /\ WF_vars(Serve \/ Fail)
    /\ WF_vars(Receive)
    /\ WF_vars(Wake)
    /\ WF_vars(Tick)
-----------------------------------------------------------------------------
(***************************************************************************)
(* Properties.                                                             *)
(***************************************************************************)

(***************************************************************************)
(* Every variable has its type, and the deadline is the one the call set.  *)
(***************************************************************************)
TypeOK ==
    /\ status \in Running \cup {"idle", "resolved", "timedOut", "rejected"}
    /\ now \in Nat /\ start \in Nat /\ deadline \in Nat /\ since \in Nat
    /\ wakeAt \in Nat /\ minedAt \in Nat
    /\ receipt \in BOOLEAN /\ mined \in BOOLEAN
    /\ status # "idle" =>
        \E timeout \in Timeouts : deadline = start + timeout

(***************************************************************************)
(* A call with time to poll never times out on a transaction the node had  *)
(* mined a poll interval and two lags before the deadline: the interval    *)
(* between two polls hides no receipt, whatever the phase of the loop.     *)
(***************************************************************************)
MinedInTimeIsFound ==
    status = "timedOut" /\ mined /\ start < deadline
        => minedAt + PollInterval + 2 * MaxLag >= deadline

(***************************************************************************)
(* The call outlasts its timeout by less than a poll interval and two      *)
(* lags: no request is sent after the deadline.                            *)
(***************************************************************************)
OverrunBounded ==
    status \in Running => now < deadline + PollInterval + 2 * MaxLag

(***************************************************************************)
(* A call does not go on for long when the node has the receipt: it ends   *)
(* within a poll interval and three lags of the mining, or of its start,   *)
(* although a response that says null may already be on its way and every  *)
(* delay begins anew when it has come.                                     *)
(***************************************************************************)
FoundPromptly ==
    status \in Running /\ mined =>
        \/ now <= minedAt + PollInterval + 3 * MaxLag
        \/ now <= start + PollInterval + 3 * MaxLag

(***************************************************************************)
(* The call ends: with the receipt, with the error of a request, or with   *)
(* TransactionReceiptTimeoutError.                                         *)
(***************************************************************************)
WaitSettles == status \in Running ~> status \notin Running
=============================================================================
