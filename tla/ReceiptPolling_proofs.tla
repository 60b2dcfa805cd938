------------------------ MODULE ReceiptPolling_proofs ------------------------
(***************************************************************************)
(* Theorems about ReceiptPolling, for every interval, timeout and lag.     *)
(***************************************************************************)
EXTENDS ReceiptPolling, TLAPS

(***************************************************************************)
(* The inductive invariant: the last request was sent before the deadline, *)
(* what waits for it is not later than MaxLag, and a transaction that is   *)
(* mined although the last response did not show it was mined after that   *)
(* request was sent.  A request that is under way when the transaction is  *)
(* mined was sent at the start, or soon after the mining.                  *)
(***************************************************************************)
SentInTime == status \in Running => since < deadline

NotLate ==
    /\ status \in Running => since <= now
    /\ status \in {"polling", "answered"} => now <= since + MaxLag
    /\ status = "sleeping" =>
        wakeAt <= since + MaxLag + PollInterval /\ now <= wakeAt + MaxLag

MinedAfterPoll ==
    mined =>
        /\ minedAt <= now
        /\ status = "answered" => receipt \/ minedAt >= since
        /\ status = "sleeping" => minedAt >= since
        /\ status = "timedOut" /\ start < deadline =>
            minedAt + PollInterval + 2 * MaxLag >= deadline

PolledSoon ==
    mined /\ status \in {"polling", "answered"} =>
        \/ since <= start
        \/ since <= minedAt + PollInterval + 2 * MaxLag

PollInv ==
    TypeOK /\ SentInTime /\ NotLate /\ MinedAfterPoll /\ PolledSoon
        /\ (status = "timedOut" => now >= deadline)

(***************************************************************************)
(* The loop's head, reached with what it needs to know, keeps it.          *)
(***************************************************************************)
LEMMA PollStep == ASSUME PollInv, [Next]_vars PROVE PollInv'
<1> USE TimeAssumption
<1> USE DEF PollInv, TypeOK, SentInTime, NotLate, MinedAfterPoll,
            PolledSoon, Running
<1>1. CASE Wait
  <2>1. PICK timeout \in Timeouts :
            /\ deadline' = now + timeout
            /\ Loop(now + timeout)
    BY <1>1 DEF Wait
  <2>2. start' = now /\ deadline' = start' + timeout /\ timeout \in Nat
    BY <1>1, <2>1 DEF Wait
  <2>3. UNCHANGED <<now, receipt, wakeAt, mined, minedAt>>
    BY <1>1 DEF Wait
  <2>4. CASE now < now + timeout
    BY <2>1, <2>2, <2>3, <2>4 DEF Loop
  <2>5. CASE ~(now < now + timeout)
    BY <2>1, <2>2, <2>3, <2>5 DEF Loop
  <2> QED BY <2>4, <2>5
<1>2. CASE Serve
  BY <1>2 DEF Serve
<1>3. CASE Fail
  BY <1>3 DEF Fail
<1>4. CASE Receive
  BY <1>4 DEF Receive
<1>5. CASE Wake
  <2>1. CASE now < deadline
    BY <1>5, <2>1 DEF Wake, Loop
  <2>2. CASE ~(now < deadline)
    BY <1>5, <2>2 DEF Wake, Loop
  <2> QED BY <2>1, <2>2
<1>6. CASE Mine
  <2>1. mined' /\ minedAt' = now
    BY <1>6 DEF Mine
  <2>2. UNCHANGED <<now, status, start, deadline, since, receipt, wakeAt>>
    BY <1>6 DEF Mine
  <2>3. mined' \in BOOLEAN
    BY <1>6 DEF Mine
  <2> QED BY <2>1, <2>2, <2>3
<1>7. CASE Tick
  BY <1>7 DEF Tick
<1>8. CASE UNCHANGED vars
  BY <1>8 DEF vars
<1> QED BY <1>1, <1>2, <1>3, <1>4, <1>5, <1>6, <1>7, <1>8 DEF Next

(***************************************************************************)
(* The invariant holds in every reachable state.                           *)
(***************************************************************************)
THEOREM PollInvariance == Spec => []PollInv
<1>1. Init => PollInv
  <2> SUFFICES ASSUME Init PROVE PollInv
    OBVIOUS
  <2>1. TypeOK
    BY DEF Init, TypeOK
  <2>2. ~mined /\ ~receipt /\ status = "idle"
    BY DEF Init
  <2> QED
    BY <2>1, <2>2
    DEF PollInv, SentInTime, NotLate, MinedAfterPoll, PolledSoon, Running
<1>2. PollInv /\ [Next]_vars => PollInv'
  BY PollStep
<1> QED BY <1>1, <1>2, PTL DEF Spec

(***************************************************************************)
(* waitForTransactionReceipt finds what was mined an interval and two lags *)
(* before its deadline.                                                    *)
(***************************************************************************)
THEOREM NoMissedReceipt == Spec => []MinedInTimeIsFound
<1>1. PollInv => MinedInTimeIsFound
  BY DEF PollInv, MinedAfterPoll, MinedInTimeIsFound
<1> QED BY <1>1, PollInvariance, PTL

(***************************************************************************)
(* waitForTransactionReceipt outlasts timeoutMs by less than an interval   *)
(* and two lags.                                                           *)
(***************************************************************************)
THEOREM NoLongOverrun == Spec => []OverrunBounded
<1>1. PollInv => OverrunBounded
  BY TimeAssumption
  DEF PollInv, TypeOK, SentInTime, NotLate, OverrunBounded, Running
<1> QED BY <1>1, PollInvariance, PTL

(***************************************************************************)
(* waitForTransactionReceipt returns a receipt within an interval and      *)
(* three lags of the block that has it, or of the call.                    *)
(***************************************************************************)
THEOREM NoSlowReceipt == Spec => []FoundPromptly
<1>1. PollInv => FoundPromptly
  BY TimeAssumption
  DEF PollInv, TypeOK, SentInTime, NotLate, MinedAfterPoll, PolledSoon,
      FoundPromptly, Running
<1> QED BY <1>1, PollInvariance, PTL
=============================================================================
