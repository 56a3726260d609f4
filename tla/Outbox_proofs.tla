---------------------------- MODULE Outbox_proofs ----------------------------
(***************************************************************************)
(* Theorems about Outbox for every set of events, keys, workers and polls, *)
(* every retry limit and every bound on faults.                            *)
(***************************************************************************)
EXTENDS Outbox, FiniteSetTheorems, TLAPS

-----------------------------------------------------------------------------
(* Type correctness *)

LEMMA InitType == Init => TypeOK
BY OutboxAssumption
DEF Init, TypeOK, Statuses, JobStates, Outcomes, Places, InTransaction

\* Retaining a finished job and forgetting the oldest keeps the queue's types.
LEMMA RetainType ==
  ASSUME TypeOK, NEW e \in Events, NEW o \in Outcomes, Retain(e, o)
  PROVE  /\ job' \in [Events -> JobStates]
         /\ owner' \in [Events -> Workers \cup {NoWorker}]
         /\ stalledCount' \in [Events -> Nat]
         /\ finished' \in [Outcomes -> Seq(Events)]
<1> DEFINE log == Append(finished[o], e)
<1>1. log \in Seq(Events) /\ log # <<>>
  <2>1. finished[o] \in Seq(Events)
    BY DEF TypeOK
  <2> QED BY <2>1
<1>2. Tail(log) \in Seq(Events)
  <2> HIDE DEF log
  <2> QED BY <1>1
<1> HIDE DEF log
<1>3. finished' \in [Outcomes -> Seq(Events)]
  BY <1>1, <1>2 DEF Retain, TypeOK, log
<1>4. job' \in [Events -> JobStates]
  BY DEF Retain, TypeOK, JobStates
<1> QED BY <1>3, <1>4 DEF Retain, TypeOK

\* So does ending a worker's job.
LEMMA EndJobType ==
  ASSUME TypeOK, NEW w \in Workers, pc[w] # "idle", NEW o \in Outcomes, EndJob(w, o),
         UNCHANGED <<dbVars, polled, adminRead, historyVars>>,
         faults' \in Nat, adminRetries' \in Nat
  PROVE  TypeOK'
<1>1. current[w] \in Events
  BY DEF TypeOK
<1>2. /\ job' \in [Events -> JobStates]
      /\ owner' \in [Events -> Workers \cup {NoWorker}]
      /\ stalledCount' \in [Events -> Nat]
      /\ finished' \in [Outcomes -> Seq(Events)]
  <2>1. CASE Retain(current[w], o)
    BY <2>1, <1>1, RetainType
  <2>2. CASE UNCHANGED queueVars
    BY <2>2 DEF queueVars, TypeOK
  <2> QED BY <2>1, <2>2 DEF EndJob
<1>3. /\ pc' = [pc EXCEPT ![w] = "idle"]
      /\ current' = [current EXCEPT ![w] = NoEvent]
      /\ seenCount' = [seenCount EXCEPT ![w] = 0]
  BY DEF EndJob
<1> QED BY <1>2, <1>3 DEF TypeOK, Places, dbVars, rowVars, historyVars

LEMMA DisputesType ==
  ASSUME TypeOK, NEW e \in Events
  PROVE  /\ Dispute(e) => disputes' \in [Events -> Int]
         /\ Overwrite(e) => disputes' \in [Events -> Int] /\ UNCHANGED <<handled, failures>>
<1>1. disputes \in [Events -> Int]
  BY DEF TypeOK
<1>2. Dispute(e) => disputes' \in [Events -> Int]
  BY <1>1 DEF Dispute
<1>3. Overwrite(e) => disputes' \in [Events -> Int]
  BY <1>1 DEF Overwrite
<1> QED BY <1>2, <1>3 DEF Overwrite

LEMMA NextType == TypeOK /\ [Next]_vars => TypeOK'
<1> SUFFICES ASSUME TypeOK, [Next]_vars PROVE TypeOK'
  OBVIOUS
<1> USE DEF rowVars, dbVars, queueVars, workerVars, historyVars, boundVars
<1>1. ASSUME NEW e \in Events, Publish(e) PROVE TypeOK'
  <2>1. NextSequence(e) \in Nat
    <3>1. IsFiniteSet({f \in Events : status[f] # "unpublished" /\ AggregateOf[f] = AggregateOf[e]})
      BY FS_Subset, OutboxAssumption
    <3> QED BY <3>1, FS_CardinalityType DEF NextSequence
  <2> QED BY <1>1, <2>1 DEF TypeOK, Publish, Statuses
<1>2. ASSUME NEW e \in Events, BackoffElapses(e) PROVE TypeOK'
  BY <1>2 DEF TypeOK, BackoffElapses
<1>3. ASSUME NEW e \in Events, RequeueStalled(e) PROVE TypeOK'
  <2>1. CASE Retain(e, "failed")
    <3>1. /\ job' \in [Events -> JobStates]
          /\ owner' \in [Events -> Workers \cup {NoWorker}]
          /\ stalledCount' \in [Events -> Nat]
          /\ finished' \in [Outcomes -> Seq(Events)]
      BY <2>1, RetainType DEF Outcomes
    <3> QED BY <1>3, <3>1 DEF TypeOK, RequeueStalled
  <2>2. CASE ~Retain(e, "failed")
    <3>1. /\ job' = [job EXCEPT ![e] = "waiting"]
          /\ stalledCount' = [stalledCount EXCEPT ![e] = @ + 1]
          /\ UNCHANGED <<owner, finished>>
      BY <1>3, <2>2 DEF RequeueStalled
    <3>2. /\ job' \in [Events -> JobStates]
          /\ stalledCount' \in [Events -> Nat]
      BY <3>1 DEF TypeOK, JobStates
    <3> QED BY <1>3, <3>1, <3>2 DEF TypeOK, RequeueStalled
  <2> QED BY <2>1, <2>2
<1>4. ASSUME NEW k \in Keys, ExpireKey(k) PROVE TypeOK'
  BY <1>4 DEF TypeOK, ExpireKey
<1>5. ASSUME NEW p \in Pollers, PollRead(p) PROVE TypeOK'
  BY <1>5 DEF TypeOK, PollRead, PendingEvents, Due
<1>6. ASSUME NEW p \in Pollers, PollEnqueue(p) PROVE TypeOK'
  BY <1>6 DEF TypeOK, PollEnqueue, JobStates
<1>7. ASSUME NEW p \in Pollers, PollFails(p) PROVE TypeOK'
  BY <1>7 DEF TypeOK, PollFails, Fault
<1>8. ASSUME NEW w \in Workers, NEW e \in Events, TakeJob(w, e) PROVE TypeOK'
  BY <1>8 DEF TypeOK, TakeJob, JobStates, Places
<1>9. ASSUME NEW w \in Workers, LockRow(w) PROVE TypeOK'
  BY <1>9 DEF TypeOK, LockRow, Goto, OthersUnchanged, Places, InTransaction
<1>10. ASSUME NEW w \in Workers, SkipCheck(w) PROVE TypeOK'
  BY <1>10 DEF TypeOK, SkipCheck, Goto, OthersUnchanged, Places, InTransaction
<1>11. ASSUME NEW w \in Workers, CheckRaises(w) PROVE TypeOK'
  BY <1>11 DEF TypeOK, CheckRaises, Fail, Goto, OthersUnchanged, Places, InTransaction
<1>12. ASSUME NEW w \in Workers, CheckKey(w) PROVE TypeOK'
  BY <1>12 DEF TypeOK, CheckKey, Goto, OthersUnchanged, Places, InTransaction
<1>13. ASSUME NEW w \in Workers, RecordKey(w) PROVE TypeOK'
  BY <1>13 DEF TypeOK, RecordKey, Goto, OthersUnchanged, Places, InTransaction
<1>14. ASSUME NEW w \in Workers, DispatchEvent(w) PROVE TypeOK'
  BY <1>14 DEF TypeOK, DispatchEvent, Goto, OthersUnchanged, Places, InTransaction
<1>15. ASSUME NEW w \in Workers, DispatchThrows(w) PROVE TypeOK'
  BY <1>15 DEF TypeOK, DispatchThrows, Fail, Goto, OthersUnchanged, Places, InTransaction
<1>16. ASSUME NEW w \in Workers, CommitDelivered(w) PROVE TypeOK'
  BY <1>16 DEF TypeOK, CommitDelivered, Recorded, Statuses, Goto, OthersUnchanged, Places, InTransaction
<1>17. ASSUME NEW w \in Workers, CommitSkipped(w) PROVE TypeOK'
  BY <1>17 DEF TypeOK, CommitSkipped, Statuses, Goto, OthersUnchanged, Places, InTransaction
<1>18. ASSUME NEW w \in Workers, CommitFails(w) PROVE TypeOK'
  BY <1>18 DEF TypeOK, CommitFails, Fail, Fault, Goto, OthersUnchanged, Places, InTransaction
<1>19. ASSUME NEW w \in Workers, ReadRetryCount(w) PROVE TypeOK'
  BY <1>19 DEF TypeOK, ReadRetryCount, Goto, OthersUnchanged, Places, InTransaction
<1>20. ASSUME NEW w \in Workers, ScheduleRetry(w) PROVE TypeOK'
  <2>1. current[w] \in Events
    BY <1>20 DEF TypeOK, ScheduleRetry
  <2>2. disputes' \in [Events -> Int] /\ UNCHANGED <<handled, failures>>
    BY <1>20, <2>1, DisputesType DEF ScheduleRetry
  <2>3. /\ status' \in [Events -> Statuses] /\ retryCount' \in [Events -> Nat]
        /\ ready' \in [Events -> BOOLEAN]
    BY <1>20, <2>1 DEF TypeOK, ScheduleRetry, Statuses
  <2>4. pc' \in [Workers -> Places] /\ (\A v \in Workers : current[v] \in Events \/ pc'[v] = "idle")
    BY <1>20, <2>1 DEF TypeOK, ScheduleRetry, Goto, Places
  <2> QED BY <1>20, <2>2, <2>3, <2>4 DEF TypeOK, ScheduleRetry, Goto, OthersUnchanged
<1>21. ASSUME NEW w \in Workers, MoveToDeadLetter(w) PROVE TypeOK'
  <2>1. current[w] \in Events
    BY <1>21 DEF TypeOK, MoveToDeadLetter
  <2>2. status' \in [Events -> Statuses] /\ deadLetters' \in [Events -> Nat]
    BY <1>21, <2>1 DEF TypeOK, MoveToDeadLetter, Statuses
  <2>4. disputes' \in [Events -> Int] /\ UNCHANGED <<handled, failures>>
    BY <1>21, <2>1, DisputesType DEF MoveToDeadLetter
  <2>3. pc' \in [Workers -> Places] /\ (\A v \in Workers : current[v] \in Events \/ pc'[v] = "idle")
    BY <1>21, <2>1 DEF TypeOK, MoveToDeadLetter, Goto, Places
  <2> QED BY <1>21, <2>2, <2>3, <2>4 DEF TypeOK, MoveToDeadLetter, Goto, OthersUnchanged
<1>22. ASSUME NEW w \in Workers, MarkForRetryThrows(w) PROVE TypeOK'
  <2>1. "failed" \in Outcomes
    BY DEF Outcomes
  <2>2. /\ pc[w] # "idle"
        /\ EndJob(w, "failed")
        /\ UNCHANGED <<dbVars, polled, adminRead, historyVars>>
        /\ faults' \in Nat /\ adminRetries' \in Nat
    BY <1>22 DEF TypeOK, MarkForRetryThrows, Fault, boundVars
  <2> QED BY <2>1, <2>2, EndJobType
<1>23. ASSUME NEW w \in Workers, CompleteJob(w) PROVE TypeOK'
  <2>1. "completed" \in Outcomes
    BY DEF Outcomes
  <2>2. /\ pc[w] # "idle"
        /\ EndJob(w, "completed")
        /\ UNCHANGED <<dbVars, polled, adminRead, historyVars>>
        /\ faults' \in Nat /\ adminRetries' \in Nat
    BY <1>23 DEF TypeOK, CompleteJob, boundVars
  <2> QED BY <2>1, <2>2, EndJobType
<1>24. ASSUME NEW w \in Workers, LoseJobLock(w) PROVE TypeOK'
  <2>1. current[w] \in Events
    BY <1>24 DEF TypeOK, LoseJobLock
  <2>2. disputes' \in [Events -> Int]
    BY <1>24, <2>1, DisputesType DEF LoseJobLock
  <2>3. owner' \in [Events -> Workers \cup {NoWorker}] /\ faults' \in Nat
    BY <1>24, <2>1 DEF TypeOK, LoseJobLock, Fault
  <2> QED BY <1>24, <2>2, <2>3 DEF TypeOK, LoseJobLock
<1>25. ASSUME NEW w \in Workers, Crash(w) PROVE TypeOK'
  <2>1. owner' \in [Events -> Workers \cup {NoWorker}] /\ faults' \in Nat
    BY <1>25 DEF TypeOK, Crash, Fault
  <2>2. /\ pc' \in [Workers -> Places] /\ current' \in [Workers -> Events \cup {NoEvent}]
        /\ \A v \in Workers : pc'[v] # "idle" => current'[v] \in Events
        /\ seenCount' \in [Workers -> Nat]
    BY <1>25 DEF TypeOK, Crash, Places
  <2> QED BY <1>25, <2>1, <2>2 DEF TypeOK, Crash
<1>26. ASSUME NEW a \in Admins, NEW e \in Events, RetryEventRead(a, e) PROVE TypeOK'
  <2>1. disputes' \in [Events -> Int]
    BY <1>26, DisputesType DEF TypeOK, RetryEventRead
  <2>2. adminRead' \in [Admins -> Events \cup {NoEvent}] /\ adminRetries' \in Nat
    BY <1>26 DEF TypeOK, RetryEventRead
  <2> QED BY <1>26, <2>1, <2>2 DEF TypeOK, RetryEventRead
<1>27. ASSUME NEW a \in Admins, RetryEventReset(a) PROVE TypeOK'
  <2>1. adminRead[a] \in Events
    BY <1>27 DEF TypeOK, RetryEventReset
  <2>2. disputes' \in [Events -> Int] /\ UNCHANGED <<handled, failures>>
    BY <1>27, <2>1, DisputesType DEF RetryEventReset
  <2>3. /\ status' \in [Events -> Statuses] /\ retryCount' \in [Events -> Nat]
        /\ ready' \in [Events -> BOOLEAN]
        /\ adminRead' \in [Admins -> Events \cup {NoEvent}]
    BY <1>27 DEF TypeOK, RetryEventReset, Statuses
  <2> QED BY <1>27, <2>2, <2>3 DEF TypeOK, RetryEventReset
<1>28. CASE UNCHANGED vars
  BY <1>28 DEF TypeOK, vars
<1> QED BY <1>1, <1>2, <1>3, <1>4, <1>5, <1>6, <1>7, <1>8, <1>9, <1>10, <1>11, <1>12, <1>13, <1>14, <1>15, <1>16, <1>17, <1>18, <1>19, <1>20, <1>21, <1>22, <1>23, <1>24, <1>25, <1>26, <1>27, <1>28
  DEF Next, ProcessDispatchJob, Faults

\* Every variable keeps its type; no row is ever committed as "processing".
THEOREM OutboxTypeCorrect == Spec => []TypeOK
BY InitType, NextType, PTL DEF Spec

-----------------------------------------------------------------------------
(* DeliveredWasHandled                                                     *)
(*                                                                         *)
(* A row becomes delivered in two places.  CommitDelivered follows the     *)
(* handler; CommitSkipped follows a key found in the ledger, and a key     *)
(* enters the ledger with the commit that follows the handler.             *)

LedgerBacked ==
  \A k \in Keys : ledger[k] # "absent" => \E f \in Events : KeyOf[f] = k /\ handled[f] > 0

CommitHandled ==
  \A w \in Workers : pc[w] = "committing" => handled[current[w]] > 0

SkipCovered ==
  \A w \in Workers : pc[w] = "skipping" =>
    \E f \in Events : SameKey(current[w], f) /\ handled[f] > 0

HandledInv == TypeOK /\ LedgerBacked /\ CommitHandled /\ SkipCovered /\ DeliveredWasHandled

LEMMA InitHandled == Init => HandledInv
BY InitType
DEF Init, HandledInv, LedgerBacked, CommitHandled, SkipCovered, DeliveredWasHandled

\* A step that marks nothing delivered, records no key and takes no worker to
\* one of its two commits keeps the invariant.
LEMMA QuietStep ==
  ASSUME HandledInv, TypeOK', UNCHANGED handled,
         \A e \in Events : status'[e] = "delivered" => status[e] = "delivered",
         \A k \in Keys : ledger'[k] # "absent" => ledger[k] # "absent",
         \A w \in Workers : pc'[w] \in {"committing", "skipping"}
                              => pc'[w] = pc[w] /\ current'[w] = current[w]
  PROVE  HandledInv'
BY DEF HandledInv, LedgerBacked, CommitHandled, SkipCovered, DeliveredWasHandled, SameKey

LEMMA NextHandled == HandledInv /\ [Next]_vars => HandledInv'
<1> SUFFICES ASSUME HandledInv, [Next]_vars PROVE HandledInv'
  OBVIOUS
<1>0. TypeOK /\ TypeOK'
  BY NextType DEF HandledInv
<1> USE DEF rowVars, dbVars, queueVars, workerVars, historyVars, boundVars
<1>1. ASSUME NEW e \in Events, Publish(e) PROVE HandledInv'
  BY <1>1, <1>0, QuietStep DEF TypeOK, Publish
<1>2. ASSUME NEW e \in Events, BackoffElapses(e) PROVE HandledInv'
  BY <1>2, <1>0, QuietStep DEF TypeOK, BackoffElapses
<1>3. ASSUME NEW e \in Events, RequeueStalled(e) PROVE HandledInv'
  BY <1>3, <1>0, QuietStep DEF TypeOK, RequeueStalled
<1>4. ASSUME NEW k \in Keys, ExpireKey(k) PROVE HandledInv'
  BY <1>4, <1>0, QuietStep DEF TypeOK, ExpireKey
<1>5. ASSUME NEW p \in Pollers, PollRead(p) PROVE HandledInv'
  BY <1>5, <1>0, QuietStep DEF TypeOK, PollRead
<1>6. ASSUME NEW p \in Pollers, PollEnqueue(p) PROVE HandledInv'
  BY <1>6, <1>0, QuietStep DEF TypeOK, PollEnqueue
<1>7. ASSUME NEW p \in Pollers, PollFails(p) PROVE HandledInv'
  BY <1>7, <1>0, QuietStep DEF TypeOK, PollFails
<1>8. ASSUME NEW w \in Workers, NEW e \in Events, TakeJob(w, e) PROVE HandledInv'
  BY <1>8, <1>0, QuietStep DEF TypeOK, TakeJob
<1>9. ASSUME NEW w \in Workers, LockRow(w) PROVE HandledInv'
  BY <1>9, <1>0, QuietStep DEF TypeOK, LockRow, Goto, OthersUnchanged
<1>10. ASSUME NEW w \in Workers, SkipCheck(w) PROVE HandledInv'
  BY <1>10, <1>0, QuietStep DEF TypeOK, SkipCheck, Goto, OthersUnchanged
<1>11. ASSUME NEW w \in Workers, CheckRaises(w) PROVE HandledInv'
  BY <1>11, <1>0, QuietStep DEF TypeOK, CheckRaises, Fail, Goto, OthersUnchanged
<1>12. ASSUME NEW w \in Workers, RecordKey(w) PROVE HandledInv'
  BY <1>12, <1>0, QuietStep DEF TypeOK, RecordKey, Goto, OthersUnchanged
<1>13. ASSUME NEW w \in Workers, DispatchThrows(w) PROVE HandledInv'
  BY <1>13, <1>0, QuietStep DEF TypeOK, DispatchThrows, Fail, Goto, OthersUnchanged
<1>14. ASSUME NEW w \in Workers, CommitFails(w) PROVE HandledInv'
  BY <1>14, <1>0, QuietStep DEF TypeOK, CommitFails, Fail, Goto, OthersUnchanged
<1>15. ASSUME NEW w \in Workers, ReadRetryCount(w) PROVE HandledInv'
  BY <1>15, <1>0, QuietStep DEF TypeOK, ReadRetryCount
<1>16. ASSUME NEW w \in Workers, ScheduleRetry(w) PROVE HandledInv'
  BY <1>16, <1>0, QuietStep DEF TypeOK, ScheduleRetry, Overwrite, Goto, OthersUnchanged
<1>17. ASSUME NEW w \in Workers, MoveToDeadLetter(w) PROVE HandledInv'
  BY <1>17, <1>0, QuietStep DEF TypeOK, MoveToDeadLetter, Overwrite, Goto, OthersUnchanged
<1>18. ASSUME NEW w \in Workers, MarkForRetryThrows(w) PROVE HandledInv'
  BY <1>18, <1>0, QuietStep DEF TypeOK, MarkForRetryThrows, EndJob
<1>19. ASSUME NEW w \in Workers, CompleteJob(w) PROVE HandledInv'
  BY <1>19, <1>0, QuietStep DEF TypeOK, CompleteJob, EndJob
<1>20. ASSUME NEW w \in Workers, LoseJobLock(w) PROVE HandledInv'
  BY <1>20, <1>0, QuietStep DEF TypeOK, LoseJobLock
<1>21. ASSUME NEW w \in Workers, Crash(w) PROVE HandledInv'
  BY <1>21, <1>0, QuietStep DEF TypeOK, Crash
<1>22. ASSUME NEW a \in Admins, NEW e \in Events, RetryEventRead(a, e) PROVE HandledInv'
  BY <1>22, <1>0, QuietStep DEF TypeOK, RetryEventRead
<1>23. ASSUME NEW a \in Admins, RetryEventReset(a) PROVE HandledInv'
  BY <1>23, <1>0, QuietStep DEF TypeOK, RetryEventReset, Overwrite
<1>24. ASSUME NEW w \in Workers, CheckKey(w) PROVE HandledInv'
  <2>1. current[w] \in Events /\ KeyOf[current[w]] \in Keys
    BY <1>24, <1>0, OutboxAssumption DEF TypeOK, CheckKey
  <2>2. CASE ~FindsKey(KeyOf[current[w]])
    BY <1>24, <1>0, <2>2, QuietStep DEF TypeOK, CheckKey, Goto, OthersUnchanged
  <2>3. CASE FindsKey(KeyOf[current[w]])
    <3>1. \E f \in Events : SameKey(current[w], f) /\ handled[f] > 0
      BY <1>24, <2>1, <2>3 DEF HandledInv, LedgerBacked, FindsKey, SameKey, CheckKey
    <3>2. /\ UNCHANGED <<status, ledger, handled, current>>
          /\ \A v \in Workers : v # w => pc'[v] = pc[v]
          /\ pc'[w] = "skipping"
      BY <1>24, <1>0, <2>3 DEF TypeOK, CheckKey, Goto
    <3>3. LedgerBacked' /\ DeliveredWasHandled'
      BY <3>2 DEF HandledInv, LedgerBacked, DeliveredWasHandled, SameKey
    <3>4. CommitHandled'
      BY <3>2 DEF HandledInv, CommitHandled
    <3>5. SkipCovered'
      BY <3>1, <3>2 DEF HandledInv, SkipCovered, SameKey
    <3> QED BY <1>0, <3>3, <3>4, <3>5 DEF HandledInv
  <2> QED BY <2>2, <2>3
<1>25. ASSUME NEW w \in Workers, DispatchEvent(w) PROVE HandledInv'
  <2>1. current[w] \in Events
    BY <1>25, <1>0 DEF TypeOK, DispatchEvent
  <2>2. /\ UNCHANGED <<status, ledger, current>>
        /\ \A v \in Workers : v # w => pc'[v] = pc[v]
        /\ pc'[w] = "committing"
        /\ handled'[current[w]] > 0
        /\ \A f \in Events : handled[f] > 0 => handled'[f] > 0
    BY <1>25, <1>0, <2>1 DEF TypeOK, DispatchEvent, Goto
  <2>3. LedgerBacked' /\ DeliveredWasHandled'
    BY <2>2 DEF HandledInv, LedgerBacked, DeliveredWasHandled, SameKey
  <2>4. CommitHandled'
    <3> SUFFICES ASSUME NEW v \in Workers, pc'[v] = "committing" PROVE handled'[current[v]] > 0
      BY <2>2 DEF CommitHandled
    <3>1. CASE v = w
      BY <3>1, <2>2
    <3>2. CASE v # w
      <4>1. current[v] \in Events /\ handled[current[v]] > 0
        BY <3>2, <2>2, <1>0 DEF HandledInv, CommitHandled, TypeOK
      <4> QED BY <4>1, <2>2
    <3> QED BY <3>1, <3>2
  <2>5. SkipCovered'
    BY <2>2 DEF HandledInv, SkipCovered, SameKey
  <2> QED BY <1>0, <2>3, <2>4, <2>5 DEF HandledInv
<1>26. ASSUME NEW w \in Workers, CommitDelivered(w) PROVE HandledInv'
  <2>1. current[w] \in Events /\ handled[current[w]] > 0
    BY <1>26, <1>0 DEF TypeOK, CommitDelivered, HandledInv, CommitHandled
  <2>2. /\ UNCHANGED <<handled, current>>
        /\ \A v \in Workers : pc'[v] = IF v = w THEN "finishing" ELSE pc[v]
        /\ \A e \in Events : e # current[w] => status'[e] = status[e]
        /\ \A k \in Keys : k # KeyOf[current[w]] => ledger'[k] = ledger[k]
    BY <1>26, <1>0, <2>1 DEF TypeOK, CommitDelivered, Goto
  <2>3. LedgerBacked'
    BY <2>1, <2>2 DEF HandledInv, LedgerBacked
  <2>4. DeliveredWasHandled'
    BY <2>1, <2>2 DEF HandledInv, DeliveredWasHandled, SameKey
  <2>5. CommitHandled' /\ SkipCovered'
    BY <2>2 DEF HandledInv, CommitHandled, SkipCovered, SameKey
  <2> QED BY <1>0, <2>3, <2>4, <2>5 DEF HandledInv
<1>27. ASSUME NEW w \in Workers, CommitSkipped(w) PROVE HandledInv'
  <2>1. current[w] \in Events /\ \E f \in Events : SameKey(current[w], f) /\ handled[f] > 0
    BY <1>27, <1>0 DEF TypeOK, CommitSkipped, HandledInv, SkipCovered
  <2>2. /\ UNCHANGED <<handled, current, ledger>>
        /\ \A v \in Workers : pc'[v] = IF v = w THEN "finishing" ELSE pc[v]
        /\ \A e \in Events : e # current[w] => status'[e] = status[e]
    BY <1>27, <1>0, <2>1 DEF TypeOK, CommitSkipped, Goto
  <2>3. DeliveredWasHandled'
    BY <2>1, <2>2 DEF HandledInv, DeliveredWasHandled, SameKey
  <2>4. LedgerBacked' /\ CommitHandled' /\ SkipCovered'
    BY <2>2 DEF HandledInv, LedgerBacked, CommitHandled, SkipCovered, SameKey
  <2> QED BY <1>0, <2>3, <2>4 DEF HandledInv
<1>28. CASE UNCHANGED vars
  BY <1>28, <1>0, QuietStep DEF vars
<1> QED
  BY <1>1, <1>2, <1>3, <1>4, <1>5, <1>6, <1>7, <1>8, <1>9, <1>10, <1>11, <1>12,
      <1>13, <1>14, <1>15, <1>16, <1>17, <1>18, <1>19, <1>20, <1>21, <1>22, <1>23,
      <1>24, <1>25, <1>26, <1>27, <1>28
  DEF Next, ProcessDispatchJob, Faults

\* An event is marked delivered only after the handler has returned for it or
\* for an event with its key, whatever fails, crashes or stalls.
THEOREM OutboxDeliveredWasHandled == Spec => []DeliveredWasHandled
<1>1. HandledInv => DeliveredWasHandled
  BY DEF HandledInv
<1> QED BY <1>1, InitHandled, NextHandled, PTL DEF Spec

-----------------------------------------------------------------------------
(* DeadLettersEarned                                                       *)
(*                                                                         *)
(* Stale counts are written over newer ones, so a row's count says little  *)
(* by itself.  Yet with the workers that have failed on an event and have  *)
(* not written yet, neither the row's count nor a count that was read      *)
(* exceeds the event's failures.                                           *)

Retriers(e) == {w \in Workers : current[w] = e /\ pc[w] \in {"failing", "retrying"}}

CountCovered ==
  \A e \in Events : retryCount[e] + Cardinality(Retriers(e)) <= failures[e]

SeenCovered ==
  \A e \in Events, w \in Workers : pc[w] = "retrying" /\ current[w] = e
    => seenCount[w] + Cardinality(Retriers(e)) <= failures[e]

EarnedInv == TypeOK /\ CountCovered /\ SeenCovered /\ DeadLettersEarned

LEMMA RetriersFinite ==
  ASSUME NEW e \in Events
  PROVE  IsFiniteSet(Retriers(e)) /\ Cardinality(Retriers(e)) \in Nat
<1>1. Retriers(e) \subseteq Workers
  BY DEF Retriers
<1> QED BY <1>1, OutboxAssumption, FS_Subset, FS_CardinalityType

LEMMA RetriersShrink ==
  ASSUME NEW e \in Events, Retriers(e)' \subseteq Retriers(e)
  PROVE  Cardinality(Retriers(e)') \in Nat /\ Cardinality(Retriers(e)') <= Cardinality(Retriers(e))
BY RetriersFinite, FS_Subset, FS_CardinalityType

LEMMA InitEarned == Init => EarnedInv
<1> SUFFICES ASSUME Init PROVE EarnedInv
  OBVIOUS
<1>1. \A e \in Events : Retriers(e) = {}
  BY DEF Init, Retriers
<1>2. \A e \in Events : Cardinality(Retriers(e)) = 0
  BY <1>1, FS_EmptySet
<1>3. CountCovered
  BY <1>2 DEF Init, CountCovered
<1>4. SeenCovered
  BY DEF Init, SeenCovered
<1> QED BY <1>3, <1>4, InitType DEF Init, EarnedInv, DeadLettersEarned

\* A step after which no worker is newly about to write, with no count raised.
LEMMA CalmStep ==
  ASSUME EarnedInv, TypeOK', UNCHANGED <<failures, deadLetters>>,
         \A e \in Events : retryCount'[e] \in {retryCount[e], 0},
         \A w \in Workers : pc'[w] \in {"failing", "retrying"}
            => pc'[w] = pc[w] /\ current'[w] = current[w] /\ seenCount'[w] = seenCount[w]
  PROVE  EarnedInv'
<1>1. ASSUME NEW e \in Events
      PROVE  Cardinality(Retriers(e)') \in Nat /\ Cardinality(Retriers(e)') <= Cardinality(Retriers(e))
  <2>1. Retriers(e)' \subseteq Retriers(e)
    BY DEF Retriers
  <2> QED BY <2>1, RetriersShrink
<1>2. CountCovered'
  <2> SUFFICES ASSUME NEW e \in Events
               PROVE  retryCount'[e] + Cardinality(Retriers(e)') <= failures[e]
    BY DEF CountCovered
  <2>1. retryCount[e] + Cardinality(Retriers(e)) <= failures[e]
    BY DEF EarnedInv, CountCovered
  <2>2. retryCount[e] \in Nat /\ failures[e] \in Nat /\ Cardinality(Retriers(e)) \in Nat
    BY RetriersFinite DEF EarnedInv, TypeOK
  <2>3. retryCount'[e] = retryCount[e] \/ retryCount'[e] = 0
    OBVIOUS
  <2> QED BY <1>1, <2>1, <2>2, <2>3
<1>3. SeenCovered'
  <2> SUFFICES ASSUME NEW e \in Events, NEW w \in Workers, pc'[w] = "retrying", current'[w] = e
               PROVE  seenCount'[w] + Cardinality(Retriers(e)') <= failures[e]
    BY DEF SeenCovered
  <2>1. seenCount[w] + Cardinality(Retriers(e)) <= failures[e] /\ seenCount'[w] = seenCount[w]
    BY DEF EarnedInv, SeenCovered
  <2>2. seenCount[w] \in Nat /\ failures[e] \in Nat /\ Cardinality(Retriers(e)) \in Nat
    BY RetriersFinite DEF EarnedInv, TypeOK
  <2> QED BY <1>1, <2>1, <2>2
<1>4. DeadLettersEarned'
  BY DEF EarnedInv, DeadLettersEarned
<1> QED BY <1>2, <1>3, <1>4 DEF EarnedInv

\* A worker that fails comes to the retriers, and its failure is counted.
LEMMA FailEarned ==
  ASSUME EarnedInv, TypeOK', NEW w \in Workers, pc[w] \in {"checking", "dispatching", "committing"},
         Fail(w)
  PROVE  EarnedInv'
<1> DEFINE mine == current[w]
<1>1. mine \in Events
  BY DEF EarnedInv, TypeOK
<1>2. /\ UNCHANGED <<current, seenCount, retryCount, deadLetters>>
      /\ \A v \in Workers : pc'[v] = IF v = w THEN "failing" ELSE pc[v]
      /\ \A e \in Events : failures'[e] = IF e = mine THEN failures[e] + 1 ELSE failures[e]
  BY <1>1 DEF Fail, Goto, EarnedInv, TypeOK, dbVars, rowVars
<1> HIDE DEF mine
<1>3. ASSUME NEW e \in Events
      PROVE  Cardinality(Retriers(e)') =
               Cardinality(Retriers(e)) + (IF e = mine THEN 1 ELSE 0)
  <2>1. CASE e = mine
    <3>1. Retriers(e)' = Retriers(e) \cup {w} /\ w \notin Retriers(e)
      BY <1>2, <2>1 DEF Retriers, mine
    <3> QED BY <2>1, <3>1, RetriersFinite, FS_AddElement
  <2>2. CASE e # mine
    <3>1. Retriers(e)' = Retriers(e)
      BY <1>2, <2>2 DEF Retriers, mine
    <3> QED BY <2>2, <3>1, RetriersFinite
  <2> QED BY <2>1, <2>2
<1>4. CountCovered'
  <2> SUFFICES ASSUME NEW e \in Events
               PROVE  retryCount[e] + Cardinality(Retriers(e)') <= failures'[e]
    BY <1>2 DEF CountCovered
  <2>1. retryCount[e] + Cardinality(Retriers(e)) <= failures[e]
    BY DEF EarnedInv, CountCovered
  <2>2. retryCount[e] \in Nat /\ failures[e] \in Nat /\ Cardinality(Retriers(e)) \in Nat
    BY RetriersFinite DEF EarnedInv, TypeOK
  <2> QED BY <1>2, <1>3, <2>1, <2>2
<1>5. SeenCovered'
  <2> SUFFICES ASSUME NEW e \in Events, NEW v \in Workers, pc'[v] = "retrying", current[v] = e
               PROVE  seenCount[v] + Cardinality(Retriers(e)') <= failures'[e]
    BY <1>2 DEF SeenCovered
  <2>1. pc[v] = "retrying"
    BY <1>2
  <2>2. seenCount[v] + Cardinality(Retriers(e)) <= failures[e]
    BY <2>1 DEF EarnedInv, SeenCovered
  <2>3. seenCount[v] \in Nat /\ failures[e] \in Nat /\ Cardinality(Retriers(e)) \in Nat
    BY RetriersFinite DEF EarnedInv, TypeOK
  <2> QED BY <1>2, <1>3, <2>2, <2>3
<1>6. DeadLettersEarned'
  <2> SUFFICES ASSUME NEW e \in Events, deadLetters[e] > 0 PROVE failures'[e] >= MaxRetries
    BY <1>2 DEF DeadLettersEarned
  <2>1. failures[e] >= MaxRetries /\ failures[e] \in Nat /\ MaxRetries \in Nat
    BY OutboxAssumption DEF EarnedInv, DeadLettersEarned, TypeOK
  <2> QED BY <1>2, <2>1
<1> QED BY <1>4, <1>5, <1>6 DEF EarnedInv

LEMMA ReadEarned ==
  ASSUME EarnedInv, TypeOK', NEW w \in Workers, ReadRetryCount(w)
  PROVE  EarnedInv'
<1>1. /\ UNCHANGED <<current, retryCount, deadLetters, failures>> /\ pc[w] = "failing"
      /\ \A v \in Workers : pc'[v] = IF v = w THEN "retrying" ELSE pc[v]
      /\ \A v \in Workers : seenCount'[v] = IF v = w THEN retryCount[current[w]] ELSE seenCount[v]
  BY DEF ReadRetryCount, EarnedInv, TypeOK, dbVars, rowVars, historyVars
<1>2. \A e \in Events : Retriers(e)' = Retriers(e)
  BY <1>1 DEF Retriers
<1>3. CountCovered' /\ DeadLettersEarned'
  BY <1>1, <1>2 DEF EarnedInv, CountCovered, DeadLettersEarned
<1>4. SeenCovered'
  <2> SUFFICES ASSUME NEW e \in Events, NEW v \in Workers, pc'[v] = "retrying", current[v] = e
               PROVE  seenCount'[v] + Cardinality(Retriers(e)) <= failures[e]
    BY <1>1, <1>2 DEF SeenCovered
  <2>1. CASE v = w
    BY <1>1, <2>1 DEF EarnedInv, CountCovered
  <2>2. CASE v # w
    BY <1>1, <2>2 DEF EarnedInv, SeenCovered
  <2> QED BY <2>1, <2>2
<1> QED BY <1>3, <1>4 DEF EarnedInv

\* The retrier that writes leaves, and the count it writes is one more than the
\* one it has read.
LEMMA WriteEarned ==
  ASSUME EarnedInv, TypeOK', NEW w \in Workers, ScheduleRetry(w) \/ MoveToDeadLetter(w)
  PROVE  EarnedInv'
<1> DEFINE mine == current[w]
<1>1. mine \in Events /\ pc[w] = "retrying"
  BY DEF EarnedInv, TypeOK, ScheduleRetry, MoveToDeadLetter
<1>2. /\ UNCHANGED <<current, seenCount, failures>>
      /\ \A v \in Workers : pc'[v] = IF v = w THEN "finishing" ELSE pc[v]
  BY DEF ScheduleRetry, MoveToDeadLetter, Overwrite, Goto, EarnedInv, TypeOK
<1>3. \A e \in Events : retryCount'[e] = retryCount[e] \/ (e = mine /\ retryCount'[e] = seenCount[w] + 1)
  BY DEF ScheduleRetry, MoveToDeadLetter, EarnedInv, TypeOK
<1>4. \A e \in Events : deadLetters'[e] = deadLetters[e] \/ (e = mine /\ seenCount[w] + 1 >= MaxRetries)
  BY DEF ScheduleRetry, MoveToDeadLetter, EarnedInv, TypeOK
<1> HIDE DEF mine
<1>5. ASSUME NEW e \in Events
      PROVE  /\ Cardinality(Retriers(e)') \in Nat
             /\ Cardinality(Retriers(e)') = Cardinality(Retriers(e)) - (IF e = mine THEN 1 ELSE 0)
  <2>1. CASE e = mine
    <3>1. Retriers(e)' = Retriers(e) \ {w} /\ w \in Retriers(e)
      BY <1>1, <1>2, <2>1 DEF Retriers, mine
    <3>2. IsFiniteSet(Retriers(e)')
      BY <3>1, RetriersFinite, FS_Subset
    <3> QED BY <2>1, <3>1, <3>2, RetriersFinite, FS_RemoveElement, FS_CardinalityType
  <2>2. CASE e # mine
    <3>1. Retriers(e)' = Retriers(e)
      BY <1>2, <2>2 DEF Retriers, mine
    <3> QED BY <2>2, <3>1, RetriersFinite
  <2> QED BY <2>1, <2>2
<1>6. /\ seenCount[w] + Cardinality(Retriers(mine)) <= failures[mine]
      /\ seenCount[w] \in Nat /\ failures[mine] \in Nat /\ Cardinality(Retriers(mine)) \in Nat
  BY <1>1, RetriersFinite DEF EarnedInv, SeenCovered, TypeOK, mine
<1>7. CountCovered'
  <2> SUFFICES ASSUME NEW e \in Events
               PROVE  retryCount'[e] + Cardinality(Retriers(e)') <= failures[e]
    BY <1>2 DEF CountCovered
  <2>1. /\ retryCount[e] + Cardinality(Retriers(e)) <= failures[e]
        /\ retryCount[e] \in Nat /\ failures[e] \in Nat /\ Cardinality(Retriers(e)) \in Nat
    BY RetriersFinite DEF EarnedInv, CountCovered, TypeOK
  <2>2. CASE retryCount'[e] = retryCount[e]
    BY <1>5, <2>1, <2>2
  <2>3. CASE e = mine /\ retryCount'[e] = seenCount[w] + 1
    BY <1>5, <1>6, <2>3
  <2> QED BY <1>3, <2>2, <2>3
<1>8. SeenCovered'
  <2> SUFFICES ASSUME NEW e \in Events, NEW v \in Workers, pc'[v] = "retrying", current[v] = e
               PROVE  seenCount[v] + Cardinality(Retriers(e)') <= failures[e]
    BY <1>2 DEF SeenCovered
  <2>1. pc[v] = "retrying"
    BY <1>2
  <2>2. /\ seenCount[v] + Cardinality(Retriers(e)) <= failures[e]
        /\ seenCount[v] \in Nat /\ failures[e] \in Nat /\ Cardinality(Retriers(e)) \in Nat
    BY <2>1, RetriersFinite DEF EarnedInv, SeenCovered, TypeOK
  <2> QED BY <1>5, <2>2
<1>9. DeadLettersEarned'
  <2> SUFFICES ASSUME NEW e \in Events, deadLetters'[e] > 0 PROVE failures[e] >= MaxRetries
    BY <1>2 DEF DeadLettersEarned
  <2>1. CASE deadLetters'[e] = deadLetters[e]
    BY <2>1 DEF EarnedInv, DeadLettersEarned
  <2>2. CASE e = mine /\ seenCount[w] + 1 >= MaxRetries
    <3>1. Cardinality(Retriers(e)) >= 1
      BY <1>5, <2>2, RetriersFinite
    <3> QED BY <1>6, <2>2, <3>1, OutboxAssumption
  <2> QED BY <1>4, <2>1, <2>2
<1> QED BY <1>7, <1>8, <1>9 DEF EarnedInv

LEMMA NextEarned == EarnedInv /\ [Next]_vars => EarnedInv'
<1> SUFFICES ASSUME EarnedInv, [Next]_vars PROVE EarnedInv'
  OBVIOUS
<1>0. TypeOK /\ TypeOK'
  BY NextType DEF EarnedInv
<1> USE DEF rowVars, dbVars, queueVars, workerVars, historyVars, boundVars
<1>1. ASSUME NEW e \in Events, Publish(e) \/ BackoffElapses(e) PROVE EarnedInv'
  BY <1>1, <1>0, CalmStep DEF TypeOK, Publish, BackoffElapses
<1>2. ASSUME NEW e \in Events, RequeueStalled(e) PROVE EarnedInv'
  BY <1>2, <1>0, CalmStep DEF TypeOK, RequeueStalled
<1>3. ASSUME NEW k \in Keys, ExpireKey(k) PROVE EarnedInv'
  BY <1>3, <1>0, CalmStep DEF TypeOK, ExpireKey
<1>4. ASSUME NEW p \in Pollers, PollRead(p) \/ PollEnqueue(p) \/ PollFails(p) PROVE EarnedInv'
  BY <1>4, <1>0, CalmStep DEF TypeOK, PollRead, PollEnqueue, PollFails
<1>5. ASSUME NEW w \in Workers, NEW e \in Events, TakeJob(w, e) PROVE EarnedInv'
  BY <1>5, <1>0, CalmStep DEF TypeOK, TakeJob
<1>6. ASSUME NEW w \in Workers,
             LockRow(w) \/ SkipCheck(w) \/ CheckKey(w) \/ RecordKey(w)
      PROVE  EarnedInv'
  BY <1>6, <1>0, CalmStep DEF TypeOK, LockRow, SkipCheck, CheckKey, RecordKey, Goto, OthersUnchanged
<1>7. ASSUME NEW w \in Workers, DispatchEvent(w) \/ CommitDelivered(w) \/ CommitSkipped(w)
      PROVE  EarnedInv'
  BY <1>7, <1>0, CalmStep
     DEF TypeOK, DispatchEvent, CommitDelivered, CommitSkipped, Goto, OthersUnchanged
<1>8. ASSUME NEW w \in Workers, CheckRaises(w) \/ DispatchThrows(w) \/ CommitFails(w)
      PROVE  EarnedInv'
  BY <1>8, <1>0, FailEarned DEF CheckRaises, DispatchThrows, CommitFails
<1>9. ASSUME NEW w \in Workers, ReadRetryCount(w) \/ ScheduleRetry(w) \/ MoveToDeadLetter(w)
      PROVE  EarnedInv'
  BY <1>9, <1>0, ReadEarned, WriteEarned
<1>10. ASSUME NEW w \in Workers, MarkForRetryThrows(w) \/ CompleteJob(w) PROVE EarnedInv'
  BY <1>10, <1>0, CalmStep DEF TypeOK, MarkForRetryThrows, CompleteJob, EndJob
<1>11. ASSUME NEW w \in Workers, LoseJobLock(w) \/ Crash(w) PROVE EarnedInv'
  <2>1. CASE LoseJobLock(w)
    BY <2>1, <1>0, CalmStep DEF TypeOK, LoseJobLock
  <2>2. CASE Crash(w)
    BY <2>2, <1>0, CalmStep DEF TypeOK, Crash
  <2> QED BY <1>11, <2>1, <2>2
<1>12. ASSUME NEW a \in Admins, NEW e \in Events, RetryEventRead(a, e) PROVE EarnedInv'
  BY <1>12, <1>0, CalmStep DEF TypeOK, RetryEventRead
<1>13. ASSUME NEW a \in Admins, RetryEventReset(a) PROVE EarnedInv'
  BY <1>13, <1>0, CalmStep DEF TypeOK, RetryEventReset, Overwrite
<1>14. CASE UNCHANGED vars
  BY <1>14, <1>0, CalmStep DEF vars
<1> QED
  BY <1>1, <1>2, <1>3, <1>4, <1>5, <1>6, <1>7, <1>8, <1>9, <1>10, <1>11, <1>12, <1>13, <1>14
  DEF Next, ProcessDispatchJob, Faults

\* An event becomes a dead letter only after MaxRetries failures, however many
\* stalled workers write stale counts and whenever it is retried by hand.
THEOREM OutboxDeadLettersEarned == Spec => []DeadLettersEarned
<1>1. EarnedInv => DeadLettersEarned
  BY DEF EarnedInv
<1> QED BY <1>1, InitEarned, NextEarned, PTL DEF Spec


-----------------------------------------------------------------------------
(* LedgerGuardsHandler                                                     *)
(*                                                                         *)
(* A worker looks its key up and calls the handler later.  In between the  *)
(* row lock keeps other workers from its event, so whoever records the key *)
(* is about another event with that key, and that one has been handled.    *)

\* The row lock: one transaction at a time is about an event.
OneTransaction ==
  \A v, w \in Workers :
    pc[v] \in InTransaction /\ pc[w] \in InTransaction /\ current[v] = current[w] => v = w

\* What LedgerGuardsHandler says of an event with a key that is handled.
MayHandle(e) ==
  CASE VariableConflict = "error" -> FALSE
    [] VariableConflict = "use_column" ->
         \/ ledger[KeyOf[e]] # "live"
         \/ \E f \in Events \ {e} : KeyOf[f] = KeyOf[e] /\ handled[f] > 0
    [] OTHER -> TRUE

PastLookUp == {"recording", "dispatching", "committing"}

\* Whoever has looked its key up, and not found it, may still call the handler.
LookUpHolds ==
  \A w \in Workers : pc[w] \in PastLookUp /\ KeyOf[current[w]] # NoKey => MayHandle(current[w])

GuardInv == OneTransaction /\ LookUpHolds

LEMMA InitGuard == Init => GuardInv
BY DEF Init, GuardInv, OneTransaction, LookUpHolds, InTransaction, PastLookUp

\* What may be handled stays so while its key is not recorded.
LEMMA MayStillHandle ==
  ASSUME NEW e \in Events, MayHandle(e),
         ledger'[KeyOf[e]] = "live" => ledger[KeyOf[e]] = "live",
         \A f \in Events : handled[f] > 0 => handled'[f] > 0
  PROVE  MayHandle(e)'
BY DEF MayHandle

\* A step that brings no worker into a transaction, or past its look-up with a
\* key, and makes no key live.
LEMMA PassiveStep ==
  ASSUME GuardInv, TypeOK, TypeOK',
         \A k \in Keys : ledger'[k] = "live" => ledger[k] = "live",
         \A f \in Events : handled[f] > 0 => handled'[f] > 0,
         \A w \in Workers : pc'[w] \in InTransaction =>
           pc[w] \in InTransaction /\ current'[w] = current[w],
         \A w \in Workers : pc'[w] \in PastLookUp =>
           \/ pc[w] \in PastLookUp
           \/ KeyOf[current[w]] = NoKey
           \/ MayHandle(current[w])
  PROVE  GuardInv'
<1>1. OneTransaction'
  BY DEF GuardInv, OneTransaction
<1>2. ASSUME NEW w \in Workers, pc'[w] \in PastLookUp, KeyOf[current'[w]] # NoKey
      PROVE  MayHandle(current[w])' /\ current'[w] = current[w]
  <2>1. current'[w] = current[w] /\ pc[w] \in InTransaction /\ current[w] \in Events
    BY <1>2 DEF InTransaction, PastLookUp, TypeOK
  <2>2. KeyOf[current[w]] \in Keys /\ MayHandle(current[w])
    BY <2>1, <1>2, OutboxAssumption DEF GuardInv, LookUpHolds
  <2>3. ASSUME NEW e \in Events, e = current[w] PROVE MayHandle(e)'
    BY <2>2, <2>3, MayStillHandle
  <2>4. PICK e \in Events : e = current[w]
    BY <2>1
  <2>5. MayHandle(e)' /\ e = current'[w]
    BY <2>1, <2>3, <2>4
  <2> QED BY <2>1, <2>5 DEF MayHandle
<1>3. LookUpHolds'
  BY <1>2 DEF LookUpHolds
<1> QED BY <1>1, <1>3 DEF GuardInv

LEMMA NextGuard == GuardInv /\ HandledInv /\ [Next]_vars => GuardInv'
<1> SUFFICES ASSUME GuardInv, HandledInv, [Next]_vars PROVE GuardInv'
  OBVIOUS
<1>0. TypeOK /\ TypeOK'
  BY NextType DEF HandledInv
<1> USE DEF rowVars, dbVars, queueVars, workerVars, historyVars, boundVars, InTransaction, PastLookUp
<1>1. ASSUME NEW e \in Events, Publish(e) \/ BackoffElapses(e) \/ RequeueStalled(e) PROVE GuardInv'
  BY <1>1, <1>0, PassiveStep DEF Publish, BackoffElapses, RequeueStalled
<1>2. ASSUME NEW k \in Keys, ExpireKey(k) PROVE GuardInv'
  BY <1>2, <1>0, PassiveStep DEF TypeOK, ExpireKey
<1>3. ASSUME NEW p \in Pollers, PollRead(p) \/ PollEnqueue(p) \/ PollFails(p) PROVE GuardInv'
  BY <1>3, <1>0, PassiveStep DEF PollRead, PollEnqueue, PollFails
<1>4. ASSUME NEW w \in Workers, NEW e \in Events, TakeJob(w, e) PROVE GuardInv'
  BY <1>4, <1>0, PassiveStep DEF TypeOK, TakeJob
<1>5. ASSUME NEW w \in Workers, LockRow(w) PROVE GuardInv'
  <2>1. /\ UNCHANGED <<ledger, current, handled>> /\ ~RowLocked(current[w])
        /\ \A v \in Workers : v # w => pc'[v] = pc[v]
        /\ pc'[w] \in {"checking", "finishing"}
    BY <1>5, <1>0 DEF TypeOK, LockRow, Goto
  <2>2. OneTransaction'
    BY <2>1 DEF GuardInv, OneTransaction, RowLocked
  <2>3. LookUpHolds'
    BY <2>1 DEF GuardInv, LookUpHolds, MayHandle
  <2> QED BY <2>2, <2>3 DEF GuardInv
<1>6. ASSUME NEW w \in Workers, SkipCheck(w) PROVE GuardInv'
  BY <1>6, <1>0, PassiveStep DEF TypeOK, SkipCheck, Goto
<1>7. ASSUME NEW w \in Workers, CheckRaises(w) \/ DispatchThrows(w) \/ CommitFails(w) PROVE GuardInv'
  BY <1>7, <1>0, PassiveStep DEF TypeOK, CheckRaises, DispatchThrows, CommitFails, Fail, Goto
<1>8. ASSUME NEW w \in Workers, CheckKey(w) PROVE GuardInv'
  <2>1. /\ UNCHANGED <<ledger, current, handled>> /\ pc[w] = "checking"
        /\ \A v \in Workers : v # w => pc'[v] = pc[v]
        /\ pc'[w] \in {"skipping", "recording"}
        /\ pc'[w] = "recording" => ~FindsKey(KeyOf[current[w]])
    BY <1>8, <1>0 DEF TypeOK, CheckKey, Goto
  <2>2. pc'[w] = "recording" => MayHandle(current[w])
    BY <1>8, <2>1 DEF FindsKey, MayHandle, CheckKey
  <2> QED BY <2>1, <2>2, <1>0, PassiveStep
<1>9. ASSUME NEW w \in Workers, RecordKey(w) \/ DispatchEvent(w) \/ CommitSkipped(w) PROVE GuardInv'
  <2>1. CASE RecordKey(w)
    BY <2>1, <1>0, PassiveStep DEF TypeOK, RecordKey, Goto
  <2>2. CASE DispatchEvent(w)
    <3>1. \A f \in Events : handled[f] > 0 => handled'[f] > 0
      BY <2>2, <1>0 DEF TypeOK, DispatchEvent
    <3> QED BY <2>2, <3>1, <1>0, PassiveStep DEF TypeOK, DispatchEvent, Goto
  <2>3. CASE CommitSkipped(w)
    BY <2>3, <1>0, PassiveStep DEF TypeOK, CommitSkipped, Goto
  <2> QED BY <1>9, <2>1, <2>2, <2>3
<1>10. ASSUME NEW w \in Workers, CommitDelivered(w) PROVE GuardInv'
  <2>1. /\ UNCHANGED <<current, handled>> /\ pc[w] = "committing" /\ current[w] \in Events
        /\ \A v \in Workers : pc'[v] = IF v = w THEN "finishing" ELSE pc[v]
        /\ \A k \in Keys : k # KeyOf[current[w]] => ledger'[k] = ledger[k]
        /\ handled[current[w]] > 0
    BY <1>10, <1>0 DEF TypeOK, CommitDelivered, Goto, HandledInv, CommitHandled
  <2>2. OneTransaction'
    BY <2>1 DEF GuardInv, OneTransaction
  <2>3. ASSUME NEW v \in Workers, pc'[v] \in PastLookUp, KeyOf[current[v]] # NoKey
        PROVE  MayHandle(current[v])'
    <3>1. v # w /\ pc[v] = pc'[v] /\ current[v] \in Events
      BY <2>1, <2>3, <1>0 DEF TypeOK
    <3>2. current[v] # current[w]
      BY <3>1, <2>1, <2>3 DEF GuardInv, OneTransaction
    <3>3. KeyOf[current[v]] \in Keys /\ MayHandle(current[v])
      BY <3>1, <2>3, OutboxAssumption DEF GuardInv, LookUpHolds
    <3>4. CASE KeyOf[current[v]] = KeyOf[current[w]]
      BY <3>2, <3>3, <3>4, <2>1 DEF MayHandle
    <3>5. CASE KeyOf[current[v]] # KeyOf[current[w]]
      BY <3>3, <3>5, <2>1 DEF MayHandle
    <3> QED BY <3>4, <3>5
  <2>4. LookUpHolds'
    BY <2>1, <2>3 DEF LookUpHolds
  <2> QED BY <2>2, <2>4 DEF GuardInv
<1>11. ASSUME NEW w \in Workers, ReadRetryCount(w) \/ ScheduleRetry(w) \/ MoveToDeadLetter(w) PROVE GuardInv'
  <2>1. CASE ReadRetryCount(w)
    BY <2>1, <1>0, PassiveStep DEF TypeOK, ReadRetryCount
  <2>2. CASE ScheduleRetry(w)
    BY <2>2, <1>0, PassiveStep DEF TypeOK, ScheduleRetry, Overwrite, Goto
  <2>3. CASE MoveToDeadLetter(w)
    BY <2>3, <1>0, PassiveStep DEF TypeOK, MoveToDeadLetter, Overwrite, Goto
  <2> QED BY <1>11, <2>1, <2>2, <2>3
<1>12. ASSUME NEW w \in Workers, MarkForRetryThrows(w) \/ CompleteJob(w) PROVE GuardInv'
  BY <1>12, <1>0, PassiveStep DEF TypeOK, MarkForRetryThrows, CompleteJob, EndJob
<1>13. ASSUME NEW w \in Workers, LoseJobLock(w) \/ Crash(w) PROVE GuardInv'
  <2>1. CASE LoseJobLock(w)
    BY <2>1, <1>0, PassiveStep DEF TypeOK, LoseJobLock
  <2>2. CASE Crash(w)
    BY <2>2, <1>0, PassiveStep DEF TypeOK, Crash
  <2> QED BY <1>13, <2>1, <2>2
<1>14. ASSUME NEW a \in Admins, NEW e \in Events, RetryEventRead(a, e) PROVE GuardInv'
  BY <1>14, <1>0, PassiveStep DEF RetryEventRead
<1>15. ASSUME NEW a \in Admins, RetryEventReset(a) PROVE GuardInv'
  BY <1>15, <1>0, PassiveStep DEF RetryEventReset, Overwrite
<1>16. CASE UNCHANGED vars
  BY <1>16, <1>0, PassiveStep DEF vars
<1> QED
  BY <1>1, <1>2, <1>3, <1>4, <1>5, <1>6, <1>7, <1>8, <1>9, <1>10, <1>11, <1>12, <1>13, <1>14, <1>15, <1>16
  DEF Next, ProcessDispatchJob, Faults

\* Only a worker that calls the handler raises `handled`.
LEMMA HandledByWorker ==
  ASSUME TypeOK, [Next]_vars, NEW e \in Events, handled'[e] > handled[e]
  PROVE  \E w \in Workers : pc[w] = "dispatching" /\ current[w] = e
<1> USE DEF rowVars, dbVars, queueVars, workerVars, historyVars, boundVars
<1>1. ASSUME UNCHANGED handled PROVE FALSE
  BY <1>1 DEF TypeOK
<1>2. ASSUME NEW w \in Workers, DispatchEvent(w) PROVE pc[w] = "dispatching" /\ current[w] = e
  BY <1>2 DEF TypeOK, DispatchEvent
<1>3. ASSUME NEW w \in Workers, ProcessDispatchJob(w) \/ Faults(w), ~DispatchEvent(w) PROVE FALSE
  BY <1>1, <1>3
  DEF ProcessDispatchJob, Faults, LockRow, SkipCheck, CheckRaises, CheckKey, RecordKey, DispatchThrows,
      CommitDelivered, CommitSkipped, ReadRetryCount, ScheduleRetry, MoveToDeadLetter, CompleteJob,
      CommitFails, MarkForRetryThrows, LoseJobLock, Crash, Fail, Overwrite
<1>4. ASSUME NEW f \in Events, Publish(f) \/ BackoffElapses(f) \/ RequeueStalled(f) PROVE FALSE
  BY <1>1, <1>4 DEF Publish, BackoffElapses, RequeueStalled
<1>5. ASSUME NEW k \in Keys, ExpireKey(k) PROVE FALSE
  BY <1>1, <1>5 DEF ExpireKey
<1>6. ASSUME NEW p \in Pollers, PollRead(p) \/ PollEnqueue(p) \/ PollFails(p) PROVE FALSE
  BY <1>1, <1>6 DEF PollRead, PollEnqueue, PollFails
<1>7. ASSUME NEW w \in Workers, NEW f \in Events, TakeJob(w, f) PROVE FALSE
  BY <1>1, <1>7 DEF TakeJob
<1>8. ASSUME NEW a \in Admins, NEW f \in Events, RetryEventRead(a, f) PROVE FALSE
  BY <1>1, <1>8 DEF RetryEventRead
<1>9. ASSUME NEW a \in Admins, RetryEventReset(a) PROVE FALSE
  BY <1>1, <1>9 DEF RetryEventReset, Overwrite
<1>10. CASE UNCHANGED vars
  BY <1>1, <1>10 DEF vars
<1> QED BY <1>2, <1>3, <1>4, <1>5, <1>6, <1>7, <1>8, <1>9, <1>10 DEF Next

\* The ledger guards the handler as far as the server lets it, for any events and
\* keys, shared ones included, under each of the server's settings, whatever
\* crashes, stalls or is retried by hand.
THEOREM OutboxLedgerGuardsHandler == Spec => LedgerGuardsHandler
<1> DEFINE Guarded == \A e \in Events : KeyOf[e] # NoKey /\ handled'[e] > handled[e] => MayHandle(e)
<1>1. GuardInv /\ HandledInv /\ [Next]_vars => Guarded
  <2> SUFFICES ASSUME GuardInv, HandledInv, [Next]_vars,
                      NEW e \in Events, KeyOf[e] # NoKey, handled'[e] > handled[e]
               PROVE  MayHandle(e)
    OBVIOUS
  <2>1. PICK w \in Workers : pc[w] = "dispatching" /\ current[w] = e
    BY HandledByWorker DEF HandledInv
  <2> QED BY <2>1 DEF GuardInv, LookUpHolds, PastLookUp
<1>2. Spec => [][Guarded]_vars
  <2> HIDE DEF Guarded
  <2> QED BY <1>1, InitGuard, NextGuard, InitHandled, NextHandled, PTL DEF Spec
<1> QED BY <1>2 DEF LedgerGuardsHandler, MayHandle

-----------------------------------------------------------------------------
(* KeepsPromise                                                            *)
(*                                                                         *)
(* The updates that follow a failure test no status.  A worker that still  *)
(* has its job's lock, and a retry request that is alone, find the row as  *)
(* they left it; the others are counted, and each has raised `disputes`    *)
(* when it lost the lock or found another request under way.               *)

\* A job whose lock is held is active, and its worker is about its event.
JobsOwned ==
  \A e \in Events : owner[e] # NoWorker =>
    job[e] = "active" /\ current[owner[e]] = e /\ pc[owner[e]] # "idle"

\* The jobs that are retained are the finished ones, each once: forgetting the
\* oldest forgets no job that is under way.
Listed ==
  \A o \in Outcomes : \A i \in 1 .. Len(finished[o]) :
    /\ job[finished[o][i]] = o
    /\ \A k \in 1 .. Len(finished[o]) : finished[o][k] = finished[o][i] => k = i

QueueInv == JobsOwned /\ Listed

LEMMA InitQueue == Init => QueueInv
BY DEF Init, QueueInv, JobsOwned, Listed, Outcomes

\* Retaining a job that was active touches no other active job.
LEMMA RetainHeld ==
  ASSUME TypeOK, Listed, NEW e \in Events, NEW o \in Outcomes, job[e] = "active", Retain(e, o)
  PROVE  /\ Listed'
         /\ \A f \in Events : f # e /\ job[f] = "active" => job'[f] = "active" /\ owner'[f] = owner[f]
<1> DEFINE old == finished[o]
           log == Append(old, e)
           full == Len(log) > Keep[o]
<1>1. old \in Seq(Events)
  BY DEF TypeOK
<1>2. /\ Len(old) \in Nat /\ Len(log) = Len(old) + 1 /\ log \in Seq(Events)
      /\ \A i \in 1 .. Len(old) : log[i] = old[i] /\ old[i] \in Events /\ job[old[i]] = o
      /\ log[Len(old) + 1] = e
      /\ \A i, k \in 1 .. Len(old) : old[i] = old[k] => i = k
  BY <1>1 DEF Listed
<1>3. o # "active" /\ Keep[o] \in Nat \ {0}
  BY OutboxAssumption DEF Outcomes
<1>4. \A i \in 1 .. Len(old) : old[i] # e
  BY <1>2, <1>3
<1>5. \A i, k \in 1 .. Len(log) : log[i] = log[k] => i = k
  <2> SUFFICES ASSUME NEW i \in 1 .. Len(old) + 1, NEW k \in 1 .. Len(old) + 1, log[i] = log[k]
               PROVE  i = k
    BY <1>2
  <2>1. CASE i \in 1 .. Len(old) /\ k \in 1 .. Len(old)
    BY <2>1, <1>2
  <2>2. CASE i = Len(old) + 1 /\ k \in 1 .. Len(old)
    BY <2>2, <1>2, <1>4
  <2>3. CASE k = Len(old) + 1 /\ i \in 1 .. Len(old)
    BY <2>3, <1>2, <1>4
  <2>4. CASE i = Len(old) + 1 /\ k = Len(old) + 1
    BY <2>4
  <2> QED BY <2>1, <2>2, <2>3, <2>4, <1>2
<1>6. full => Len(old) >= 1 /\ Head(log) = old[1] /\ job[Head(log)] = o
  BY <1>1, <1>2, <1>3
<1>7. \A f \in Events : job'[f] = IF full /\ f = Head(log) THEN "none" ELSE IF f = e THEN o ELSE job[f]
  BY DEF Retain
<1>8. \A f \in Events : f # e => owner'[f] = owner[f]
  BY DEF Retain, TypeOK
<1>9. finished'[o] = IF full THEN Tail(log) ELSE log
  BY DEF Retain, TypeOK
<1>10. \A p \in Outcomes : p # o => finished'[p] = finished[p]
  BY DEF Retain, TypeOK
<1> HIDE DEF log, old
<1>11. ASSUME NEW i \in 1 .. Len(finished'[o])
       PROVE  /\ job'[finished'[o][i]] = o
              /\ \A k \in 1 .. Len(finished'[o]) : finished'[o][k] = finished'[o][i] => k = i
  <2>0. \A i1 \in 1 .. Len(log) : log[i1] \in Events /\ (log[i1] = e \/ job[log[i1]] = o)
    BY <1>2
  <2>1. CASE ~full
    BY <2>1, <2>0, <1>5, <1>7, <1>9, <1>11
  <2>2. CASE full
    <3>1. /\ Len(finished'[o]) = Len(old)
          /\ \A m \in 1 .. Len(old) : finished'[o][m] = log[m + 1] /\ m + 1 \in 1 .. Len(log)
      BY <2>2, <1>2, <1>6, <1>9
    <3>2. Head(log) = log[1] /\ 1 \in 1 .. Len(log)
      BY <2>2, <1>2, <1>6
    <3>3. i \in 1 .. Len(old) /\ i + 1 # 1
      BY <3>1, <1>11, <1>2
    <3>4. log[i + 1] # Head(log)
      BY <3>1, <3>2, <3>3, <1>5
    <3>5. job'[log[i + 1]] = o
      BY <3>1, <3>3, <3>4, <2>0, <1>7
    <3>6. \A k \in 1 .. Len(old) : log[k + 1] = log[i + 1] => k = i
      BY <3>1, <3>3, <1>5, <1>2
    <3> QED BY <3>1, <3>3, <3>5, <3>6
  <2> QED BY <2>1, <2>2
<1>12. ASSUME NEW p \in Outcomes, p # o, NEW i \in 1 .. Len(finished[p])
       PROVE  job'[finished[p][i]] = p
  <2>0. finished[p] \in Seq(Events) /\ p # "active"
    BY DEF TypeOK, Outcomes
  <2>1. finished[p][i] \in Events /\ job[finished[p][i]] = p /\ p # "active"
    BY <2>0 DEF Listed
  <2>2. finished[p][i] # e /\ (full => finished[p][i] # Head(log))
    BY <2>1, <1>6, <1>12
  <2> QED BY <2>1, <2>2, <1>7
<1>13. Listed'
  BY <1>10, <1>11, <1>12 DEF Listed
<1>14. \A f \in Events : f # e /\ job[f] = "active" => job'[f] = "active"
  BY <1>3, <1>6, <1>7
<1> QED BY <1>13, <1>14, <1>8

\* A step that leaves the queue alone and takes no event from its worker.
LEMMA QueueStays ==
  ASSUME TypeOK, QueueInv, UNCHANGED <<job, owner, finished>>,
         \A w \in Workers : pc[w] # "idle" => pc'[w] # "idle" /\ current'[w] = current[w]
  PROVE  QueueInv'
<1>1. Listed'
  BY DEF QueueInv, Listed
<1>2. ASSUME NEW e \in Events, owner'[e] # NoWorker
      PROVE  job'[e] = "active" /\ current'[owner'[e]] = e /\ pc'[owner'[e]] # "idle"
  <2>1. /\ owner[e] \in Workers /\ owner'[e] = owner[e]
        /\ job[e] = "active" /\ current[owner[e]] = e /\ pc[owner[e]] # "idle"
    BY <1>2 DEF TypeOK, QueueInv, JobsOwned
  <2> QED BY <2>1
<1> QED BY <1>1, <1>2 DEF QueueInv, JobsOwned

\* A worker that stops, with its job ended or its lock gone, owns nothing more.
LEMMA WorkerStops ==
  ASSUME TypeOK, TypeOK', QueueInv, NEW w \in Workers, pc[w] # "idle",
         \A v \in Workers : v # w => pc'[v] = pc[v] /\ current'[v] = current[v],
         \A f \in Events : owner'[f] # NoWorker =>
           owner'[f] = owner[f] /\ owner[f] # w /\ (job[f] = "active" => job'[f] = "active")
  PROVE  JobsOwned'
<1> SUFFICES ASSUME NEW f \in Events, owner'[f] # NoWorker
             PROVE  job'[f] = "active" /\ current'[owner'[f]] = f /\ pc'[owner'[f]] # "idle"
  BY DEF JobsOwned
<1>1. owner'[f] = owner[f] /\ owner[f] # w /\ owner[f] \in Workers
  BY DEF TypeOK
<1>2. job[f] = "active" /\ current[owner[f]] = f /\ pc[owner[f]] # "idle"
  BY <1>1 DEF QueueInv, JobsOwned
<1> QED BY <1>1, <1>2

LEMMA EndJobQueue ==
  ASSUME TypeOK, TypeOK', QueueInv, NEW w \in Workers, pc[w] # "idle", NEW o \in Outcomes, EndJob(w, o)
  PROVE  QueueInv'
<1>1. /\ current[w] \in Events
      /\ \A v \in Workers : v # w => pc'[v] = pc[v] /\ current'[v] = current[v]
  BY DEF EndJob, TypeOK
<1>2. CASE owner[current[w]] = w
  <2>1. Retain(current[w], o) /\ job[current[w]] = "active"
    BY <1>1, <1>2, OutboxAssumption DEF EndJob, QueueInv, JobsOwned
  <2>2. /\ Listed'
        /\ \A f \in Events : f # current[w] /\ job[f] = "active" => job'[f] = "active" /\ owner'[f] = owner[f]
    BY <1>1, <2>1, RetainHeld DEF QueueInv
  <2>3. owner' = [owner EXCEPT ![current[w]] = NoWorker]
    BY <2>1 DEF Retain
  <2>4. \A f \in Events : owner'[f] # NoWorker => f # current[w] /\ owner'[f] = owner[f]
    BY <2>3, <1>1 DEF TypeOK
  <2>5. \A f \in Events : owner[f] = w => f = current[w]
    BY OutboxAssumption DEF QueueInv, JobsOwned
  <2>6. \A f \in Events : owner'[f] # NoWorker =>
           owner'[f] = owner[f] /\ owner[f] # w /\ (job[f] = "active" => job'[f] = "active")
    BY <2>2, <2>4, <2>5
  <2>7. JobsOwned'
    BY <1>1, <2>6, WorkerStops
  <2> QED BY <2>2, <2>7 DEF QueueInv
<1>3. CASE owner[current[w]] # w
  <2>1. UNCHANGED <<job, owner, finished>>
    BY <1>3 DEF EndJob, queueVars
  <2>2. \A f \in Events : owner[f] # w
    BY <1>3, OutboxAssumption DEF QueueInv, JobsOwned
  <2>3. JobsOwned'
    BY <1>1, <2>1, <2>2, WorkerStops
  <2>4. Listed'
    BY <2>1 DEF QueueInv, Listed
  <2> QED BY <2>3, <2>4 DEF QueueInv
<1> QED BY <1>2, <1>3

\* A change of jobs that are not finished leaves the lists right.
LEMMA ListedStays ==
  ASSUME TypeOK, Listed, UNCHANGED finished,
         \A f \in Events : job[f] \in Outcomes => job'[f] = job[f]
  PROVE  Listed'
<1>1. ASSUME NEW o \in Outcomes, NEW i \in 1 .. Len(finished[o]) PROVE job'[finished[o][i]] = o
  <2>1. finished[o] \in Seq(Events)
    BY DEF TypeOK
  <2>2. finished[o][i] \in Events /\ job[finished[o][i]] = o
    BY <2>1 DEF Listed
  <2> QED BY <2>2
<1> QED BY <1>1 DEF Listed

LEMMA NextQueue == TypeOK /\ QueueInv /\ [Next]_vars => QueueInv'
<1> SUFFICES ASSUME TypeOK, QueueInv, [Next]_vars PROVE QueueInv'
  OBVIOUS
<1>0. TypeOK'
  BY NextType
<1> USE DEF rowVars, dbVars, queueVars, workerVars, historyVars, boundVars
<1>1. ASSUME NEW e \in Events, Publish(e) \/ BackoffElapses(e) PROVE QueueInv'
  BY <1>1, QueueStays DEF Publish, BackoffElapses
<1>2. ASSUME NEW e \in Events, RequeueStalled(e) PROVE QueueInv'
  <2>1. job[e] = "active" /\ owner[e] = NoWorker /\ UNCHANGED <<pc, current>>
    BY <1>2 DEF RequeueStalled
  <2>2. CASE Retain(e, "failed")
    <3>1. /\ Listed'
          /\ \A f \in Events : f # e /\ job[f] = "active" => job'[f] = "active" /\ owner'[f] = owner[f]
      BY <2>1, <2>2, RetainHeld DEF Outcomes, QueueInv
    <3>2. \A f \in Events : owner'[f] # NoWorker => owner'[f] = owner[f] /\ f # e
      BY <2>2 DEF Retain, TypeOK
    <3>3. JobsOwned'
      BY <2>1, <3>1, <3>2 DEF QueueInv, JobsOwned
    <3> QED BY <3>1, <3>3 DEF QueueInv
  <2>3. CASE ~Retain(e, "failed")
    <3>1. /\ job' = [job EXCEPT ![e] = "waiting"]
          /\ UNCHANGED <<owner, finished>>
      BY <1>2, <2>3 DEF RequeueStalled
    <3>2. \A f \in Events : f # e => job'[f] = job[f]
      BY <3>1 DEF TypeOK
    <3>3. JobsOwned'
      BY <2>1, <3>1, <3>2 DEF QueueInv, JobsOwned
    <3>4. Listed'
      BY <2>1, <3>1, <3>2, ListedStays DEF QueueInv, Outcomes
    <3> QED BY <3>3, <3>4 DEF QueueInv
  <2> QED BY <2>2, <2>3
<1>3. ASSUME NEW k \in Keys, ExpireKey(k) PROVE QueueInv'
  BY <1>3, QueueStays DEF ExpireKey
<1>4. ASSUME NEW p \in Pollers, PollRead(p) \/ PollFails(p) PROVE QueueInv'
  BY <1>4, QueueStays DEF PollRead, PollFails
<1>5. ASSUME NEW p \in Pollers, PollEnqueue(p) PROVE QueueInv'
  <2>1. /\ UNCHANGED <<owner, finished, pc, current>>
        /\ \A f \in Events : job[f] # "none" => job'[f] = job[f]
    BY <1>5 DEF PollEnqueue
  <2>2. JobsOwned'
    BY <2>1 DEF QueueInv, JobsOwned
  <2>3. Listed'
    BY <2>1, ListedStays DEF QueueInv, Outcomes
  <2> QED BY <2>2, <2>3 DEF QueueInv
<1>6. ASSUME NEW w \in Workers, NEW e \in Events, TakeJob(w, e) PROVE QueueInv'
  <2>1. /\ pc[w] = "idle" /\ job[e] = "waiting"
        /\ job'[e] = "active" /\ owner'[e] = w /\ pc'[w] = "fetched" /\ current'[w] = e
        /\ \A f \in Events : f # e => job'[f] = job[f] /\ owner'[f] = owner[f]
        /\ \A v \in Workers : v # w => pc'[v] = pc[v] /\ current'[v] = current[v]
        /\ UNCHANGED finished
    BY <1>6 DEF TypeOK, TakeJob
  <2>2. ASSUME NEW f \in Events, f # e, owner'[f] # NoWorker
        PROVE  job'[f] = "active" /\ current'[owner'[f]] = f /\ pc'[owner'[f]] # "idle"
    <3>1. owner[f] \in Workers /\ job[f] = "active" /\ current[owner[f]] = f /\ pc[owner[f]] # "idle"
      BY <2>1, <2>2 DEF TypeOK, QueueInv, JobsOwned
    <3> QED BY <2>1, <2>2, <3>1
  <2>3. JobsOwned'
    BY <2>1, <2>2 DEF JobsOwned
  <2>4. Listed'
    BY <2>1, ListedStays DEF QueueInv, Outcomes
  <2> QED BY <2>3, <2>4 DEF QueueInv
<1>7. ASSUME NEW w \in Workers, ProcessDispatchJob(w) \/ CommitFails(w), ~CompleteJob(w) PROVE QueueInv'
  <2>1. UNCHANGED <<job, owner, finished, current>> /\ \E place \in Places \ {"idle"} : pc' = [pc EXCEPT ![w] = place]
    BY <1>7
    DEF ProcessDispatchJob, LockRow, SkipCheck, CheckRaises, CheckKey, RecordKey, DispatchEvent, DispatchThrows,
        CommitDelivered, CommitSkipped, CommitFails, ReadRetryCount, ScheduleRetry, MoveToDeadLetter, Fail, Goto,
        OthersUnchanged, Places, InTransaction
  <2> QED BY <2>1, QueueStays DEF TypeOK
<1>8. ASSUME NEW w \in Workers, MarkForRetryThrows(w) \/ CompleteJob(w) PROVE QueueInv'
  <2>1. PICK o \in Outcomes : EndJob(w, o)
    BY <1>8 DEF MarkForRetryThrows, CompleteJob, Outcomes
  <2>2. pc[w] # "idle"
    BY <1>8 DEF MarkForRetryThrows, CompleteJob
  <2> QED BY <1>0, <2>1, <2>2, EndJobQueue
<1>9. ASSUME NEW w \in Workers, LoseJobLock(w) PROVE QueueInv'
  <2>1. /\ UNCHANGED <<job, finished, pc, current>>
        /\ \A f \in Events : owner'[f] # NoWorker => owner'[f] = owner[f]
    BY <1>9 DEF LoseJobLock, TypeOK
  <2>2. JobsOwned'
    BY <2>1 DEF QueueInv, JobsOwned
  <2>3. Listed'
    BY <2>1 DEF QueueInv, Listed
  <2> QED BY <2>2, <2>3 DEF QueueInv
<1>10. ASSUME NEW w \in Workers, Crash(w) PROVE QueueInv'
  <2>1. /\ UNCHANGED <<job, finished>> /\ pc[w] # "idle" /\ current[w] \in Events
        /\ \A v \in Workers : v # w => pc'[v] = pc[v] /\ current'[v] = current[v]
        /\ \A e \in Events : e # current[w] => owner'[e] = owner[e]
        /\ owner'[current[w]] = IF owner[current[w]] = w THEN NoWorker ELSE owner[current[w]]
    BY <1>10 DEF TypeOK, Crash
  <2>2. \A f \in Events : owner[f] = w => f = current[w]
    BY OutboxAssumption DEF QueueInv, JobsOwned
  <2>3. JobsOwned'
    BY <1>0, <2>1, <2>2, WorkerStops
  <2>4. Listed'
    BY <2>1 DEF QueueInv, Listed
  <2> QED BY <2>3, <2>4 DEF QueueInv
<1>11. ASSUME NEW a \in Admins, NEW e \in Events, RetryEventRead(a, e) PROVE QueueInv'
  BY <1>11, QueueStays DEF RetryEventRead
<1>12. ASSUME NEW a \in Admins, RetryEventReset(a) PROVE QueueInv'
  BY <1>12, QueueStays DEF RetryEventReset
<1>13. CASE UNCHANGED vars
  BY <1>13, QueueStays DEF vars
<1> QED
  BY <1>1, <1>2, <1>3, <1>4, <1>5, <1>6, <1>7, <1>8, <1>9, <1>10, <1>11, <1>12, <1>13
  DEF Next, Faults

\* A worker that holds the row lock has found the row pending, and it stays so.
LockedPending == \A w \in Workers : pc[w] \in InTransaction => status[current[w]] = "pending"

Writes == {"failing", "retrying"}

\* Nobody is about to update the row of an event that is not published.
WritesPublished ==
  /\ \A w \in Workers : pc[w] \in Writes => status[current[w]] # "unpublished"
  /\ \A a \in Admins : adminRead[a] # NoEvent => status[adminRead[a]] # "unpublished"

RowInv == LockedPending /\ WritesPublished

LEMMA InitRow == Init => RowInv
BY DEF Init, RowInv, LockedPending, WritesPublished, InTransaction, Writes

\* A step that moves no row under somebody's lock, unpublishes none, and takes
\* workers and requests only to rows in a fitting state.
LEMMA RowStep ==
  ASSUME TypeOK, TypeOK', RowInv,
         \A e \in Events : status'[e] = "unpublished" => status[e] = "unpublished",
         \A w \in Workers : pc'[w] \in InTransaction =>
           /\ current'[w] = current[w]
           /\ status[current[w]] = "pending" => status'[current[w]] = "pending"
           /\ pc[w] \in InTransaction \/ status[current[w]] = "pending",
         \A w \in Workers : pc'[w] \in Writes =>
           pc[w] \in InTransaction \cup Writes /\ current'[w] = current[w],
         \A a \in Admins : adminRead'[a] \in {adminRead[a], NoEvent} \/ status[adminRead'[a]] = "failed"
  PROVE  RowInv'
<1>1. LockedPending'
  BY DEF RowInv, LockedPending
<1>2. ASSUME NEW w \in Workers, pc'[w] \in Writes PROVE status'[current'[w]] # "unpublished"
  <2>1. current[w] \in Events /\ current'[w] = current[w]
    BY <1>2 DEF TypeOK, Writes
  <2>2. status[current[w]] # "unpublished"
    BY <1>2 DEF RowInv, LockedPending, WritesPublished
  <2> QED BY <2>1, <2>2
<1>3. ASSUME NEW a \in Admins, adminRead'[a] # NoEvent PROVE status'[adminRead'[a]] # "unpublished"
  <2>1. adminRead'[a] \in Events
    BY <1>3 DEF TypeOK
  <2>2. CASE adminRead'[a] = adminRead[a]
    BY <1>3, <2>1, <2>2 DEF RowInv, WritesPublished
  <2>3. CASE status[adminRead'[a]] = "failed"
    BY <2>1, <2>3
  <2> QED BY <1>3, <2>2, <2>3
<1> QED BY <1>1, <1>2, <1>3 DEF RowInv, WritesPublished

\* A worker's update of its own row, when nobody else's transaction is about it.
LEMMA OwnRow ==
  ASSUME TypeOK, TypeOK', RowInv, NEW w \in Workers, pc[w] # "idle", NEW to \in {"pending", "delivered", "failed"},
         \A v \in Workers : v # w /\ pc[v] \in InTransaction => current[v] # current[w],
         status' = [status EXCEPT ![current[w]] = to], pc' = [pc EXCEPT ![w] = "finishing"],
         UNCHANGED <<current, adminRead>>
  PROVE  RowInv'
<1>1. current[w] \in Events
  BY DEF TypeOK
<1>2. \A e \in Events : status'[e] = IF e = current[w] THEN to ELSE status[e]
  BY <1>1 DEF TypeOK
<1>3. \A v \in Workers : pc'[v] = IF v = w THEN "finishing" ELSE pc[v]
  BY DEF TypeOK
<1>4. \A e \in Events : status'[e] = "unpublished" => status[e] = "unpublished"
  BY <1>2
<1>5. ASSUME NEW v \in Workers, pc'[v] \in InTransaction
      PROVE  /\ current'[v] = current[v]
             /\ status[current[v]] = "pending" => status'[current[v]] = "pending"
             /\ pc[v] \in InTransaction
  <2>1. v # w /\ pc[v] \in InTransaction /\ current[v] \in Events
    BY <1>3, <1>5 DEF InTransaction, TypeOK
  <2> QED BY <2>1, <1>2
<1>6. \A v \in Workers : pc'[v] \in Writes => pc[v] \in Writes /\ current'[v] = current[v]
  BY <1>3 DEF Writes
<1> QED BY <1>4, <1>5, <1>6, RowStep

LEMMA NextRow == TypeOK /\ GuardInv /\ RowInv /\ [Next]_vars => RowInv'
<1> SUFFICES ASSUME TypeOK, GuardInv, RowInv, [Next]_vars PROVE RowInv'
  OBVIOUS
<1>0. TypeOK'
  BY NextType
<1> USE DEF rowVars, dbVars, queueVars, workerVars, historyVars, boundVars
<1>1. ASSUME NEW e \in Events, Publish(e) PROVE RowInv'
  <2>1. /\ UNCHANGED <<pc, current, adminRead>>
        /\ \A f \in Events : status'[f] = IF f = e THEN "pending" ELSE status[f]
    BY <1>1 DEF TypeOK, Publish
  <2>2. \A v \in Workers : pc[v] \in InTransaction => current[v] \in Events
    BY DEF TypeOK, InTransaction
  <2> QED BY <2>1, <2>2, <1>0, RowStep
<1>2. ASSUME NEW e \in Events, BackoffElapses(e) \/ RequeueStalled(e) PROVE RowInv'
  BY <1>2, <1>0, RowStep DEF BackoffElapses, RequeueStalled
<1>3. ASSUME NEW k \in Keys, ExpireKey(k) PROVE RowInv'
  BY <1>3, <1>0, RowStep DEF ExpireKey
<1>4. ASSUME NEW p \in Pollers, PollRead(p) \/ PollEnqueue(p) \/ PollFails(p) PROVE RowInv'
  BY <1>4, <1>0, RowStep DEF PollRead, PollEnqueue, PollFails
<1>5. ASSUME NEW w \in Workers, NEW e \in Events, TakeJob(w, e) PROVE RowInv'
  BY <1>5, <1>0, RowStep DEF TypeOK, TakeJob, InTransaction, Writes
<1>6. ASSUME NEW w \in Workers, LockRow(w) PROVE RowInv'
  <2>1. /\ UNCHANGED <<status, current, adminRead>>
        /\ \A v \in Workers : v # w => pc'[v] = pc[v]
        /\ pc'[w] = "finishing" \/ (pc'[w] = "checking" /\ status[current[w]] = "pending")
    BY <1>6 DEF TypeOK, LockRow, Goto, OthersUnchanged
  <2> QED BY <2>1, <1>0, RowStep DEF InTransaction, Writes
<1>7. ASSUME NEW w \in Workers,
             SkipCheck(w) \/ CheckRaises(w) \/ CheckKey(w) \/ RecordKey(w) \/ DispatchEvent(w)
             \/ DispatchThrows(w) \/ CommitFails(w)
      PROVE  RowInv'
  <2>1. pc[w] \in InTransaction /\ UNCHANGED <<status, current, adminRead>>
    BY <1>7 DEF SkipCheck, CheckRaises, CheckKey, RecordKey, DispatchEvent, DispatchThrows,
                CommitFails, Fail, Goto, OthersUnchanged, InTransaction
  <2>2. \A v \in Workers : v # w => pc'[v] = pc[v]
    BY <1>7 DEF TypeOK, SkipCheck, CheckRaises, CheckKey, RecordKey, DispatchEvent,
                DispatchThrows, CommitFails, Fail, Goto
  <2> QED BY <2>1, <2>2, <1>0, RowStep
<1>8. ASSUME NEW w \in Workers, CommitDelivered(w) \/ CommitSkipped(w) PROVE RowInv'
  <2>1. /\ pc[w] \in InTransaction /\ pc[w] # "idle"
        /\ status' = [status EXCEPT ![current[w]] = "delivered"] /\ pc' = [pc EXCEPT ![w] = "finishing"]
        /\ UNCHANGED <<current, adminRead>>
    BY <1>8 DEF CommitDelivered, CommitSkipped, Goto, OthersUnchanged, InTransaction
  <2>2. \A v \in Workers : v # w /\ pc[v] \in InTransaction => current[v] # current[w]
    BY <2>1 DEF GuardInv, OneTransaction
  <2> QED BY <2>1, <2>2, <1>0, OwnRow
<1>9. ASSUME NEW w \in Workers, ScheduleRetry(w) \/ MoveToDeadLetter(w) PROVE RowInv'
  <2>1. PICK to \in {"pending", "delivered", "failed"} :
          /\ pc[w] # "idle" /\ ~RowLocked(current[w])
          /\ status' = [status EXCEPT ![current[w]] = to] /\ pc' = [pc EXCEPT ![w] = "finishing"]
          /\ UNCHANGED <<current, adminRead>>
    BY <1>9 DEF ScheduleRetry, MoveToDeadLetter, Goto, OthersUnchanged
  <2>2. \A v \in Workers : v # w /\ pc[v] \in InTransaction => current[v] # current[w]
    BY <2>1 DEF RowLocked
  <2> QED BY <2>1, <2>2, <1>0, OwnRow
<1>10. ASSUME NEW w \in Workers, ReadRetryCount(w) PROVE RowInv'
  <2>1. /\ UNCHANGED <<current, status, adminRead>> /\ pc[w] = "failing" /\ pc'[w] = "retrying"
        /\ \A v \in Workers : v # w => pc'[v] = pc[v]
    BY <1>10 DEF TypeOK, ReadRetryCount
  <2> QED BY <2>1, <1>0, RowStep DEF InTransaction, Writes
<1>11. ASSUME NEW w \in Workers, MarkForRetryThrows(w) \/ CompleteJob(w) \/ Crash(w) PROVE RowInv'
  <2>1. /\ UNCHANGED <<status, adminRead>> /\ pc'[w] = "idle"
        /\ \A v \in Workers : v # w => pc'[v] = pc[v] /\ current'[v] = current[v]
    BY <1>11 DEF TypeOK, MarkForRetryThrows, CompleteJob, Crash, EndJob
  <2> QED BY <2>1, <1>0, RowStep DEF InTransaction, Writes
<1>12. ASSUME NEW w \in Workers, LoseJobLock(w) PROVE RowInv'
  BY <1>12, <1>0, RowStep DEF LoseJobLock
<1>13. ASSUME NEW a \in Admins, NEW e \in Events, RetryEventRead(a, e) PROVE RowInv'
  <2>1. /\ UNCHANGED <<current, pc, status>> /\ status[e] = "failed"
        /\ \A b \in Admins : adminRead'[b] = IF b = a THEN e ELSE adminRead[b]
    BY <1>13 DEF TypeOK, RetryEventRead
  <2> QED BY <2>1, <1>0, RowStep
<1>14. ASSUME NEW a \in Admins, RetryEventReset(a) PROVE RowInv'
  <2>1. /\ UNCHANGED <<current, pc>> /\ adminRead[a] \in Events
        /\ \A b \in Admins : adminRead'[b] = IF b = a THEN NoEvent ELSE adminRead[b]
        /\ \A f \in Events : status'[f] = IF f = adminRead[a] THEN "pending" ELSE status[f]
    BY <1>14 DEF TypeOK, RetryEventReset
  <2>2. \A v \in Workers : pc[v] \in InTransaction => current[v] \in Events
    BY DEF TypeOK, InTransaction
  <2> QED BY <2>1, <2>2, <1>0, RowStep
<1>15. CASE UNCHANGED vars
  BY <1>15, <1>0, RowStep DEF vars
<1> QED
  BY <1>1, <1>2, <1>3, <1>4, <1>5, <1>6, <1>7, <1>8, <1>9, <1>10, <1>11, <1>12, <1>13, <1>14, <1>15
  DEF Next, ProcessDispatchJob, Faults

\* The workers that are about an event without its job's lock.
Strays(e) == {w \in Workers : current[w] = e /\ pc[w] \notin {"idle", "finishing"} /\ owner[e] # w}

Requests(e) == {a \in Admins : adminRead[a] = e}

\* Of the requests for a failed event, the first to reset it undoes nothing.
LateRequests(e) ==
  LET n == Cardinality(Requests(e)) IN IF status[e] = "failed" /\ n > 0 THEN n - 1 ELSE n

\* The holder of the job's lock undoes nothing while the row is as it left it.
LateOwner(e) ==
  IF status[e] \in {"delivered", "failed"} /\ owner[e] # NoWorker /\ pc[owner[e]] \in Writes
    THEN 1 ELSE 0

\* Whoever may still undo a delivered mark of the event has been counted.
DisputesCover ==
  \A e \in Events : Cardinality(Strays(e)) + LateRequests(e) + LateOwner(e) <= disputes[e]

LEMMA CountsAreNumbers ==
  ASSUME NEW e \in Events
  PROVE  /\ IsFiniteSet(Strays(e)) /\ Cardinality(Strays(e)) \in Nat
         /\ IsFiniteSet(Requests(e)) /\ Cardinality(Requests(e)) \in Nat
<1>1. Strays(e) \subseteq Workers /\ Requests(e) \subseteq Admins
  BY DEF Strays, Requests
<1> QED BY <1>1, OutboxAssumption, FS_Subset, FS_CardinalityType

LEMMA StraysShrink ==
  ASSUME NEW e \in Events, Strays(e)' \subseteq Strays(e)
  PROVE  Cardinality(Strays(e)') \in Nat /\ Cardinality(Strays(e)') <= Cardinality(Strays(e))
BY CountsAreNumbers, FS_Subset, FS_CardinalityType

LEMMA RequestsShrink ==
  ASSUME NEW e \in Events, Requests(e)' \subseteq Requests(e)
  PROVE  Cardinality(Requests(e)') \in Nat /\ Cardinality(Requests(e)') <= Cardinality(Requests(e))
BY CountsAreNumbers, FS_Subset, FS_CardinalityType

LEMMA InitCover == Init => DisputesCover
<1> SUFFICES ASSUME Init, NEW e \in Events
             PROVE  Cardinality(Strays(e)) + LateRequests(e) + LateOwner(e) <= disputes[e]
  BY DEF DisputesCover
<1>1. Strays(e) = {} /\ Requests(e) = {}
  BY OutboxAssumption DEF Init, Strays, Requests
<1>2. Cardinality(Strays(e)) = 0 /\ Cardinality(Requests(e)) = 0
  BY <1>1, FS_EmptySet
<1> QED BY <1>2 DEF Init, LateRequests, LateOwner

\* A step that leaves an event's status, and brings nobody newly to its row.
LEMMA CoverKept ==
  ASSUME TypeOK, TypeOK', DisputesCover, NEW e \in Events, disputes[e] <= disputes'[e],
         status'[e] = status[e] \/ {status[e], status'[e]} \subseteq {"unpublished", "pending"},
         \A w \in Workers : w \in Strays(e)' => w \in Strays(e),
         \A a \in Admins : adminRead'[a] = e => adminRead[a] = e,
         status'[e] # "pending" /\ owner'[e] # NoWorker /\ pc'[owner'[e]] \in Writes
           => owner[e] = owner'[e] /\ pc[owner[e]] \in Writes
  PROVE  Cardinality(Strays(e)') + LateRequests(e)' + LateOwner(e)' <= disputes'[e]
<1>1. Strays(e)' \subseteq Strays(e) /\ Requests(e)' \subseteq Requests(e)
  BY DEF Strays, Requests
<1>2. /\ Cardinality(Strays(e)') \in Nat /\ Cardinality(Strays(e)') <= Cardinality(Strays(e))
      /\ Cardinality(Requests(e)') \in Nat /\ Cardinality(Requests(e)') <= Cardinality(Requests(e))
  BY <1>1, StraysShrink, RequestsShrink
<1>3. /\ Cardinality(Strays(e)) \in Nat /\ Cardinality(Requests(e)) \in Nat
      /\ disputes[e] \in Int /\ disputes'[e] \in Int
      /\ Cardinality(Strays(e)) + LateRequests(e) + LateOwner(e) <= disputes[e]
  BY CountsAreNumbers DEF TypeOK, DisputesCover
<1>4. LateRequests(e) \in Nat /\ LateRequests(e)' \in Nat /\ LateRequests(e)' <= LateRequests(e)
  BY <1>2, <1>3 DEF LateRequests
<1>5. LateOwner(e) \in {0, 1} /\ LateOwner(e)' \in {0, 1} /\ LateOwner(e)' <= LateOwner(e)
  BY DEF LateOwner
<1> QED BY <1>2, <1>3, <1>4, <1>5

\* A worker that updates the row of its event is one of those counted, or has
\* the job's lock; either way it is no threat any longer.
LEMMA WorkerLeaves ==
  ASSUME TypeOK, NEW w \in Workers, NEW e \in Events, e = current[w],
         pc[w] \notin {"idle", "finishing"}, pc' = [pc EXCEPT ![w] = "finishing"],
         UNCHANGED <<current, owner, adminRead>>
  PROVE  /\ Cardinality(Strays(e)') \in Nat
         /\ Cardinality(Requests(e)') = Cardinality(Requests(e))
         /\ LateOwner(e)' \in {0, 1}
         /\ \/ /\ owner[e] # w
               /\ Cardinality(Strays(e)') = Cardinality(Strays(e)) - 1
               /\ status'[e] = status[e] => LateOwner(e)' = LateOwner(e)
               /\ status'[e] = "failed" /\ status[e] = "delivered" => LateOwner(e)' = LateOwner(e)
            \/ /\ owner[e] = w
               /\ Cardinality(Strays(e)') = Cardinality(Strays(e))
               /\ LateOwner(e)' = 0
<1>1. \A v \in Workers : pc'[v] = IF v = w THEN "finishing" ELSE pc[v]
  BY DEF TypeOK
<1>2. Cardinality(Requests(e)') = Cardinality(Requests(e))
  BY DEF Requests
<1>3. LateOwner(e)' \in {0, 1}
  BY DEF LateOwner
<1>4. CASE owner[e] # w
  <2>1. Strays(e)' = Strays(e) \ {w} /\ w \in Strays(e)
    BY <1>1, <1>4 DEF Strays
  <2>2. IsFiniteSet(Strays(e)')
    BY <2>1, CountsAreNumbers, FS_Subset
  <2>3. Cardinality(Strays(e)') = Cardinality(Strays(e)) - 1 /\ Cardinality(Strays(e)') \in Nat
    BY <2>1, <2>2, CountsAreNumbers, FS_RemoveElement, FS_CardinalityType
  <2>4. owner[e] # NoWorker => pc'[owner[e]] = pc[owner[e]]
    BY <1>1, <1>4 DEF TypeOK
  <2>5. /\ status'[e] = status[e] => LateOwner(e)' = LateOwner(e)
        /\ status'[e] = "failed" /\ status[e] = "delivered" => LateOwner(e)' = LateOwner(e)
    BY <2>4 DEF LateOwner
  <2> QED BY <1>2, <1>3, <1>4, <2>3, <2>5
<1>5. CASE owner[e] = w
  <2>1. Strays(e)' = Strays(e)
    BY <1>1, <1>5 DEF Strays
  <2>2. Cardinality(Strays(e)') = Cardinality(Strays(e)) /\ Cardinality(Strays(e)') \in Nat
    BY <2>1, CountsAreNumbers
  <2>3. LateOwner(e)' = 0
    BY <1>1, <1>5 DEF LateOwner, Writes
  <2> QED BY <1>2, <1>3, <1>5, <2>2, <2>3
<1> QED BY <1>4, <1>5

CoverInv == TypeOK /\ QueueInv /\ RowInv /\ DisputesCover

\* What the row of another event has to do with a worker's step.
LEMMA CoverElsewhere ==
  ASSUME CoverInv, TypeOK', NEW w \in Workers, NEW e \in Events, e # current[w],
         \A v \in Workers : v # w => pc'[v] = pc[v],
         UNCHANGED <<current, owner, adminRead>>,
         status'[e] = status[e], disputes'[e] = disputes[e]
  PROVE  Cardinality(Strays(e)') + LateRequests(e)' + LateOwner(e)' <= disputes'[e]
<1>1. owner[e] # w
  BY OutboxAssumption DEF CoverInv, QueueInv, JobsOwned
<1>2. \A v \in Workers : v \in Strays(e)' => v \in Strays(e)
  BY DEF Strays
<1>3. owner[e] # NoWorker => pc'[owner[e]] = pc[owner[e]]
  BY <1>1 DEF CoverInv, TypeOK
<1>4. disputes[e] <= disputes'[e]
  BY DEF CoverInv, TypeOK
<1> QED BY <1>2, <1>3, <1>4, CoverKept DEF CoverInv

\* The numbers behind a cover, for one event.
LEMMA CoverNumbers ==
  ASSUME CoverInv, NEW e \in Events
  PROVE  /\ Cardinality(Strays(e)) \in Nat /\ Cardinality(Requests(e)) \in Nat
         /\ LateRequests(e) \in Nat /\ LateOwner(e) \in {0, 1} /\ disputes[e] \in Int
         /\ Cardinality(Strays(e)) + LateRequests(e) + LateOwner(e) <= disputes[e]
BY CountsAreNumbers DEF CoverInv, TypeOK, DisputesCover, LateRequests, LateOwner

\* A worker's update of its own row: a commit, a retry or a dead letter.
LEMMA OwnRowCover ==
  ASSUME CoverInv, TypeOK', NEW w \in Workers, NEW to \in {"pending", "delivered", "failed"},
         pc[w] \in InTransaction \cup Writes, pc' = [pc EXCEPT ![w] = "finishing"],
         pc[w] \in InTransaction => to = "delivered",
         pc[w] \in Writes => to # "delivered",
         status' = [status EXCEPT ![current[w]] = to],
         disputes' = [disputes EXCEPT ![current[w]] = IF status[current[w]] = "delivered" THEN @ - 1 ELSE @],
         UNCHANGED <<current, owner, adminRead>>
  PROVE  DisputesCover'
<1> SUFFICES ASSUME NEW e \in Events
             PROVE  Cardinality(Strays(e)') + LateRequests(e)' + LateOwner(e)' <= disputes'[e]
  BY DEF DisputesCover
<1>1. \A v \in Workers : v # w => pc'[v] = pc[v]
  BY DEF CoverInv, TypeOK
<1>2. CASE e # current[w]
  <2>1. status'[e] = status[e] /\ disputes'[e] = disputes[e]
    BY <1>2 DEF CoverInv, TypeOK
  <2> QED BY <1>1, <1>2, <2>1, CoverElsewhere
<1>3. CASE e = current[w]
  <2> DEFINE s == Cardinality(Strays(e))
             r == Cardinality(Requests(e))
  <2>1. /\ s \in Nat /\ r \in Nat /\ LateRequests(e) \in Nat /\ LateOwner(e) \in {0, 1}
        /\ disputes[e] \in Int /\ s + LateRequests(e) + LateOwner(e) <= disputes[e]
    BY CoverNumbers
  <2>2. pc[w] \notin {"idle", "finishing"}
    BY DEF InTransaction, Writes
  <2>3. /\ Cardinality(Strays(e)') \in Nat
        /\ Cardinality(Requests(e)') = Cardinality(Requests(e))
        /\ LateOwner(e)' \in {0, 1}
        /\ \/ /\ owner[e] # w
              /\ Cardinality(Strays(e)') = Cardinality(Strays(e)) - 1
              /\ status'[e] = status[e] => LateOwner(e)' = LateOwner(e)
              /\ status'[e] = "failed" /\ status[e] = "delivered" => LateOwner(e)' = LateOwner(e)
           \/ /\ owner[e] = w
              /\ Cardinality(Strays(e)') = Cardinality(Strays(e))
              /\ LateOwner(e)' = 0
    BY <1>3, <2>2, WorkerLeaves DEF CoverInv
  <2>4. /\ status'[e] = to
        /\ disputes'[e] = IF status[e] = "delivered" THEN disputes[e] - 1 ELSE disputes[e]
    BY <1>3 DEF CoverInv, TypeOK
  <2>5. /\ pc[w] \in InTransaction => status[e] = "pending"
        /\ status[e] # "unpublished"
        /\ status[e] \in {"pending", "delivered", "failed"}
    BY <1>3 DEF CoverInv, RowInv, LockedPending, WritesPublished, TypeOK, Statuses
  <2>6. /\ LateRequests(e) = IF status[e] = "failed" /\ r > 0 THEN r - 1 ELSE r
        /\ LateRequests(e)' = IF to = "failed" /\ r > 0 THEN r - 1 ELSE r
    BY <2>3, <2>4 DEF LateRequests
  <2>7. to = "pending" => LateOwner(e)' = 0
    BY <2>4 DEF LateOwner
  <2>8. owner[e] = w /\ pc[w] \in Writes /\ status[e] \in {"delivered", "failed"} => LateOwner(e) = 1
    BY OutboxAssumption DEF LateOwner
  <2> HIDE DEF s, r
  <2>9. CASE pc[w] \in InTransaction
    BY <2>1, <2>3, <2>4, <2>5, <2>6, <2>9 DEF s, r
  <2>10. CASE pc[w] \in Writes /\ to = "pending"
    BY <2>1, <2>3, <2>4, <2>5, <2>6, <2>7, <2>8, <2>10 DEF s, r
  <2>11. CASE pc[w] \in Writes /\ to = "failed"
    BY <2>1, <2>3, <2>4, <2>5, <2>6, <2>8, <2>11 DEF s, r
  <2> QED BY <2>9, <2>10, <2>11
<1> QED BY <1>2, <1>3

\* Retrying by hand: one request less, and the row is pending.
LEMMA ResetCover ==
  ASSUME CoverInv, TypeOK', NEW a \in Admins, RetryEventReset(a)
  PROVE  DisputesCover'
<1> SUFFICES ASSUME NEW e \in Events
             PROVE  Cardinality(Strays(e)') + LateRequests(e)' + LateOwner(e)' <= disputes'[e]
  BY DEF DisputesCover
<1>1. /\ UNCHANGED <<pc, current, owner>> /\ adminRead[a] \in Events
      /\ \A b \in Admins : adminRead'[b] = IF b = a THEN NoEvent ELSE adminRead[b]
      /\ \A f \in Events : status'[f] = IF f = adminRead[a] THEN "pending" ELSE status[f]
      /\ \A f \in Events : disputes'[f] =
           IF f = adminRead[a] /\ status[f] = "delivered" THEN disputes[f] - 1 ELSE disputes[f]
  BY DEF RetryEventReset, Overwrite, CoverInv, TypeOK, workerVars, queueVars
<1>2. CASE e # adminRead[a]
  <2>1. disputes[e] <= disputes'[e] /\ status'[e] = status[e]
    BY <1>1, <1>2 DEF CoverInv, TypeOK
  <2>2. \A v \in Workers : v \in Strays(e)' => v \in Strays(e)
    BY <1>1 DEF Strays
  <2>3. \A b \in Admins : adminRead'[b] = e => adminRead[b] = e
    BY <1>1, OutboxAssumption
  <2>4. owner'[e] # NoWorker /\ pc'[owner'[e]] \in Writes => owner[e] = owner'[e] /\ pc[owner[e]] \in Writes
    BY <1>1
  <2> QED BY <2>1, <2>2, <2>3, <2>4, CoverKept DEF CoverInv
<1>3. CASE e = adminRead[a]
  <2>1. /\ Cardinality(Strays(e)) \in Nat /\ Cardinality(Requests(e)) \in Nat
        /\ LateRequests(e) \in Nat /\ LateOwner(e) \in {0, 1} /\ disputes[e] \in Int
        /\ Cardinality(Strays(e)) + LateRequests(e) + LateOwner(e) <= disputes[e]
    BY CoverNumbers
  <2>2. Strays(e)' = Strays(e)
    BY <1>1 DEF Strays
  <2>3. Requests(e)' = Requests(e) \ {a} /\ a \in Requests(e)
    BY <1>1, <1>3, OutboxAssumption DEF Requests
  <2>4. Cardinality(Requests(e)') = Cardinality(Requests(e)) - 1 /\ Cardinality(Requests(e)') \in Nat
    <3>1. IsFiniteSet(Requests(e)')
      BY <2>3, CountsAreNumbers, FS_Subset
    <3> QED BY <2>3, <3>1, CountsAreNumbers, FS_RemoveElement, FS_CardinalityType
  <2>5. LateOwner(e)' = 0 /\ LateRequests(e)' = Cardinality(Requests(e)) - 1
    BY <1>1, <1>3, <2>4 DEF LateOwner, LateRequests
  <2>6. LateRequests(e) = IF status[e] = "failed" /\ Cardinality(Requests(e)) > 0
                            THEN Cardinality(Requests(e)) - 1 ELSE Cardinality(Requests(e))
    BY DEF LateRequests
  <2>7. disputes'[e] = IF status[e] = "delivered" THEN disputes[e] - 1 ELSE disputes[e]
    BY <1>1, <1>3
  <2>8. Cardinality(Strays(e)') = Cardinality(Strays(e))
    BY <2>2
  <2>9. CASE status[e] = "delivered"
    BY <2>1, <2>4, <2>5, <2>6, <2>7, <2>8, <2>9
  <2>10. CASE status[e] # "delivered"
    BY <2>1, <2>4, <2>5, <2>6, <2>7, <2>8, <2>10
  <2> QED BY <2>9, <2>10
<1> QED BY <1>2, <1>3

\* A request for a failed event is a threat only beside another one, and counted then.
LEMMA ReadCover ==
  ASSUME CoverInv, TypeOK', NEW a \in Admins, NEW g \in Events, RetryEventRead(a, g)
  PROVE  DisputesCover'
<1> SUFFICES ASSUME NEW e \in Events
             PROVE  Cardinality(Strays(e)') + LateRequests(e)' + LateOwner(e)' <= disputes'[e]
  BY DEF DisputesCover
<1>1. /\ UNCHANGED <<pc, current, owner, status>> /\ adminRead[a] = NoEvent /\ status[g] = "failed"
      /\ \A b \in Admins : adminRead'[b] = IF b = a THEN g ELSE adminRead[b]
      /\ \A f \in Events : disputes'[f] =
           IF f = g /\ \E b \in Admins : adminRead[b] = g THEN disputes[f] + 1 ELSE disputes[f]
  <2>1. /\ UNCHANGED <<pc, current, owner, status>> /\ adminRead[a] = NoEvent /\ status[g] = "failed"
        /\ adminRead' = [adminRead EXCEPT ![a] = g]
    BY DEF RetryEventRead, workerVars, queueVars, dbVars, rowVars
  <2>2. CASE \E b \in Admins : adminRead[b] = g
    <3>1. disputes' = [disputes EXCEPT ![g] = @ + 1]
      BY <2>2 DEF RetryEventRead, Dispute
    <3> QED BY <2>1, <2>2, <3>1 DEF CoverInv, TypeOK
  <2>3. CASE ~ \E b \in Admins : adminRead[b] = g
    <3>1. disputes' = disputes
      BY <2>3 DEF RetryEventRead
    <3> QED BY <2>1, <2>3, <3>1 DEF CoverInv, TypeOK
  <2> QED BY <2>2, <2>3
<1>2. CASE e # g
  <2>1. disputes[e] <= disputes'[e] /\ status'[e] = status[e]
    BY <1>1, <1>2 DEF CoverInv, TypeOK
  <2>2. \A v \in Workers : v \in Strays(e)' => v \in Strays(e)
    BY <1>1 DEF Strays
  <2>3. \A b \in Admins : adminRead'[b] = e => adminRead[b] = e
    BY <1>1, <1>2
  <2>4. owner'[e] # NoWorker /\ pc'[owner'[e]] \in Writes => owner[e] = owner'[e] /\ pc[owner[e]] \in Writes
    BY <1>1
  <2> QED BY <2>1, <2>2, <2>3, <2>4, CoverKept DEF CoverInv
<1>3. CASE e = g
  <2>1. /\ Cardinality(Strays(e)) \in Nat /\ Cardinality(Requests(e)) \in Nat
        /\ LateRequests(e) \in Nat /\ LateOwner(e) \in {0, 1} /\ disputes[e] \in Int
        /\ Cardinality(Strays(e)) + LateRequests(e) + LateOwner(e) <= disputes[e]
    BY CoverNumbers
  <2>2. Strays(e)' = Strays(e) /\ LateOwner(e)' = LateOwner(e)
    BY <1>1 DEF Strays, LateOwner
  <2>3. Requests(e)' = Requests(e) \cup {a} /\ a \notin Requests(e)
    BY <1>1, <1>3, OutboxAssumption DEF Requests
  <2>4. Cardinality(Requests(e)') = Cardinality(Requests(e)) + 1
    BY <2>3, CountsAreNumbers, FS_AddElement
  <2>5. LateRequests(e)' = Cardinality(Requests(e))
    BY <1>1, <1>3, <2>1, <2>4 DEF LateRequests
  <2>6. CASE Requests(e) = {}
    <3>1. Cardinality(Requests(e)) = 0
      BY <2>6, FS_EmptySet
    <3>2. disputes'[e] = disputes[e]
      BY <1>1, <1>3, <2>6 DEF Requests
    <3> QED BY <2>1, <2>2, <2>5, <3>1, <3>2
  <2>7. CASE Requests(e) # {}
    <3>1. Cardinality(Requests(e)) > 0
      BY <2>1, <2>7, CountsAreNumbers, FS_EmptySet
    <3>2. LateRequests(e) = Cardinality(Requests(e)) - 1
      BY <1>1, <1>3, <3>1 DEF LateRequests
    <3>3. disputes'[e] = disputes[e] + 1
      BY <1>1, <1>3, <2>7 DEF Requests
    <3> QED BY <2>1, <2>2, <2>5, <3>1, <3>2, <3>3
  <2> QED BY <2>6, <2>7
<1> QED BY <1>2, <1>3

\* A worker that loses its lock becomes a threat, and is counted.
LEMMA LoseCover ==
  ASSUME CoverInv, TypeOK', NEW w \in Workers, LoseJobLock(w)
  PROVE  DisputesCover'
<1> SUFFICES ASSUME NEW e \in Events
             PROVE  Cardinality(Strays(e)') + LateRequests(e)' + LateOwner(e)' <= disputes'[e]
  BY DEF DisputesCover
<1>1. /\ UNCHANGED <<pc, current, status, adminRead>> /\ current[w] \in Events /\ owner[current[w]] = w
      /\ \A f \in Events : owner'[f] = IF f = current[w] THEN NoWorker ELSE owner[f]
      /\ \A f \in Events : disputes'[f] = IF f = current[w] THEN disputes[f] + 1 ELSE disputes[f]
  <2>1. /\ UNCHANGED <<pc, current, status, adminRead>> /\ owner[current[w]] = w /\ pc[w] # "idle"
        /\ owner' = [owner EXCEPT ![current[w]] = NoWorker]
        /\ disputes' = [disputes EXCEPT ![current[w]] = @ + 1]
    BY DEF LoseJobLock, Dispute, workerVars, dbVars, rowVars
  <2>2. current[w] \in Events
    BY <2>1 DEF CoverInv, TypeOK
  <2> QED BY <2>1, <2>2 DEF CoverInv, TypeOK
<1>2. CASE e # current[w]
  <2>1. disputes[e] <= disputes'[e] /\ owner'[e] = owner[e]
    BY <1>1, <1>2 DEF CoverInv, TypeOK
  <2>2. \A v \in Workers : v \in Strays(e)' => v \in Strays(e)
    BY <1>1, <2>1 DEF Strays
  <2> QED BY <1>1, <2>1, <2>2, CoverKept DEF CoverInv
<1>3. CASE e = current[w]
  <2>1. /\ Cardinality(Strays(e)) \in Nat /\ Cardinality(Requests(e)) \in Nat
        /\ LateRequests(e) \in Nat /\ LateOwner(e) \in {0, 1} /\ disputes[e] \in Int
        /\ Cardinality(Strays(e)) + LateRequests(e) + LateOwner(e) <= disputes[e]
    BY CoverNumbers
  <2>2. Strays(e)' \subseteq Strays(e) \cup {w} /\ w \notin Strays(e)
    BY <1>1, <1>3 DEF Strays
  <2>3. /\ IsFiniteSet(Strays(e) \cup {w})
        /\ Cardinality(Strays(e) \cup {w}) = Cardinality(Strays(e)) + 1
    BY <2>2, CountsAreNumbers, FS_AddElement
  <2>4. Cardinality(Strays(e)') \in Nat /\ Cardinality(Strays(e)') <= Cardinality(Strays(e)) + 1
    BY <2>2, <2>3, FS_Subset, FS_CardinalityType
  <2>5. LateOwner(e)' = 0 /\ LateRequests(e)' = LateRequests(e)
    BY <1>1, <1>3 DEF LateOwner, LateRequests, Requests
  <2>6. disputes'[e] = disputes[e] + 1
    BY <1>1, <1>3
  <2> QED BY <2>1, <2>4, <2>5, <2>6
<1> QED BY <1>2, <1>3

LEMMA NextCover == CoverInv /\ GuardInv /\ [Next]_vars => DisputesCover'
<1> SUFFICES ASSUME CoverInv, GuardInv, [Next]_vars PROVE DisputesCover'
  OBVIOUS
<1>0. TypeOK /\ TypeOK' /\ DisputesCover
  BY NextType DEF CoverInv
<1> USE DEF rowVars, dbVars, queueVars, workerVars, historyVars, boundVars
\* A step without a dispute, after which nobody is newly at a row that is not pending.
<1>quiet. ASSUME UNCHANGED <<disputes, adminRead>>,
             \A e \in Events :
               status'[e] = status[e] \/ {status[e], status'[e]} \subseteq {"unpublished", "pending"},
             \A e \in Events, w \in Workers : w \in Strays(e)' => w \in Strays(e),
             \A e \in Events : status'[e] # "pending" /\ owner'[e] # NoWorker /\ pc'[owner'[e]] \in Writes
               => owner[e] = owner'[e] /\ pc[owner[e]] \in Writes
      PROVE  DisputesCover'
  <2>1. ASSUME NEW e \in Events
        PROVE  Cardinality(Strays(e)') + LateRequests(e)' + LateOwner(e)' <= disputes'[e]
    <3>1. disputes[e] <= disputes'[e]
      BY <1>0, <1>quiet DEF TypeOK
    <3> QED BY <1>0, <1>quiet, <3>1, CoverKept
  <2> QED BY <2>1 DEF DisputesCover
<1>1. ASSUME NEW e \in Events, Publish(e) PROVE DisputesCover'
  <2>1. /\ UNCHANGED <<disputes, adminRead, pc, current, owner>>
        /\ \A f \in Events : status'[f] = IF f = e THEN "pending" ELSE status[f]
        /\ status[e] = "unpublished"
    BY <1>1, <1>0 DEF TypeOK, Publish
  <2> QED BY <2>1, <1>quiet DEF Strays
<1>2. ASSUME NEW e \in Events, BackoffElapses(e) PROVE DisputesCover'
  BY <1>2, <1>quiet DEF BackoffElapses, Strays
<1>3. ASSUME NEW e \in Events, RequeueStalled(e) PROVE DisputesCover'
  <2>1. /\ UNCHANGED <<disputes, adminRead, status, pc, current>>
        /\ \A f \in Events : owner'[f] = owner[f]
    BY <1>3, <1>0 DEF RequeueStalled, Retain, TypeOK
  <2> QED BY <2>1, <1>quiet DEF Strays
<1>4. ASSUME NEW k \in Keys, ExpireKey(k) PROVE DisputesCover'
  BY <1>4, <1>quiet DEF ExpireKey, Strays
<1>5. ASSUME NEW p \in Pollers, PollRead(p) \/ PollEnqueue(p) \/ PollFails(p) PROVE DisputesCover'
  <2>1. UNCHANGED <<disputes, adminRead, status, pc, current, owner>>
    BY <1>5 DEF PollRead, PollEnqueue, PollFails
  <2> QED BY <2>1, <1>quiet DEF Strays
<1>6. ASSUME NEW w \in Workers, NEW e \in Events, TakeJob(w, e) PROVE DisputesCover'
  <2>1. /\ UNCHANGED <<disputes, adminRead, status>> /\ pc[w] = "idle" /\ job[e] = "waiting"
        /\ owner'[e] = w /\ pc'[w] = "fetched" /\ current'[w] = e
        /\ \A f \in Events : f # e => owner'[f] = owner[f]
        /\ \A v \in Workers : v # w => pc'[v] = pc[v] /\ current'[v] = current[v]
    BY <1>6, <1>0 DEF TypeOK, TakeJob
  <2>2. owner[e] = NoWorker
    BY <2>1 DEF CoverInv, QueueInv, JobsOwned
  <2>3. \A f \in Events : owner[f] # w
    BY <2>1, OutboxAssumption DEF CoverInv, QueueInv, JobsOwned
  <2>4. \A f \in Events, v \in Workers : v \in Strays(f)' => v \in Strays(f)
    BY <2>1, <2>2, OutboxAssumption DEF Strays
  <2>5. ASSUME NEW f \in Events, owner'[f] # NoWorker, pc'[owner'[f]] \in Writes
        PROVE  owner[f] = owner'[f] /\ pc[owner[f]] \in Writes
    <3>1. f # e
      BY <2>1, <2>5 DEF Writes
    <3>2. owner'[f] = owner[f] /\ owner[f] \in Workers /\ owner[f] # w
      BY <2>1, <2>3, <2>5, <3>1, <1>0 DEF TypeOK
    <3> QED BY <2>1, <2>5, <3>2
  <2> QED BY <2>1, <2>4, <2>5, <1>quiet
<1>7. ASSUME NEW w \in Workers,
             LockRow(w) \/ SkipCheck(w) \/ CheckRaises(w) \/ CheckKey(w) \/ RecordKey(w) \/ DispatchEvent(w)
             \/ DispatchThrows(w) \/ CommitFails(w) \/ ReadRetryCount(w)
      PROVE  DisputesCover'
  <2>1. /\ pc[w] \in {"fetched", "failing"} \cup InTransaction
        /\ UNCHANGED <<status, current, owner, adminRead, disputes>>
    BY <1>7 DEF LockRow, SkipCheck, CheckRaises, CheckKey, RecordKey, DispatchEvent, DispatchThrows,
                CommitFails, ReadRetryCount, Fail, Goto, OthersUnchanged, InTransaction
  <2>2. \A v \in Workers : v # w => pc'[v] = pc[v]
    BY <1>7, <1>0 DEF TypeOK, LockRow, SkipCheck, CheckRaises, CheckKey, RecordKey, DispatchEvent,
                DispatchThrows, CommitFails, ReadRetryCount, Fail, Goto
  <2>3. pc[w] \notin {"idle", "finishing"}
    BY <2>1 DEF InTransaction
  <2>4. \A f \in Events, v \in Workers : v \in Strays(f)' => v \in Strays(f)
    BY <2>1, <2>2, <2>3 DEF Strays
  <2>5. pc'[w] \in Writes => pc[w] \in Writes \/ pc[w] \in InTransaction
    BY <1>7, <1>0 DEF TypeOK, LockRow, SkipCheck, CheckRaises, CheckKey, RecordKey, DispatchEvent,
                DispatchThrows, CommitFails, ReadRetryCount, Fail, Goto, Writes, InTransaction
  <2>6. ASSUME NEW f \in Events, status'[f] # "pending", owner'[f] # NoWorker, pc'[owner'[f]] \in Writes
        PROVE  owner[f] = owner'[f] /\ pc[owner[f]] \in Writes
    <3>1. owner'[f] = owner[f] /\ owner[f] \in Workers /\ current[owner[f]] = f
      BY <2>1, <2>6, <1>0 DEF TypeOK, CoverInv, QueueInv, JobsOwned
    <3>2. CASE owner[f] = w
      <4>1. status[f] # "pending" /\ current[w] = f
        BY <2>1, <2>6, <3>1, <3>2
      <4>2. pc[w] \notin InTransaction
        BY <4>1 DEF CoverInv, RowInv, LockedPending
      <4> QED BY <2>5, <2>6, <3>1, <3>2, <4>2
    <3>3. CASE owner[f] # w
      BY <2>2, <2>6, <3>1, <3>3
    <3> QED BY <3>2, <3>3
  <2> QED BY <2>1, <2>4, <2>6, <1>quiet
<1>8. ASSUME NEW w \in Workers, CommitDelivered(w) \/ CommitSkipped(w) PROVE DisputesCover'
  <2>1. /\ pc[w] \in InTransaction /\ pc[w] \notin Writes /\ pc' = [pc EXCEPT ![w] = "finishing"]
        /\ status' = [status EXCEPT ![current[w]] = "delivered"]
        /\ UNCHANGED <<current, owner, adminRead, disputes>>
    BY <1>8 DEF CommitDelivered, CommitSkipped, Goto, OthersUnchanged, InTransaction, Writes
  <2>2. status[current[w]] # "delivered"
    BY <2>1 DEF CoverInv, RowInv, LockedPending
  <2>3. disputes' = [disputes EXCEPT ![current[w]] = IF status[current[w]] = "delivered" THEN @ - 1 ELSE @]
    BY <2>1, <2>2, <1>0 DEF TypeOK
  <2> QED BY <2>1, <2>3, <1>0, OwnRowCover
<1>9. ASSUME NEW w \in Workers, ScheduleRetry(w) \/ MoveToDeadLetter(w) PROVE DisputesCover'
  <2>1. PICK to \in {"pending", "failed"} :
          /\ pc[w] \in Writes /\ pc[w] \notin InTransaction /\ pc' = [pc EXCEPT ![w] = "finishing"]
          /\ status' = [status EXCEPT ![current[w]] = to]
          /\ disputes' = [disputes EXCEPT ![current[w]] = IF status[current[w]] = "delivered" THEN @ - 1 ELSE @]
          /\ UNCHANGED <<current, owner, adminRead>>
    BY <1>9 DEF ScheduleRetry, MoveToDeadLetter, Overwrite, Goto, OthersUnchanged, InTransaction, Writes
  <2>2. to \in {"pending", "delivered", "failed"} /\ to # "delivered"
    BY <2>1
  <2> QED BY <2>1, <2>2, <1>0, OwnRowCover
<1>10. ASSUME NEW w \in Workers, MarkForRetryThrows(w) \/ CompleteJob(w) \/ Crash(w) PROVE DisputesCover'
  <2>1. /\ UNCHANGED <<status, adminRead, disputes>> /\ pc'[w] = "idle" /\ pc[w] # "idle"
        /\ \A v \in Workers : v # w => pc'[v] = pc[v] /\ current'[v] = current[v]
        /\ current[w] \in Events
    BY <1>10, <1>0 DEF TypeOK, MarkForRetryThrows, CompleteJob, Crash, EndJob
  <2>2. \A f \in Events : owner'[f] = owner[f] \/ (owner[f] = w /\ owner'[f] = NoWorker)
    <3>1. CASE Crash(w)
      BY <3>1, <2>1, <1>0 DEF Crash, TypeOK
    <3>2. CASE MarkForRetryThrows(w) \/ CompleteJob(w)
      <4>1. UNCHANGED owner \/ (owner[current[w]] = w /\ owner' = [owner EXCEPT ![current[w]] = NoWorker])
        BY <3>2 DEF MarkForRetryThrows, CompleteJob, EndJob, Retain
      <4> QED BY <4>1, <2>1, <1>0 DEF TypeOK
    <3> QED BY <1>10, <3>1, <3>2
  <2>3. \A f \in Events, v \in Workers : v \in Strays(f)' => v \in Strays(f)
    BY <2>1, <2>2 DEF Strays
  <2>4. ASSUME NEW f \in Events, owner'[f] # NoWorker, pc'[owner'[f]] \in Writes
        PROVE  owner[f] = owner'[f] /\ pc[owner[f]] \in Writes
    <3>1. owner'[f] = owner[f] /\ owner[f] \in Workers
      BY <2>2, <2>4, <1>0 DEF TypeOK
    <3>2. owner[f] # w
      BY <2>1, <2>4, <3>1 DEF Writes
    <3> QED BY <2>1, <2>4, <3>1, <3>2
  <2> QED BY <2>1, <2>3, <2>4, <1>quiet
<1>11. ASSUME NEW w \in Workers, LoseJobLock(w) PROVE DisputesCover'
  BY <1>11, <1>0, LoseCover
<1>12. ASSUME NEW a \in Admins, NEW e \in Events, RetryEventRead(a, e) PROVE DisputesCover'
  BY <1>12, <1>0, ReadCover
<1>13. ASSUME NEW a \in Admins, RetryEventReset(a) PROVE DisputesCover'
  BY <1>13, <1>0, ResetCover
<1>14. CASE UNCHANGED vars
  <2>1. UNCHANGED <<disputes, adminRead, status, pc, current, owner>>
    BY <1>14 DEF vars
  <2> QED BY <2>1, <1>quiet DEF Strays
<1> QED
  BY <1>1, <1>2, <1>3, <1>4, <1>5, <1>6, <1>7, <1>8, <1>9, <1>10, <1>11, <1>12, <1>13, <1>14
  DEF Next, ProcessDispatchJob, Faults

-----------------------------------------------------------------------------
(* The refinement, step by step *)

\* What the steps of the promise ask of an event is asked of its row.
LEMMA PromiseValues ==
  /\ PromiseOf("unpublished") = "none" /\ PromiseOf("pending") = "owed"
  /\ PromiseOf("delivered") = "kept" /\ PromiseOf("failed") = "abandoned"
BY DEF PromiseOf

\* A change of one row's status is a change of one promise.
LEMMA PromiseChanges ==
  ASSUME TypeOK, NEW e \in Events, NEW to \in Statuses, status' = [status EXCEPT ![e] = to]
  PROVE  [f \in Events |-> PromiseOf(status'[f])]
           = [[f \in Events |-> PromiseOf(status[f])] EXCEPT ![e] = PromiseOf(to)]
BY DEF TypeOK

\* A step that moves no row, calls no handler, fails nowhere and disputes nothing
\* is a stutter.
LEMMA PromiseStutters ==
  ASSUME UNCHANGED <<status, handled, failures, disputes>>
  PROVE  UNCHANGED Promise!promiseVars
BY DEF Promise!promiseVars

LEMMA PromiseBegins == Init => Promise!PromiseInit
BY PromiseValues DEF Init, Promise!PromiseInit

PromiseInv == CoverInv /\ HandledInv /\ EarnedInv

\* Whoever updates a delivered row has been counted, and not used up.
LEMMA DisputeLeft ==
  ASSUME CoverInv, NEW e \in Events, status[e] = "delivered",
         \/ \E w \in Workers : pc[w] \in Writes /\ current[w] = e
         \/ \E a \in Admins : adminRead[a] = e
  PROVE  disputes[e] > 0
<1>1. /\ Cardinality(Strays(e)) \in Nat /\ Cardinality(Requests(e)) \in Nat
      /\ LateRequests(e) \in Nat /\ LateOwner(e) \in {0, 1} /\ disputes[e] \in Int
      /\ Cardinality(Strays(e)) + LateRequests(e) + LateOwner(e) <= disputes[e]
  BY CoverNumbers
<1>2. ASSUME NEW w \in Workers, pc[w] \in Writes, current[w] = e PROVE disputes[e] > 0
  <2>1. CASE owner[e] = w
    <3>1. LateOwner(e) = 1
      BY <1>2, <2>1, OutboxAssumption DEF LateOwner
    <3> QED BY <1>1, <3>1
  <2>2. CASE owner[e] # w
    <3>1. w \in Strays(e)
      BY <1>2, <2>2 DEF Strays, Writes
    <3>2. Cardinality(Strays(e)) # 0
      BY <3>1, CountsAreNumbers, FS_EmptySet
    <3> QED BY <1>1, <3>2
  <2> QED BY <2>1, <2>2
<1>3. ASSUME NEW a \in Admins, adminRead[a] = e PROVE disputes[e] > 0
  <2>1. a \in Requests(e)
    BY <1>3 DEF Requests
  <2>2. Cardinality(Requests(e)) # 0
    BY <2>1, CountsAreNumbers, FS_EmptySet
  <2>3. LateRequests(e) = Cardinality(Requests(e))
    BY DEF LateRequests
  <2> QED BY <1>1, <2>2, <2>3
<1> QED BY <1>2, <1>3

\* An update that tests no status is a step of the promise, or none.
LEMMA PromiseOverwrites ==
  ASSUME PromiseInv, NEW e \in Events, NEW to \in {"pending", "failed"},
         \/ \E w \in Workers : pc[w] \in Writes /\ current[w] = e
         \/ to = "pending" /\ \E a \in Admins : adminRead[a] = e,
         to = "failed" => failures[e] >= MaxRetries,
         status' = [status EXCEPT ![e] = to], Overwrite(e)
  PROVE  \/ Promise!Reopen(e) \/ Promise!AbandonKept(e) \/ Promise!Abandon(e) \/ Promise!TakeUp(e)
         \/ UNCHANGED Promise!promiseVars
<1>1. /\ TypeOK /\ UNCHANGED <<handled, failures>> /\ status[e] \in {"pending", "delivered", "failed"}
      /\ to \in Statuses
  <2>1. TypeOK /\ UNCHANGED <<handled, failures>> /\ to \in Statuses
    BY DEF PromiseInv, CoverInv, Overwrite, Statuses
  <2>2. status[e] # "unpublished"
    BY <2>1, OutboxAssumption DEF PromiseInv, CoverInv, RowInv, WritesPublished
  <2>3. status[e] \in Statuses
    BY <2>1 DEF TypeOK
  <2> QED BY <2>1, <2>2, <2>3 DEF Statuses
<1>2. [f \in Events |-> PromiseOf(status'[f])]
        = [[f \in Events |-> PromiseOf(status[f])] EXCEPT ![e] = PromiseOf(to)]
  BY <1>1, PromiseChanges
<1>3. CASE status[e] = "delivered"
  <2>1. disputes[e] > 0 /\ disputes' = [disputes EXCEPT ![e] = @ - 1]
    BY <1>3, DisputeLeft DEF PromiseInv, Overwrite
  <2>2. CASE to = "pending"
    BY <1>1, <1>2, <1>3, <2>1, <2>2, PromiseValues DEF Promise!Reopen, Promise!Undo
  <2>3. CASE to = "failed"
    BY <1>1, <1>2, <1>3, <2>1, <2>3, PromiseValues DEF Promise!AbandonKept, Promise!Undo
  <2> QED BY <2>2, <2>3
<1>4. CASE status[e] # "delivered"
  <2>1. disputes' = disputes
    BY <1>1, <1>4 DEF Overwrite, TypeOK
  <2>2. CASE status[e] = to
    <3>1. status' = status
      BY <1>1, <2>2 DEF TypeOK
    <3> QED BY <1>1, <2>1, <3>1, PromiseStutters
  <2>3. CASE status[e] = "pending" /\ to = "failed"
    BY <1>1, <1>2, <2>1, <2>3, PromiseValues DEF Promise!Abandon, Promise!Become
  <2>4. CASE status[e] = "failed" /\ to = "pending"
    BY <1>1, <1>2, <2>1, <2>4, PromiseValues DEF Promise!TakeUp, Promise!Become
  <2> QED BY <1>1, <1>4, <2>2, <2>3, <2>4
<1> QED BY <1>3, <1>4

LEMMA PromiseStep ==
  ASSUME PromiseInv, [Next]_vars
  PROVE  [Promise!PromiseNext]_(Promise!promiseVars)
<1>0. TypeOK /\ LockedPending
  BY DEF PromiseInv, CoverInv, RowInv
<1> USE DEF rowVars, dbVars, queueVars, workerVars, historyVars, boundVars
<1>1. ASSUME NEW e \in Events, Publish(e) PROVE Promise!Owe(e)
  <2>1. status[e] = "unpublished" /\ status' = [status EXCEPT ![e] = "pending"]
        /\ UNCHANGED <<handled, failures, disputes>>
    BY <1>1 DEF Publish
  <2> QED BY <1>0, <2>1, PromiseChanges, PromiseValues DEF Promise!Owe, Promise!Become, Statuses
<1>2. ASSUME NEW w \in Workers, DispatchEvent(w) PROVE Promise!Handle(current[w]) /\ current[w] \in Events
  <2>1. /\ current[w] \in Events /\ status[current[w]] = "pending"
        /\ handled' = [handled EXCEPT ![current[w]] = @ + 1] /\ UNCHANGED <<status, failures, disputes>>
    BY <1>2, <1>0 DEF DispatchEvent, TypeOK, LockedPending, InTransaction
  <2> QED BY <2>1, PromiseValues DEF Promise!Handle
<1>3. ASSUME NEW w \in Workers, CheckRaises(w) \/ DispatchThrows(w) \/ CommitFails(w)
      PROVE  Promise!Miss(current[w]) /\ current[w] \in Events
  <2>1. /\ current[w] \in Events /\ status[current[w]] = "pending"
        /\ failures' = [failures EXCEPT ![current[w]] = @ + 1] /\ UNCHANGED <<status, handled, disputes>>
    BY <1>3, <1>0 DEF CheckRaises, DispatchThrows, CommitFails, Fail, TypeOK, LockedPending, InTransaction
  <2> QED BY <2>1, PromiseValues DEF Promise!Miss
<1>4. ASSUME NEW w \in Workers, CommitDelivered(w) \/ CommitSkipped(w)
      PROVE  Promise!KeepPromise(current[w]) /\ current[w] \in Events
  <2>1. /\ current[w] \in Events /\ status[current[w]] = "pending"
        /\ status' = [status EXCEPT ![current[w]] = "delivered"] /\ UNCHANGED <<handled, failures, disputes>>
    BY <1>4, <1>0 DEF CommitDelivered, CommitSkipped, TypeOK, LockedPending, InTransaction
  <2>2. \E f \in Events : SameKey(current[w], f) /\ handled[f] > 0
    BY <1>4, <2>1 DEF CommitDelivered, CommitSkipped, PromiseInv, HandledInv, CommitHandled, SkipCovered, SameKey
  <2>3. \E f \in Events : Promise!Covers(f, current[w]) /\ handled[f] > 0
    BY <2>2 DEF SameKey, Promise!Covers
  <2> QED BY <1>0, <2>1, <2>3, PromiseChanges, PromiseValues DEF Promise!KeepPromise, Promise!Become, Statuses
<1>5. ASSUME NEW w \in Workers, ScheduleRetry(w)
      PROVE  /\ \/ Promise!Reopen(current[w]) \/ Promise!AbandonKept(current[w])
                \/ Promise!Abandon(current[w]) \/ Promise!TakeUp(current[w])
                \/ UNCHANGED Promise!promiseVars
             /\ current[w] \in Events
  <2>1. /\ current[w] \in Events /\ pc[w] \in Writes /\ Overwrite(current[w])
        /\ status' = [status EXCEPT ![current[w]] = "pending"]
    BY <1>5, <1>0 DEF ScheduleRetry, TypeOK, Writes
  <2> QED BY <2>1, PromiseOverwrites
<1>6. ASSUME NEW w \in Workers, MoveToDeadLetter(w)
      PROVE  /\ \/ Promise!Reopen(current[w]) \/ Promise!AbandonKept(current[w])
                \/ Promise!Abandon(current[w]) \/ Promise!TakeUp(current[w])
                \/ UNCHANGED Promise!promiseVars
             /\ current[w] \in Events
  <2>1. /\ current[w] \in Events /\ pc[w] \in Writes /\ Overwrite(current[w])
        /\ status' = [status EXCEPT ![current[w]] = "failed"]
        /\ deadLetters' = [deadLetters EXCEPT ![current[w]] = @ + 1]
    BY <1>6, <1>0 DEF MoveToDeadLetter, TypeOK, Writes
  <2>2. EarnedInv'
    <3>1. EarnedInv /\ TypeOK'
      BY <1>0, NextType DEF PromiseInv
    <3> QED BY <3>1, <1>6, WriteEarned
  <2>3. deadLetters'[current[w]] > 0
    BY <2>1, <1>0 DEF TypeOK
  <2>4. failures[current[w]] >= MaxRetries
    BY <2>1, <2>2, <2>3 DEF EarnedInv, DeadLettersEarned, Overwrite
  <2> QED BY <2>1, <2>4, PromiseOverwrites
<1>7. ASSUME NEW a \in Admins, RetryEventReset(a)
      PROVE  /\ \/ Promise!Reopen(adminRead[a]) \/ Promise!AbandonKept(adminRead[a])
                \/ Promise!Abandon(adminRead[a]) \/ Promise!TakeUp(adminRead[a])
                \/ UNCHANGED Promise!promiseVars
             /\ adminRead[a] \in Events
  <2>1. /\ adminRead[a] \in Events /\ Overwrite(adminRead[a])
        /\ status' = [status EXCEPT ![adminRead[a]] = "pending"]
    BY <1>7, <1>0 DEF RetryEventReset, TypeOK
  <2> QED BY <2>1, PromiseOverwrites
<1>8. ASSUME NEW e \in Events, BackoffElapses(e) \/ RequeueStalled(e) PROVE UNCHANGED Promise!promiseVars
  BY <1>8, PromiseStutters DEF BackoffElapses, RequeueStalled
<1>9. ASSUME NEW k \in Keys, ExpireKey(k) PROVE UNCHANGED Promise!promiseVars
  BY <1>9, PromiseStutters DEF ExpireKey
<1>10. ASSUME NEW p \in Pollers, PollRead(p) \/ PollEnqueue(p) \/ PollFails(p)
       PROVE  UNCHANGED Promise!promiseVars
  BY <1>10, PromiseStutters DEF PollRead, PollEnqueue, PollFails
<1>11. ASSUME NEW w \in Workers, NEW e \in Events, TakeJob(w, e) PROVE UNCHANGED Promise!promiseVars
  BY <1>11, PromiseStutters DEF TakeJob
<1>12. ASSUME NEW w \in Workers,
              LockRow(w) \/ SkipCheck(w) \/ CheckKey(w) \/ RecordKey(w) \/ ReadRetryCount(w)
              \/ CompleteJob(w) \/ MarkForRetryThrows(w) \/ Crash(w)
       PROVE  UNCHANGED Promise!promiseVars
  BY <1>12, PromiseStutters
  DEF LockRow, SkipCheck, CheckKey, RecordKey, ReadRetryCount, CompleteJob, MarkForRetryThrows, Crash
<1>13. ASSUME NEW a \in Admins, NEW e \in Events, RetryEventRead(a, e)
       PROVE  Promise!Contest(e) \/ UNCHANGED Promise!promiseVars
  <2>1. UNCHANGED <<status, handled, failures>> /\ (Dispute(e) \/ UNCHANGED disputes)
    BY <1>13 DEF RetryEventRead
  <2> QED BY <2>1, PromiseStutters DEF Promise!Contest, Dispute
<1>14. ASSUME NEW w \in Workers, LoseJobLock(w)
       PROVE  Promise!Contest(current[w]) /\ current[w] \in Events
  <2>1. UNCHANGED <<status, handled, failures>> /\ Dispute(current[w]) /\ current[w] \in Events
    BY <1>14, <1>0 DEF LoseJobLock, TypeOK
  <2> QED BY <2>1 DEF Promise!Contest, Dispute
<1>15. ASSUME UNCHANGED vars PROVE UNCHANGED Promise!promiseVars
  BY <1>15, PromiseStutters DEF vars
<1>16. ASSUME NEW e \in Events,
              \/ Promise!Owe(e) \/ Promise!Handle(e) \/ Promise!Miss(e)
              \/ Promise!KeepPromise(e) \/ Promise!Abandon(e) \/ Promise!TakeUp(e)
              \/ Promise!Contest(e) \/ Promise!Reopen(e) \/ Promise!AbandonKept(e)
       PROVE  Promise!PromiseNext
  BY <1>16 DEF Promise!PromiseNext
<1> QED
  BY <1>1, <1>2, <1>3, <1>4, <1>5, <1>6, <1>7, <1>8, <1>9, <1>10, <1>11, <1>12, <1>13, <1>14, <1>15, <1>16
  DEF Next, ProcessDispatchJob, Faults

\* The dispatcher keeps the outbox's promise, for any events, workers, polls and
\* retry requests, whatever crashes, stalls, loses its lock or is refused: a
\* delivered mark is undone at most once for each lost job lock and each retry
\* request beside another one.
THEOREM OutboxKeepsPromise == Spec => KeepsPromise
<1>1. TypeOK /\ QueueInv /\ RowInv /\ DisputesCover /\ HandledInv /\ EarnedInv => PromiseInv /\ CoverInv
  BY DEF PromiseInv, CoverInv
<1>2. PromiseInv /\ [Next]_vars => [Promise!PromiseNext]_(Promise!promiseVars)
  BY PromiseStep
<1>3. Spec => [](TypeOK /\ HandledInv /\ EarnedInv /\ GuardInv)
  BY InitType, NextType, InitHandled, NextHandled, InitEarned, NextEarned, InitGuard, NextGuard, PTL DEF Spec
<1>4. Spec => [](QueueInv /\ RowInv)
  BY <1>3, InitQueue, NextQueue, InitRow, NextRow, PTL DEF Spec
<1>5. Spec => []DisputesCover
  BY <1>1, <1>3, <1>4, InitCover, NextCover, PTL DEF Spec
<1> QED BY <1>1, <1>2, <1>3, <1>4, <1>5, PromiseBegins, PTL DEF Spec, KeepsPromise, Promise!PromiseSpec
=============================================================================
