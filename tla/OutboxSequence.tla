--------------------------- MODULE OutboxSequence ---------------------------
(***************************************************************************)
(* How OutboxProducer numbers the events of an aggregate.  A transaction   *)
(* publishes a list of events, drawing each number with                    *)
(* get_next_outbox_sequence, an upsert that locks the aggregate's row of   *)
(* outbox_events_sequence until the transaction ends.  Outbox takes the    *)
(* result, one committed event after the other, as its action Publish.     *)
(***************************************************************************)
EXTENDS Naturals, Sequences, FiniteSets

CONSTANTS
  Aggregates,
  Txs,          \* transactions that publish
  Batch,        \* the aggregates of the events a transaction publishes, in order
  NoTx,
  MaxAborts     \* bound: transactions rolled back by a fault

ASSUME SequenceAssumption ==
  /\ Batch \in [Txs -> Seq(Aggregates)]
  /\ NoTx \notin Txs
  /\ MaxAborts \in Nat

VARIABLES
  seq,        \* outbox_events_sequence.seq, as the lock holder last wrote it
  holder,     \* the transaction that holds the row lock
  committed,  \* the committed value of seq
  events,     \* the committed sequence numbers in outbox_events
  drawn,      \* events a transaction has inserted and not committed
  next,       \* index of the next event of the batch
  txState,    \* "open", "committed" or "aborted"
  aborts

sequenceVars == <<seq, holder, committed, events, drawn, next, txState, aborts>>

Inserted == [batchIndex : Nat, aggregate : Aggregates, number : Nat]

SequenceTypeOK ==
  /\ seq \in [Aggregates -> Nat]
  /\ holder \in [Aggregates -> Txs \cup {NoTx}]
  /\ committed \in [Aggregates -> Nat]
  /\ events \in [Aggregates -> SUBSET Nat]
  /\ drawn \in [Txs -> SUBSET Inserted]
  /\ next \in [Txs -> Nat \ {0}]
  /\ txState \in [Txs -> {"open", "committed", "aborted"}]
  /\ aborts \in Nat

SequenceInit ==
  /\ seq = [a \in Aggregates |-> 0]
  /\ holder = [a \in Aggregates |-> NoTx]
  /\ committed = [a \in Aggregates |-> 0]
  /\ events = [a \in Aggregates |-> {}]
  /\ drawn = [t \in Txs |-> {}]
  /\ next = [t \in Txs |-> 1]
  /\ txState = [t \in Txs |-> "open"]
  /\ aborts = 0

Wants(t) == Batch[t][next[t]]

Publishing(t) == txState[t] = "open" /\ next[t] <= Len(Batch[t])

\* Seeded fault: publishBatch works through its list from the end.
PublishFromTheEnd(t) ==
  LET i == Len(Batch[t]) + 1 - next[t]
  IN /\ Publishing(t)
     /\ holder[Batch[t][i]] \in {NoTx, t}
     /\ seq' = [seq EXCEPT ![Batch[t][i]] = @ + 1]
     /\ holder' = [holder EXCEPT ![Batch[t][i]] = t]
     /\ drawn' = [drawn EXCEPT ![t] = @ \cup
                   {[batchIndex |-> i, aggregate |-> Batch[t][i],
                     number |-> seq[Batch[t][i]] + 1]}]
     /\ next' = [next EXCEPT ![t] = @ + 1]
     /\ UNCHANGED <<committed, events, txState, aborts>>

\* publishTransactional: draw the number, insert the event.
PublishTransactional(t) ==
  /\ Publishing(t)
  /\ holder[Wants(t)] \in {NoTx, t}
  /\ seq' = [seq EXCEPT ![Wants(t)] = @ + 1]
  /\ holder' = [holder EXCEPT ![Wants(t)] = t]
  /\ drawn' = [drawn EXCEPT ![t] = @ \cup
                {[batchIndex |-> next[t], aggregate |-> Wants(t), number |-> seq[Wants(t)] + 1]}]
  /\ next' = [next EXCEPT ![t] = @ + 1]
  /\ UNCHANGED <<committed, events, txState, aborts>>

Numbers(t, a) == {i.number : i \in {j \in drawn[t] : j.aggregate = a}}

Release(t) == holder' = [a \in Aggregates |-> IF holder[a] = t THEN NoTx ELSE holder[a]]

\* The transaction of publish or publishBatch, or the caller's, commits.
Commit(t) ==
  /\ txState[t] = "open"
  /\ next[t] > Len(Batch[t])
  /\ events' = [a \in Aggregates |-> events[a] \cup Numbers(t, a)]
  /\ committed' = [a \in Aggregates |-> IF holder[a] = t THEN seq[a] ELSE committed[a]]
  /\ Release(t)
  /\ txState' = [txState EXCEPT ![t] = "committed"]
  /\ UNCHANGED <<seq, drawn, next, aborts>>

Rollback(t) ==
  /\ seq' = [a \in Aggregates |-> IF holder[a] = t THEN committed[a] ELSE seq[a]]
  /\ Release(t)
  /\ drawn' = [drawn EXCEPT ![t] = {}]
  /\ txState' = [txState EXCEPT ![t] = "aborted"]
  /\ UNCHANGED <<committed, events, next>>

\* A statement of the transaction fails, publishTransactional rethrows; or the
\* process crashes.
Abort(t) ==
  /\ txState[t] = "open"
  /\ aborts < MaxAborts
  /\ aborts' = aborts + 1
  /\ Rollback(t)

\* The transaction t waits for.
WaitsFor(t) ==
  IF Publishing(t) /\ holder[Wants(t)] \notin {NoTx, t} THEN {holder[Wants(t)]} ELSE {}

\* Seeded fault: only two transactions that wait for each other are found.
AbortPair(t) ==
  /\ \E u \in WaitsFor(t) : t \in WaitsFor(u)
  /\ Rollback(t)
  /\ UNCHANGED aborts

\* t waits in a circle: the server's deadlock check aborts it.
AbortDeadlocked(t) ==
  /\ \E circle \in SUBSET Txs :
       /\ t \in circle
       /\ \A u \in circle : /\ WaitsFor(u) # {}
                            /\ WaitsFor(u) \subseteq circle
                            /\ \E v \in circle : WaitsFor(v) = {u}
  /\ Rollback(t)
  /\ UNCHANGED aborts

SequenceNext == \E t \in Txs :
  PublishTransactional(t) \/ Commit(t) \/ Abort(t) \/ AbortDeadlocked(t)

SequenceSpec == SequenceInit /\ [][SequenceNext]_sequenceVars

\* A transaction goes on when it can; the server's deadlock check runs.
SequenceFairness == \A t \in Txs :
  WF_sequenceVars(PublishTransactional(t) \/ Commit(t)) /\ WF_sequenceVars(AbortDeadlocked(t))

FairSequenceSpec == SequenceSpec /\ SequenceFairness

-----------------------------------------------------------------------------

\* The committed events of an aggregate are numbered 1, 2, ... without a gap at
\* every moment, whatever transactions interleave or roll back
\* (022_outbox_events.ts:4 "gapless ordering per aggregate").
Gapless == \A a \in Aggregates : events[a] = 1 .. committed[a]

\* No two transactions give out the same number of an aggregate, committed or
\* not (022_outbox_events.ts:39, the unique index would abort one of them).
NumbersUnique ==
  \A t, u \in Txs : t # u =>
    \A i \in drawn[t], j \in drawn[u] : ~(i.aggregate = j.aggregate /\ i.number = j.number)

\* publishBatch keeps the order of its list within each aggregate
\* (eventProducer.ts:130-140 "Maintains ordering within the transaction").
BatchInOrder ==
  \A t \in Txs : \A i, j \in drawn[t] :
    i.aggregate = j.aggregate /\ i.batchIndex < j.batchIndex => i.number < j.number

\* The committed events, see OutboxNumbering
CommittedEvents ==
  UNION {{[tx |-> t, batchIndex |-> i.batchIndex, aggregate |-> i.aggregate,
           number |-> i.number] : i \in drawn[t]} : t \in {u \in Txs : txState[u] = "committed"}}

Numbering == INSTANCE OutboxNumbering WITH numbered <- CommittedEvents, last <- committed

\* Transactions that draw their numbers one by one, wait for each other and roll
\* back publish as if each did so at once, when it commits: the events of a list
\* take the next numbers of their aggregates in its order (eventProducer.ts:134-140
\* "Maintains ordering within the transaction", 022_outbox_events.ts:84).
PublishesAtOnce == Numbering!NumberingSpec

\* A transaction that has drawn a number, and with it a lock, and has not ended.
UnderWay(t) == txState[t] = "open" /\ next[t] > 1

\* Batches over several aggregates in opposite orders wait for each other, yet
\* every transaction that has begun ends (eventProducer.ts:134-140): a time comes
\* when none is under way.
EveryTransactionEnds == (\E t \in Txs : UnderWay(t)) ~> ~(\E t \in Txs : UnderWay(t))

=============================================================================
