----------------------- MODULE OutboxSequence_proofs -----------------------
(***************************************************************************)
(* Gapless, NumbersUnique and BatchInOrder for every set of aggregates and *)
(* transactions, and that each of these publishes as if at once.           *)
(* The invariant says what the row lock of an aggregate protects: without  *)
(* a holder the counter is the committed one; the numbers above the        *)
(* committed one are exactly those its holder has drawn.                   *)
(***************************************************************************)
EXTENDS OutboxSequence, FiniteSetTheorems, TLAPS

Unheld == \A a \in Aggregates : holder[a] = NoTx => seq[a] = committed[a]

HolderOpen == \A a \in Aggregates : holder[a] # NoTx => txState[holder[a]] = "open"

Ascending == \A a \in Aggregates : committed[a] <= seq[a]

\* Whoever draws numbers above the committed one holds the lock ...
DrawnBounded ==
  \A t \in Txs : \A i \in drawn[t] :
    i.number <= IF holder[i.aggregate] = t THEN seq[i.aggregate] ELSE committed[i.aggregate]

\* ... and has drawn all of them.
HolderHasDrawn ==
  \A t \in Txs, a \in Aggregates : holder[a] = t =>
    committed[a] + 1 .. seq[a] \subseteq Numbers(t, a)

\* The event at index next has not been inserted yet.
DrawnEarlier == \A t \in Txs : \A i \in drawn[t] : i.batchIndex < next[t]

DrawnPositive == \A t \in Txs : \A i \in drawn[t] : i.number >= 1

IInv ==
  /\ SequenceTypeOK
  /\ Unheld
  /\ HolderOpen
  /\ Ascending
  /\ DrawnBounded
  /\ DrawnPositive
  /\ HolderHasDrawn
  /\ DrawnEarlier
  /\ Gapless
  /\ NumbersUnique
  /\ BatchInOrder

\* The next event of a batch belongs to an aggregate.
LEMMA WantsType ==
  ASSUME SequenceTypeOK, NEW t \in Txs, Publishing(t)
  PROVE  Wants(t) \in Aggregates
BY SequenceAssumption DEF SequenceTypeOK, Publishing, Wants

LEMMA InitIInv == SequenceInit => IInv
BY SequenceAssumption
DEF SequenceInit, IInv, SequenceTypeOK, Unheld, HolderOpen, Ascending, DrawnBounded, DrawnPositive,
    HolderHasDrawn, DrawnEarlier, Gapless, NumbersUnique, BatchInOrder

LEMMA PublishIInv ==
  ASSUME IInv, NEW t \in Txs, PublishTransactional(t)
  PROVE  IInv'
<1> DEFINE a == Wants(t)
           e == [batchIndex |-> next[t], aggregate |-> a, number |-> seq[a] + 1]
<1>1. a \in Aggregates
  BY WantsType DEF IInv, PublishTransactional
<1>2. e \in Inserted
  BY <1>1 DEF IInv, SequenceTypeOK, Inserted
<1>3. /\ drawn' = [drawn EXCEPT ![t] = @ \cup {e}]
      /\ seq' = [seq EXCEPT ![a] = @ + 1]
      /\ holder' = [holder EXCEPT ![a] = t]
      /\ holder[a] \in {NoTx, t}
      /\ txState[t] = "open"
      /\ UNCHANGED <<committed, events, txState>>
  BY DEF PublishTransactional, Publishing
<1> HIDE DEF a
<1>4. SequenceTypeOK'
  BY <1>1, <1>2, <1>3 DEF IInv, SequenceTypeOK, PublishTransactional
<1>5. Unheld' /\ HolderOpen' /\ Ascending' /\ Gapless'
  BY <1>1, <1>3, SequenceAssumption
  DEF IInv, SequenceTypeOK, Unheld, HolderOpen, Ascending, Gapless
<1>6. DrawnBounded'
  <2> SUFFICES ASSUME NEW u \in Txs, NEW i \in drawn'[u]
               PROVE  i.number <= IF holder'[i.aggregate] = u
                                  THEN seq'[i.aggregate] ELSE committed'[i.aggregate]
    BY DEF DrawnBounded
  <2>1. CASE i = e /\ u = t
    BY <2>1, <1>1, <1>3 DEF IInv, SequenceTypeOK
  <2>2. CASE i \in drawn[u]
    BY <2>2, <1>1, <1>3, SequenceAssumption
    DEF IInv, SequenceTypeOK, DrawnBounded, Ascending, Unheld, Inserted
  <2> QED BY <2>1, <2>2, <1>3 DEF IInv, SequenceTypeOK
<1>7. DrawnPositive'
  BY <1>1, <1>2, <1>3 DEF IInv, SequenceTypeOK, DrawnPositive, Inserted
<1>8. HolderHasDrawn'
  <2> SUFFICES ASSUME NEW u \in Txs, NEW b \in Aggregates, holder'[b] = u,
                      NEW n \in committed'[b] + 1 .. seq'[b]
               PROVE  n \in Numbers(u, b)'
    BY DEF HolderHasDrawn
  <2>1. \A v \in Txs : drawn[v] \subseteq drawn'[v]
    BY <1>3 DEF IInv, SequenceTypeOK
  <2>2. Numbers(u, b) \subseteq Numbers(u, b)'
    BY <2>1 DEF Numbers
  <2>3. CASE b # a
    BY <2>2, <2>3, <1>3 DEF IInv, SequenceTypeOK, HolderHasDrawn
  <2>4. CASE b = a /\ n # seq[a] + 1
    <3>1. holder[a] = t
      BY <2>4, <1>1, <1>3 DEF IInv, SequenceTypeOK, Unheld
    <3>2. u = t /\ committed'[a] = committed[a] /\ seq'[a] = seq[a] + 1
      BY <2>4, <1>1, <1>3 DEF IInv, SequenceTypeOK
    <3>3. seq[a] \in Nat /\ committed[a] \in Nat
      BY <1>1 DEF IInv, SequenceTypeOK
    <3>4. n \in committed[a] + 1 .. seq[a]
      BY <2>4, <3>2, <3>3
    <3>5. committed[a] + 1 .. seq[a] \subseteq Numbers(t, a)
      BY <3>1, <1>1 DEF IInv, HolderHasDrawn
    <3> QED BY <3>2, <3>4, <3>5, <2>2, <2>4
  <2>5. CASE b = a /\ n = seq[a] + 1
    <3>1. e \in drawn'[t] /\ u = t
      BY <2>5, <1>1, <1>3 DEF IInv, SequenceTypeOK
    <3> QED BY <3>1, <2>5 DEF Numbers
  <2> QED BY <2>3, <2>4, <2>5
<1>9. NumbersUnique'
  <2> SUFFICES ASSUME NEW u \in Txs, NEW v \in Txs, u # v,
                      NEW i \in drawn'[u], NEW j \in drawn'[v]
               PROVE  ~(i.aggregate = j.aggregate /\ i.number = j.number)
    BY DEF NumbersUnique
  <2>1. \A x \in Txs : \A k \in drawn[x] : k.aggregate = a => k.number < seq[a] + 1
    BY <1>1 DEF IInv, SequenceTypeOK, DrawnBounded, Ascending, Inserted
  <2>2. CASE i \in drawn[u] /\ j \in drawn[v]
    BY <2>2 DEF IInv, NumbersUnique
  <2>3. CASE u = t /\ i = e /\ j \in drawn[v]
    BY <2>1, <2>3, <1>1 DEF IInv, SequenceTypeOK, Inserted
  <2>4. CASE v = t /\ j = e /\ i \in drawn[u]
    BY <2>1, <2>4, <1>1 DEF IInv, SequenceTypeOK, Inserted
  <2> QED BY <2>2, <2>3, <2>4, <1>3 DEF IInv, SequenceTypeOK
<1>10. DrawnEarlier' /\ BatchInOrder'
  <2>1. next' = [next EXCEPT ![t] = @ + 1]
    BY DEF PublishTransactional
  <2>2. DrawnEarlier'
    BY <1>3, <2>1 DEF IInv, SequenceTypeOK, DrawnEarlier, Inserted
  <2>3. \A k \in drawn[t] : /\ k.batchIndex < next[t]
                            /\ k.aggregate = a => k.number < seq[a] + 1
    BY <1>1 DEF IInv, SequenceTypeOK, DrawnEarlier, DrawnBounded, Ascending, Inserted
  <2>4. BatchInOrder'
    <3> SUFFICES ASSUME NEW u \in Txs, NEW i \in drawn'[u], NEW j \in drawn'[u],
                        i.aggregate = j.aggregate, i.batchIndex < j.batchIndex
                 PROVE  i.number < j.number
      BY DEF BatchInOrder
    <3>1. CASE i \in drawn[u] /\ j \in drawn[u]
      BY <3>1 DEF IInv, BatchInOrder
    <3>2. CASE u = t /\ j = e /\ i \in drawn[t]
      BY <3>2, <2>3, <1>1
    <3>3. CASE u = t /\ i = e /\ j \in drawn'[t]
      BY <3>3, <2>3, <1>3 DEF IInv, SequenceTypeOK, Inserted
    <3> QED BY <3>1, <3>2, <3>3, <1>3 DEF IInv, SequenceTypeOK
  <2> QED BY <2>2, <2>4
<1> QED BY <1>4, <1>5, <1>6, <1>7, <1>8, <1>9, <1>10 DEF IInv

LEMMA CommitIInv ==
  ASSUME IInv, NEW t \in Txs, Commit(t)
  PROVE  IInv'
<1>1. /\ events' = [a \in Aggregates |-> events[a] \cup Numbers(t, a)]
      /\ committed' = [a \in Aggregates |-> IF holder[a] = t THEN seq[a] ELSE committed[a]]
      /\ holder' = [a \in Aggregates |-> IF holder[a] = t THEN NoTx ELSE holder[a]]
      /\ txState' = [txState EXCEPT ![t] = "committed"]
      /\ UNCHANGED <<seq, drawn, next, aborts>>
  BY DEF Commit, Release
<1>2. \A a \in Aggregates : Numbers(t, a) \subseteq Nat
  BY DEF IInv, SequenceTypeOK, Inserted, Numbers
<1>3. SequenceTypeOK'
  BY <1>1, <1>2, SequenceAssumption DEF IInv, SequenceTypeOK
<1>4. Unheld' /\ HolderOpen' /\ Ascending'
  BY <1>1, SequenceAssumption DEF IInv, SequenceTypeOK, Unheld, HolderOpen, Ascending
<1>5. DrawnBounded' /\ DrawnPositive'
  BY <1>1, SequenceAssumption
  DEF IInv, SequenceTypeOK, DrawnBounded, DrawnPositive, Ascending, Inserted
<1>6. HolderHasDrawn'
  <2> SUFFICES ASSUME NEW u \in Txs, NEW a \in Aggregates, holder'[a] = u
               PROVE  committed'[a] + 1 .. seq'[a] \subseteq Numbers(u, a)'
    BY DEF HolderHasDrawn
  <2>1. holder[a] = u /\ u # t
    BY <1>1, SequenceAssumption
  <2>2. Numbers(u, a)' = Numbers(u, a)
    BY <1>1 DEF Numbers
  <2> QED BY <2>1, <2>2, <1>1 DEF IInv, HolderHasDrawn
<1>7. Gapless'
  <2> SUFFICES ASSUME NEW a \in Aggregates
               PROVE  events[a] \cup Numbers(t, a)
                        = 1 .. (IF holder[a] = t THEN seq[a] ELSE committed[a])
    BY <1>1 DEF Gapless
  <2>1. events[a] = 1 .. committed[a] /\ committed[a] \in Nat /\ seq[a] \in Nat
    BY DEF IInv, SequenceTypeOK, Gapless
  <2>2. \A n \in Numbers(t, a) :
          n \in Nat /\ n >= 1 /\ n <= (IF holder[a] = t THEN seq[a] ELSE committed[a])
    BY DEF IInv, SequenceTypeOK, DrawnBounded, DrawnPositive, Inserted, Numbers
  <2>3. holder[a] = t => committed[a] + 1 .. seq[a] \subseteq Numbers(t, a)
    BY DEF IInv, HolderHasDrawn
  <2>4. committed[a] <= seq[a]
    BY DEF IInv, Ascending
  <2> QED BY <2>1, <2>2, <2>3, <2>4
<1>8. NumbersUnique' /\ DrawnEarlier' /\ BatchInOrder'
  BY <1>1 DEF IInv, NumbersUnique, DrawnEarlier, BatchInOrder
<1> QED BY <1>3, <1>4, <1>5, <1>6, <1>7, <1>8 DEF IInv

LEMMA RollbackIInv ==
  ASSUME IInv, NEW t \in Txs, Rollback(t), txState[t] = "open", aborts' \in Nat
  PROVE  IInv'
<1>1. /\ seq' = [a \in Aggregates |-> IF holder[a] = t THEN committed[a] ELSE seq[a]]
      /\ holder' = [a \in Aggregates |-> IF holder[a] = t THEN NoTx ELSE holder[a]]
      /\ drawn' = [drawn EXCEPT ![t] = {}]
      /\ txState' = [txState EXCEPT ![t] = "aborted"]
      /\ UNCHANGED <<committed, events, next>>
  BY DEF Rollback, Release
<1>2. SequenceTypeOK'
  BY <1>1, SequenceAssumption DEF IInv, SequenceTypeOK
<1>3. Unheld' /\ HolderOpen' /\ Ascending' /\ Gapless'
  BY <1>1, SequenceAssumption DEF IInv, SequenceTypeOK, Unheld, HolderOpen, Ascending, Gapless
<1>4. DrawnBounded' /\ DrawnPositive' /\ NumbersUnique' /\ DrawnEarlier' /\ BatchInOrder'
  BY <1>1, SequenceAssumption
  DEF IInv, SequenceTypeOK, DrawnBounded, DrawnPositive, NumbersUnique, DrawnEarlier,
      BatchInOrder, Inserted
<1>5. HolderHasDrawn'
  <2> SUFFICES ASSUME NEW u \in Txs, NEW a \in Aggregates, holder'[a] = u
               PROVE  committed'[a] + 1 .. seq'[a] \subseteq Numbers(u, a)'
    BY DEF HolderHasDrawn
  <2>1. holder[a] = u /\ u # t
    BY <1>1, SequenceAssumption
  <2>2. drawn'[u] = drawn[u]
    BY <2>1, <1>1 DEF IInv, SequenceTypeOK
  <2>3. Numbers(u, a)' = Numbers(u, a)
    BY <2>2 DEF Numbers
  <2> QED BY <2>1, <2>3, <1>1 DEF IInv, HolderHasDrawn
<1> QED BY <1>2, <1>3, <1>4, <1>5 DEF IInv

\* A transaction that waits for another is open.
LEMMA NextIInv == IInv /\ [SequenceNext]_sequenceVars => IInv'
<1> SUFFICES ASSUME IInv, [SequenceNext]_sequenceVars
             PROVE  IInv'
  OBVIOUS
<1>1. CASE UNCHANGED sequenceVars
  <2>1. UNCHANGED <<seq, holder, committed, events, drawn, next, txState, aborts>>
    BY <1>1 DEF sequenceVars
  <2>2. SequenceTypeOK' /\ Unheld' /\ HolderOpen' /\ Ascending' /\ Gapless'
    BY <2>1 DEF IInv, SequenceTypeOK, Unheld, HolderOpen, Ascending, Gapless
  <2>3. DrawnBounded' /\ DrawnPositive' /\ DrawnEarlier' /\ NumbersUnique' /\ BatchInOrder'
    BY <2>1 DEF IInv, DrawnBounded, DrawnPositive, DrawnEarlier, NumbersUnique, BatchInOrder
  <2>4. HolderHasDrawn'
    BY <2>1 DEF IInv, HolderHasDrawn, Numbers
  <2> QED BY <2>2, <2>3, <2>4 DEF IInv
<1>2. ASSUME NEW t \in Txs, PublishTransactional(t) PROVE IInv'
  BY <1>2, PublishIInv
<1>3. ASSUME NEW t \in Txs, Commit(t) PROVE IInv'
  BY <1>3, CommitIInv
<1>4. ASSUME NEW t \in Txs, Abort(t) PROVE IInv'
  <2>1. Rollback(t) /\ txState[t] = "open" /\ aborts' \in Nat
    BY <1>4 DEF Abort, IInv, SequenceTypeOK
  <2> QED BY <2>1, RollbackIInv
<1>5. ASSUME NEW t \in Txs, AbortDeadlocked(t) PROVE IInv'
  <2>1. Rollback(t) /\ aborts' \in Nat
    BY <1>5 DEF AbortDeadlocked, IInv, SequenceTypeOK
  <2>2. WaitsFor(t) # {}
    BY <1>5 DEF AbortDeadlocked
  <2>3. txState[t] = "open"
    BY <2>2 DEF WaitsFor, Publishing
  <2> QED BY <2>1, <2>3, RollbackIInv
<1> QED BY <1>1, <1>2, <1>3, <1>4, <1>5 DEF SequenceNext

LEMMA Inductive == SequenceSpec => []IInv
BY InitIInv, NextIInv, PTL DEF SequenceSpec

\* Every variable keeps its type.
THEOREM SequenceTypeCorrect == SequenceSpec => []SequenceTypeOK
<1>1. IInv => SequenceTypeOK
  BY DEF IInv
<1> QED BY <1>1, Inductive, PTL

\* The committed events of every aggregate are numbered without a gap.
THEOREM SequenceGapless == SequenceSpec => []Gapless
<1>1. IInv => Gapless
  BY DEF IInv
<1> QED BY <1>1, Inductive, PTL

\* No number of an aggregate is drawn by two transactions that count.
THEOREM SequenceUnique == SequenceSpec => []NumbersUnique
<1>1. IInv => NumbersUnique
  BY DEF IInv
<1> QED BY <1>1, Inductive, PTL

\* A batch keeps its order within each aggregate.
THEOREM SequenceBatchInOrder == SequenceSpec => []BatchInOrder
<1>1. IInv => BatchInOrder
  BY DEF IInv
<1> QED BY <1>1, Inductive, PTL

-----------------------------------------------------------------------------
(* Publishing at once *)

Among(t, a, n) == Numbering!Among(t, a, n)

\* The abstract specification's cardinality is this module's.
LEMMA SameCardinality ==
  ASSUME NEW S
  PROVE  Numbering!Cardinality(S) = Cardinality(S)
BY DEF Numbering!Cardinality, Cardinality

LEMMA AmongNext ==
  ASSUME NEW t \in Txs, NEW a \in Aggregates, NEW n \in Nat
  PROVE  /\ Among(t, a, n) \in Nat
         /\ Among(t, a, 0) = 0
         /\ Among(t, a, n + 1) = Among(t, a, n) + (IF Batch[t][n + 1] = a THEN 1 ELSE 0)
         /\ \A k \in 1 .. n : Batch[t][k] = a => Among(t, a, n) # 0
<1> DEFINE S(m) == {k \in 1 .. m : Batch[t][k] = a}
<1>1. \A m \in Nat : IsFiniteSet(S(m))
  <2> SUFFICES ASSUME NEW m \in Nat PROVE IsFiniteSet(S(m))
    OBVIOUS
  <2>1. IsFiniteSet(1 .. m)
    BY FS_Interval
  <2> QED BY <2>1, FS_Subset
<1>2. Among(t, a, n) = Cardinality(S(n)) /\ Among(t, a, n + 1) = Cardinality(S(n + 1))
      /\ Among(t, a, 0) = Cardinality(S(0))
  BY SameCardinality DEF Among, Numbering!Among
<1>3. S(0) = {}
  OBVIOUS
<1>4. n + 1 \notin S(n) /\ S(n + 1) = IF Batch[t][n + 1] = a THEN S(n) \cup {n + 1} ELSE S(n)
  OBVIOUS
<1>5. \A k \in 1 .. n : Batch[t][k] = a => S(n) # {}
  OBVIOUS
<1>6. IsFiniteSet(S(n))
  BY <1>1
<1> HIDE DEF S
<1>7. Cardinality(S(n)) \in Nat /\ (Cardinality(S(n)) = 0 <=> S(n) = {})
  BY <1>6, FS_CardinalityType, FS_EmptySet
<1>8. Cardinality(S(n) \cup {n + 1}) = Cardinality(S(n)) + 1
  BY <1>4, <1>6, FS_AddElement
<1> QED BY <1>2, <1>3, <1>4, <1>5, <1>7, <1>8, FS_EmptySet

\* The event at place k of the list of t, if the last number of its aggregate is
\* base[Batch[t][k]]
Numbered(t, base, k) ==
  [batchIndex |-> k, aggregate |-> Batch[t][k],
   number |-> base[Batch[t][k]] + Among(t, Batch[t][k], k)]

\* What an open transaction has drawn follows what is committed.
DrawnInOrder(t) ==
  /\ next[t] - 1 <= Len(Batch[t])
  /\ drawn[t] = {Numbered(t, committed, k) : k \in 1 .. next[t] - 1}

\* The lock of an aggregate is with the transaction that has drawn of it.
CounterInOrder(t) ==
  \A a \in Aggregates :
    IF holder[a] = t THEN seq[a] = committed[a] + Among(t, a, next[t] - 1)
    ELSE Among(t, a, next[t] - 1) = 0

OrderInv ==
  /\ IInv
  /\ \A t \in Txs : txState[t] = "open" => DrawnInOrder(t) /\ CounterInOrder(t)

LEMMA BatchType ==
  ASSUME NEW t \in Txs
  PROVE  /\ Len(Batch[t]) \in Nat
         /\ \A k \in 1 .. Len(Batch[t]) : Batch[t][k] \in Aggregates
BY SequenceAssumption

LEMMA OrderInit == SequenceInit => OrderInv
<1> SUFFICES ASSUME SequenceInit, NEW t \in Txs PROVE DrawnInOrder(t) /\ CounterInOrder(t)
  BY InitIInv DEF OrderInv
<1>1. next[t] - 1 = 0 /\ drawn[t] = {}
  BY DEF SequenceInit
<1>2. DrawnInOrder(t)
  BY <1>1, BatchType DEF DrawnInOrder
<1>3. \A a \in Aggregates : holder[a] # t /\ Among(t, a, 0) = 0
  <2> SUFFICES ASSUME NEW a \in Aggregates PROVE holder[a] # t /\ Among(t, a, 0) = 0
    OBVIOUS
  <2>1. 0 \in Nat
    OBVIOUS
  <2> QED BY <2>1, AmongNext, SequenceAssumption DEF SequenceInit
<1>4. CounterInOrder(t)
  BY <1>1, <1>3 DEF CounterInOrder
<1> QED BY <1>2, <1>4

LEMMA PublishOrder ==
  ASSUME OrderInv, NEW t \in Txs, PublishTransactional(t)
  PROVE  OrderInv'
<1> DEFINE a == Wants(t)
           n == next[t] - 1
<1>1. IInv /\ IInv'
  BY PublishIInv DEF OrderInv
<1>2. a \in Aggregates /\ n \in Nat /\ n + 1 = next[t] /\ n + 1 <= Len(Batch[t])
      /\ a = Batch[t][n + 1]
  BY <1>1, WantsType DEF IInv, SequenceTypeOK, PublishTransactional, Publishing, Wants
<1>3. /\ drawn' = [drawn EXCEPT ![t] = @ \cup
                    {[batchIndex |-> n + 1, aggregate |-> a, number |-> seq[a] + 1]}]
      /\ seq' = [seq EXCEPT ![a] = @ + 1]
      /\ holder' = [holder EXCEPT ![a] = t]
      /\ next' = [next EXCEPT ![t] = n + 2]
      /\ holder[a] \in {NoTx, t}
      /\ txState[t] = "open"
      /\ UNCHANGED <<committed, txState>>
  <2>1. next[t] + 1 = n + 2
    BY <1>2
  <2> HIDE DEF a, n
  <2> QED BY <1>2, <2>1 DEF PublishTransactional, Publishing, a
<1> HIDE DEF a, n
<1>4. DrawnInOrder(t) /\ CounterInOrder(t)
  BY <1>3 DEF OrderInv
<1>5. next[t] - 1 = n
  BY <1>2
<1>6. \A b \in Aggregates : seq[b] \in Nat /\ committed[b] \in Nat /\ Among(t, b, n) \in Nat
                            /\ Among(t, b, n + 1) = Among(t, b, n) + (IF b = a THEN 1 ELSE 0)
  <2> SUFFICES ASSUME NEW b \in Aggregates
               PROVE  /\ seq[b] \in Nat /\ committed[b] \in Nat /\ Among(t, b, n) \in Nat
                      /\ Among(t, b, n + 1) = Among(t, b, n) + (IF b = a THEN 1 ELSE 0)
    OBVIOUS
  <2>1. Among(t, b, n) \in Nat
        /\ Among(t, b, n + 1) = Among(t, b, n) + (IF Batch[t][n + 1] = b THEN 1 ELSE 0)
    <3>1. n \in Nat
      BY <1>2
    <3> QED BY <3>1, AmongNext
  <2> QED BY <2>1, <1>1, <1>2 DEF IInv, SequenceTypeOK
<1>7. seq[a] = committed[a] + Among(t, a, n)
  <2>1. CASE holder[a] = t
    BY <2>1, <1>2, <1>4, <1>5 DEF CounterInOrder
  <2>2. CASE holder[a] = NoTx
    <3>1. seq[a] = committed[a]
      BY <2>2, <1>1, <1>2 DEF IInv, Unheld
    <3>2. Among(t, a, n) = 0
      BY <2>2, <1>2, <1>4, <1>5, SequenceAssumption DEF CounterInOrder
    <3> QED BY <3>1, <3>2, <1>2, <1>6
  <2> QED BY <2>1, <2>2, <1>3
<1>8. next'[t] - 1 = n + 1
  BY <1>1, <1>2, <1>3 DEF IInv, SequenceTypeOK
<1>9. DrawnInOrder(t)'
  <2>1. Numbered(t, committed, n + 1)
          = [batchIndex |-> n + 1, aggregate |-> a, number |-> seq[a] + 1]
    <3>1. committed[a] + Among(t, a, n + 1) = seq[a] + 1
      BY <1>2, <1>6, <1>7
    <3> QED BY <3>1, <1>2 DEF Numbered
  <2>2. drawn'[t] = drawn[t] \cup {Numbered(t, committed, n + 1)}
    BY <2>1, <1>1, <1>3 DEF IInv, SequenceTypeOK
  <2>3. 1 .. n + 1 = (1 .. n) \cup {n + 1}
    BY <1>2
  <2>4. drawn[t] = {Numbered(t, committed, k) : k \in 1 .. n}
    BY <1>4, <1>5 DEF DrawnInOrder
  <2>5. drawn'[t] = {Numbered(t, committed, k) : k \in 1 .. n + 1}
    BY <2>2, <2>3, <2>4
  <2> QED BY <2>5, <1>2, <1>3, <1>8 DEF DrawnInOrder
<1>10. CounterInOrder(t)'
  <2> SUFFICES ASSUME NEW b \in Aggregates
               PROVE  IF holder'[b] = t THEN seq'[b] = committed'[b] + Among(t, b, n + 1)
                      ELSE Among(t, b, n + 1) = 0
    BY <1>8 DEF CounterInOrder
  <2>1. CASE b = a
    BY <2>1, <1>1, <1>2, <1>3, <1>6, <1>7 DEF IInv, SequenceTypeOK
  <2>2. CASE b # a
    BY <2>2, <1>1, <1>3, <1>4, <1>5, <1>6 DEF IInv, SequenceTypeOK, CounterInOrder
  <2> QED BY <2>1, <2>2
<1>11. ASSUME NEW u \in Txs, u # t, txState'[u] = "open"
       PROVE  DrawnInOrder(u)' /\ CounterInOrder(u)'
  <2>1. DrawnInOrder(u) /\ CounterInOrder(u)
    BY <1>11, <1>3 DEF OrderInv
  <2>2. drawn'[u] = drawn[u] /\ next'[u] = next[u]
    BY <1>1, <1>3, <1>11 DEF IInv, SequenceTypeOK
  <2>3. DrawnInOrder(u)'
    BY <2>1, <2>2, <1>3 DEF DrawnInOrder
  <2>4. \A b \in Aggregates : holder'[b] = u => holder[b] = u /\ seq'[b] = seq[b]
    BY <1>1, <1>2, <1>3, <1>11, SequenceAssumption DEF IInv, SequenceTypeOK
  <2>5. \A b \in Aggregates : holder[b] = u => holder'[b] = u
    BY <1>1, <1>2, <1>3, <1>11, SequenceAssumption DEF IInv, SequenceTypeOK
  <2> QED BY <2>1, <2>2, <2>3, <2>4, <2>5, <1>3 DEF CounterInOrder
<1>12. ASSUME NEW u \in Txs, txState'[u] = "open"
       PROVE  DrawnInOrder(u)' /\ CounterInOrder(u)'
  <2>1. CASE u = t
    BY <2>1, <1>9, <1>10 DEF DrawnInOrder, CounterInOrder
  <2>2. CASE u # t
    BY <2>2, <1>11, <1>12
  <2> QED BY <2>1, <2>2
<1> QED BY <1>1, <1>12 DEF OrderInv

\* What t has published when it commits.
LEMMA CommitOrder ==
  ASSUME OrderInv, NEW t \in Txs, Commit(t)
  PROVE  OrderInv'
<1>1. IInv /\ IInv'
  BY CommitIInv DEF OrderInv
<1>2. /\ committed' = [a \in Aggregates |-> IF holder[a] = t THEN seq[a] ELSE committed[a]]
      /\ holder' = [a \in Aggregates |-> IF holder[a] = t THEN NoTx ELSE holder[a]]
      /\ txState' = [txState EXCEPT ![t] = "committed"]
      /\ UNCHANGED <<seq, drawn, next>>
  BY DEF Commit, Release
<1>3. SUFFICES ASSUME NEW u \in Txs, txState'[u] = "open"
               PROVE  DrawnInOrder(u)' /\ CounterInOrder(u)'
  BY <1>1 DEF OrderInv
<1>4. u # t /\ txState[u] = "open"
  BY <1>1, <1>2, <1>3 DEF IInv, SequenceTypeOK
<1>5. DrawnInOrder(u) /\ CounterInOrder(u)
  BY <1>4 DEF OrderInv
<1> DEFINE n == next[u] - 1
<1>6. n \in Nat /\ n <= Len(Batch[u])
  BY <1>1, <1>5 DEF IInv, SequenceTypeOK, DrawnInOrder
<1>7. \A b \in Aggregates : Among(u, b, n) # 0 => committed'[b] = committed[b]
  BY <1>2, <1>4, <1>5 DEF CounterInOrder
<1>8. \A k \in 1 .. n : committed'[Batch[u][k]] = committed[Batch[u][k]]
  <2> SUFFICES ASSUME NEW k \in 1 .. n PROVE committed'[Batch[u][k]] = committed[Batch[u][k]]
    OBVIOUS
  <2> HIDE DEF n
  <2>1. Batch[u][k] \in Aggregates
    BY <1>6, BatchType
  <2>2. Among(u, Batch[u][k], n) # 0
    BY <2>1, <1>6, AmongNext
  <2> QED BY <2>1, <2>2, <1>7
<1>9. {Numbered(u, committed', k) : k \in 1 .. n} = {Numbered(u, committed, k) : k \in 1 .. n}
  <2>1. \A k \in 1 .. n : Numbered(u, committed', k) = Numbered(u, committed, k)
    BY <1>8 DEF Numbered
  <2> QED BY <2>1
<1>10. DrawnInOrder(u)'
  BY <1>2, <1>5, <1>9 DEF DrawnInOrder
<1>11. CounterInOrder(u)'
  <2> SUFFICES ASSUME NEW b \in Aggregates
               PROVE  IF holder'[b] = u THEN seq'[b] = committed'[b] + Among(u, b, next[u] - 1)
                      ELSE Among(u, b, next[u] - 1) = 0
    BY <1>2 DEF CounterInOrder
  <2>1. holder'[b] = u <=> holder[b] = u
    BY <1>2, <1>4, SequenceAssumption
  <2>2. holder[b] = u => committed'[b] = committed[b] /\ seq'[b] = seq[b]
    BY <1>2, <1>4
  <2> QED BY <2>1, <2>2, <1>5 DEF CounterInOrder
<1> QED BY <1>10, <1>11

LEMMA RollbackOrder ==
  ASSUME OrderInv, NEW t \in Txs, Rollback(t), txState[t] = "open", aborts' \in Nat
  PROVE  OrderInv'
<1>1. IInv /\ IInv'
  BY RollbackIInv DEF OrderInv
<1>2. /\ seq' = [a \in Aggregates |-> IF holder[a] = t THEN committed[a] ELSE seq[a]]
      /\ holder' = [a \in Aggregates |-> IF holder[a] = t THEN NoTx ELSE holder[a]]
      /\ drawn' = [drawn EXCEPT ![t] = {}]
      /\ txState' = [txState EXCEPT ![t] = "aborted"]
      /\ UNCHANGED <<committed, next>>
  BY DEF Rollback, Release
<1>3. SUFFICES ASSUME NEW u \in Txs, txState'[u] = "open"
               PROVE  DrawnInOrder(u)' /\ CounterInOrder(u)'
  BY <1>1 DEF OrderInv
<1>4. u # t /\ txState[u] = "open"
  BY <1>1, <1>2, <1>3 DEF IInv, SequenceTypeOK
<1>5. DrawnInOrder(u) /\ CounterInOrder(u)
  BY <1>4 DEF OrderInv
<1>6. drawn'[u] = drawn[u]
  BY <1>1, <1>2, <1>4 DEF IInv, SequenceTypeOK
<1>7. DrawnInOrder(u)'
  BY <1>2, <1>5, <1>6 DEF DrawnInOrder
<1>8. CounterInOrder(u)'
  <2> SUFFICES ASSUME NEW b \in Aggregates
               PROVE  IF holder'[b] = u THEN seq'[b] = committed[b] + Among(u, b, next[u] - 1)
                      ELSE Among(u, b, next[u] - 1) = 0
    BY <1>2 DEF CounterInOrder
  <2>1. holder'[b] = u <=> holder[b] = u
    BY <1>2, <1>4, SequenceAssumption
  <2>2. holder[b] = u => seq'[b] = seq[b]
    BY <1>2, <1>4
  <2> QED BY <2>1, <2>2, <1>5 DEF CounterInOrder
<1> QED BY <1>7, <1>8

\* A transaction that is rolled back was open.
LEMMA RolledBackWasOpen ==
  ASSUME IInv, NEW t \in Txs, Abort(t) \/ AbortDeadlocked(t)
  PROVE  Rollback(t) /\ txState[t] = "open" /\ aborts' \in Nat
<1>1. CASE Abort(t)
  BY <1>1 DEF Abort, IInv, SequenceTypeOK
<1>2. CASE AbortDeadlocked(t)
  <2>1. Rollback(t) /\ aborts' \in Nat
    BY <1>2 DEF AbortDeadlocked, IInv, SequenceTypeOK
  <2>2. WaitsFor(t) # {}
    BY <1>2 DEF AbortDeadlocked
  <2> QED BY <2>1, <2>2 DEF WaitsFor, Publishing
<1> QED BY <1>1, <1>2

LEMMA OrderStep == OrderInv /\ [SequenceNext]_sequenceVars => OrderInv'
<1> SUFFICES ASSUME OrderInv, [SequenceNext]_sequenceVars PROVE OrderInv'
  OBVIOUS
<1>1. CASE UNCHANGED sequenceVars
  <2>1. IInv'
    BY NextIInv DEF OrderInv
  <2>2. UNCHANGED <<seq, holder, committed, drawn, next, txState>>
    BY <1>1 DEF sequenceVars
  <2>3. \A t \in Txs : /\ DrawnInOrder(t)' <=> DrawnInOrder(t)
                       /\ CounterInOrder(t)' <=> CounterInOrder(t)
    BY <2>2 DEF DrawnInOrder, CounterInOrder
  <2> QED BY <2>1, <2>2, <2>3 DEF OrderInv
<1>2. ASSUME NEW t \in Txs, PublishTransactional(t) PROVE OrderInv'
  BY <1>2, PublishOrder
<1>3. ASSUME NEW t \in Txs, Commit(t) PROVE OrderInv'
  BY <1>3, CommitOrder
<1>4. ASSUME NEW t \in Txs, Abort(t) \/ AbortDeadlocked(t) PROVE OrderInv'
  BY <1>4, RolledBackWasOpen, RollbackOrder DEF OrderInv
<1> QED BY <1>1, <1>2, <1>3, <1>4 DEF SequenceNext

\* What t publishes at once
Published(t) ==
  {[tx |-> t, batchIndex |-> i, aggregate |-> Batch[t][i],
    number |-> committed[Batch[t][i]] + Among(t, Batch[t][i], i)] : i \in 1 .. Len(Batch[t])}

Of(t) == {[tx |-> t, batchIndex |-> i.batchIndex, aggregate |-> i.aggregate,
           number |-> i.number] : i \in drawn[t]}

LEMMA CommitPublishes ==
  ASSUME OrderInv, NEW t \in Txs, Commit(t)
  PROVE  Numbering!PublishAtOnce(t)
<1>1. IInv /\ txState[t] = "open" /\ DrawnInOrder(t) /\ CounterInOrder(t)
  BY DEF OrderInv, Commit
<1>2. next[t] - 1 = Len(Batch[t])
  BY <1>1, BatchType DEF Commit, DrawnInOrder, IInv, SequenceTypeOK
<1>3. /\ committed' = [a \in Aggregates |-> IF holder[a] = t THEN seq[a] ELSE committed[a]]
      /\ txState' = [txState EXCEPT ![t] = "committed"]
      /\ drawn' = drawn
  BY DEF Commit
<1>4. \A e \in CommittedEvents : e.tx # t
  BY <1>1 DEF CommittedEvents
<1>5. Of(t) = Published(t)
  <2>1. drawn[t] = {Numbered(t, committed, k) : k \in 1 .. Len(Batch[t])}
    BY <1>1, <1>2 DEF DrawnInOrder
  <2> DEFINE row(i) == [tx |-> t, batchIndex |-> i.batchIndex, aggregate |-> i.aggregate,
                        number |-> i.number]
             event(k) == [tx |-> t, batchIndex |-> k, aggregate |-> Batch[t][k],
                          number |-> committed[Batch[t][k]] + Among(t, Batch[t][k], k)]
  <2>2. \A k \in 1 .. Len(Batch[t]) : row(Numbered(t, committed, k)) = event(k)
    BY DEF Numbered
  <2>3. Of(t) = {row(i) : i \in drawn[t]} /\ Published(t) = {event(k) : k \in 1 .. Len(Batch[t])}
    BY DEF Of, Published
  <2> HIDE DEF row, event
  <2> QED BY <2>1, <2>2, <2>3
<1>6. CommittedEvents' = CommittedEvents \cup Of(t)
  <2>1. CommittedEvents = UNION {Of(u) : u \in {v \in Txs : txState[v] = "committed"}}
    BY DEF CommittedEvents, Of
  <2>2. CommittedEvents' = UNION {Of(u) : u \in {v \in Txs : txState'[v] = "committed"}}
    BY <1>3 DEF CommittedEvents, Of
  <2>3. {v \in Txs : txState'[v] = "committed"} = {v \in Txs : txState[v] = "committed"} \cup {t}
    BY <1>1, <1>3 DEF IInv, SequenceTypeOK
  <2> HIDE DEF Of
  <2> QED BY <2>1, <2>2, <2>3
<1>7. committed' = [a \in Aggregates |-> committed[a] + Among(t, a, Len(Batch[t]))]
  <2>1. \A a \in Aggregates : (IF holder[a] = t THEN seq[a] ELSE committed[a])
                                = committed[a] + Among(t, a, Len(Batch[t]))
    BY <1>1, <1>2 DEF CounterInOrder, IInv, SequenceTypeOK
  <2> QED BY <1>3, <2>1
<1> QED BY <1>4, <1>5, <1>6, <1>7 DEF Numbering!PublishAtOnce, Published, Among

\* The other steps publish nothing.
LEMMA OthersPublishNothing ==
  ASSUME IInv, NEW t \in Txs, txState[t] = "open", txState'[t] # "committed",
         \A u \in Txs : u # t => drawn'[u] = drawn[u] /\ txState'[u] = txState[u]
  PROVE  CommittedEvents' = CommittedEvents
<1>1. {v \in Txs : txState'[v] = "committed"} = {v \in Txs : txState[v] = "committed"}
  OBVIOUS
<1>2. \A u \in {v \in Txs : txState[v] = "committed"} : drawn'[u] = drawn[u]
  OBVIOUS
<1> QED BY <1>1, <1>2 DEF CommittedEvents

LEMMA StepPublishesAtOnce ==
  OrderInv /\ [SequenceNext]_sequenceVars => [Numbering!NumberingNext]_(Numbering!numberingVars)
<1> SUFFICES ASSUME OrderInv, [SequenceNext]_sequenceVars
             PROVE  Numbering!NumberingNext \/ UNCHANGED <<CommittedEvents, committed>>
  BY DEF Numbering!numberingVars
<1>1. CASE UNCHANGED sequenceVars
  BY <1>1 DEF sequenceVars, CommittedEvents
<1>2. ASSUME NEW t \in Txs, PublishTransactional(t)
      PROVE  UNCHANGED <<CommittedEvents, committed>>
  BY <1>2, OthersPublishNothing DEF OrderInv, IInv, SequenceTypeOK, PublishTransactional, Publishing
<1>3. ASSUME NEW t \in Txs, Commit(t) PROVE Numbering!NumberingNext
  BY <1>3, CommitPublishes DEF Numbering!NumberingNext
<1>4. ASSUME NEW t \in Txs, Abort(t) \/ AbortDeadlocked(t)
      PROVE  UNCHANGED <<CommittedEvents, committed>>
  <2>1. Rollback(t) /\ txState[t] = "open" /\ IInv
    BY <1>4, RolledBackWasOpen DEF OrderInv
  <2> QED BY <2>1, OthersPublishNothing DEF Rollback, IInv, SequenceTypeOK
<1> QED BY <1>1, <1>2, <1>3, <1>4 DEF SequenceNext

\* Whatever transactions publish, in whatever lists, wait for each other and roll
\* back: each publishes as if at once, when it commits (eventProducer.ts:134-140,
\* 022_outbox_events.ts:84).
THEOREM SequencePublishesAtOnce == SequenceSpec => PublishesAtOnce
<1>1. SequenceInit => Numbering!NumberingInit
  BY DEF SequenceInit, Numbering!NumberingInit, CommittedEvents
<1> QED BY <1>1, OrderInit, OrderStep, StepPublishesAtOnce, PTL
        DEF SequenceSpec, PublishesAtOnce, Numbering!NumberingSpec

=============================================================================
