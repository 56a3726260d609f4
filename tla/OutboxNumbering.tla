--------------------------- MODULE OutboxNumbering ---------------------------
(***************************************************************************)
(* What the producer promises of the numbers it gives out: a transaction   *)
(* publishes its whole list in a single step, and the events of each       *)
(* aggregate take the next numbers in the order of the list.               *)
(***************************************************************************)
EXTENDS Naturals, Sequences, FiniteSets

CONSTANTS Aggregates, Txs, Batch

VARIABLES
  numbered,  \* the events published: transaction, place in its list, aggregate and number
  last       \* the last number of each aggregate

numberingVars == <<numbered, last>>

\* How many of the first n events of t are of the aggregate a
Among(t, a, n) == Cardinality({k \in 1..n : Batch[t][k] = a})

NumberingInit == numbered = {} /\ last = [a \in Aggregates |-> 0]

PublishAtOnce(t) ==
  /\ \A e \in numbered : e.tx # t
  /\ numbered' = numbered \cup
       {[tx |-> t, batchIndex |-> i, aggregate |-> Batch[t][i],
         number |-> last[Batch[t][i]] + Among(t, Batch[t][i], i)] : i \in 1..Len(Batch[t])}
  /\ last' = [a \in Aggregates |-> last[a] + Among(t, a, Len(Batch[t]))]

NumberingNext == \E t \in Txs : PublishAtOnce(t)

NumberingSpec == NumberingInit /\ [][NumberingNext]_numberingVars

=============================================================================
