-------------------------- MODULE DeliverySequenceMC --------------------------
(***************************************************************************)
(* The two ends of event delivery: the transactions that number events and *)
(* the queue that delivers to receivers.  They share no state, so a        *)
(* behaviour of this run is one of either end.                             *)
(***************************************************************************)
EXTENDS OutboxSequenceMC, DeliveryQueueMC

VARIABLE end

endVars == <<end, sequenceVars, vars>>

EndInit == end \in {"sequence", "delivery"} /\ SequenceInit /\ Init

SequenceRuns == end = "sequence" /\ SequenceNext /\ UNCHANGED <<end, vars>>

DeliveryRuns == end = "delivery" /\ Next /\ UNCHANGED <<end, sequenceVars>>

\* That of OutboxSequence while its end runs, and that of DeliveryQueue: no
\* action of the queue is enabled while the transactions run.
TransactionGoesOn(t) ==
  end = "sequence" /\ (PublishTransactional(t) \/ Commit(t)) /\ UNCHANGED end

DeadlockIsFound(t) == end = "sequence" /\ AbortDeadlocked(t) /\ UNCHANGED end

EndFairness ==
  /\ \A t \in Txs : WF_sequenceVars(TransactionGoesOn(t)) /\ WF_sequenceVars(DeadlockIsFound(t))
  /\ Fairness

EndSpec == EndInit /\ [][SequenceRuns \/ DeliveryRuns]_endVars /\ EndFairness

===============================================================================
