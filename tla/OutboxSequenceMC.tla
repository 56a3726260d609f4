-------------------------- MODULE OutboxSequenceMC --------------------------
(* Four transactions on three aggregates; the first three can wait in a circle. *)
EXTENDS OutboxSequence, TLC

CONSTANTS a, b, c, t1, t2, t3, t4

FourBatches ==
  (t1 :> <<a, b, a>>) @@ (t2 :> <<b, c>>) @@ (t3 :> <<c, a>>) @@ (t4 :> <<b, a>>)

=============================================================================
