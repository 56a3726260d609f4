------------------------------ MODULE OutboxMC ------------------------------
(* Small instances of Outbox for TLC. *)
EXTENDS Outbox, TLC

CONSTANTS e1, e2, k1, k2, w1, w2

\* Two events of one aggregate with keys of their own.
TwoEvents     == {e1, e2}
OneAggregate  == [e \in Events |-> 1]
TwoKeys       == (e1 :> k1) @@ (e2 :> k2)

\* The second event has the NULL key.
KeyAndNoKey   == (e1 :> k1) @@ (e2 :> NoKey)

KeepOne == [o \in Outcomes |-> 1]

=============================================================================
