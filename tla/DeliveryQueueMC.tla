--------------------------- MODULE DeliveryQueueMC ---------------------------
(* Small instances of DeliveryQueue for TLC. *)
EXTENDS DeliveryQueue, TLC

CONSTANTS d1, d2, r1, r2

=============================================================================
