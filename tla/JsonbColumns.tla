---------------------------- MODULE JsonbColumns ----------------------------
(***************************************************************************)
(* What the database driver hands over for a jsonb column.  The services   *)
(* for admin rotation, incident escalation and digests call JSON.parse on  *)
(* such a column, which throws unless it comes as text; other services     *)
(* test for a string first.                                                *)
(***************************************************************************)
CONSTANT JsonbAsText

ASSUME JsonbAssumption == JsonbAsText \in BOOLEAN
==============================================================================
