--------------------------- MODULE MCLogRecovery ---------------------------
(* Instances of LogRecovery for TLC. *)
EXTENDS LogRecovery

CONSTANTS a, b
==============================================================================
