------------------------- MODULE MCDurableAppendLog -------------------------
(* DurableAppendLog on a small instance: constants for TLC. *)
EXTENDS DurableAppendLog, TLC
=============================================================================
