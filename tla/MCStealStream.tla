--------------------------- MODULE MCStealStream ----------------------------
(* Module StealStream for TLC: batches of two of up to five units. *)
EXTENDS StealStream
=============================================================================
