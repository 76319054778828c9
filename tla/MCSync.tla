------------------------------- MODULE MCSync -------------------------------
(* Module Sync for TLC.  Its constants are numbers and small sets of modes, *)
(* given directly in the configurations.                                   *)
EXTENDS Sync
=============================================================================
