--------------------------- MODULE MCTermination ----------------------------
(* Module Termination for TLC: servers 10, 11, 12 with one or two workers. *)
EXTENDS Termination, TLC

TwoServers == [w \in Workers |-> IF w \in {"a", "b"} THEN 10 ELSE 11]
ThreeServers == [w \in Workers |-> IF w = "a" THEN 10 ELSE IF w = "b" THEN 11 ELSE 12]
=============================================================================
