------------------------------ MODULE MCEngine ------------------------------
(***************************************************************************)
(* Engine with three servers and two tasks, each of which names an input   *)
(* twice, data on two servers and a subscript on the third.                *)
(***************************************************************************)
EXTENDS Engine

S3 == {"s1", "s2", "s3"}
K3 == {"a", "b", "sub"}
Subs == {"sub"}
HomesAll == [k \in K3 |-> CASE k = "a" -> "s1" [] k = "b" -> "s2" [] OTHER -> "s3"]
T2 == {"t1", "t2"}
Inputs2 == [t \in T2 |-> IF t = "t1" THEN <<"a", "b", "a", "sub">>
                        ELSE <<"b", "sub", "sub">>]
=============================================================================
