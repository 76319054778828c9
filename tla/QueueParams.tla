---------------------------- MODULE QueueParams -----------------------------
(* What the two queues of a server share: the layout of its workers. *)
EXTENDS Naturals

CONSTANTS
  Workers,      \* ranks of this server's workers, in the order of their index
  Types,        \* work types
  Host          \* host of each worker (xlb_layout.my_worker2host)

ASSUME QueueParamsAssumption ==
  /\ Workers \subseteq Nat
  /\ DOMAIN Host = Workers

Hosts == {Host[w] : w \in Workers}
=============================================================================
