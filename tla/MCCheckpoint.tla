---------------------------- MODULE MCCheckpoint ----------------------------
(***************************************************************************)
(* Checkpoint with two ranks that write up to three entries each.  Values   *)
(* have one to three cells (three is too big for the index), so that ranks  *)
(* stop short of the end of their first block, at it or past it.  Each cell *)
(* of a value is different, so that a piece of one is never taken for       *)
(* another.                                                                 *)
(***************************************************************************)
EXTENDS Checkpoint

Op(key, n, persist, add) ==
    [key |-> key, val |-> [i \in 1 .. n |-> 10 * key + i],
     persist |-> persist, add |-> add]

\* Jobs for the policies.  In the third both ranks write key 1.  The entries
\* of rank 0 leave 2, -3, 0, 3 and 1 cells of its first block.
MCPrograms ==
    { [policy |-> "NO_FLUSH",
       ops |-> (0 :> <<Op(1, 2, "PERSIST", TRUE), Op(2, 3, "NO_PERSIST", TRUE)>>)
            @@ (1 :> <<Op(3, 2, "PERSIST", FALSE), Op(4, 2, "PERSIST", TRUE),
                       Op(5, 3, "PERSIST", FALSE)>>)],
      [policy |-> "NO_FLUSH",
       ops |-> (0 :> <<Op(1, 2, "PERSIST_FLUSH", TRUE), Op(2, 2, "PERSIST", TRUE),
                       Op(6, 2, "PERSIST", TRUE)>>)
            @@ (1 :> <<Op(3, 2, "PERSIST", FALSE), Op(4, 3, "PERSIST_FLUSH", FALSE)>>)],
      [policy |-> "PERIODIC_FLUSH",
       ops |-> (0 :> <<Op(1, 1, "PERSIST", TRUE), Op(2, 1, "PERSIST", FALSE),
                       Op(6, 1, "PERSIST", TRUE)>>)
            @@ (1 :> <<Op(3, 2, "PERSIST", TRUE), Op(1, 1, "NO_PERSIST", TRUE)>>)],
      [policy |-> "ALWAYS_FLUSH",
       ops |-> (0 :> <<Op(1, 3, "PERSIST", TRUE), Op(2, 1, "PERSIST", FALSE)>>)
            @@ (1 :> <<Op(3, 2, "PERSIST", TRUE), Op(4, 3, "PERSIST", TRUE)>>)],
      [policy |-> "NO_FLUSH",
       ops |-> (0 :> <<Op(1, 3, "PERSIST", FALSE), Op(2, 3, "PERSIST", FALSE)>>)
            @@ (1 :> <<Op(3, 1, "PERSIST_FLUSH", TRUE), Op(4, 1, "PERSIST", TRUE),
                       Op(5, 1, "PERSIST", TRUE)>>)] }

\* No length, lengths within a record and beyond a block, and a length that
\* is encoded in more bytes than it needs.
MCGarbles == {[n |-> n, minimal |-> TRUE] : n \in {-1, 1, 3, 30}}
               \cup {[n |-> 0, minimal |-> FALSE]}
=============================================================================
