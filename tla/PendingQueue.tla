---------------------------- MODULE PendingQueue ----------------------------
(***************************************************************************)
(* What the list of deferred syncs promises its users: a FIFO.  Module Sync *)
(* uses it in this form (its variable pending); module PendingRing shows   *)
(* that the ring buffer of sync.c and sync.h implements it.                *)
(***************************************************************************)
EXTENDS Naturals, Sequences

CONSTANTS
  Entries,      \* the entries (xlb_pending)
  MaxPending    \* bound on the length of the list

VARIABLE queue

Init == queue = <<>>

\* enqueue_pending()
Enqueue(e) ==
  /\ Len(queue) < MaxPending
  /\ queue' = Append(queue, e)

\* xlb_dequeue_pending()
Dequeue ==
  /\ queue # <<>>
  /\ queue' = Tail(queue)

Next == Dequeue \/ \E e \in Entries : Enqueue(e)

Spec == Init /\ [][Next]_queue

=============================================================================
