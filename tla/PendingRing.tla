---------------------------- MODULE PendingRing ----------------------------
(***************************************************************************)
(* The ring buffer of deferred syncs: xlb_pending_syncs with               *)
(* xlb_sync_init() and enqueue_pending() of sync.c, xlb_dequeue_pending()  *)
(* of sync.h and xlb_pending_shrink().  The buffer doubles when it is full *)
(* and halves when less than a quarter of it is used.                      *)
(***************************************************************************)
EXTENDS Naturals, Sequences, FiniteSets

CONSTANTS
  Entries,      \* the entries (xlb_pending)
  Notifs,       \* those for which xlb_is_pending_notif() holds
  InitSize,     \* PENDING_SYNC_INIT_SIZE
  StartSize,    \* the first size: InitSize, or ADLB_DEBUG_SYNC_BUFFER_SIZE
  MaxPending,   \* bound on the number of entries
  Unset         \* what malloc() and realloc() leave in a new cell

ASSUME EntriesAssumption == Notifs \subseteq Entries /\ Unset \notin Entries

\* A quarter of a buffer larger than InitSize holds at least two entries; the
\* code has 1024.  (With less, xlb_pending_shrink() could leave the head of
\* an empty list just past the end of the smaller buffer.)
ASSUME InitSizeAssumption == InitSize \in Nat /\ InitSize >= 7

ASSUME StartSizeAssumption == StartSize \in 1..(2 * InitSize)

ASSUME MaxPendingAssumption == MaxPending \in Nat

VARIABLES
  array,    \* xlb_pending_syncs
  head,     \* xlb_pending_sync_head
  count,    \* xlb_pending_sync_count
  size,     \* xlb_pending_sync_size
  notifs    \* xlb_pending_notif_count

vars == <<array, head, count, size, notifs>>

\* The malloc of xlb_sync_init().
Init ==
  /\ array = [i \in 0..(StartSize - 1) |-> Unset]
  /\ head = 0
  /\ count = 0
  /\ size = StartSize
  /\ notifs = 0

\* memcpy() and memmove() within the buffer.
Moved(a, dst, src, len) ==
  [i \in DOMAIN a |-> IF i >= dst /\ i < dst + len THEN a[src + (i - dst)]
                     ELSE a[i]]

\* Mutant of Grown: the wrapped entries stay where they are.
GrownInPlace ==
  [i \in 0..(2 * size - 1) |-> IF i < size THEN array[i] ELSE Unset]

\* realloc() to twice the size; the entries in [0..head) go behind the old end.
Grown ==
  [i \in 0..(2 * size - 1) |->
     IF i < size THEN array[i]
     ELSE IF i < size + head THEN array[i - size] ELSE Unset]

\* enqueue_pending()
Enqueue(e) ==
  LET full == count = size
      size1 == IF full THEN 2 * size ELSE size
      array1 == IF full THEN Grown ELSE array
  IN
  /\ count < MaxPending
  /\ array' = [array1 EXCEPT ![(head + count) % size1] = e]
  /\ size' = size1
  /\ count' = count + 1
  /\ notifs' = IF e \in Notifs THEN notifs + 1 ELSE notifs
  /\ UNCHANGED head

\* The buffer after xlb_pending_shrink() has packed the c entries from h on
\* into its first half: wrapped around, past the new end, or in place.
Packed(h, c) ==
  LET wrapped == (h + c) % size IN
  IF h + c > size
  THEN Moved(Moved(array, c - wrapped, 0, wrapped), 0, h, c - wrapped)
  ELSE IF h + c > size \div 2 THEN Moved(array, 0, h, c)
  ELSE array

\* xlb_pending_shrink()
Shrink(h, c) ==
  LET new == size \div 2 IN
  /\ array' = [i \in 0..(new - 1) |-> Packed(h, c)[i]]
  /\ head' = IF h + c > new THEN 0 ELSE h
  /\ size' = new

\* The condition of xlb_dequeue_pending() for halving the buffer.
ShrinkDue(c) == size > InitSize /\ c < size \div 4

\* Mutant of NotifTaken: the new head is asked.
NotifNext == array[(head + 1) % size] \in Notifs

\* The entry taken is a notification.
NotifTaken == array[head] \in Notifs

\* xlb_dequeue_pending()
Dequeue ==
  LET h == (head + 1) % size
      c == count - 1
  IN
  /\ count > 0
  /\ count' = c
  /\ notifs' = IF NotifTaken THEN notifs - 1 ELSE notifs
  /\ IF ShrinkDue(c)
     THEN Shrink(h, c)
     ELSE head' = h /\ UNCHANGED <<array, size>>

Next == Dequeue \/ \E e \in Entries : Enqueue(e)

Spec == Init /\ [][Next]_vars

-----------------------------------------------------------------------------
(* Properties.                                                             *)

\* The list that the buffer stands for.
Contents == [i \in 1..count |-> array[(head + i - 1) % size]]

\* The type invariant.  In particular head and count stay within the buffer,
\* as the assertions of enqueue_pending() and xlb_pending_shrink() say.
TypeOK ==
  /\ size \in Nat \ {0}
  /\ array \in [0..(size - 1) -> Entries \cup {Unset}]
  /\ head \in 0..(size - 1)
  /\ count \in 0..size
  /\ notifs \in Nat

\* xlb_have_pending_notifs() tells the truth: the counter is the number of
\* notifications on the list, whatever was moved by growing and shrinking.
NotifsCounted ==
  notifs = Cardinality({i \in 1..count : Contents[i] \in Notifs})

\* A buffer larger than InitSize is a quarter full, so memory follows the
\* load; only one that starts above InitSize may be emptier, until something
\* is taken from it.
QuarterFull ==
  size > InitSize => count >= size \div 4 \/ (head = 0 /\ size = StartSize)

\* The buffer is a FIFO: growing, wrapping around and shrinking neither lose,
\* duplicate nor reorder entries (sync.c lines 109-114 need the order).
Queue == INSTANCE PendingQueue WITH queue <- Contents

QueueSpec == Queue!Spec

=============================================================================
