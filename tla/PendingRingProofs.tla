-------------------------- MODULE PendingRingProofs --------------------------
(***************************************************************************)
(* The ring buffer of deferred syncs implements a FIFO, for every initial  *)
(* size and every number of entries.                                       *)
(***************************************************************************)
EXTENDS PendingRing, FiniteSetTheorems, SequenceTheorems, TLAPS

\* Indices are taken modulo the size of the buffer, and are less than twice
\* that size.
LEMMA ModSmall ==
  ASSUME NEW n \in Nat \ {0}, NEW x \in Nat, x < 2 * n
  PROVE  x % n = IF x < n THEN x ELSE x - n
  OBVIOUS

LEMMA DivHalf ==
  ASSUME NEW n \in Nat
  PROVE  /\ n \div 2 \in Nat /\ 2 * (n \div 2) <= n /\ n <= 2 * (n \div 2) + 1
         /\ n \div 4 \in Nat /\ 4 * (n \div 4) <= n /\ n <= 4 * (n \div 4) + 3
  OBVIOUS

\* Position x of an endless line, on a ring of n cells.
Wrap(x, n) == IF x < n THEN x ELSE x - n

LEMMA ContentsAt ==
  ASSUME TypeOK
  PROVE  Contents = [i \in 1..count |-> array[Wrap(head + i - 1, size)]]
  <1>1. ASSUME NEW i \in 1..count
        PROVE  (head + i - 1) % size = Wrap(head + i - 1, size)
    <2>1. /\ size \in Nat \ {0} /\ head + i - 1 \in Nat
          /\ head + i - 1 < 2 * size
      BY DEF TypeOK
    <2> QED
      BY <2>1, ModSmall DEF Wrap
  <1> QED
    BY <1>1 DEF Contents

LEMMA ContentsSeq ==
  ASSUME TypeOK
  PROVE  /\ Contents \in Seq(Entries \cup {Unset})
         /\ Len(Contents) = count
         /\ \A i \in 1..count : Contents[i] = array[Wrap(head + i - 1, size)]
  <1>1. \A i \in 1..count : Wrap(head + i - 1, size) \in 0..(size - 1)
    BY DEF Wrap, TypeOK
  <1>2. \A i \in 1..count :
          array[Wrap(head + i - 1, size)] \in Entries \cup {Unset}
    BY <1>1 DEF TypeOK
  <1>3. count \in Nat
    BY DEF TypeOK
  <1> QED
    BY <1>2, <1>3, ContentsAt

LEMMA ContentsSeqNext ==
  ASSUME TypeOK'
  PROVE  /\ Contents' \in Seq(Entries \cup {Unset})
         /\ Len(Contents') = count'
         /\ \A i \in 1..count' :
              Contents'[i] = array'[Wrap(head' + i - 1, size')]
  <1>1. (TypeOK => /\ Contents \in Seq(Entries \cup {Unset})
                   /\ Len(Contents) = count
                   /\ \A i \in 1..count :
                        Contents[i] = array[Wrap(head + i - 1, size)])'
    BY ContentsSeq, PTL
  <1> QED
    BY <1>1

LEMMA EnqueueType ==
  ASSUME TypeOK, QuarterFull, NEW e \in Entries, Enqueue(e)
  PROVE  TypeOK' /\ QuarterFull'
  <1>1. CASE count = size
    <2>1. /\ size' = 2 * size /\ count' = count + 1 /\ head' = head
          /\ array' = [Grown EXCEPT ![(head + count) % (2 * size)] = e]
          /\ notifs' \in Nat
      BY <1>1 DEF Enqueue, TypeOK
    <2>2. Grown \in [0..(2 * size - 1) -> Entries \cup {Unset}]
      BY DEF Grown, TypeOK
    <2>3. array' \in [0..(size' - 1) -> Entries \cup {Unset}]
      BY <2>1, <2>2, Zenon
    <2>4. TypeOK'
      BY <1>1, <2>1, <2>3 DEF TypeOK
    <2>5. QuarterFull'
      <3>1. 4 * (size' \div 4) <= size' /\ size' \div 4 \in Nat
        <4>1. size' \in Nat
          BY <2>4 DEF TypeOK
        <4> QED
          BY <4>1, DivHalf, Zenon
      <3> QED
        BY <1>1, <2>1, <3>1 DEF QuarterFull, TypeOK
    <2> QED
      BY <2>4, <2>5
  <1>2. CASE count # size
    <2>1. /\ size' = size /\ count' = count + 1 /\ head' = head
          /\ array' = [array EXCEPT ![(head + count) % size] = e]
          /\ notifs' \in Nat
      BY <1>2 DEF Enqueue, TypeOK
    <2>2. TypeOK'
      BY <1>2, <2>1 DEF TypeOK
    <2>3. QuarterFull'
      <3>1. size \div 4 \in Nat
        BY DivHalf DEF TypeOK
      <3> QED
        BY <2>1, <3>1 DEF QuarterFull, TypeOK
    <2> QED
      BY <2>2, <2>3
  <1> QED
    BY <1>1, <1>2

\* Adding an entry, also to a full buffer, appends it to the list.
LEMMA EnqueueAppends ==
  ASSUME TypeOK, QuarterFull, NEW e \in Entries, Enqueue(e)
  PROVE  Contents' = Append(Contents, e)
  <1>0. /\ TypeOK' /\ count' = count + 1 /\ head' = head /\ count \in Nat
        /\ size \in Nat \ {0} /\ head \in 0..(size - 1) /\ count \in 0..size
    BY EnqueueType DEF Enqueue, TypeOK
  <1>3. /\ \A i \in 1..count : array'[Wrap(head + i - 1, size')]
                                 = array[Wrap(head + i - 1, size)]
        /\ array'[Wrap(head + count, size')] = e
    <2>1. CASE count = size
      <3>1. /\ size' = 2 * size
            /\ array' = [Grown EXCEPT ![(head + count) % (2 * size)] = e]
        BY <2>1 DEF Enqueue
      <3>2. (head + count) % (2 * size) = head + count
        <4>1. /\ 2 * size \in Nat \ {0} /\ head + count \in Nat
              /\ head + count < 2 * (2 * size) /\ head + count < 2 * size
          BY <1>0, <2>1
        <4>2. (head + count) % (2 * size)
                = IF head + count < 2 * size THEN head + count
                  ELSE head + count - 2 * size
          BY ONLY <4>1, ModSmall
        <4> QED
          BY <4>1, <4>2
      <3>3. /\ array'[head + count] = e
            /\ \A j \in 0..(2 * size - 1) : j # head + count =>
                 array'[j] = Grown[j]
        BY <1>0, <2>1, <3>1, <3>2 DEF Grown
      <3>4. ASSUME NEW i \in 1..count
            PROVE  array'[Wrap(head + i - 1, size')]
                     = array[Wrap(head + i - 1, size)]
        <4>1. /\ Wrap(head + i - 1, size') = head + i - 1
              /\ head + i - 1 \in 0..(2 * size - 1)
              /\ head + i - 1 # head + count
          BY <1>0, <2>1, <3>1 DEF Wrap
        <4>2. Grown[head + i - 1] = array[Wrap(head + i - 1, size)]
          BY <1>0, <2>1, <4>1 DEF Grown, Wrap
        <4> QED
          BY <3>3, <4>1, <4>2
      <3> QED
        BY <1>0, <2>1, <3>1, <3>3, <3>4 DEF Wrap
    <2>2. CASE count # size
      <3>1. /\ size' = size
            /\ array' = [array EXCEPT ![(head + count) % size] = e]
        BY <2>2 DEF Enqueue
      <3>2. (head + count) % size = Wrap(head + count, size)
        <4>1. size \in Nat \ {0} /\ head + count \in Nat /\ head + count < 2 * size
          BY <1>0, <2>2
        <4> QED
          BY <4>1, ModSmall DEF Wrap
      <3>3. /\ Wrap(head + count, size) \in 0..(size - 1)
            /\ \A i \in 1..count :
                 /\ Wrap(head + i - 1, size) \in 0..(size - 1)
                 /\ Wrap(head + i - 1, size) # Wrap(head + count, size)
        BY <1>0, <2>2 DEF Wrap
      <3> QED
        BY <1>0, <3>1, <3>2, <3>3, Zenon DEF TypeOK
    <2> QED
      BY <2>1, <2>2
  <1>4. /\ Append(Contents, e) \in Seq(Entries \cup {Unset})
        /\ Len(Append(Contents, e)) = count + 1
        /\ \A i \in 1..count : Append(Contents, e)[i] = Contents[i]
        /\ Append(Contents, e)[count + 1] = e
    BY ContentsSeq, AppendProperties
  <1>5. ASSUME NEW i \in 1..(count + 1)
        PROVE  Contents'[i] = Append(Contents, e)[i]
    <2>1. CASE i \in 1..count
      BY <1>0, <1>3, <1>4, <2>1, ContentsSeq, ContentsSeqNext
    <2>2. CASE i = count + 1
      <3>1. head' + i - 1 = head + count
        BY <1>0, <2>2
      <3> QED
        BY <1>0, <1>3, <1>4, <2>2, <3>1, ContentsSeqNext
    <2>3. i \in 1..count \/ i = count + 1
      BY <1>0
    <2> QED
      BY <2>1, <2>2, <2>3, Zenon
  <1>6. Contents' \in Seq(Entries \cup {Unset}) /\ Len(Contents') = count + 1
    BY <1>0, ContentsSeqNext
  <1> QED
    BY <1>4, <1>5, <1>6, SeqEqual

\* Dequeuing, step by step.  The head moves on by one cell,
LEMMA HeadMoves ==
  ASSUME TypeOK, count > 0
  PROVE  (head + 1) % size = Wrap(head + 1, size)
  <1>1. size \in Nat \ {0} /\ head + 1 \in Nat /\ head + 1 < 2 * size
    BY DEF TypeOK
  <1> QED
    BY <1>1, ModSmall DEF Wrap

\* and packing the entries into the first half leaves each in its place.
LEMMA PackedAt ==
  ASSUME TypeOK, NEW h \in 0..(size - 1), NEW c \in Nat, c < size \div 4,
         NEW i \in 1..c
  PROVE  LET new == size \div 2
             h1 == IF h + c > new THEN 0 ELSE h
         IN  /\ Wrap(h1 + i - 1, new) \in 0..(new - 1)
             /\ Packed(h, c)[Wrap(h1 + i - 1, new)] = array[Wrap(h + i - 1, size)]
  <1> DEFINE new == size \div 2
             h1 == IF h + c > new THEN 0 ELSE h
             wrapped == (h + c) % size
  <1>0. /\ size \in Nat \ {0} /\ new \in Nat /\ 2 * new <= size
        /\ size <= 2 * new + 1 /\ 4 * c < size
    <2>1. size \in Nat
      BY DEF TypeOK
    <2> QED
      BY <2>1, DivHalf DEF TypeOK
  <1>1. /\ Wrap(h1 + i - 1, new) = h1 + i - 1
        /\ h1 + i - 1 \in 0..(new - 1)
    BY <1>0 DEF Wrap
  <1>2. DOMAIN array = 0..(size - 1)
    BY DEF TypeOK
  <1> HIDE DEF new
  <1>3. CASE h + c > size
    <2> DEFINE A == Moved(array, c - wrapped, 0, wrapped)
    <2>1. wrapped = h + c - size
      <3>1. /\ h + c \in Nat /\ size \in Nat \ {0} /\ h + c < 2 * size
            /\ ~ (h + c < size)
        BY <1>0, <1>3
      <3>2. ASSUME NEW x \in Nat, x < 2 * size, ~ (x < size)
            PROVE  x % size = x - size
        BY <3>1, <3>2, ModSmall, Zenon
      <3> QED
        BY <3>1, <3>2
    <2> HIDE DEF wrapped
    <2>2. Packed(h, c) = Moved(A, 0, h, c - wrapped)
      BY <1>3 DEF Packed, wrapped
    <2>3. DOMAIN A = 0..(size - 1)
      BY <1>2 DEF Moved
    <2>4. Wrap(h1 + i - 1, new) = i - 1
      BY <1>0, <1>1, <1>3
    <2>5. CASE i - 1 < c - wrapped
      <3>1. Packed(h, c)[i - 1] = A[h + (i - 1 - 0)]
        BY <1>0, <1>3, <2>1, <2>2, <2>3, <2>5 DEF Moved
      <3>2. /\ h + (i - 1 - 0) = h + i - 1 /\ h + i - 1 \in 0..(size - 1)
            /\ ~ (h + i - 1 < (c - wrapped) + wrapped)
        BY <1>0, <1>3, <2>1, <2>5
      <3>3. A[h + i - 1] = array[h + i - 1]
        BY <1>2, <3>2 DEF Moved
      <3>4. Wrap(h + i - 1, size) = h + i - 1
        BY <1>0, <3>2 DEF Wrap
      <3> HIDE DEF h1, A
      <3>5. Packed(h, c)[Wrap(h1 + i - 1, new)] = array[Wrap(h + i - 1, size)]
        BY <2>4, <3>1, <3>2, <3>3, <3>4
      <3> QED
        BY <1>1, <3>5 DEF new, h1
    <2>6. CASE ~ (i - 1 < c - wrapped)
      <3>1. /\ i - 1 \in 0..(size - 1) /\ i - 1 >= c - wrapped
            /\ i - 1 < (c - wrapped) + wrapped
            /\ 0 + (i - 1 - (c - wrapped)) = h + i - 1 - size
            /\ ~ (h + i - 1 < size)
        BY <1>0, <1>3, <2>1, <2>6
      <3>2. Packed(h, c)[i - 1] = A[i - 1]
        BY <1>0, <1>3, <2>1, <2>2, <2>3, <2>6, <3>1 DEF Moved
      <3>3. A[i - 1] = array[h + i - 1 - size]
        BY <1>2, <3>1 DEF Moved
      <3>4. Wrap(h + i - 1, size) = h + i - 1 - size
        BY <1>0, <3>1 DEF Wrap
      <3> HIDE DEF h1, A
      <3>5. Packed(h, c)[Wrap(h1 + i - 1, new)] = array[Wrap(h + i - 1, size)]
        BY <2>4, <3>2, <3>3, <3>4
      <3> QED
        BY <1>1, <3>5 DEF new, h1
    <2> QED
      BY <2>5, <2>6
  <1>4. CASE h + c <= size /\ h + c > new
    <2>1. Packed(h, c) = Moved(array, 0, h, c) /\ h1 = 0
      BY <1>0, <1>4 DEF Packed, new
    <2>2. Packed(h, c)[i - 1] = array[h + (i - 1 - 0)]
      BY <1>0, <1>2, <2>1 DEF Moved
    <2> QED
      BY <1>0, <1>1, <1>4, <2>1, <2>2 DEF Wrap
  <1>5. CASE h + c <= new
    <2>1. Packed(h, c) = array /\ h1 = h
      BY <1>0, <1>5 DEF Packed, new
    <2> QED
      BY <1>0, <1>1, <1>5, <2>1 DEF Wrap
  <1> QED
    BY <1>0, <1>3, <1>4, <1>5 DEF new

LEMMA MovedType ==
  ASSUME NEW S, NEW n \in Nat, NEW a \in [0..(n - 1) -> S],
         NEW dst \in Nat, NEW src \in Nat, NEW len \in Nat, src + len <= n
  PROVE  Moved(a, dst, src, len) \in [0..(n - 1) -> S]
  BY DEF Moved

LEMMA PackedType ==
  ASSUME TypeOK, NEW h \in 0..(size - 1), NEW c \in Nat, c < size
  PROVE  Packed(h, c) \in [0..(size - 1) -> Entries \cup {Unset}]
  <1>0. /\ size \in Nat \ {0}
        /\ array \in [0..(size - 1) -> Entries \cup {Unset}]
    BY DEF TypeOK
  <1>1. CASE h + c > size
    <2> DEFINE wrapped == (h + c) % size
               A == Moved(array, c - wrapped, 0, wrapped)
    <2>1. wrapped = h + c - size
      <3>1. ASSUME NEW x \in Nat, x < 2 * size, ~ (x < size)
            PROVE  x % size = x - size
        BY <1>0, <3>1, ModSmall, Zenon
      <3> QED
        BY <1>0, <1>1, <3>1
    <2>2. Packed(h, c) = Moved(A, 0, h, c - wrapped)
      BY <1>1 DEF Packed
    <2> HIDE DEF wrapped
    <2>3. /\ wrapped \in Nat /\ c - wrapped \in Nat /\ 0 + wrapped <= size
          /\ h + (c - wrapped) <= size /\ h \in Nat /\ 0 \in Nat /\ size \in Nat
      BY <1>0, <1>1, <2>1
    <2>4. A \in [0..(size - 1) -> Entries \cup {Unset}]
      BY <1>0, <2>3, MovedType, Zenon
    <2> HIDE DEF A
    <2>5. Moved(A, 0, h, c - wrapped)
            \in [0..(size - 1) -> Entries \cup {Unset}]
      BY <2>3, <2>4, MovedType, Zenon
    <2> QED
      BY <2>2, <2>5
  <1>2. CASE ~ (h + c > size)
    <2>1. h + c <= size /\ size \in Nat /\ h \in Nat /\ 0 \in Nat
      BY <1>0, <1>2
    <2>2. Moved(array, 0, h, c) \in [0..(size - 1) -> Entries \cup {Unset}]
      BY <1>0, <2>1, MovedType, Zenon
    <2> QED
      BY <1>0, <1>2, <2>2 DEF Packed
  <1> QED
    BY <1>1, <1>2

\* The notifications on the list.
Marks == {i \in 1..count : Contents[i] \in Notifs}

LEMMA MarksFinite ==
  ASSUME TypeOK
  PROVE  IsFiniteSet(Marks) /\ Cardinality(Marks) \in Nat
  <1>1. IsFiniteSet(1..count)
    BY FS_Interval DEF TypeOK
  <1>2. IsFiniteSet(Marks)
    BY <1>1, FS_Subset, Zenon DEF Marks
  <1> QED
    BY <1>2, FS_CardinalityType

LEMMA FirstMark ==
  ASSUME TypeOK, count > 0
  PROVE  NotifTaken <=> 1 \in Marks
  <1>1. 1 \in 1..count /\ Wrap(head + 1 - 1, size) = head
    BY DEF TypeOK, Wrap
  <1>2. Contents[1] = array[head]
    BY <1>1, ContentsSeq
  <1> QED
    BY <1>1, <1>2 DEF NotifTaken, Marks

LEMMA DequeueType ==
  ASSUME TypeOK, QuarterFull, NotifsCounted, Dequeue
  PROVE  TypeOK' /\ QuarterFull'
  <1> DEFINE h == Wrap(head + 1, size)
             c == count - 1
  <1>0. /\ size \in Nat \ {0} /\ head \in 0..(size - 1) /\ count \in 0..size
        /\ count > 0 /\ count' = c /\ h \in 0..(size - 1) /\ c \in Nat
        /\ size \div 2 \in Nat /\ 2 * (size \div 2) <= size
        /\ size <= 2 * (size \div 2) + 1
        /\ size \div 4 \in Nat /\ 4 * (size \div 4) <= size
        /\ size <= 4 * (size \div 4) + 3
    <2>1. /\ size \in Nat \ {0} /\ head \in 0..(size - 1) /\ count \in 0..size
          /\ count > 0 /\ count' = c
      BY DEF TypeOK, Dequeue
    <2>2. size \in Nat
      BY <2>1
    <2>3. h \in 0..(size - 1) /\ c \in Nat
      BY <2>1 DEF Wrap
    <2> QED
      BY <2>1, <2>2, <2>3, DivHalf
  <1>1. notifs' \in Nat
    <2>1. CASE NotifTaken
      <3>1. Cardinality(Marks) # 0
        BY <1>0, <2>1, FirstMark, MarksFinite, FS_EmptySet
      <3>2. notifs = Cardinality(Marks)
        BY DEF NotifsCounted, Marks
      <3> QED
        BY <2>1, <3>1, <3>2 DEF Dequeue, TypeOK
    <2>2. CASE ~ NotifTaken
      BY <2>2 DEF Dequeue, TypeOK
    <2> QED
      BY <2>1, <2>2
  <1>2. h = (head + 1) % size
    BY <1>0, HeadMoves
  <1>3. CASE ~ ShrinkDue(c)
    <2>1. head' = h /\ array' = array /\ size' = size
      BY <1>2, <1>3 DEF Dequeue
    <2>2. TypeOK'
      BY <1>0, <1>1, <2>1 DEF TypeOK
    <2> HIDE DEF h
    <2>3. QuarterFull'
      BY <1>0, <1>3, <2>1 DEF QuarterFull, ShrinkDue
    <2> QED
      BY <2>2, <2>3
  <1>4. CASE ShrinkDue(c)
    <2>1. /\ array' = [i \in 0..(size \div 2 - 1) |-> Packed(h, c)[i]]
          /\ head' = IF h + c > size \div 2 THEN 0 ELSE h
          /\ size' = size \div 2
          /\ size > InitSize /\ c < size \div 4
      BY <1>2, <1>4 DEF Dequeue, Shrink, ShrinkDue
    <2>2. InitSize \in Nat /\ InitSize >= 7 /\ StartSize \in 1..(2 * InitSize)
      BY InitSizeAssumption, StartSizeAssumption
    <2>3. size \div 4 >= 2 /\ size \div 2 >= 4
      BY <1>0, <2>1, <2>2
    <2>4. c = 0 => h = 1
      BY <1>0, <2>1, <2>2, <2>3 DEF QuarterFull, Wrap
    <2> HIDE DEF h
    <2>5. /\ head' \in 0..(size' - 1) /\ count' \in 0..size'
          /\ size' \in Nat \ {0}
      BY <1>0, <2>1, <2>3, <2>4
    <2>6. array' \in [0..(size' - 1) -> Entries \cup {Unset}]
      <3>1. Packed(h, c) \in [0..(size - 1) -> Entries \cup {Unset}]
        BY <1>0, <2>1, PackedType
      <3> QED
        BY <1>0, <2>1, <3>1
    <2>7. TypeOK'
      BY <1>1, <2>5, <2>6, Zenon DEF TypeOK
    <2>8. QuarterFull'
      <3>1. size' \in Nat
        BY <2>5
      <3>2. size' \div 4 \in Nat /\ 4 * (size' \div 4) <= size'
        BY <3>1, DivHalf, Zenon
      <3>3. ASSUME size' > InitSize
            PROVE  count' >= size' \div 4
        <4>1. size > 2 * InitSize + 1
          BY <1>0, <2>1, <2>2, <3>3
        <4>2. count >= size \div 4
          BY <1>0, <2>1, <2>2, <4>1 DEF QuarterFull
        <4> QED
          BY <1>0, <2>1, <2>2, <3>2, <4>1, <4>2
      <3> QED
        BY <3>3 DEF QuarterFull
    <2> QED
      BY <2>7, <2>8
  <1> QED
    BY <1>3, <1>4

\* Taking an entry, also when that shrinks the buffer, takes the first of the
\* list and leaves the rest.
LEMMA DequeueTakesFirst ==
  ASSUME TypeOK, QuarterFull, NotifsCounted, Dequeue
  PROVE  Contents # <<>> /\ Contents' = Tail(Contents)
  <1> DEFINE h == Wrap(head + 1, size)
             c == count - 1
  <1>0. /\ size \in Nat \ {0} /\ head \in 0..(size - 1) /\ count \in 0..size
        /\ count > 0 /\ count' = c /\ c \in Nat /\ TypeOK'
    BY DequeueType DEF TypeOK, Dequeue
  <1>1. h = (head + 1) % size /\ h \in 0..(size - 1)
    BY <1>0, HeadMoves DEF Wrap
  <1>2. ASSUME NEW i \in 1..c
        PROVE  array'[Wrap(head' + i - 1, size')] = array[Wrap(h + i - 1, size)]
    <2>1. CASE ~ ShrinkDue(c)
      BY <1>1, <2>1 DEF Dequeue
    <2>2. CASE ShrinkDue(c)
      <3> HIDE DEF h
      <3>1. /\ array' = [j \in 0..(size \div 2 - 1) |-> Packed(h, c)[j]]
            /\ head' = IF h + c > size \div 2 THEN 0 ELSE h
            /\ size' = size \div 2 /\ c < size \div 4
        BY <1>1, <2>2 DEF Dequeue, Shrink, ShrinkDue
      <3>2. /\ Wrap(head' + i - 1, size') \in 0..(size' - 1)
            /\ Packed(h, c)[Wrap(head' + i - 1, size')]
                 = array[Wrap(h + i - 1, size)]
        BY <1>0, <1>1, <3>1, PackedAt
      <3> QED
        BY <3>1, <3>2
    <2> QED
      BY <2>1, <2>2
  <1>3. /\ Contents \in Seq(Entries \cup {Unset}) /\ Len(Contents) = count
        /\ Contents # <<>>
    BY <1>0, ContentsSeq, EmptySeq
  <1>4. /\ Tail(Contents) \in Seq(Entries \cup {Unset})
        /\ Len(Tail(Contents)) = c
        /\ \A i \in 1..c : Tail(Contents)[i] = Contents[i + 1]
    BY <1>3, HeadTailProperties
  <1>5. ASSUME NEW i \in 1..c
        PROVE  Contents'[i] = Tail(Contents)[i]
    <2>1. i + 1 \in 1..count /\ Wrap(head + (i + 1) - 1, size) = Wrap(h + i - 1, size)
      BY <1>0 DEF Wrap
    <2>2. Contents[i + 1] = array[Wrap(h + i - 1, size)]
      BY <2>1, ContentsSeq
    <2>3. Contents'[i] = array[Wrap(h + i - 1, size)]
      BY <1>0, <1>2, ContentsSeqNext
    <2> QED
      BY <1>4, <2>2, <2>3
  <1>6. Contents' \in Seq(Entries \cup {Unset}) /\ Len(Contents') = c
    BY <1>0, ContentsSeqNext
  <1> QED
    BY <1>3, <1>4, <1>5, <1>6, SeqEqual

\* The counter of notifications follows the list.
LEMMA EnqueueMarks ==
  ASSUME TypeOK, QuarterFull, NotifsCounted, NEW e \in Entries, Enqueue(e)
  PROVE  NotifsCounted'
  <1>1. /\ Contents' = Append(Contents, e) /\ count' = count + 1
        /\ count \in Nat /\ notifs = Cardinality(Marks)
        /\ notifs' = IF e \in Notifs THEN notifs + 1 ELSE notifs
    BY EnqueueAppends DEF Enqueue, TypeOK, NotifsCounted, Marks
  <1>2. /\ \A i \in 1..count : Contents'[i] = Contents[i]
        /\ Contents'[count + 1] = e
    BY <1>1, ContentsSeq, AppendProperties
  <1>3. Marks' = {i \in 1..(count + 1) : Contents'[i] \in Notifs}
    BY <1>1 DEF Marks
  <1>4. 1..(count + 1) = (1..count) \cup {count + 1} /\ count + 1 \notin 1..count
    BY <1>1
  <1>5. Marks' = IF e \in Notifs THEN Marks \cup {count + 1} ELSE Marks
    BY <1>2, <1>3, <1>4 DEF Marks
  <1>6. count + 1 \notin Marks
    BY <1>4 DEF Marks
  <1>7. Cardinality(Marks') = notifs'
    BY <1>1, <1>5, <1>6, MarksFinite, FS_AddElement, Zenon
  <1> QED
    BY <1>7 DEF NotifsCounted, Marks

LEMMA DequeueMarks ==
  ASSUME TypeOK, QuarterFull, NotifsCounted, Dequeue
  PROVE  NotifsCounted'
  <1> DEFINE Rest == Marks \ {1}
  <1>1. /\ Contents' = Tail(Contents) /\ Contents # <<>> /\ count' = count - 1
        /\ count \in Nat /\ count > 0 /\ notifs = Cardinality(Marks)
        /\ notifs' = IF NotifTaken THEN notifs - 1 ELSE notifs
    BY DequeueTakesFirst DEF Dequeue, TypeOK, NotifsCounted, Marks
  <1>2. \A i \in 1..(count - 1) : Contents'[i] = Contents[i + 1]
    BY <1>1, ContentsSeq, HeadTailProperties
  <1>3. Marks' = {i \in 1..(count - 1) : Contents[i + 1] \in Notifs}
    BY <1>1, <1>2, Zenon DEF Marks
  <1>4. IsFiniteSet(Rest) /\ Cardinality(Rest) = notifs'
    BY <1>1, FirstMark, MarksFinite, FS_RemoveElement, Zenon
  <1>5. ExistsBijection(Rest, Marks')
    <2> DEFINE f == [i \in Rest |-> i - 1]
    <2>1. ASSUME NEW i \in Rest
          PROVE  i \in 2..count /\ i - 1 \in Marks' /\ f[i] = i - 1
      <3>1. i \in 1..count /\ i # 1 /\ Contents[i] \in Notifs
        BY DEF Marks
      <3>2. i \in 2..count /\ i - 1 \in 1..(count - 1) /\ (i - 1) + 1 = i
        BY <1>1, <3>1
      <3>3. Contents[(i - 1) + 1] \in Notifs
        BY <3>1, <3>2
      <3> QED
        BY <1>3, <3>2, <3>3
    <2>2. ASSUME NEW j \in Marks'
          PROVE  j + 1 \in Rest /\ f[j + 1] = j
      <3>1. j \in 1..(count - 1) /\ Contents[j + 1] \in Notifs
        BY <1>3
      <3>2. j + 1 \in 1..count /\ j + 1 # 1 /\ (j + 1) - 1 = j
        BY <1>1, <3>1
      <3>3. j + 1 \in Rest
        BY <3>1, <3>2 DEF Marks
      <3> HIDE DEF Rest
      <3> QED
        BY <3>2, <3>3
    <2>3. f \in [Rest -> Marks']
      BY <2>1
    <2>4. \A i, j \in Rest : f[i] = f[j] => i = j
      BY <2>1
    <2> HIDE DEF f, Rest
    <2>5. f \in Bijection(Rest, Marks')
      BY <2>2, <2>3, <2>4 DEF Bijection, Injection, Surjection, IsInjective
    <2> QED
      BY <2>5 DEF ExistsBijection
  <1>6. Cardinality(Marks') = notifs'
    BY <1>4, <1>5, FS_Bijection
  <1> QED
    BY <1>6 DEF NotifsCounted, Marks

\* The inductive invariant.
RingInv == TypeOK /\ QuarterFull /\ NotifsCounted

LEMMA RingInit ==
  ASSUME Init
  PROVE  RingInv /\ Contents = <<>>
  <1>1. TypeOK
    BY StartSizeAssumption, InitSizeAssumption DEF Init, TypeOK
  <1>2. QuarterFull
    BY DEF Init, QuarterFull
  <1>3. Marks = {}
    BY DEF Init, Marks
  <1>4. NotifsCounted
    BY <1>3, FS_EmptySet DEF NotifsCounted, Marks, Init
  <1>5. Contents = <<>>
    BY DEF Init, Contents
  <1> QED
    BY <1>1, <1>2, <1>4, <1>5 DEF RingInv

LEMMA RingStep ==
  ASSUME RingInv, [Next]_vars
  PROVE  RingInv'
  <1>1. CASE Dequeue
    BY <1>1, DequeueType, DequeueMarks DEF RingInv
  <1>2. CASE \E e \in Entries : Enqueue(e)
    BY <1>2, EnqueueType, EnqueueMarks DEF RingInv
  <1>3. CASE UNCHANGED vars
    BY <1>3 DEF vars, RingInv, TypeOK, QuarterFull, NotifsCounted, Contents
  <1> QED
    BY <1>1, <1>2, <1>3 DEF Next

\* The ring stays in shape: head and count within the buffer, and a buffer
\* that has grown at least a quarter full (xlb_dequeue_pending() shrinks it).
THEOREM RingShape == Spec => [](TypeOK /\ QuarterFull)
  <1>1. RingInv => TypeOK /\ QuarterFull
    BY DEF RingInv
  <1> QED
    BY <1>1, RingInit, RingStep, PTL DEF Spec

\* xlb_have_pending_notifs() is exact: the counter is the number of
\* notifications on the list.
THEOREM NotifCountExact == Spec => []NotifsCounted
  <1>1. RingInv => NotifsCounted
    BY DEF RingInv
  <1> QED
    BY <1>1, RingInit, RingStep, PTL DEF Spec

\* The buffer implements a FIFO queue: enqueue_pending() appends and
\* xlb_dequeue_pending() takes the oldest entry, through growing and shrinking.
THEOREM RingIsQueue == Spec => QueueSpec
  <1>1. ASSUME Init
        PROVE  Queue!Init
    BY <1>1, RingInit DEF Queue!Init
  <1>2. ASSUME RingInv, [Next]_vars
        PROVE  [Queue!Next]_Contents
    <2>1. CASE Dequeue
      BY <1>2, <2>1, DequeueTakesFirst DEF RingInv, Queue!Next, Queue!Dequeue
    <2>2. ASSUME NEW e \in Entries, Enqueue(e)
          PROVE  Queue!Enqueue(e)
      <3>1. Contents' = Append(Contents, e)
        BY <1>2, <2>2, EnqueueAppends DEF RingInv
      <3>2. Len(Contents) < MaxPending
        BY <1>2, <2>2, ContentsSeq DEF RingInv, Enqueue
      <3> QED
        BY <3>1, <3>2 DEF Queue!Enqueue
    <2>3. CASE UNCHANGED vars
      BY <2>3 DEF vars, Contents
    <2> QED
      BY <1>2, <2>1, <2>2, <2>3 DEF Next, Queue!Next
  <1> QED
    BY <1>1, <1>2, RingInit, RingStep, PTL DEF Spec, QueueSpec, Queue!Spec

==============================================================================
