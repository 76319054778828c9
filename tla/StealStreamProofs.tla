------------------------- MODULE StealStreamProofs --------------------------
(***************************************************************************)
(* What one steal transfers is complete and in step, for every number of   *)
(* units and every size of a batch.                                        *)
(***************************************************************************)
EXTENDS StealStream, FiniteSetTheorems, SequenceTheorems, TLAPS

Headers == [count : Nat, last : BOOLEAN]

StreamType ==
  /\ pool \subseteq Units /\ todo \in Seq(Units) /\ batch \in Seq(Units)
  /\ hdrs \in Seq(Headers) /\ payloads \in Seq(Seq(Units))
  /\ victim \in {"loop", "steal"} /\ thief \in {"loop", "header", "list", "units"}
  /\ hdr \in Headers /\ incoming \in Seq(Units) /\ queued \subseteq Units
  /\ totals \in [single : Nat, par : Nat] /\ given \subseteq Units

\* Units of the batch being received that are still to come, and the messages
\* that carry them.
Announced == IF thief = "list" THEN hdr.count
             ELSE IF thief = "units" THEN Len(incoming) ELSE 0

Ahead == IF thief = "list" THEN hdr.count + 1
         ELSE IF thief = "units" THEN Len(incoming) ELSE 0

\* The number of messages of a batch.
Messages(h) == IF h.count = 0 THEN 0 ELSE h.count + 1

\* The sequence q is the part of ord after its k-th element.
Follows(ord, k, q) == \A j \in 1..Len(q) : q[j] = ord[k + j]

\* The units ord[k + 1], ..., ord[k + c] are in the channel ch from message p on:
\* their list, and then each of them.
Carried(ch, ord, k, c, p) ==
  /\ ch[p + 1] = [j \in 1..c |-> ord[k + j]]
  /\ \A j \in 1..c : ch[p + 1 + j] = <<ord[k + j]>>

\* The batches on their way: number i carries the units after the lo[i]-th, from
\* message pos[i] on.
Batches(ord, lo, pos) ==
  \A i \in 1..Len(hdrs) :
    /\ lo[i + 1] = lo[i] + hdrs[i].count
    /\ pos[i + 1] = pos[i] + Messages(hdrs[i])
    /\ hdrs[i].count > 0 => Carried(payloads, ord, lo[i], hdrs[i].count, pos[i])

Ordered(f, n) == \A i, j \in 1..(n + 1) : i <= j => f[i] <= f[j]

\* What is left of the batch being received, after the rc-th unit.
Receiving(ord, rc) ==
  /\ thief = "list" => Carried(payloads, ord, rc, hdr.count, 0)
  /\ thief = "units" => \A j \in 1..Len(incoming) : /\ incoming[j] = ord[rc + j]
                                                    /\ payloads[j] = <<ord[rc + j]>>

\* The order ord in which the victim chose the units is the order in which they
\* are received (rc of them so far), announced, in the channel, in the batch
\* being filled and still to be handed on.
InStep(ord, rc, lo, pos) ==
  LET e == lo[Len(hdrs) + 1]
  IN  /\ lo[1] = rc + Announced /\ pos[1] = Ahead
      /\ Ordered(lo, Len(hdrs)) /\ Ordered(pos, Len(hdrs))
      /\ pos[Len(hdrs) + 1] = Len(payloads)
      /\ Len(ord) = e + Len(batch) + Len(todo)
      /\ Receiving(ord, rc)
      /\ Batches(ord, lo, pos)
      /\ Follows(ord, e, batch)
      /\ Follows(ord, e + Len(batch), todo)

\* ord lists the given units, each once; the first rc of them are queued.
Order(ord, rc) ==
  /\ ord \in Seq(Units) /\ rc \in 0..Len(ord)
  /\ \A i, j \in 1..Len(ord) : ord[i] = ord[j] => i = j
  /\ \A u \in given : \E i \in 1..Len(ord) : u = ord[i]
  /\ \A i \in 1..Len(ord) : ord[i] \in given /\ (ord[i] \in queued <=> i <= rc)

\* Offsets of n batches, and where the next one begins.
OffsetsOf(n) == [1..(n + 1) -> Nat]
Offsets == OffsetsOf(Len(hdrs))

Streaming ==
  \E ord \in Seq(Units) : \E rc \in 0..Len(ord) : \E lo, pos \in Offsets :
    Order(ord, rc) /\ InStep(ord, rc, lo, pos)

\* Only the last header says so; it is on its way or received when the victim
\* is done, and only that one may announce an empty batch.
LastHeader ==
  /\ \A i \in 1..Len(hdrs) : /\ hdrs[i].last => i = Len(hdrs) /\ victim = "loop"
                             /\ hdrs[i].count = 0 => hdrs[i].last
  /\ thief \in {"list", "units"} /\ hdr.last => hdrs = <<>> /\ victim = "loop"
  /\ victim = "loop" /\ thief # "loop" =>
       IF hdrs = <<>> THEN thief \in {"list", "units"} /\ hdr.last
       ELSE hdrs[Len(hdrs)].last

\* The totals of the units of g that are queued.
Counted(g, q) == [single |-> Cardinality((g \cap q) \ Par),
                  par |-> Cardinality(g \cap q \cap Par)]

StreamInv ==
  /\ StreamType
  /\ queued \cup given = Units \ pool
  /\ victim = "loop" => batch = <<>> /\ todo = <<>>
  /\ thief = "loop" =>
       /\ victim = "loop" /\ hdrs = <<>> /\ payloads = <<>> /\ given \subseteq queued
  /\ thief # "loop" =>
       /\ Streaming /\ LastHeader
       /\ totals = Counted(given, queued)
  /\ thief = "list" => hdr.count > 0
  /\ thief = "units" => incoming # <<>>

-----------------------------------------------------------------------------

LEMMA SeqsOf ==
  ASSUME NEW us \in SUBSET Units, NEW q \in Bijection(1..Cardinality(us), us)
  PROVE  /\ q \in Seq(us) /\ q \in Seq(Units)
         /\ \A i, j \in 1..Len(q) : q[i] = q[j] => i = j
  <1>1. IsFiniteSet(us)
    BY StealStreamAssumption, FS_Subset
  <1>2. Cardinality(us) \in Nat
    BY <1>1, FS_CardinalityType
  <1>3. q \in [1..Cardinality(us) -> us]
    BY DEF Bijection, Injection, IsInjective
  <1>4. q \in Seq(us) /\ Len(q) = Cardinality(us)
    BY <1>2, <1>3
  <1>5. \A i, j \in 1..Len(q) : i # j => q[i] # q[j]
    BY <1>4 DEF Bijection, Injection, IsInjective
  <1> QED
    BY <1>4, <1>5

LEMMA ConcatOf ==
  ASSUME NEW S, NEW a \in Seq(S), NEW r \in Seq(S), NEW q, q = a \o r
  PROVE  /\ q \in Seq(S) /\ Len(q) = Len(a) + Len(r)
         /\ \A i \in 1..Len(a) : q[i] = a[i]
         /\ \A j \in 1..Len(r) : q[Len(a) + j] = r[j]
  <1>1. Len(a) \in Nat /\ Len(r) \in Nat
    OBVIOUS
  <1>2. /\ q \in Seq(S) /\ Len(q) = Len(a) + Len(r)
        /\ \A i \in 1..(Len(a) + Len(r)) : q[i] = IF i <= Len(a) THEN a[i] ELSE r[i - Len(a)]
    BY ConcatProperties
  <1>3. \A i \in 1..Len(a) : q[i] = a[i]
    BY <1>1, <1>2
  <1>4. \A j \in 1..Len(r) : q[Len(a) + j] = r[j]
    BY <1>1, <1>2
  <1> QED
    BY <1>2, <1>3, <1>4

LEMMA CarriedKept ==
  ASSUME NEW ch, NEW ch2, NEW len \in Nat, \A k \in 1..len : ch2[k] = ch[k],
         NEW ord, NEW k \in Nat, NEW c \in Nat, NEW p \in Nat, p + 1 + c <= len,
         Carried(ch, ord, k, c, p)
  PROVE  Carried(ch2, ord, k, c, p)
  <1>1. p + 1 \in 1..len /\ \A j \in 1..c : p + 1 + j \in 1..len
    OBVIOUS
  <1>2. ch2[p + 1] = ch[p + 1] /\ \A j \in 1..c : ch2[p + 1 + j] = ch[p + 1 + j]
    BY <1>1
  <1> QED
    BY <1>2 DEF Carried

\* One more offset.
Longer(g, f, n, v) == g[n + 2] = v /\ \A i \in 1..(n + 1) : g[i] = f[i]

LEMMA Extended ==
  ASSUME NEW n \in Nat, NEW f \in OffsetsOf(n), NEW v \in Nat
  PROVE  \E g \in OffsetsOf(n + 1) : Longer(g, f, n, v)
  <1>1. PICK g : g = [i \in 1..(n + 2) |-> IF i = n + 2 THEN v ELSE f[i]]
    OBVIOUS
  <1>2. n + 1 + 1 = n + 2
    OBVIOUS
  <1>3. g \in OffsetsOf(n + 1)
    BY <1>1, <1>2 DEF OffsetsOf
  <1>4. Longer(g, f, n, v)
    BY <1>1 DEF Longer
  <1> QED
    BY <1>3, <1>4

LEMMA OrderedLonger ==
  ASSUME NEW n \in Nat, NEW f \in OffsetsOf(n), NEW g, NEW v \in Nat,
         Ordered(f, n), f[n + 1] <= v, Longer(g, f, n, v)
  PROVE  Ordered(g, n + 1)
  <1>1. \A i \in 1..(n + 1) : f[i] \in Nat /\ f[i] <= f[n + 1] /\ g[i] = f[i]
    BY DEF Ordered, OffsetsOf, Longer
  <1>2. f[n + 1] \in Nat /\ g[n + 2] = v
    BY DEF OffsetsOf, Longer
  <1>3. \A i, j \in 1..(n + 1) : i <= j => g[i] <= g[j]
    BY <1>1 DEF Ordered
  <1>4. \A i \in 1..(n + 1) : g[i] <= g[n + 2]
    BY <1>1, <1>2
  <1> QED
    BY <1>2, <1>3, <1>4 DEF Ordered

\* One offset less; the offsets once a message is taken from the channel.
Shorter(g, f, n) == \A i \in 1..n : g[i] = f[i + 1]

LEMMA Shortened ==
  ASSUME NEW n \in Nat \ {0}, NEW f \in OffsetsOf(n)
  PROVE  \E g \in OffsetsOf(n - 1) : Shorter(g, f, n)
  <1>1. PICK g : g = [i \in 1..n |-> f[i + 1]]
    OBVIOUS
  <1>2. n - 1 + 1 = n
    OBVIOUS
  <1>3. g \in OffsetsOf(n - 1)
    BY <1>1, <1>2 DEF OffsetsOf
  <1>4. Shorter(g, f, n)
    BY <1>1 DEF Shorter
  <1> QED
    BY <1>3, <1>4

Lower(g, f, n) == \A i \in 1..(n + 1) : g[i] = f[i] - 1

LEMMA Lowered ==
  ASSUME NEW n \in Nat, NEW f \in OffsetsOf(n), Ordered(f, n), f[1] > 0
  PROVE  \E g \in OffsetsOf(n) : Lower(g, f, n)
  <1>1. PICK g : g = [i \in 1..(n + 1) |-> f[i] - 1]
    OBVIOUS
  <1>2. \A i \in 1..(n + 1) : f[i] \in Nat /\ f[1] <= f[i]
    BY DEF OffsetsOf, Ordered
  <1>3. \A i \in 1..(n + 1) : f[i] - 1 \in Nat
    BY <1>2
  <1>4. g \in OffsetsOf(n)
    BY <1>1, <1>3 DEF OffsetsOf
  <1>5. Lower(g, f, n)
    BY <1>1 DEF Lower
  <1> QED
    BY <1>4, <1>5

\* A batch in the channel once the first message of the channel is taken.
LEMMA CarriedTail ==
  ASSUME NEW ch, NEW ch2, NEW len \in Nat, \A k \in 1..(len - 1) : ch2[k] = ch[k + 1],
         NEW ord, NEW k \in Nat, NEW c \in Nat, NEW p \in Nat, p > 0,
         p + 1 + c <= len, Carried(ch, ord, k, c, p)
  PROVE  Carried(ch2, ord, k, c, p - 1)
  <1>1. p \in 1..(len - 1) /\ p - 1 + 1 = p
    OBVIOUS
  <1>2. \A j \in 1..c : p - 1 + 1 + j \in 1..(len - 1) /\ p - 1 + 1 + j + 1 = p + 1 + j
    OBVIOUS
  <1>3. ch2[p - 1 + 1] = ch[p + 1]
    BY <1>1
  <1>4. \A j \in 1..c : ch2[p - 1 + 1 + j] = ch[p + 1 + j]
    BY <1>2
  <1> QED
    BY <1>3, <1>4 DEF Carried

\* The channels after send_steal_batch().
LEMMA SendChannels ==
  ASSUME StreamType, NEW b \in Seq(Units), NEW finish \in BOOLEAN,
         SendStealBatch(b, finish),
         NEW h, h = [count |-> Len(b), last |-> finish]
  PROVE  /\ hdrs' \in Seq(Headers) /\ Len(hdrs') = Len(hdrs) + 1
         /\ hdrs'[Len(hdrs) + 1] = h
         /\ \A i \in 1..Len(hdrs) : hdrs'[i] = hdrs[i]
         /\ payloads' \in Seq(Seq(Units))
         /\ Len(payloads') = Len(payloads) + Messages(h)
         /\ \A k \in 1..Len(payloads) : payloads'[k] = payloads[k]
         /\ Len(b) > 0 =>
              /\ payloads'[Len(payloads) + 1] = b
              /\ \A j \in 1..Len(b) : payloads'[Len(payloads) + 1 + j] = <<b[j]>>
         /\ batch' = <<>>
  <1>1. h \in Headers /\ hdrs \in Seq(Headers) /\ payloads \in Seq(Seq(Units))
    BY DEF StreamType, Headers
  <1>2. hdrs' \in Seq(Headers) /\ Len(hdrs') = Len(hdrs) + 1 /\ hdrs'[Len(hdrs) + 1] = h
        /\ \A i \in 1..Len(hdrs) : hdrs'[i] = hdrs[i]
    <2>1. hdrs' = Append(hdrs, h)
      BY DEF SendStealBatch
    <2> QED
      BY <1>1, <2>1, AppendProperties
  <1>3. CASE b = <<>>
    <2>1. payloads' = payloads /\ Messages(h) = 0 /\ ~(Len(b) > 0)
      BY <1>3 DEF SendStealBatch, Messages
    <2> QED
      BY <1>1, <1>2, <2>1 DEF SendStealBatch
  <1>4. CASE b # <<>>
    <2>1. Len(b) > 0 /\ Messages(h) = Len(b) + 1
      BY <1>4 DEF Messages
    <2>r. PICK r : r = [i \in DOMAIN b |-> <<b[i]>>]
      OBVIOUS
    <2>2. payloads' = Append(payloads, b) \o r
      BY <1>4, <2>r DEF SendStealBatch
    <2>3. /\ payloads' \in Seq(Seq(Units)) /\ Len(payloads') = Len(payloads) + 1 + Len(b)
          /\ \A k \in 1..Len(payloads) : payloads'[k] = payloads[k]
          /\ payloads'[Len(payloads) + 1] = b
          /\ \A j \in 1..Len(b) : payloads'[Len(payloads) + 1 + j] = <<b[j]>>
      <3>1. r \in Seq(Seq(Units)) /\ Len(r) = Len(b) /\ \A j \in 1..Len(b) : r[j] = <<b[j]>>
        <4>1. DOMAIN b = 1..Len(b) /\ Len(b) \in Nat /\ \A j \in 1..Len(b) : b[j] \in Units
          OBVIOUS
        <4>2. \A j \in 1..Len(b) : <<b[j]>> \in Seq(Units)
          BY <4>1
        <4>3. r \in [1..Len(b) -> Seq(Units)]
          BY <2>r, <4>1, <4>2
        <4> QED
          BY <2>r, <4>1, <4>3
      <3>a. PICK a : a = Append(payloads, b)
        OBVIOUS
      <3>2. a \in Seq(Seq(Units)) /\ Len(a) = Len(payloads) + 1 /\ a[Len(payloads) + 1] = b
            /\ \A k \in 1..Len(payloads) : a[k] = payloads[k]
        BY <1>1, <3>a, AppendProperties
      <3>b. payloads' = a \o r
        BY <2>2, <3>a
      <3>3. /\ payloads' \in Seq(Seq(Units)) /\ Len(payloads') = Len(a) + Len(r)
            /\ \A i \in 1..Len(a) : payloads'[i] = a[i]
            /\ \A j \in 1..Len(r) : payloads'[Len(a) + j] = r[j]
        <4>1. PICK M : M = Seq(Units)
          OBVIOUS
        <4>2. a \in Seq(M) /\ r \in Seq(M)
          BY <3>1, <3>2, <4>1
        <4>3. /\ payloads' \in Seq(M) /\ Len(payloads') = Len(a) + Len(r)
              /\ \A i \in 1..Len(a) : payloads'[i] = a[i]
              /\ \A j \in 1..Len(r) : payloads'[Len(a) + j] = r[j]
          BY <3>b, <4>2, ConcatOf
        <4> QED
          BY <4>1, <4>3
      <3>5. Len(payloads) \in Nat /\ Len(b) \in Nat
        BY <1>1
      <3>6. Len(payloads') = Len(payloads) + 1 + Len(b)
        BY <3>1, <3>2, <3>3, <3>5
      <3>7. ASSUME NEW k \in 1..Len(payloads) PROVE payloads'[k] = payloads[k]
        <4>1. k \in 1..Len(a)
          BY <3>2, <3>5
        <4> QED
          BY <4>1, <3>2, <3>3
      <3>8. payloads'[Len(payloads) + 1] = b
        <4>1. Len(payloads) + 1 \in 1..Len(a)
          BY <3>2, <3>5
        <4> QED
          BY <4>1, <3>2, <3>3
      <3>9. ASSUME NEW j \in 1..Len(b) PROVE payloads'[Len(payloads) + 1 + j] = <<b[j]>>
        <4>1. payloads'[Len(a) + j] = r[j] /\ r[j] = <<b[j]>>
          BY <3>1, <3>3
        <4> QED
          BY <4>1, <3>2
      <3> QED
        BY <3>3, <3>6, <3>7, <3>8, <3>9, Zenon
    <2>4. Len(payloads) \in Nat /\ Len(b) \in Nat
      BY <1>1
    <2>5. Len(payloads') = Len(payloads) + Messages(h)
      BY <2>1, <2>3, <2>4
    <2>6. batch' = <<>>
      BY DEF SendStealBatch
    <2> QED
      BY <1>2, <2>3, <2>5, <2>6, Zenon
  <1> QED
    BY <1>3, <1>4

\* A batch that is sent is put behind those on their way.
LEMMA SendInStep ==
  ASSUME StreamType, NEW ord \in Seq(Units), NEW rc \in 0..Len(ord),
         NEW lo \in Offsets, NEW pos \in Offsets,
         NEW b \in Seq(Units), NEW finish \in BOOLEAN, NEW e \in Nat
  PROVE  /\ InStep(ord, rc, lo, pos) /\ SendStealBatch(b, finish)
         /\ e = lo[Len(hdrs) + 1] /\ Follows(ord, e, b)
         /\ Len(ord) = e + Len(b) + Len(todo') /\ Follows(ord, e + Len(b), todo')
         /\ UNCHANGED <<thief, hdr, incoming>>
         => \E lo2, pos2 \in Offsets' : InStep(ord, rc, lo2, pos2)'
  <1>a. SUFFICES ASSUME InStep(ord, rc, lo, pos), SendStealBatch(b, finish),
                        e = lo[Len(hdrs) + 1], Follows(ord, e, b),
                        Len(ord) = e + Len(b) + Len(todo'),
                        Follows(ord, e + Len(b), todo'),
                        UNCHANGED <<thief, hdr, incoming>>
                 PROVE  \E lo2, pos2 \in Offsets' : InStep(ord, rc, lo2, pos2)'
    OBVIOUS
  <1>n. PICK n \in Nat : n = Len(hdrs)
    BY DEF StreamType
  <1>c. PICK c \in Nat : c = Len(b)
    OBVIOUS
  <1>k. PICK k \in Nat : k = Len(payloads)
    BY DEF StreamType
  <1>h. PICK h : h = [count |-> Len(b), last |-> finish]
    OBVIOUS
  <1>m. PICK m \in Nat : m = Messages(h) /\ (c > 0 => m = c + 1) /\ h.count = c
    BY <1>h, <1>c DEF Messages
  <1>2. /\ Len(hdrs') = n + 1 /\ hdrs'[n + 1] = h
        /\ \A i \in 1..n : hdrs'[i] = hdrs[i]
        /\ Len(payloads') = k + m
        /\ \A i \in 1..k : payloads'[i] = payloads[i]
        /\ c > 0 => /\ payloads'[k + 1] = b
                    /\ \A j \in 1..c : payloads'[k + 1 + j] = <<b[j]>>
        /\ batch' = <<>>
    <2>1. /\ Len(hdrs') = Len(hdrs) + 1 /\ hdrs'[Len(hdrs) + 1] = h
          /\ \A i \in 1..Len(hdrs) : hdrs'[i] = hdrs[i]
          /\ Len(payloads') = Len(payloads) + Messages(h)
          /\ \A i \in 1..Len(payloads) : payloads'[i] = payloads[i]
          /\ Len(b) > 0 =>
               /\ payloads'[Len(payloads) + 1] = b
               /\ \A j \in 1..Len(b) : payloads'[Len(payloads) + 1 + j] = <<b[j]>>
          /\ batch' = <<>>
      BY <1>a, <1>h, SendChannels
    <2> QED
      BY <2>1, <1>n, <1>c, <1>k, <1>m
  <1>0. lo \in OffsetsOf(n) /\ pos \in OffsetsOf(n)
    BY <1>n DEF Offsets
  <1>3. lo \in [1..(n + 1) -> Nat] /\ pos \in [1..(n + 1) -> Nat]
    BY <1>0 DEF OffsetsOf
  <1>v. PICK v \in Nat : v = e + c
    OBVIOUS
  <1>w. PICK w \in Nat : w = k + m
    OBVIOUS
  <1>l. PICK lo2 \in OffsetsOf(n + 1) : Longer(lo2, lo, n, v)
    BY <1>0, Extended
  <1>p. PICK pos2 \in OffsetsOf(n + 1) : Longer(pos2, pos, n, w)
    BY <1>0, Extended
  <1>4. /\ \A i \in 1..(n + 1) : lo2[i] = lo[i] /\ pos2[i] = pos[i]
        /\ lo2[n + 2] = e + c /\ pos2[n + 2] = k + m
    BY <1>l, <1>p, <1>v, <1>w DEF Longer
  <1>5. lo2 \in Offsets' /\ pos2 \in Offsets'
    BY <1>2 DEF Offsets
  <1>6. /\ lo[1] = rc + Announced /\ pos[1] = Ahead /\ pos[n + 1] = k
        /\ Receiving(ord, rc) /\ Batches(ord, lo, pos) /\ Ordered(pos, n) /\ Ordered(lo, n)
    BY <1>a, <1>n, <1>k DEF InStep
  <1>7. lo2[1] = rc + Announced' /\ pos2[1] = Ahead'
    BY <1>a, <1>4, <1>6 DEF Announced, Ahead
  <1>8. ASSUME NEW i \in 1..(n + 1)
        PROVE  /\ lo2[i + 1] = lo2[i] + hdrs'[i].count
               /\ pos2[i + 1] = pos2[i] + Messages(hdrs'[i])
               /\ hdrs'[i].count > 0 =>
                    Carried(payloads', ord, lo2[i], hdrs'[i].count, pos2[i])
    <2>1. CASE i = n + 1
      <3>1. hdrs'[i].count = c /\ Messages(hdrs'[i]) = m /\ lo2[i] = e /\ pos2[i] = k
        BY <1>a, <2>1, <1>2, <1>4, <1>6, <1>m, <1>n
      <3>2. ASSUME c > 0 PROVE Carried(payloads', ord, e, c, k)
        <4>0. \A j \in 1..c : b[j] = ord[e + j]
          BY <1>a, <1>c DEF Follows
        <4>1. b = [j \in 1..c |-> ord[e + j]]
          <5>2. b = [j \in 1..c |-> b[j]]
            BY <1>c
          <5> QED
            BY <4>0, <5>2
        <4>2. \A j \in 1..c : payloads'[k + 1 + j] = <<ord[e + j]>>
          <5>1. \A j \in 1..c : payloads'[k + 1 + j] = <<b[j]>>
            BY <3>2, <1>2
          <5> QED
            BY <4>0, <5>1
        <4> QED
          BY <3>2, <4>1, <4>2, <1>2 DEF Carried
      <3> QED
        BY <2>1, <3>1, <3>2, <1>4
    <2>2. CASE i \in 1..n
      <3>0. PICK x : x = hdrs[i].count
        OBVIOUS
      <3>1. /\ lo[i + 1] = lo[i] + x
            /\ pos[i + 1] = pos[i] + Messages(hdrs[i])
            /\ x > 0 => Carried(payloads, ord, lo[i], x, pos[i])
        BY <2>2, <1>6, <1>n, <3>0 DEF Batches
      <3>2. hdrs'[i] = hdrs[i] /\ lo2[i] = lo[i] /\ lo2[i + 1] = lo[i + 1]
            /\ pos2[i] = pos[i] /\ pos2[i + 1] = pos[i + 1]
        <4>1. i \in 1..(n + 1) /\ i + 1 \in 1..(n + 1)
          BY <2>2
        <4> QED
          BY <2>2, <4>1, <1>2, <1>4
      <3>3. x \in Nat /\ lo[i] \in Nat /\ pos[i] \in Nat /\ pos[i + 1] \in Nat
        <4>1. hdrs[i] \in Headers
          BY <2>2, <1>n DEF StreamType
        <4>2. i + 1 \in 1..(n + 1)
          BY <2>2
        <4> QED
          BY <2>2, <4>1, <4>2, <1>3, <3>0 DEF Headers
      <3>4. ASSUME x > 0 PROVE Carried(payloads', ord, lo[i], x, pos[i])
        <4>1. pos[i] + 1 + x <= k
          <5>1. Messages(hdrs[i]) = x + 1
            BY <3>0, <3>3, <3>4 DEF Messages
          <5>2. pos[i + 1] <= pos[n + 1]
            BY <2>2, <1>6 DEF Ordered
          <5> QED
            BY <5>1, <5>2, <3>1, <3>3, <1>6
        <4>2. \A j \in 1..k : payloads'[j] = payloads[j]
          BY <1>2
        <4> QED
          BY <3>1, <3>3, <3>4, <4>1, <4>2, CarriedKept
      <3> QED
        BY <3>0, <3>1, <3>2, <3>3, <3>4
    <2> QED
      BY <2>1, <2>2
  <1>9. Batches(ord, lo2, pos2)'
    BY <1>2, <1>8 DEF Batches
  <1>14. Ordered(lo2, n + 1) /\ Ordered(pos2, n + 1)
    <2>1. e <= v /\ lo[n + 1] = e /\ pos[n + 1] = k /\ k <= w
      BY <1>a, <1>n, <1>6, <1>v, <1>w
    <2> QED
      BY <2>1, <1>0, <1>6, <1>l, <1>p, OrderedLonger
  <1>10. Receiving(ord, rc)'
    <2>1. pos[1] <= k /\ pos[1] \in Nat
      BY <1>3, <1>6 DEF Ordered
    <2>2. \A j \in 1..k : payloads'[j] = payloads[j]
      BY <1>2
    <2>3. ASSUME thief = "list" PROVE Carried(payloads', ord, rc, hdr.count, 0)
      <3>1. hdr.count \in Nat /\ hdr.count + 1 <= k
        BY <1>a, <2>1, <2>3, <1>6 DEF Ahead, StreamType, Headers
      <3>2. Carried(payloads, ord, rc, hdr.count, 0)
        BY <1>a, <2>3, <1>6 DEF Receiving
      <3>3. rc \in Nat /\ 0 \in Nat /\ 0 + 1 + hdr.count <= k
        BY <3>1
      <3> QED
        BY <2>2, <3>1, <3>2, <3>3, CarriedKept
    <2>4. ASSUME thief = "units", NEW j \in 1..Len(incoming)
          PROVE  incoming[j] = ord[rc + j] /\ payloads'[j] = <<ord[rc + j]>>
      <3>1. j \in 1..k
        BY <1>a, <2>1, <2>4, <1>6 DEF Ahead, StreamType
      <3> QED
        BY <1>a, <2>2, <2>4, <3>1, <1>6 DEF Receiving
    <2> QED
      BY <1>a, <2>3, <2>4 DEF Receiving
  <1>11. Follows(ord, e + c, batch')
    BY <1>a, <1>2 DEF Follows
  <1>12. /\ lo2[Len(hdrs') + 1] = e + c /\ pos2[Len(hdrs') + 1] = Len(payloads')
         /\ Len(ord) = e + c + Len(batch') + Len(todo')
         /\ Follows(ord, e + c + Len(batch'), todo')
    <2>1. Len(hdrs') + 1 = n + 2 /\ Len(batch') = 0
      BY <1>2
    <2>2. e + c + 0 = e + c
      OBVIOUS
    <2> QED
      BY <1>a, <1>2, <1>4, <1>c, <2>1, <2>2
  <1>13. InStep(ord, rc, lo2, pos2)'
    <2>1. Ordered(lo2, Len(hdrs')) /\ Ordered(pos2, Len(hdrs'))
      BY <1>2, <1>14
    <2> QED
      BY <1>7, <1>9, <1>10, <1>11, <1>12, <2>1, Zenon DEF InStep
  <1> QED
    BY <1>5, <1>13

\* The header of a batch that is not empty is received.
LEMMA HeaderInStep ==
  ASSUME StreamType, NEW ord \in Seq(Units), NEW rc \in 0..Len(ord),
         NEW lo \in Offsets, NEW pos \in Offsets
  PROVE  /\ InStep(ord, rc, lo, pos) /\ thief = "header" /\ hdrs # <<>>
         /\ Head(hdrs).count > 0 /\ hdr' = Head(hdrs) /\ hdrs' = Tail(hdrs)
         /\ thief' = "list" /\ UNCHANGED <<payloads, batch, todo>>
         => \E lo2, pos2 \in Offsets' : InStep(ord, rc, lo2, pos2)'
  <1>a. SUFFICES ASSUME InStep(ord, rc, lo, pos), thief = "header", hdrs # <<>>,
                        Head(hdrs).count > 0, hdr' = Head(hdrs), hdrs' = Tail(hdrs),
                        thief' = "list", UNCHANGED <<payloads, batch, todo>>
                 PROVE  \E lo2, pos2 \in Offsets' : InStep(ord, rc, lo2, pos2)'
    OBVIOUS
  <1>n. PICK n \in Nat \ {0} : n = Len(hdrs)
    BY <1>a DEF StreamType
  <1>c. PICK c \in Nat \ {0} : c = hdrs[1].count
    <2>1. hdrs \in Seq(Headers) /\ 1 \in 1..Len(hdrs) /\ Head(hdrs) = hdrs[1]
      BY <1>a, <1>n DEF StreamType
    <2>2. hdrs[1].count \in Nat
      <3>1. hdrs[1] \in Headers
        BY <2>1
      <3> QED
        BY <3>1 DEF Headers
    <2>3. hdrs[1].count > 0
      BY <1>a, <2>1
    <2> QED
      BY <2>2, <2>3
  <1>1. /\ Len(hdrs') = n - 1 /\ hdr'.count = c
        /\ \A i \in 1..(n - 1) : hdrs'[i] = hdrs[i + 1]
    BY <1>a, <1>n, <1>c DEF StreamType
  <1>2. lo \in OffsetsOf(n) /\ pos \in OffsetsOf(n)
    BY <1>n DEF Offsets
  <1>3. lo \in [1..(n + 1) -> Nat] /\ pos \in [1..(n + 1) -> Nat]
    BY <1>2 DEF OffsetsOf
  <1>l. PICK lo2 \in OffsetsOf(n - 1) : Shorter(lo2, lo, n)
    BY <1>2, Shortened
  <1>p. PICK pos2 \in OffsetsOf(n - 1) : Shorter(pos2, pos, n)
    BY <1>2, Shortened
  <1>4. \A i \in 1..n : lo2[i] = lo[i + 1] /\ pos2[i] = pos[i + 1]
    BY <1>l, <1>p DEF Shorter
  <1>5. lo2 \in Offsets' /\ pos2 \in Offsets'
    BY <1>1 DEF Offsets
  <1>6. /\ lo[1] = rc /\ pos[1] = 0 /\ pos[n + 1] = Len(payloads)
        /\ Batches(ord, lo, pos) /\ Ordered(pos, n) /\ Ordered(lo, n)
        /\ Len(ord) = lo[n + 1] + Len(batch) + Len(todo)
        /\ Follows(ord, lo[n + 1], batch) /\ Follows(ord, lo[n + 1] + Len(batch), todo)
    BY <1>a, <1>n DEF InStep, Announced, Ahead
  <1>7. lo[2] = rc + c /\ pos[2] = c + 1 /\ Carried(payloads, ord, rc, c, 0)
    <2>1. 1 \in 1..n /\ c > 0
      OBVIOUS
    <2>2. Messages(hdrs[1]) = c + 1
      BY <1>c DEF Messages
    <2>3. lo[2] = lo[1] + c /\ pos[2] = pos[1] + Messages(hdrs[1])
      BY <2>1, <1>6, <1>n, <1>c DEF Batches
    <2>4. Carried(payloads, ord, lo[1], c, pos[1])
      BY <2>1, <1>6, <1>n, <1>c DEF Batches
    <2> QED
      BY <2>2, <2>3, <2>4, <1>6
  <1>8. lo2[1] = rc + Announced' /\ pos2[1] = Ahead'
    <2>1. Announced' = c /\ Ahead' = c + 1
      BY <1>a, <1>1 DEF Announced, Ahead
    <2>2. lo2[1] = lo[2] /\ pos2[1] = pos[2]
      BY <1>4
    <2> QED
      BY <2>1, <2>2, <1>7
  <1>9. Receiving(ord, rc)'
    BY <1>a, <1>1, <1>7 DEF Receiving
  <1>10. Batches(ord, lo2, pos2)'
    <2>1. SUFFICES ASSUME NEW i \in 1..(n - 1)
                   PROVE  /\ lo2[i + 1] = lo2[i] + hdrs'[i].count
                          /\ pos2[i + 1] = pos2[i] + Messages(hdrs'[i])
                          /\ hdrs'[i].count > 0 =>
                               Carried(payloads', ord, lo2[i], hdrs'[i].count, pos2[i])
      BY <1>1 DEF Batches
    <2>2. i + 1 \in 1..n /\ i \in 1..n
      OBVIOUS
    <2>3. /\ lo[i + 1 + 1] = lo[i + 1] + hdrs[i + 1].count
          /\ pos[i + 1 + 1] = pos[i + 1] + Messages(hdrs[i + 1])
          /\ hdrs[i + 1].count > 0 =>
               Carried(payloads, ord, lo[i + 1], hdrs[i + 1].count, pos[i + 1])
      BY <2>2, <1>6, <1>n DEF Batches
    <2>4. /\ lo2[i] = lo[i + 1] /\ pos2[i] = pos[i + 1] /\ hdrs'[i] = hdrs[i + 1]
          /\ lo2[i + 1] = lo[i + 1 + 1] /\ pos2[i + 1] = pos[i + 1 + 1]
      BY <2>2, <1>1, <1>4
    <2> QED
      BY <1>a, <2>3, <2>4
  <1>11. Ordered(lo2, Len(hdrs')) /\ Ordered(pos2, Len(hdrs'))
    <2>1. Len(hdrs') + 1 = n
      BY <1>1
    <2>2. \A i, j \in 1..n : i <= j => pos2[i] <= pos2[j]
      BY <1>4, <1>6 DEF Ordered
    <2>3. \A i, j \in 1..n : i <= j => lo2[i] <= lo2[j]
      BY <1>4, <1>6 DEF Ordered
    <2> QED
      BY <2>1, <2>2, <2>3 DEF Ordered
  <1>12. lo2[Len(hdrs') + 1] = lo[n + 1] /\ pos2[Len(hdrs') + 1] = Len(payloads')
    <2>1. Len(hdrs') + 1 = n /\ n \in 1..n
      BY <1>1
    <2> QED
      BY <1>a, <2>1, <1>4, <1>6
  <1>13. /\ Len(ord) = lo[n + 1] + Len(batch') + Len(todo')
         /\ Follows(ord, lo[n + 1], batch') /\ Follows(ord, lo[n + 1] + Len(batch'), todo')
    BY <1>a, <1>6
  <1>14. InStep(ord, rc, lo2, pos2)'
    BY <1>8, <1>9, <1>10, <1>11, <1>12, <1>13, Zenon DEF InStep
  <1> QED
    BY <1>5, <1>14

\* A message of the batch that is being received is taken: its list, or a unit.
LEMMA TakeInStep ==
  ASSUME StreamType, NEW ord \in Seq(Units), NEW rc \in 0..Len(ord),
         NEW rc2 \in 0..Len(ord), NEW lo \in Offsets, NEW pos \in Offsets
  PROVE  /\ InStep(ord, rc, lo, pos) /\ payloads # <<>> /\ payloads' = Tail(payloads)
         /\ Ahead \in Nat \ {0} /\ Ahead' = Ahead - 1
         /\ rc2 + Announced' = rc + Announced /\ Receiving(ord, rc2)'
         /\ UNCHANGED <<hdrs, batch, todo>>
         => \E lo2, pos2 \in Offsets' : InStep(ord, rc2, lo2, pos2)'
  <1>a. SUFFICES ASSUME InStep(ord, rc, lo, pos), payloads # <<>>,
                        payloads' = Tail(payloads), Ahead \in Nat \ {0}, Ahead' = Ahead - 1,
                        rc2 + Announced' = rc + Announced, Receiving(ord, rc2)',
                        UNCHANGED <<hdrs, batch, todo>>
                 PROVE  \E lo2, pos2 \in Offsets' : InStep(ord, rc2, lo2, pos2)'
    OBVIOUS
  <1>n. PICK n \in Nat : n = Len(hdrs)
    BY DEF StreamType
  <1>k. PICK k \in Nat : k = Len(payloads)
    BY DEF StreamType
  <1>1. Len(payloads') = k - 1 /\ \A i \in 1..(k - 1) : payloads'[i] = payloads[i + 1]
    <2>1. PICK M : M = Seq(Units)
      OBVIOUS
    <2>2. payloads \in Seq(M)
      BY <2>1 DEF StreamType
    <2> QED
      BY <1>a, <1>k, <2>2, HeadTailProperties
  <1>2. lo \in OffsetsOf(n) /\ pos \in OffsetsOf(n)
    BY <1>n DEF Offsets
  <1>3. lo \in [1..(n + 1) -> Nat] /\ pos \in [1..(n + 1) -> Nat]
    BY <1>2 DEF OffsetsOf
  <1>4. /\ lo[1] = rc + Announced /\ pos[1] = Ahead /\ pos[n + 1] = k
        /\ Batches(ord, lo, pos) /\ Ordered(pos, n) /\ Ordered(lo, n)
        /\ Len(ord) = lo[n + 1] + Len(batch) + Len(todo)
        /\ Follows(ord, lo[n + 1], batch) /\ Follows(ord, lo[n + 1] + Len(batch), todo)
    BY <1>a, <1>n, <1>k DEF InStep
  <1>p. PICK pos2 \in OffsetsOf(n) : Lower(pos2, pos, n)
    <2>1. pos[1] > 0
      BY <1>a, <1>4
    <2> QED
      BY <2>1, <1>2, <1>4, Lowered
  <1>5. /\ \A i \in 1..(n + 1) : pos2[i] = pos[i] - 1 /\ pos[i] \in Nat /\ pos[i] > 0
    <2>1. \A i \in 1..(n + 1) : pos[1] <= pos[i] /\ pos[i] \in Nat
      BY <1>3, <1>4 DEF Ordered
    <2>2. pos[1] > 0 /\ pos[1] \in Nat
      BY <1>a, <1>4
    <2> QED
      BY <2>1, <2>2, <1>p DEF Lower
  <1>6. lo \in Offsets' /\ pos2 \in Offsets'
    BY <1>a, <1>n DEF Offsets
  <1>7. Batches(ord, lo, pos2)'
    <2>1. SUFFICES ASSUME NEW i \in 1..n
                   PROVE  /\ lo[i + 1] = lo[i] + hdrs[i].count
                          /\ pos2[i + 1] = pos2[i] + Messages(hdrs[i])
                          /\ hdrs[i].count > 0 =>
                               Carried(payloads', ord, lo[i], hdrs[i].count, pos2[i])
      BY <1>a, <1>n DEF Batches
    <2>c. PICK c : c = hdrs[i].count
      OBVIOUS
    <2>2. i + 1 \in 1..(n + 1) /\ i \in 1..(n + 1)
      OBVIOUS
    <2>3. /\ lo[i + 1] = lo[i] + c /\ pos[i + 1] = pos[i] + Messages(hdrs[i])
          /\ c > 0 => Carried(payloads, ord, lo[i], c, pos[i])
      BY <1>4, <1>n, <2>c DEF Batches
    <2>4. c \in Nat /\ Messages(hdrs[i]) \in Nat
      <3>1. hdrs[i] \in Headers
        BY <1>n DEF StreamType
      <3> QED
        BY <3>1, <2>c DEF Headers, Messages
    <2>5. pos2[i + 1] = pos2[i] + Messages(hdrs[i])
      BY <2>2, <2>3, <2>4, <1>5
    <2>6. ASSUME c > 0 PROVE Carried(payloads', ord, lo[i], c, pos2[i])
      <3>1. Messages(hdrs[i]) = c + 1
        BY <2>c, <2>4, <2>6 DEF Messages
      <3>2. pos[i + 1] <= k
        BY <2>2, <1>4 DEF Ordered
      <3>3. pos[i] + 1 + c <= k /\ pos[i] \in Nat /\ pos[i] > 0 /\ lo[i] \in Nat
        BY <2>2, <2>3, <2>4, <3>1, <3>2, <1>3, <1>5
      <3>4. Carried(payloads, ord, lo[i], c, pos[i])
        BY <2>3, <2>6
      <3>5. Carried(payloads', ord, lo[i], c, pos[i] - 1)
        BY <2>4, <3>3, <3>4, <1>1, CarriedTail
      <3> QED
        BY <3>5, <2>2, <1>5
    <2> QED
      BY <2>c, <2>3, <2>5, <2>6
  <1>8. Ordered(lo, Len(hdrs')) /\ Ordered(pos2, Len(hdrs'))
    <2>1. ASSUME NEW i \in 1..(n + 1), NEW j \in 1..(n + 1), i <= j
          PROVE  pos2[i] <= pos2[j]
      <3>1. pos[i] <= pos[j]
        BY <2>1, <1>4 DEF Ordered
      <3> QED
        BY <3>1, <1>5
    <2> QED
      BY <1>a, <1>n, <1>4, <2>1 DEF Ordered
  <1>9. lo[1] = rc2 + Announced' /\ pos2[1] = Ahead'
    BY <1>a, <1>4, <1>5
  <1>10. /\ lo[Len(hdrs') + 1] = lo[n + 1] /\ pos2[Len(hdrs') + 1] = Len(payloads')
         /\ Len(ord) = lo[n + 1] + Len(batch') + Len(todo')
         /\ Follows(ord, lo[n + 1], batch') /\ Follows(ord, lo[n + 1] + Len(batch'), todo')
    BY <1>a, <1>n, <1>1, <1>4, <1>5
  <1>11. Receiving(ord, rc2)'
    BY <1>a
  <1>12. InStep(ord, rc2, lo, pos2)'
    BY <1>7, <1>8, <1>9, <1>10, <1>11, Zenon DEF InStep
  <1> QED
    BY <1>6, <1>12

-----------------------------------------------------------------------------
(* The invariant, action by action.                                        *)

LEMMA InitStream == Init => StreamInv
  BY StealStreamAssumption
  DEF Init, StreamInv, StreamType, NoHdr, NoTotals, Headers

\* A new steal: nothing is on its way.
LEMMA StartStep ==
  ASSUME StreamInv, NEW us \in SUBSET pool, NEW units \in Bijection(1..Cardinality(us), us),
         StartSteal(units)
  PROVE  StreamInv'
  <1>1. /\ StreamType /\ thief = "loop" /\ victim = "loop" /\ batch = <<>>
        /\ hdrs = <<>> /\ payloads = <<>> /\ queued \cup given = Units \ pool
        /\ given \subseteq queued
    BY DEF StreamInv, StartSteal
  <1>2. /\ thief' = "header" /\ totals' = NoTotals /\ victim' = "steal"
        /\ todo' = units /\ pool' = pool \ Range(units) /\ given' = Range(units)
        /\ batch' = <<>> /\ hdrs' = <<>> /\ payloads' = <<>>
        /\ hdr' = hdr /\ incoming' = incoming /\ queued' = queued
    BY <1>1 DEF StartSteal, channels
  <1>3. us \in SUBSET Units
    BY <1>1 DEF StreamType
  <1>4. /\ units \in Seq(us) /\ units \in Seq(Units)
        /\ \A i, j \in 1..Len(units) : units[i] = units[j] => i = j
    BY <1>3, SeqsOf
  <1>5. /\ Range(units) \subseteq pool
        /\ \A i \in 1..Len(units) : units[i] \in Range(units)
        /\ \A u \in Range(units) : \E i \in 1..Len(units) : u = units[i]
    BY <1>4 DEF Range
  <1>6. Range(units) \cap queued = {}
    BY <1>1, <1>5
  <1>7. StreamType'
    BY <1>1, <1>2, <1>4, <1>5 DEF StreamType, NoTotals
  <1>8. (queued \cup given = Units \ pool)'
    BY <1>1, <1>2, <1>5 DEF StreamType
  <1>9. Streaming'
    <2>1. PICK z : z = [i \in 1..1 |-> 0]
      OBVIOUS
    <2>2. z \in Offsets' /\ z[1] = 0
      <3>1. Len(hdrs') = 0
        BY <1>2
      <3> QED
        BY <2>1, <3>1 DEF Offsets, OffsetsOf
    <2>3. Len(units) \in Nat /\ 0 \in 0..Len(units)
      BY <1>4
    <2>4. Order(units, 0)'
      <3>1. \A i \in 1..Len(units) : units[i] \notin queued /\ ~(i <= 0)
        BY <1>5, <1>6
      <3> QED
        BY <1>2, <1>4, <1>5, <2>3, <3>1 DEF Order
    <2>5. InStep(units, 0, z, z)'
      <3>1. Len(hdrs') = 0 /\ Len(payloads') = 0 /\ Len(batch') = 0
        BY <1>2
      <3>2. Announced' = 0 /\ Ahead' = 0
        BY <1>2 DEF Announced, Ahead
      <3>3. Receiving(units, 0)'
        BY <1>2 DEF Receiving
      <3>4. Batches(units, z, z)' /\ Ordered(z, Len(hdrs'))
        BY <2>2, <3>1 DEF Batches, Ordered
      <3>5. Follows(units, 0, batch') /\ Follows(units, 0, todo')
        BY <1>2, <1>4, <3>1 DEF Follows
      <3>6. z[Len(hdrs') + 1] = 0
        BY <2>2, <3>1
      <3>7. 0 + Len(batch') = 0 /\ Len(units) = 0 + Len(batch') + Len(todo')
        BY <1>2, <1>4, <3>1
      <3> QED
        BY <2>2, <3>1, <3>2, <3>3, <3>4, <3>5, <3>6, <3>7 DEF InStep
    <2> QED
      BY <1>4, <2>2, <2>3, <2>4, <2>5 DEF Streaming
  <1>10. LastHeader'
    BY <1>2 DEF LastHeader
  <1>11. totals' = Counted(given', queued')
    <2>1. (given' \cap queued') \ Par = {} /\ given' \cap queued' \cap Par = {}
      BY <1>2, <1>6
    <2> QED
      BY <1>2, <2>1, FS_EmptySet DEF NoTotals, Counted
  <1> QED
    BY <1>2, <1>7, <1>8, <1>9, <1>10, <1>11 DEF StreamInv

\* handle_steal_callback() appends to the batch, or sends it.
LEMMA CallbackStep ==
  ASSUME StreamInv, StealCallback
  PROVE  StreamInv'
  <1>1. /\ StreamType /\ victim = "steal" /\ todo # <<>> /\ thief # "loop"
        /\ Streaming /\ LastHeader
    BY DEF StreamInv, StealCallback, StreamType
  <1>b. PICK b : b = Append(batch, Head(todo))
    OBVIOUS
  <1>2. /\ todo' = Tail(todo) /\ UNCHANGED <<pool, victim, given, thief, hdr, incoming>>
        /\ UNCHANGED <<queued, totals>>
        /\ IF Len(b) = Chunk THEN SendStealBatch(b, FALSE)
           ELSE batch' = b /\ UNCHANGED channels
    BY <1>b DEF StealCallback
  <1>3. PICK ord \in Seq(Units) : \E rc \in 0..Len(ord) : \E lo, pos \in Offsets :
          Order(ord, rc) /\ InStep(ord, rc, lo, pos)
    BY <1>1 DEF Streaming
  <1>4. PICK rc \in 0..Len(ord) : \E lo, pos \in Offsets :
          Order(ord, rc) /\ InStep(ord, rc, lo, pos)
    BY <1>3
  <1>5. PICK lo \in Offsets, pos \in Offsets :
          Order(ord, rc) /\ InStep(ord, rc, lo, pos)
    BY <1>4
  <1>n. PICK n \in Nat : n = Len(hdrs)
    BY <1>1 DEF StreamType
  <1>e. PICK e \in Nat : e = lo[n + 1]
    <2>1. lo \in [1..(n + 1) -> Nat]
      BY <1>n DEF Offsets, OffsetsOf
    <2> QED
      BY <2>1
  <1>6. /\ todo \in Seq(Units) /\ batch \in Seq(Units)
        /\ Len(ord) = e + Len(batch) + Len(todo)
        /\ Follows(ord, e, batch) /\ Follows(ord, e + Len(batch), todo)
    BY <1>1, <1>5, <1>n, <1>e DEF InStep, StreamType
  <1>7. /\ b \in Seq(Units) /\ Len(b) = Len(batch) + 1 /\ b # <<>>
        /\ todo' \in Seq(Units) /\ Len(todo') = Len(todo) - 1
        /\ Len(ord) = e + Len(b) + Len(todo')
    BY <1>1, <1>2, <1>6, <1>b
  <1>8. Follows(ord, e, b)
    <2>1. SUFFICES ASSUME NEW j \in 1..Len(b) PROVE b[j] = ord[e + j]
      BY DEF Follows
    <2>2. CASE j = Len(b)
      <3>1. b[j] = Head(todo) /\ Head(todo) = todo[1] /\ 1 \in 1..Len(todo)
        BY <1>1, <1>6, <1>7, <1>b, <2>2
      <3>2. todo[1] = ord[e + Len(batch) + 1]
        BY <1>6, <3>1 DEF Follows
      <3>3. e + Len(batch) + 1 = e + j
        BY <1>6, <1>7, <2>2
      <3> QED
        BY <3>1, <3>2, <3>3
    <2>3. CASE j \in 1..Len(batch)
      BY <1>6, <1>7, <1>b, <2>3 DEF Follows
    <2> QED
      BY <1>6, <1>7, <2>2, <2>3
  <1>9. Follows(ord, e + Len(b), todo')
    <2>1. SUFFICES ASSUME NEW j \in 1..Len(todo') PROVE todo'[j] = ord[e + Len(b) + j]
      BY DEF Follows
    <2>2. todo'[j] = todo[j + 1] /\ j + 1 \in 1..Len(todo)
      BY <1>1, <1>2, <1>6, <1>7
    <2>3. todo[j + 1] = ord[e + Len(batch) + (j + 1)]
      BY <1>6, <2>2 DEF Follows
    <2>4. e + Len(batch) + (j + 1) = e + Len(b) + j
      BY <1>6, <1>7
    <2> QED
      BY <2>2, <2>3, <2>4
  <1>10. Order(ord, rc)'
    BY <1>2, <1>5 DEF Order
  <1>11. CASE Len(b) = Chunk
    <2>1. SendStealBatch(b, FALSE)
      BY <1>2, <1>11
    <2>2. \E lo2, pos2 \in Offsets' : InStep(ord, rc, lo2, pos2)'
      BY <1>1, <1>2, <1>5, <1>7, <1>8, <1>9, <1>n, <1>e, <2>1, SendInStep
    <2>3. Streaming'
      BY <1>10, <2>2 DEF Streaming
    <2>4. /\ hdrs' \in Seq(Headers) /\ Len(hdrs') = n + 1
          /\ hdrs'[n + 1] = [count |-> Len(b), last |-> FALSE]
          /\ \A i \in 1..n : hdrs'[i] = hdrs[i]
          /\ payloads' \in Seq(Seq(Units)) /\ batch' = <<>>
      <3>1. PICK h : h = [count |-> Len(b), last |-> FALSE]
        OBVIOUS
      <3>2. /\ hdrs' \in Seq(Headers) /\ Len(hdrs') = Len(hdrs) + 1
            /\ hdrs'[Len(hdrs) + 1] = h
            /\ \A i \in 1..Len(hdrs) : hdrs'[i] = hdrs[i]
            /\ payloads' \in Seq(Seq(Units)) /\ batch' = <<>>
        BY <1>1, <1>7, <2>1, <3>1, SendChannels
      <3> QED
        BY <3>1, <3>2, <1>n
    <2>5. LastHeader'
      <3>1. /\ \A i \in 1..n : hdrs[i].last => victim = "loop"
            /\ \A i \in 1..n : hdrs[i].count = 0 => hdrs[i].last
            /\ ~(thief \in {"list", "units"} /\ hdr.last)
        BY <1>1, <1>n DEF LastHeader
      <3>2. hdrs'[n + 1].last = FALSE /\ hdrs'[n + 1].count # 0
        BY <2>4, <1>6, <1>7
      <3>3. ASSUME NEW i \in 1..(n + 1)
            PROVE  ~hdrs'[i].last /\ hdrs'[i].count # 0
        <4>1. CASE i = n + 1
          BY <3>2, <4>1
        <4>2. CASE i \in 1..n
          <5>1. ~hdrs[i].last /\ hdrs[i].count # 0
            BY <1>1, <3>1, <4>2
          <5> QED
            BY <2>4, <4>2, <5>1
        <4> QED
          BY <4>1, <4>2
      <3>4. /\ \A i \in 1..Len(hdrs') : ~hdrs'[i].last /\ hdrs'[i].count # 0
            /\ victim' # "loop" /\ ~(thief' \in {"list", "units"} /\ hdr'.last)
        BY <1>1, <1>2, <2>4, <3>1, <3>3
      <3> QED
        BY <3>4, Zenon DEF LastHeader
    <2>6. StreamType'
      BY <1>1, <1>2, <1>7, <2>4 DEF StreamType
    <2> QED
      BY <1>1, <1>2, <2>3, <2>5, <2>6 DEF StreamInv
  <1>12. CASE Len(b) # Chunk
    <2>1. batch' = b /\ hdrs' = hdrs /\ payloads' = payloads
      BY <1>2, <1>12 DEF channels
    <2>2. InStep(ord, rc, lo, pos)'
      <3>1. Announced' = Announced /\ Ahead' = Ahead
        BY <1>2 DEF Announced, Ahead
      <3>2. Receiving(ord, rc)' /\ Batches(ord, lo, pos)'
        BY <1>2, <1>5, <2>1 DEF InStep, Receiving, Batches
      <3>3. /\ lo[1] = rc + Announced /\ pos[1] = Ahead
            /\ Ordered(lo, Len(hdrs)) /\ Ordered(pos, Len(hdrs))
            /\ pos[Len(hdrs) + 1] = Len(payloads)
        BY <1>5 DEF InStep
      <3>4. /\ Len(ord) = lo[Len(hdrs') + 1] + Len(batch') + Len(todo')
            /\ Follows(ord, lo[Len(hdrs') + 1], batch')
            /\ Follows(ord, lo[Len(hdrs') + 1] + Len(batch'), todo')
        BY <1>7, <1>8, <1>9, <1>n, <1>e, <2>1
      <3> QED
        BY <2>1, <3>1, <3>2, <3>3, <3>4 DEF InStep
    <2>3. lo \in Offsets' /\ pos \in Offsets'
      BY <2>1 DEF Offsets
    <2>4. Streaming'
      BY <1>10, <2>2, <2>3 DEF Streaming
    <2>5. LastHeader' /\ StreamType'
      BY <1>1, <1>2, <1>7, <2>1 DEF LastHeader, StreamType
    <2> QED
      BY <1>1, <1>2, <2>4, <2>5 DEF StreamInv
  <1> QED
    BY <1>11, <1>12

\* xlb_handle_steal() sends the rest.
LEMMA FinishStep ==
  ASSUME StreamInv, StealFinish
  PROVE  StreamInv'
  <1>1. /\ StreamType /\ victim = "steal" /\ todo = <<>> /\ thief # "loop"
        /\ Streaming /\ LastHeader
    BY DEF StreamInv, StealFinish, StreamType
  <1>2. /\ SendStealBatch(batch, TRUE) /\ victim' = "loop" /\ todo' = todo
        /\ UNCHANGED <<pool, given, thief, hdr, incoming, queued, totals>>
    BY DEF StealFinish
  <1>3. PICK ord \in Seq(Units) : \E rc \in 0..Len(ord) : \E lo, pos \in Offsets :
          Order(ord, rc) /\ InStep(ord, rc, lo, pos)
    BY <1>1 DEF Streaming
  <1>4. PICK rc \in 0..Len(ord) : \E lo, pos \in Offsets :
          Order(ord, rc) /\ InStep(ord, rc, lo, pos)
    BY <1>3
  <1>5. PICK lo \in Offsets, pos \in Offsets :
          Order(ord, rc) /\ InStep(ord, rc, lo, pos)
    BY <1>4
  <1>n. PICK n \in Nat : n = Len(hdrs)
    BY <1>1 DEF StreamType
  <1>e. PICK e \in Nat : e = lo[n + 1]
    <2>1. lo \in [1..(n + 1) -> Nat]
      BY <1>n DEF Offsets, OffsetsOf
    <2> QED
      BY <2>1
  <1>6. /\ batch \in Seq(Units) /\ Len(ord) = e + Len(batch) + Len(todo')
        /\ Follows(ord, e, batch) /\ Follows(ord, e + Len(batch), todo')
    BY <1>1, <1>2, <1>5, <1>n, <1>e DEF InStep, StreamType
  <1>7. Order(ord, rc)'
    BY <1>2, <1>5 DEF Order
  <1>8. \E lo2, pos2 \in Offsets' : InStep(ord, rc, lo2, pos2)'
    BY <1>1, <1>2, <1>5, <1>6, <1>n, <1>e, SendInStep
  <1>9. Streaming'
    BY <1>7, <1>8 DEF Streaming
  <1>10. /\ hdrs' \in Seq(Headers) /\ Len(hdrs') = n + 1
         /\ hdrs'[n + 1] = [count |-> Len(batch), last |-> TRUE]
         /\ \A i \in 1..n : hdrs'[i] = hdrs[i]
         /\ payloads' \in Seq(Seq(Units)) /\ batch' = <<>>
    <2>1. PICK h : h = [count |-> Len(batch), last |-> TRUE]
      OBVIOUS
    <2>2. /\ hdrs' \in Seq(Headers) /\ Len(hdrs') = Len(hdrs) + 1
          /\ hdrs'[Len(hdrs) + 1] = h
          /\ \A i \in 1..Len(hdrs) : hdrs'[i] = hdrs[i]
          /\ payloads' \in Seq(Seq(Units)) /\ batch' = <<>>
      BY <1>1, <1>2, <1>6, <2>1, SendChannels
    <2> QED
      BY <2>1, <2>2, <1>n
  <1>11. LastHeader'
    <2>1. /\ \A i \in 1..n : hdrs[i].last => victim = "loop"
          /\ \A i \in 1..n : hdrs[i].count = 0 => hdrs[i].last
          /\ ~(thief \in {"list", "units"} /\ hdr.last)
      BY <1>1, <1>n DEF LastHeader
    <2>2. \A i \in 1..n : ~hdrs'[i].last /\ hdrs'[i].count # 0
      BY <1>1, <1>10, <2>1
    <2>3. hdrs'[n + 1].last
      BY <1>10
    <2>4. \A i \in 1..(n + 1) : /\ hdrs'[i].last => i = n + 1
                                /\ hdrs'[i].count = 0 => hdrs'[i].last
      BY <2>2, <2>3
    <2>5. hdrs' # <<>> /\ hdrs'[Len(hdrs')].last
      BY <1>10, <2>3
    <2>6. ~(thief' \in {"list", "units"} /\ hdr'.last)
      BY <1>2, <2>1
    <2> QED
      BY <1>2, <1>10, <2>4, <2>5, <2>6 DEF LastHeader
  <1>12. StreamType'
    BY <1>1, <1>2, <1>10 DEF StreamType
  <1> QED
    BY <1>1, <1>2, <1>9, <1>10, <1>11, <1>12 DEF StreamInv

\* When the last batch is received, all units of the steal are.
LEMMA AllReceived ==
  ASSUME StreamType, Streaming, victim = "loop", batch = <<>>, todo = <<>>,
         \/ thief = "header" /\ Len(hdrs) = 1 /\ hdrs[1].count = 0
         \/ thief = "units" /\ Len(hdrs) = 0 /\ Len(incoming) = 1
  PROVE  /\ thief = "header" => payloads = <<>> /\ given \subseteq queued
         /\ thief = "units" => /\ Len(payloads) = 1
                               /\ given \subseteq queued \cup {Head(incoming)}
  <1>3. PICK ord \in Seq(Units) : \E rc \in 0..Len(ord) : \E lo, pos \in Offsets :
          Order(ord, rc) /\ InStep(ord, rc, lo, pos)
    BY DEF Streaming
  <1>4. PICK rc \in 0..Len(ord) : \E lo, pos \in Offsets :
          Order(ord, rc) /\ InStep(ord, rc, lo, pos)
    BY <1>3
  <1>5. PICK lo \in Offsets, pos \in Offsets :
          Order(ord, rc) /\ InStep(ord, rc, lo, pos)
    BY <1>4
  <1>6. /\ lo[1] = rc + Announced /\ pos[1] = Ahead /\ Batches(ord, lo, pos)
        /\ pos[Len(hdrs) + 1] = Len(payloads) /\ Len(ord) = lo[Len(hdrs) + 1]
        /\ Receiving(ord, rc)
    <2>1. Len(batch) = 0 /\ Len(todo) = 0
      OBVIOUS
    <2>2. Len(hdrs) \in Nat /\ lo \in [1..(Len(hdrs) + 1) -> Nat]
      BY DEF Offsets, OffsetsOf, StreamType
    <2>3. lo[Len(hdrs) + 1] \in Nat
      BY <2>2
    <2>4. /\ lo[1] = rc + Announced /\ pos[1] = Ahead /\ Batches(ord, lo, pos)
          /\ pos[Len(hdrs) + 1] = Len(payloads) /\ Receiving(ord, rc)
          /\ Len(ord) = lo[Len(hdrs) + 1] + Len(batch) + Len(todo)
      BY <1>5, Zenon DEF InStep
    <2> QED
      BY <2>1, <2>3, <2>4
  <1>7. \A u \in given : \E i \in 1..Len(ord) : u = ord[i] /\ (i <= rc => ord[i] \in queued)
    BY <1>5 DEF Order
  <1>8. ASSUME thief = "header" PROVE payloads = <<>> /\ given \subseteq queued
    <2>1. Len(hdrs) = 1 /\ hdrs[1].count = 0 /\ Announced = 0 /\ Ahead = 0
      BY <1>8 DEF Announced, Ahead
    <2>2. lo[2] = lo[1] /\ pos[2] = pos[1]
      <3>1. 1 \in 1..Len(hdrs) /\ Messages(hdrs[1]) = 0
        BY <2>1 DEF Messages
      <3>2. lo[1 + 1] = lo[1] + 0 /\ pos[1 + 1] = pos[1] + 0
        <4>1. /\ lo[1 + 1] = lo[1] + hdrs[1].count
              /\ pos[1 + 1] = pos[1] + Messages(hdrs[1])
          BY <1>6, <3>1 DEF Batches
        <4> QED
          BY <2>1, <3>1, <4>1
      <3>3. lo[1] = rc /\ pos[1] = 0 /\ 1 + 1 = 2
        BY <1>6, <2>1
      <3> QED
        BY <3>2, <3>3
    <2>3. Len(payloads) = 0 /\ Len(ord) = rc
      <3>1. Len(hdrs) + 1 = 2
        BY <2>1
      <3> QED
        BY <1>6, <2>1, <2>2, <3>1
    <2>4. payloads = <<>>
      BY <2>3 DEF StreamType
    <2>5. \A i \in 1..Len(ord) : i <= rc
      BY <2>3
    <2> QED
      BY <1>7, <2>4, <2>5
  <1>9. ASSUME thief = "units"
        PROVE  Len(payloads) = 1 /\ given \subseteq queued \cup {Head(incoming)}
    <2>1. Len(hdrs) = 0 /\ Len(incoming) = 1 /\ Announced = 1 /\ Ahead = 1
      BY <1>9 DEF Announced, Ahead
    <2>2. Len(payloads) = 1 /\ Len(ord) = rc + 1
      <3>1. Len(hdrs) + 1 = 1
        BY <2>1
      <3> QED
        BY <1>6, <2>1, <3>1
    <2>3. Head(incoming) = ord[rc + 1]
      <3>1. Head(incoming) = incoming[1] /\ 1 \in 1..Len(incoming)
        BY <2>1 DEF StreamType
      <3> QED
        BY <1>6, <1>9, <3>1 DEF Receiving
    <2>4. \A i \in 1..Len(ord) : i <= rc \/ i = rc + 1
      BY <2>2
    <2> QED
      BY <1>7, <2>2, <2>3, <2>4
  <1> QED
    BY <1>8, <1>9

\* xlb_steal() receives a header.
LEMMA HeaderStep ==
  ASSUME StreamInv, RecvHeader
  PROVE  StreamInv'
  <1>1. /\ StreamType /\ thief = "header" /\ hdrs # <<>> /\ Streaming /\ LastHeader
        /\ hdr' = Head(hdrs) /\ hdrs' = Tail(hdrs)
        /\ UNCHANGED <<pool, todo, batch, victim, given, payloads, incoming, queued, totals>>
    BY DEF StreamInv, RecvHeader, victimVars
  <1>n. PICK n \in Nat \ {0} : n = Len(hdrs)
    BY <1>1 DEF StreamType
  <1>2. /\ hdrs[1] \in Headers /\ Head(hdrs) = hdrs[1] /\ hdrs' \in Seq(Headers)
        /\ Len(hdrs') = n - 1 /\ \A i \in 1..(n - 1) : hdrs'[i] = hdrs[i + 1]
    BY <1>1, <1>n DEF StreamType
  <1>3. /\ \A i \in 1..n : hdrs[i].last => i = n /\ victim = "loop"
        /\ \A i \in 1..n : hdrs[i].count = 0 => hdrs[i].last
        /\ victim = "loop" => hdrs[n].last
    BY <1>1, <1>n DEF LastHeader
  <1>4. CASE hdrs[1].count > 0
    <2>1. thief' = "list" /\ hdr'.count > 0
      BY <1>1, <1>2, <1>4 DEF RecvHeader
    <2>2. Streaming'
      <3>1. PICK ord \in Seq(Units) : \E rc \in 0..Len(ord) : \E lo, pos \in Offsets :
              Order(ord, rc) /\ InStep(ord, rc, lo, pos)
        BY <1>1 DEF Streaming
      <3>2. PICK rc \in 0..Len(ord) : \E lo, pos \in Offsets :
              Order(ord, rc) /\ InStep(ord, rc, lo, pos)
        BY <3>1
      <3>3. PICK lo \in Offsets, pos \in Offsets :
              Order(ord, rc) /\ InStep(ord, rc, lo, pos)
        BY <3>2
      <3>4. Order(ord, rc)'
        BY <1>1, <3>3 DEF Order
      <3>5. \E lo2, pos2 \in Offsets' : InStep(ord, rc, lo2, pos2)'
        <4>1. Head(hdrs).count > 0
          BY <1>2, <1>4
        <4> QED
          BY <1>1, <2>1, <3>3, <4>1, HeaderInStep
      <3> QED
        BY <3>4, <3>5 DEF Streaming
    <2>3. LastHeader'
      <3>1. \A i \in 1..(n - 1) : /\ hdrs'[i].last => i = n - 1 /\ victim' = "loop"
                                  /\ hdrs'[i].count = 0 => hdrs'[i].last
        <4>1. \A i \in 1..(n - 1) : i + 1 \in 1..n /\ (i + 1 = n => i = n - 1)
          OBVIOUS
        <4> QED
          BY <1>1, <1>2, <1>3, <4>1
      <3>2. hdr'.last => hdrs' = <<>> /\ victim' = "loop"
        <4>1. hdr'.last => n = 1 /\ victim = "loop"
          BY <1>1, <1>2, <1>3
        <4>2. n = 1 => hdrs' = <<>>
          BY <1>2
        <4> QED
          BY <1>1, <4>1, <4>2
      <3>3. victim' = "loop" => IF hdrs' = <<>> THEN hdr'.last ELSE hdrs'[n - 1].last
        <4>1. CASE n = 1
          <5>1. hdrs' = <<>>
            BY <1>2, <4>1
          <5> QED
            BY <1>1, <1>2, <1>3, <4>1, <5>1
        <4>2. CASE n > 1
          <5>1. n - 1 \in 1..(n - 1) /\ n - 1 + 1 = n /\ hdrs' # <<>>
            BY <1>2, <4>2
          <5>2. hdrs'[n - 1] = hdrs[n]
            BY <1>2, <5>1
          <5> QED
            BY <1>1, <1>3, <5>1, <5>2
        <4> QED
          BY <4>1, <4>2
      <3> QED
        BY <1>2, <2>1, <3>1, <3>2, <3>3 DEF LastHeader
    <2>4. StreamType'
      BY <1>1, <1>2, <2>1 DEF StreamType
    <2> QED
      BY <1>1, <2>1, <2>2, <2>3, <2>4 DEF StreamInv
  <1>5. CASE hdrs[1].count = 0
    <2>1. hdrs[1].last /\ n = 1 /\ victim = "loop"
      BY <1>3, <1>5
    <2>2. thief' = "loop" /\ hdrs' = <<>>
      BY <1>1, <1>2, <1>5, <2>1 DEF RecvHeader, StealEnds
    <2>3. batch = <<>> /\ todo = <<>>
      BY <2>1 DEF StreamInv
    <2>4. payloads = <<>> /\ given \subseteq queued
      BY <1>1, <1>5, <1>n, <2>1, <2>3, AllReceived
    <2>5. StreamType'
      BY <1>1, <1>2, <2>2 DEF StreamType
    <2> QED
      BY <1>1, <2>1, <2>2, <2>3, <2>4, <2>5 DEF StreamInv
  <1> QED
    BY <1>2, <1>4, <1>5 DEF Headers

\* steal_payloads() receives the list of the batch,
LEMMA ListStep ==
  ASSUME StreamInv, RecvList
  PROVE  StreamInv'
  <1>1. /\ StreamType /\ thief = "list" /\ payloads # <<>> /\ Streaming /\ LastHeader
        /\ hdr.count > 0
        /\ incoming' = Head(payloads) /\ payloads' = Tail(payloads) /\ thief' = "units"
        /\ UNCHANGED <<pool, todo, batch, victim, given, hdrs, hdr, queued, totals>>
    BY DEF StreamInv, RecvList, victimVars
  <1>k. PICK k \in Nat \ {0} : k = Len(payloads)
    BY <1>1 DEF StreamType
  <1>2. /\ payloads' \in Seq(Seq(Units)) /\ payloads[1] \in Seq(Units)
        /\ Head(payloads) = payloads[1] /\ Len(payloads') = k - 1
        /\ \A i \in 1..(k - 1) : payloads'[i] = payloads[i + 1]
    <2>1. PICK M : M = Seq(Units)
      OBVIOUS
    <2>2. payloads \in Seq(M)
      BY <1>1, <2>1 DEF StreamType
    <2>3. /\ payloads' \in Seq(M) /\ payloads[1] \in M
          /\ Head(payloads) = payloads[1] /\ Len(payloads') = k - 1
          /\ \A i \in 1..(k - 1) : payloads'[i] = payloads[i + 1]
      BY <1>1, <1>k, <2>2, HeadTailProperties
    <2> QED
      BY <2>1, <2>3
  <1>c. PICK c \in Nat \ {0} : c = hdr.count
    BY <1>1 DEF StreamType, Headers
  <1>3. PICK ord \in Seq(Units) : \E rc \in 0..Len(ord) : \E lo, pos \in Offsets :
          Order(ord, rc) /\ InStep(ord, rc, lo, pos)
    BY <1>1 DEF Streaming
  <1>4. PICK rc \in 0..Len(ord) : \E lo, pos \in Offsets :
          Order(ord, rc) /\ InStep(ord, rc, lo, pos)
    BY <1>3
  <1>5. PICK lo \in Offsets, pos \in Offsets :
          Order(ord, rc) /\ InStep(ord, rc, lo, pos)
    BY <1>4
  <1>6. /\ payloads[1] = [j \in 1..c |-> ord[rc + j]]
        /\ \A j \in 1..c : payloads[1 + j] = <<ord[rc + j]>>
        /\ c + 1 <= k
    <2>1. Carried(payloads, ord, rc, c, 0)
      BY <1>1, <1>5, <1>c DEF InStep, Receiving
    <2>2. payloads[0 + 1] = [j \in 1..c |-> ord[rc + j]]
          /\ \A j \in 1..c : payloads[0 + 1 + j] = <<ord[rc + j]>>
      BY <2>1 DEF Carried
    <2>n. PICK n \in Nat : n = Len(hdrs)
      BY <1>1 DEF StreamType
    <2>3. pos[1] = c + 1 /\ pos[n + 1] = k /\ Ordered(pos, n)
      BY <1>1, <1>5, <1>c, <1>k, <2>n DEF InStep, Ahead
    <2>4. pos[1] <= pos[n + 1]
      BY <2>3 DEF Ordered
    <2> QED
      BY <2>2, <2>3, <2>4
  <1>7. /\ Len(incoming') = c /\ \A j \in 1..c : incoming'[j] = ord[rc + j]
    BY <1>1, <1>2, <1>6
  <1>8. \A j \in 1..c : payloads'[j] = <<ord[rc + j]>>
    <2>1. \A j \in 1..c : j \in 1..(k - 1) /\ j + 1 = 1 + j
      BY <1>6
    <2>2. \A j \in 1..c : payloads'[j] = payloads[1 + j]
      BY <1>2, <2>1
    <2> QED
      BY <1>6, <2>2
  <1>9. Receiving(ord, rc)'
    BY <1>1, <1>7, <1>8 DEF Receiving
  <1>10. /\ Announced = c /\ Announced' = c /\ Ahead = c + 1 /\ Ahead' = c
    BY <1>1, <1>7, <1>c DEF Announced, Ahead
  <1>11. \E lo2, pos2 \in Offsets' : InStep(ord, rc, lo2, pos2)'
    <2>1. Ahead \in Nat \ {0} /\ Ahead' = Ahead - 1 /\ rc + Announced' = rc + Announced
      BY <1>10
    <2> QED
      BY <1>1, <1>5, <1>9, <2>1, TakeInStep
  <1>12. Order(ord, rc)'
    BY <1>1, <1>5 DEF Order
  <1>13. Streaming'
    BY <1>11, <1>12 DEF Streaming
  <1>14. LastHeader'
    BY <1>1 DEF LastHeader
  <1>15. StreamType' /\ incoming' # <<>>
    BY <1>1, <1>2, <1>7 DEF StreamType
  <1> QED
    BY <1>1, <1>13, <1>14, <1>15 DEF StreamInv

\* A unit that is queued is one unit more in the totals.
OneMore(t, u) == IF u \in Par THEN [t EXCEPT !.par = @ + 1]
                 ELSE [t EXCEPT !.single = @ + 1]

LEMMA UnitCounted ==
  ASSUME NEW g \in SUBSET Units, NEW q \in SUBSET Units, NEW u \in g, u \notin q
  PROVE  OneMore(Counted(g, q), u) = Counted(g, q \cup {u})
  <1>1. PICK a, b : a = (g \cap q) \ Par /\ b = g \cap q \cap Par
    OBVIOUS
  <1>2. IsFiniteSet(a) /\ IsFiniteSet(b)
    <2>1. a \subseteq Units /\ b \subseteq Units
      BY <1>1
    <2> QED
      BY <2>1, StealStreamAssumption, FS_Subset
  <1>3. Cardinality(a) \in Nat /\ Cardinality(b) \in Nat
    BY <1>2, FS_CardinalityType
  <1>4. u \notin a /\ u \notin b
    BY <1>1
  <1>5. CASE u \in Par
    <2>1. (g \cap (q \cup {u})) \ Par = a /\ g \cap (q \cup {u}) \cap Par = b \cup {u}
      BY <1>1, <1>5
    <2>2. Cardinality(b \cup {u}) = Cardinality(b) + 1
      BY <1>2, <1>4, FS_AddElement
    <2> QED
      BY <1>1, <1>3, <1>5, <2>1, <2>2 DEF OneMore, Counted
  <1>6. CASE u \notin Par
    <2>1. (g \cap (q \cup {u})) \ Par = a \cup {u} /\ g \cap (q \cup {u}) \cap Par = b
      BY <1>1, <1>6
    <2>2. Cardinality(a \cup {u}) = Cardinality(a) + 1
      BY <1>2, <1>4, FS_AddElement
    <2> QED
      BY <1>1, <1>3, <1>6, <2>1, <2>2 DEF OneMore, Counted
  <1> QED
    BY <1>5, <1>6

\* and then its units one by one.
LEMMA UnitStep ==
  ASSUME StreamInv, RecvUnit
  PROVE  /\ StreamInv'
         /\ totals' = Counted(given', queued')
  <1>u. PICK u : u = Head(incoming)
    OBVIOUS
  <1>1. /\ StreamType /\ thief = "units" /\ payloads # <<>> /\ Streaming /\ LastHeader
        /\ incoming # <<>> /\ queued \cup given = Units \ pool
        /\ totals = Counted(given, queued)
    BY DEF StreamInv, RecvUnit
  <1>2. /\ payloads' = Tail(payloads) /\ incoming' = Tail(incoming)
        /\ queued' = queued \cup {u}
        /\ totals' = OneMore(totals, u)
        /\ UNCHANGED <<pool, todo, batch, victim, given, hdrs, hdr>>
        /\ IF Len(incoming) > 1 THEN thief' = thief
           ELSE thief' = IF hdr.last THEN "loop" ELSE "header"
    BY <1>u DEF RecvUnit, victimVars, OneMore, StealEnds
  <1>k. PICK k \in Nat \ {0} : k = Len(payloads)
    BY <1>1 DEF StreamType
  <1>3. /\ payloads' \in Seq(Seq(Units)) /\ Len(payloads') = k - 1
        /\ \A i \in 1..(k - 1) : payloads'[i] = payloads[i + 1]
    <2>1. PICK M : M = Seq(Units)
      OBVIOUS
    <2>2. payloads \in Seq(M)
      BY <1>1, <2>1 DEF StreamType
    <2>3. /\ payloads' \in Seq(M) /\ Len(payloads') = k - 1
          /\ \A i \in 1..(k - 1) : payloads'[i] = payloads[i + 1]
      BY <1>1, <1>2, <1>k, <2>2, HeadTailProperties
    <2> QED
      BY <2>1, <2>3
  <1>c. PICK c \in Nat \ {0} : c = Len(incoming)
    BY <1>1 DEF StreamType
  <1>4. /\ u = incoming[1] /\ u \in Units /\ incoming' \in Seq(Units) /\ Len(incoming') = c - 1
        /\ \A i \in 1..(c - 1) : incoming'[i] = incoming[i + 1]
    <2>1. incoming \in Seq(Units)
      BY <1>1 DEF StreamType
    <2>2. incoming' = Tail(incoming) /\ incoming # <<>>
      BY <1>1, <1>2
    <2> QED
      BY <1>c, <1>u, <2>1, <2>2, HeadTailProperties
  <1>5. PICK ord \in Seq(Units) : \E rc \in 0..Len(ord) : \E lo, pos \in Offsets :
          Order(ord, rc) /\ InStep(ord, rc, lo, pos)
    BY <1>1 DEF Streaming
  <1>6. PICK rc \in 0..Len(ord) : \E lo, pos \in Offsets :
          Order(ord, rc) /\ InStep(ord, rc, lo, pos)
    BY <1>5
  <1>7. PICK lo \in Offsets, pos \in Offsets :
          Order(ord, rc) /\ InStep(ord, rc, lo, pos)
    BY <1>6
  <1>8. \A j \in 1..c : incoming[j] = ord[rc + j] /\ payloads[j] = <<ord[rc + j]>>
    BY <1>1, <1>7, <1>c DEF InStep, Receiving
  <1>9. rc + c <= Len(ord) /\ c <= k
    <2>n. PICK n \in Nat : n = Len(hdrs)
      BY <1>1 DEF StreamType
    <2>1. lo[1] = rc + c /\ Ordered(lo, n) /\ pos[1] = c /\ Ordered(pos, n) /\ pos[n + 1] = k
          /\ Len(ord) = lo[n + 1] + Len(batch) + Len(todo)
      BY <1>1, <1>7, <1>c, <1>k, <2>n DEF InStep, Announced, Ahead
    <2>2. lo[1] <= lo[n + 1] /\ pos[1] <= pos[n + 1]
      BY <2>1 DEF Ordered
    <2>3. Len(batch) \in Nat /\ Len(todo) \in Nat
      BY <1>1 DEF StreamType
    <2>4. lo[n + 1] \in Nat
      BY <2>n DEF Offsets, OffsetsOf
    <2> QED
      BY <2>1, <2>2, <2>3, <2>4
  <1>r. PICK rc2 \in 0..Len(ord) : rc2 = rc + 1
    BY <1>9
  <1>10. u = ord[rc2] /\ u \in given /\ u \notin queued
    <2>1. u = ord[rc2]
      BY <1>4, <1>8, <1>r
    <2>2. rc2 \in 1..Len(ord) /\ ~(rc2 <= rc)
      BY <1>r
    <2> QED
      BY <1>7, <2>1, <2>2 DEF Order
  <1>11. Order(ord, rc2)'
    <2>1. \A i \in 1..Len(ord) : (i <= rc2) <=> (i <= rc \/ i = rc2)
      BY <1>r
    <2>2. rc2 \in 1..Len(ord)
      BY <1>r
    <2>3. \A i \in 1..Len(ord) : ord[i] = u <=> i = rc2
      BY <1>7, <1>10, <2>2 DEF Order
    <2> QED
      BY <1>2, <1>7, <2>1, <2>3 DEF Order
  <1>12. totals' = Counted(given', queued')
    <2>1. given \in SUBSET Units /\ queued \in SUBSET Units
      BY <1>1 DEF StreamType
    <2>2. OneMore(Counted(given, queued), u) = Counted(given, queued \cup {u})
      BY <1>10, <2>1, UnitCounted
    <2> QED
      BY <1>1, <1>2, <2>2
  <1>13. queued' \cup given' = Units \ pool'
    BY <1>1, <1>2, <1>10
  <1>14. totals' \in [single : Nat, par : Nat]
    <2>1. totals \in [single : Nat, par : Nat]
      BY <1>1 DEF StreamType
    <2> QED
      BY <1>2, <2>1 DEF OneMore
  <1>18. /\ pool' \subseteq Units /\ todo' \in Seq(Units) /\ batch' \in Seq(Units)
         /\ hdrs' \in Seq(Headers) /\ victim' \in {"loop", "steal"} /\ hdr' \in Headers
         /\ queued' \subseteq Units /\ given' \subseteq Units
    BY <1>1, <1>2, <1>4 DEF StreamType
  <1>19. ~(c > 1) => thief' = IF hdr.last THEN "loop" ELSE "header"
    <2>1. IF c > 1 THEN thief' = thief ELSE thief' = IF hdr.last THEN "loop" ELSE "header"
      BY <1>2, <1>c
    <2> QED
      BY <2>1
  <1>15. CASE c > 1
    <2>1. thief' = "units"
      BY <1>1, <1>2, <1>15, <1>c
    <2>2. Receiving(ord, rc2)'
      <3>1. \A j \in 1..(c - 1) : j \in 1..(k - 1) /\ j + 1 \in 1..c /\ rc + (j + 1) = rc2 + j
        BY <1>9, <1>r
      <3>2. \A j \in 1..(c - 1) : /\ incoming'[j] = ord[rc2 + j]
                                  /\ payloads'[j] = <<ord[rc2 + j]>>
        <4>1. \A j \in 1..(c - 1) : incoming'[j] = incoming[j + 1] /\ payloads'[j] = payloads[j + 1]
          BY <1>3, <1>4, <3>1
        <4>2. \A j \in 1..(c - 1) : incoming[j + 1] = ord[rc + (j + 1)]
                                    /\ payloads[j + 1] = <<ord[rc + (j + 1)]>>
          BY <1>8, <3>1
        <4> QED
          BY <3>1, <4>1, <4>2
      <3> QED
        BY <1>4, <2>1, <3>2 DEF Receiving
    <2>3. /\ Ahead \in Nat \ {0} /\ Ahead' = Ahead - 1
          /\ rc2 + Announced' = rc + Announced
      BY <1>1, <1>4, <1>c, <1>r, <2>1 DEF Ahead, Announced
    <2>4. \E lo2, pos2 \in Offsets' : InStep(ord, rc2, lo2, pos2)'
      BY <1>1, <1>2, <1>7, <2>2, <2>3, TakeInStep
    <2>5. Streaming'
      BY <1>11, <2>4 DEF Streaming
    <2>6. LastHeader'
      BY <1>1, <1>2, <2>1 DEF LastHeader
    <2>7. StreamType' /\ incoming' # <<>>
      BY <1>3, <1>4, <1>14, <1>15, <1>18, <2>1 DEF StreamType
    <2> QED
      BY <1>1, <1>2, <1>12, <1>13, <2>1, <2>5, <2>6, <2>7 DEF StreamInv
  <1>16. CASE c = 1 /\ ~hdr.last
    <2>1. thief' = "header"
      BY <1>16, <1>19
    <2>2. Receiving(ord, rc2)'
      BY <2>1 DEF Receiving
    <2>3. /\ Ahead \in Nat \ {0} /\ Ahead' = Ahead - 1
          /\ rc2 + Announced' = rc + Announced
      <3>1. Ahead = 1 /\ Announced = 1 /\ Ahead' = 0 /\ Announced' = 0
        BY <1>1, <1>16, <1>c, <2>1 DEF Ahead, Announced
      <3> QED
        BY <1>r, <3>1
    <2>4. \E lo2, pos2 \in Offsets' : InStep(ord, rc2, lo2, pos2)'
      BY <1>1, <1>2, <1>7, <2>2, <2>3, TakeInStep
    <2>5. Streaming'
      BY <1>11, <2>4 DEF Streaming
    <2>6. LastHeader'
      BY <1>1, <1>2, <1>16, <2>1 DEF LastHeader
    <2>7. StreamType'
      BY <1>3, <1>4, <1>14, <1>18, <2>1 DEF StreamType
    <2> QED
      BY <1>1, <1>2, <1>12, <1>13, <2>1, <2>5, <2>6, <2>7 DEF StreamInv
  <1>17. CASE c = 1 /\ hdr.last
    <2>1. thief' = "loop"
      BY <1>17, <1>19
    <2>2. hdrs = <<>> /\ victim = "loop"
      BY <1>1, <1>17 DEF LastHeader
    <2>3. batch = <<>> /\ todo = <<>> /\ Len(hdrs) = 0
      BY <2>2 DEF StreamInv
    <2>4. Len(payloads) = 1 /\ given \subseteq queued \cup {u}
      BY <1>1, <1>17, <1>c, <1>u, <2>2, <2>3, AllReceived
    <2>5. payloads' = <<>>
      BY <1>3, <1>k, <2>4
    <2>6. StreamType'
      BY <1>3, <1>4, <1>14, <1>18, <2>1 DEF StreamType
    <2> QED
      BY <1>2, <1>12, <1>13, <2>1, <2>2, <2>3, <2>4, <2>5, <2>6 DEF StreamInv
  <1> QED
    BY <1>12, <1>15, <1>16, <1>17

LEMMA StreamStep ==
  ASSUME StreamInv, [Next]_vars
  PROVE  StreamInv'
  <1>1. CASE Probe \/ NothingThere \/ UNCHANGED vars
    <2>1. UNCHANGED <<pool, todo, batch, hdrs, payloads, victim, thief, hdr, incoming,
                      queued, totals, given>>
      BY <1>1 DEF Probe, NothingThere, vars, victimVars, channels
    <2>2. StreamType' /\ (LastHeader => LastHeader')
      BY <2>1 DEF StreamInv, StreamType, LastHeader
    <2>3. ASSUME NEW ord, NEW rc, NEW lo, NEW pos, Order(ord, rc), InStep(ord, rc, lo, pos)
          PROVE  Order(ord, rc)' /\ InStep(ord, rc, lo, pos)'
      <3>1. Order(ord, rc)'
        BY <2>1, <2>3 DEF Order
      <3>2. Announced' = Announced /\ Ahead' = Ahead
        BY <2>1 DEF Announced, Ahead
      <3>3. /\ Receiving(ord, rc) => Receiving(ord, rc)'
            /\ Batches(ord, lo, pos) => Batches(ord, lo, pos)'
        BY <2>1 DEF Receiving, Batches
      <3> QED
        BY <2>1, <2>3, <3>1, <3>2, <3>3 DEF InStep
    <2>4. Offsets' = Offsets
      BY <2>1 DEF Offsets
    <2>5. Streaming => Streaming'
      BY <2>3, <2>4 DEF Streaming
    <2> QED
      BY <2>1, <2>2, <2>5 DEF StreamInv
  <1>2. ASSUME NEW us \in SUBSET pool, NEW units \in Bijection(1..Cardinality(us), us), StartSteal(units)
        PROVE  StreamInv'
    BY <1>2, StartStep
  <1> QED
    BY <1>1, <1>2, CallbackStep, FinishStep, HeaderStep, ListStep, UnitStep DEF Next

-----------------------------------------------------------------------------
(* The invariant of the stream: the units of the steal are, in the order   *)
(* in which xlb_workq_steal() handed them to handle_steal_callback(), the  *)
(* ones queued by the thief, the rest of the batch it is receiving, the    *)
(* batches on their way, each header with its list and its units, the      *)
(* batch being filled and those still to be handed on; and the totals      *)
(* count what is queued.                                                   *)
THEOREM StreamInvariant == Spec => []StreamInv
  BY InitStream, StreamStep, PTL DEF Spec

(* Between two steals every unit is with the victims or queued by the      *)
(* thief, and no message is left to be taken for one of the next steal.    *)
THEOREM TransferComplete == Spec => []StealComplete
  <1>1. StreamInv => StealComplete
    BY DEF StreamInv, StealComplete, StreamType
  <1> QED
    BY <1>1, StreamInvariant, PTL

(* When xlb_steal() returns, the totals that decide which queues           *)
(* xlb_recheck_queues() looks at count all units of all batches.           *)
THEOREM TotalsComplete == Spec => TotalsExact
  <1>1. ASSUME StreamInv, StreamInv', [Next]_vars, thief' = "loop", thief # "loop"
        PROVE  totals' = [single |-> Cardinality(given \ Par),
                          par |-> Cardinality(given \cap Par)]
    <2>1. given' \subseteq queued'
      BY <1>1 DEF StreamInv
    <2>2. RecvHeader \/ RecvUnit
      BY <1>1 DEF Next, vars, Probe, NothingThere, StartSteal, StealCallback, StealFinish,
                  RecvList
    <2>3. given' = given
      BY <2>2 DEF RecvHeader, RecvUnit, victimVars
    <2>4. totals' = Counted(given', queued')
      <3>1. CASE RecvHeader
        <4>1. totals' = totals /\ given' = given /\ queued' = queued
          BY <3>1 DEF RecvHeader, victimVars
        <4> QED
          BY <1>1, <4>1 DEF StreamInv
      <3>2. CASE RecvUnit
        BY <1>1, <3>2, UnitStep
      <3> QED
        BY <2>2, <3>1, <3>2
    <2>5. (given' \cap queued') \ Par = given \ Par /\ given' \cap queued' \cap Par = given \cap Par
      BY <2>1, <2>3
    <2> QED
      BY <2>4, <2>5 DEF Counted
  <1>2. StreamInv /\ StreamInv' /\ [Next]_vars =>
          [thief' = "loop" /\ thief # "loop" =>
             totals' = [single |-> Cardinality(given \ Par),
                        par |-> Cardinality(given \cap Par)]]_vars
    BY <1>1
  <1> QED
    BY <1>2, StreamInvariant, PTL DEF Spec, TotalsExact

\* steal_payloads() takes every unit with the payload of that unit.
PayloadsPaired ==
  thief = "units" => /\ incoming # <<>>
                     /\ \A i \in 1..Len(incoming) : i <= Len(payloads) =>
                          payloads[i] = <<incoming[i]>>

(* The payloads come in the order of the list that announced them, so that *)
(* steal_payloads() never files the payload of one unit under another,     *)
(* although nothing in a message names the unit it is of.                  *)
THEOREM PayloadsInOrder == Spec => []PayloadsPaired
  <1>1. StreamInv => PayloadsPaired
    <2>1. SUFFICES ASSUME StreamInv, thief = "units" PROVE PayloadsPaired
      BY DEF PayloadsPaired
    <2>2. \A i \in 1..Len(incoming) : payloads[i] = <<incoming[i]>>
      <3>1. Streaming
        BY <2>1 DEF StreamInv
      <3>2. PICK ord \in Seq(Units) : \E rc \in 0..Len(ord) : Receiving(ord, rc)
        BY <3>1 DEF Streaming, InStep
      <3> QED
        BY <2>1, <3>2 DEF Receiving
    <2> QED
      BY <2>1, <2>2 DEF PayloadsPaired, StreamInv
  <1> QED
    BY <1>1, StreamInvariant, PTL
=============================================================================
