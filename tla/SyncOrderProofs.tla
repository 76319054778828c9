-------------------------- MODULE SyncOrderProofs ---------------------------
(***************************************************************************)
(* The order of what one server sends to another, also during a shutdown:  *)
(* nothing but a shutdown message follows a REQUEST or STEAL that is not   *)
(* accepted, and a probe and its response are at one place only.           *)
(***************************************************************************)
EXTENDS SyncProofs

-----------------------------------------------------------------------------
(* For a network n, pending lists p, syncs y, probes b, servers shutting   *)
(* down h.                                                                 *)

\* A REQUEST or STEAL of f that server t has not accepted.
Outstanding(n, p, f, t) == ~NoReq(n[<<f, t>>]) \/ ~NoDeferred(p[t], f)

\* The entries q of a channel after a request, and all of it once a request was
\* deferred to r, are shutdown messages; so are the later entries of r.
Quiet(q, r, f) ==
  /\ \A i, j \in 1..Len(q) : i < j /\ AcceptRequired(q[i]) => q[j] = "SHUTDOWN"
  /\ ~NoDeferred(r, f) => \A j \in 1..Len(q) : q[j] = "SHUTDOWN"
  /\ \A i, j \in 1..Len(r) :
       i < j /\ DeferredOf(r[i], f) /\ r[j].rank = f => r[j].mode = "SHUTDOWN"

CalmPair(n, p, y, h, f, t) ==
  /\ Quiet(n[<<f, t>>], p[t], f)
  /\ f \notin h /\ Outstanding(n, p, f, t) => Waits(y, f, t)

Calm(n, p, y, h) == \A f, t \in Servers : CalmPair(n, p, y, h, f, t)

\* A message m, an entry of rank f and mode m; at most one.
Has(q, m) == \E i \in 1..Len(q) : q[i] = m
Once(q, m) == \A i, j \in 1..Len(q) : q[i] = m /\ q[j] = m => i = j
Entry(e, f, m) == e.rank = f /\ e.mode = m
HasEntry(r, f, m) == \E i \in 1..Len(r) : Entry(r[i], f, m)
OnceEntry(r, f, m) == \A i, j \in 1..Len(r) : Entry(r[i], f, m) /\ Entry(r[j], f, m) => i = j

\* The probe of s on its way to f, and on the list of f; the response.
Probing(n, p, s, f) == Has(n[<<s, f>>], "STEAL_PROBE")
Probed(n, p, s, f) == HasEntry(p[f], s, "STEAL_PROBE")
Answering(n, p, s, f) == Has(n[<<f, s>>], "STEAL_PROBE_RESP")
Answered(n, p, s, f) == HasEntry(p[s], f, "STEAL_PROBE_RESP")

NoProbe(n, p, s, f) == /\ ~Probing(n, p, s, f) /\ ~Probed(n, p, s, f)
                       /\ ~Answering(n, p, s, f) /\ ~Answered(n, p, s, f)

Expected(y, b, s, f) == f \in b[s] \/ (y[s].to = f /\ y[s].mode = "STEAL_PROBE")

OneProbe(n, p, s, f) ==
  /\ Once(n[<<s, f>>], "STEAL_PROBE") /\ Once(n[<<f, s>>], "STEAL_PROBE_RESP")
  /\ OnceEntry(p[f], s, "STEAL_PROBE") /\ OnceEntry(p[s], f, "STEAL_PROBE_RESP")
  /\ Probing(n, p, s, f) => ~(Probed(n, p, s, f) \/ Answering(n, p, s, f) \/ Answered(n, p, s, f))
  /\ Probed(n, p, s, f) => ~(Answering(n, p, s, f) \/ Answered(n, p, s, f))
  /\ Answering(n, p, s, f) => ~Answered(n, p, s, f)

ProbePair(n, p, y, b, s, f) ==
  OneProbe(n, p, s, f) /\ (NoProbe(n, p, s, f) \/ Expected(y, b, s, f))

Probes(n, p, y, b) == \A s, f \in Servers : s # f => ProbePair(n, p, y, b, s, f)

\* An entry of the pending list of server s.
EntryOK(e, s) ==
  /\ e.rank # s
  /\ e.mode = "REFCOUNT" => e.kind \in {"DEFERRED_SYNC", "ACCEPTED_REFC"}
  /\ e.kind = "DEFERRED_STEAL_PROBE" => e.mode = "STEAL_PROBE"
  /\ e.kind = "DEFERRED_STEAL_PROBE_RESP" => e.mode = "STEAL_PROBE_RESP"

Entries(n, p) ==
  \A s \in Servers : /\ ~Has(n[<<s, s>>], "STEAL_PROBE_RESP")
                     /\ \A i \in 1..Len(p[s]) : EntryOK(p[s][i], s)

OrderInv ==
  /\ Calm(net, pending, syncing, shutting) /\ Probes(net, pending, syncing, probes)
  /\ Entries(net, pending) /\ RefcountsInOrder

-----------------------------------------------------------------------------
(* One channel q and one pending list r.                                   *)

LEMMA QuietAppend ==
  ASSUME NEW q \in Seq(Modes), NEW r \in Seq(PendingRecords), NEW m \in Modes, NEW f,
         Quiet(q, r, f), (NoReq(q) /\ NoDeferred(r, f)) \/ m = "SHUTDOWN"
  PROVE  Quiet(Append(q, m), r, f)
  <1>1. PICK x : x = Append(q, m)
    BY Zenon
  <1>2. /\ Len(x) = Len(q) + 1 /\ Len(q) \in Nat
        /\ \A i \in 1..Len(q) : x[i] = q[i]
        /\ x[Len(q) + 1] = m
    BY <1>1
  <1>3. ASSUME NEW i \in 1..Len(x), NEW j \in 1..Len(x), i < j, AcceptRequired(x[i])
        PROVE  x[j] = "SHUTDOWN"
    <2>1. i \in 1..Len(q) /\ AcceptRequired(q[i])
      BY <1>2, <1>3
    <2>2. m = "SHUTDOWN"
      BY <2>1 DEF NoReq
    <2>3. CASE j \in 1..Len(q)
      BY <1>2, <1>3, <2>1, <2>3, Zenon DEF Quiet
    <2> QED
      BY <1>2, <2>2, <2>3
  <1>4. ASSUME ~NoDeferred(r, f), NEW j \in 1..Len(x) PROVE x[j] = "SHUTDOWN"
    BY <1>2, <1>4 DEF Quiet
  <1>5. \A i, j \in 1..Len(r) :
          i < j /\ DeferredOf(r[i], f) /\ r[j].rank = f => r[j].mode = "SHUTDOWN"
    BY DEF Quiet
  <1>6. Quiet(x, r, f)
    BY <1>3, <1>4, <1>5 DEF Quiet
  <1> QED
    BY <1>1, <1>6

LEMMA QuietTail ==
  ASSUME NEW q \in Seq(Modes), q # <<>>, NEW r \in Seq(PendingRecords), NEW f,
         Quiet(q, r, f)
  PROVE  /\ Quiet(Tail(q), r, f)
         /\ AcceptRequired(Head(q)) => NoReq(Tail(q)) /\ NoDeferred(r, f)
  <1>1. PICK x : x = Tail(q)
    BY Zenon
  <1>2. /\ Len(q) \in Nat /\ Len(q) >= 1 /\ Len(x) = Len(q) - 1
        /\ \A i \in 1..Len(x) : x[i] = q[i + 1]
        /\ Head(q) = q[1]
    BY <1>1
  <1>3. \A i \in 1..Len(x) : i + 1 \in 1..Len(q)
    BY <1>2
  <1>4. ASSUME NEW i \in 1..Len(x), NEW j \in 1..Len(x), i < j, AcceptRequired(x[i])
        PROVE  x[j] = "SHUTDOWN"
    <2>1. i + 1 \in 1..Len(q) /\ j + 1 \in 1..Len(q) /\ i + 1 < j + 1
      BY <1>3, <1>4
    <2>2. AcceptRequired(q[i + 1])
      BY <1>2, <1>4
    <2>3. q[j + 1] = "SHUTDOWN"
      BY <2>1, <2>2, Zenon DEF Quiet
    <2> QED
      BY <1>2, <2>3, Zenon
  <1>5. ASSUME ~NoDeferred(r, f), NEW j \in 1..Len(x) PROVE x[j] = "SHUTDOWN"
    BY <1>2, <1>3, <1>5, Zenon DEF Quiet
  <1>6. \A i, j \in 1..Len(r) :
          i < j /\ DeferredOf(r[i], f) /\ r[j].rank = f => r[j].mode = "SHUTDOWN"
    BY DEF Quiet
  <1>7. Quiet(x, r, f)
    BY <1>4, <1>5, <1>6 DEF Quiet
  <1>8. ASSUME AcceptRequired(Head(q)) PROVE NoReq(x) /\ NoDeferred(r, f)
    <2>1. 1 \in 1..Len(q) /\ AcceptRequired(q[1]) /\ q[1] # "SHUTDOWN"
      BY <1>2, <1>8 DEF AcceptRequired
    <2>2. NoDeferred(r, f)
      BY <2>1 DEF Quiet
    <2>3. \A i \in 1..Len(x) : q[i + 1] = "SHUTDOWN"
      <3>1. \A i \in 1..Len(x) : 1 < i + 1
        BY <1>2
      <3> QED
        BY <1>3, <2>1, <3>1 DEF Quiet
    <2>4. NoReq(x)
      BY <1>2, <2>3, Zenon DEF NoReq, AcceptRequired
    <2> QED
      BY <2>2, <2>4
  <1> QED
    BY <1>1, <1>7, <1>8

\* MPI_Cancel takes back the last message.
LEMMA QuietFront ==
  ASSUME NEW q \in Seq(Modes), q # <<>>, NEW r \in Seq(PendingRecords), NEW f,
         Quiet(q, r, f), NEW x, x = SubSeq(q, 1, Len(q) - 1)
  PROVE  x \in Seq(Modes) /\ Quiet(x, r, f) /\ Len(x) = Len(q) - 1
         /\ \A i \in 1..Len(x) : x[i] = q[i] /\ i \in 1..Len(q)
  <1>1. Len(q) \in Nat /\ Len(q) >= 1
    OBVIOUS
  <1>2. x \in Seq(Modes) /\ Len(x) = Len(q) - 1 /\ \A i \in 1..Len(x) : x[i] = q[i]
    <2>1. PICK k \in Nat : k = Len(q) - 1
      BY <1>1, SMT, SMTT(30)
    <2>2. \A i \in 1..k : q[i] \in Modes
      BY <1>1, <2>1
    <2>3. /\ x \in Seq(Modes) /\ Len(x) = IF 1 <= k THEN k - 1 + 1 ELSE 0
          /\ \A i \in 1..k - 1 + 1 : x[i] = q[1 + i - 1]
      BY <1>1, <2>1, <2>2
    <2>4. Len(x) = k /\ k - 1 + 1 = k
      BY <1>1, <2>1, <2>3
    <2>5. \A i \in 1..k : x[i] = q[i]
      BY <2>3, <2>4
    <2> QED
      BY <2>1, <2>3, <2>4, <2>5, Zenon
  <1>3. \A i \in 1..Len(x) : x[i] = q[i] /\ i \in 1..Len(q)
    BY <1>1, <1>2
  <1>4. Quiet(x, r, f)
    BY <1>3 DEF Quiet
  <1> QED
    BY <1>2, <1>3, <1>4, Zenon

\* A message of f is deferred: from the channel q to the list r.
LEMMA QuietDefer ==
  ASSUME NEW q \in Seq(Modes), q # <<>>, NEW r \in Seq(PendingRecords), NEW f,
         Quiet(q, r, f), NEW e \in PendingRecords, e.rank = f, e.mode = Head(q)
  PROVE  /\ Quiet(Tail(q), Append(r, e), f)
         /\ NoReq(q) /\ NoDeferred(r, f) => NoReq(Tail(q)) /\ NoDeferred(Append(r, e), f)
  <1>1. Quiet(Tail(q), r, f) /\ (AcceptRequired(Head(q)) => NoReq(Tail(q)) /\ NoDeferred(r, f))
    BY QuietTail
  <1>x. PICK x : x = Tail(q)
    BY Zenon
  <1>2. /\ Len(q) \in Nat /\ Len(q) >= 1 /\ Len(x) = Len(q) - 1
        /\ \A i \in 1..Len(x) : x[i] = q[i + 1] /\ i + 1 \in 1..Len(q)
        /\ Head(q) = q[1]
    BY <1>x
  <1>y. PICK y : y = Append(r, e)
    BY Zenon
  <1>3. /\ Len(y) = Len(r) + 1 /\ Len(r) \in Nat
        /\ \A i \in 1..Len(r) : y[i] = r[i]
        /\ y[Len(r) + 1] = e
    BY <1>y
  <1>4. ~NoDeferred(y, f) => ~NoDeferred(r, f) \/ AcceptRequired(Head(q))
    <2>1. DeferredOf(e, f) => AcceptRequired(Head(q))
      BY DEF DeferredOf
    <2> QED
      BY <1>3, <2>1, SMT, SMTT(30) DEF NoDeferred
  <1>5. ASSUME ~NoDeferred(y, f), NEW j \in 1..Len(x) PROVE x[j] = "SHUTDOWN"
    <2>1. CASE ~NoDeferred(r, f)
      BY <1>1, <1>x, <2>1, Zenon DEF Quiet
    <2>2. CASE AcceptRequired(Head(q))
      <3>1. 1 \in 1..Len(q) /\ j + 1 \in 1..Len(q) /\ 1 < j + 1 /\ AcceptRequired(q[1])
        BY <1>2, <2>2
      <3>2. q[j + 1] = "SHUTDOWN"
        BY <3>1 DEF Quiet
      <3> QED
        BY <1>2, <3>2, Zenon
    <2> QED
      BY <1>4, <1>5, <2>1, <2>2, Zenon
  <1>6. ASSUME NEW i \in 1..Len(y), NEW j \in 1..Len(y), i < j, DeferredOf(y[i], f),
               y[j].rank = f
        PROVE  y[j].mode = "SHUTDOWN"
    <2>1. i \in 1..Len(r) /\ DeferredOf(r[i], f)
      BY <1>3, <1>6, SMT, SMTT(30)
    <2>2. CASE j \in 1..Len(r)
      BY <1>3, <1>6, <2>1, <2>2, Zenon DEF Quiet
    <2>3. CASE j = Len(r) + 1
      <3>1. ~NoDeferred(r, f) /\ 1 \in 1..Len(q)
        BY <1>2, <2>1, SMT, SMTT(30) DEF NoDeferred
      <3>2. q[1] = "SHUTDOWN"
        BY <3>1, Zenon DEF Quiet
      <3> QED
        BY <1>2, <1>3, <2>3, <3>2, Zenon
    <2> QED
      BY <1>3, <2>2, <2>3
  <1>7. \A i, j \in 1..Len(x) : i < j /\ AcceptRequired(x[i]) => x[j] = "SHUTDOWN"
    BY <1>1, <1>x, Zenon DEF Quiet
  <1>8. Quiet(x, y, f)
    BY <1>5, <1>6, <1>7, Zenon DEF Quiet
  <1>9. NoReq(q) /\ NoDeferred(r, f) => NoReq(x) /\ NoDeferred(y, f)
    BY <1>2, <1>4, SMT, SMTT(30) DEF NoReq
  <1> QED
    BY <1>x, <1>y, <1>8, <1>9

\* To the other servers g an entry of f means nothing.
LEMMA QuietOther ==
  ASSUME NEW q, NEW r \in Seq(PendingRecords), NEW g, Quiet(q, r, g),
         NEW e \in PendingRecords, e.rank # g
  PROVE  /\ Quiet(q, Append(r, e), g)
         /\ NoDeferred(r, g) => NoDeferred(Append(r, e), g)
  <1>y. PICK y : y = Append(r, e)
    BY Zenon
  <1>3. /\ Len(y) = Len(r) + 1 /\ Len(r) \in Nat
        /\ \A i \in 1..Len(r) : y[i] = r[i]
        /\ y[Len(r) + 1] = e
    BY <1>y
  <1>4. NoDeferred(r, g) => NoDeferred(y, g)
    BY <1>3, SMT, SMTT(30) DEF NoDeferred, DeferredOf
  <1>6. ASSUME NEW i \in 1..Len(y), NEW j \in 1..Len(y), i < j, DeferredOf(y[i], g),
               y[j].rank = g
        PROVE  y[j].mode = "SHUTDOWN"
    <2>1. j \in 1..Len(r)
      BY <1>3, <1>6
    <2>2. i \in 1..Len(r)
      BY <1>3, <1>6, <2>1, SMT, SMTT(30)
    <2> QED
      BY <1>3, <1>6, <2>1, <2>2, Zenon DEF Quiet
  <1>8. Quiet(q, y, g)
    BY <1>4, <1>6, Zenon DEF Quiet
  <1> QED
    BY <1>y, <1>4, <1>8

\* The first entry of the list is taken off.
LEMMA QuietPop ==
  ASSUME NEW q \in Seq(Modes), NEW r \in Seq(PendingRecords), r # <<>>, NEW f,
         Quiet(q, r, f)
  PROVE  /\ Quiet(q, Tail(r), f)
         /\ NoDeferred(r, f) => NoDeferred(Tail(r), f)
         /\ DeferredOf(Head(r), f) =>
              /\ NoReq(q) /\ NoDeferred(Tail(r), f)
              /\ \A i \in 1..Len(Tail(r)) : Tail(r)[i].rank = f => Tail(r)[i].mode = "SHUTDOWN"
  <1>x. PICK x : x = Tail(r)
    BY Zenon
  <1>2. /\ Len(r) \in Nat /\ Len(r) >= 1 /\ Len(x) = Len(r) - 1
        /\ \A i \in 1..Len(x) : x[i] = r[i + 1] /\ i + 1 \in 1..Len(r) /\ 1 < i + 1
        /\ Head(r) = r[1] /\ 1 \in 1..Len(r)
    BY <1>x
  <1>3. NoDeferred(r, f) => NoDeferred(x, f)
    BY <1>2, Zenon DEF NoDeferred
  <1>4. ASSUME NEW i \in 1..Len(x), NEW j \in 1..Len(x), i < j, DeferredOf(x[i], f),
               x[j].rank = f
        PROVE  x[j].mode = "SHUTDOWN"
    <2>1. i + 1 \in 1..Len(r) /\ j + 1 \in 1..Len(r) /\ i + 1 < j + 1
      BY <1>2, <1>4
    <2>2. DeferredOf(r[i + 1], f) /\ r[j + 1].rank = f
      BY <1>2, <1>4, Zenon
    <2>3. r[j + 1].mode = "SHUTDOWN"
      BY <2>1, <2>2, Zenon DEF Quiet
    <2> QED
      BY <1>2, <2>3, Zenon
  <1>5. Quiet(q, x, f)
    BY <1>3, <1>4, Zenon DEF Quiet
  <1>6. ASSUME DeferredOf(Head(r), f)
        PROVE  /\ NoReq(q) /\ NoDeferred(x, f)
               /\ \A i \in 1..Len(x) : x[i].rank = f => x[i].mode = "SHUTDOWN"
    <2>1. DeferredOf(r[1], f)
      BY <1>2, <1>6
    <2>2. ~NoDeferred(r, f)
      BY <1>2, <2>1, Zenon DEF NoDeferred
    <2>3. NoReq(q)
      BY <2>2 DEF Quiet, NoReq, AcceptRequired
    <2>4. \A i \in 1..Len(x) : x[i].rank = f => x[i].mode = "SHUTDOWN"
      BY <1>2, <2>1, ZenonT(200) DEF Quiet
    <2>5. NoDeferred(x, f)
      BY <2>4 DEF NoDeferred, DeferredOf, AcceptRequired
    <2> QED
      BY <2>3, <2>4, <2>5, Zenon
  <1> QED
    BY <1>x, <1>3, <1>5, <1>6

-----------------------------------------------------------------------------
(* How often a message is on a channel, and an entry on a list.            *)

\* What x holds, q holds; what is once in q is at most once in x.
Fewer(x, q) ==
  \A m \in Modes : (Has(x, m) => Has(q, m)) /\ (Once(q, m) => Once(x, m))

FewerEntries(x, r) ==
  \A f \in Servers, m \in Modes :
    (HasEntry(x, f, m) => HasEntry(r, f, m)) /\ (OnceEntry(r, f, m) => OnceEntry(x, f, m))

LEMMA HasAppend ==
  ASSUME NEW q \in Seq(Modes), NEW k \in Modes, NEW m \in Modes
  PROVE  /\ Has(Append(q, k), m) <=> Has(q, m) \/ k = m
         /\ Once(q, m) /\ (k # m \/ ~Has(q, m)) => Once(Append(q, k), m)
  <1>1. PICK x : x = Append(q, k)
    BY Zenon
  <1>2. /\ Len(x) = Len(q) + 1 /\ Len(q) \in Nat
        /\ \A i \in 1..Len(q) : x[i] = q[i]
        /\ x[Len(q) + 1] = k
    BY <1>1
  <1>3. Has(x, m) <=> Has(q, m) \/ k = m
    BY <1>2 DEF Has
  <1>4. Once(q, m) /\ (k # m \/ ~Has(q, m)) => Once(x, m)
    BY <1>2, SMT, SMTT(30) DEF Once, Has
  <1> QED
    BY <1>1, <1>3, <1>4

LEMMA HasTail ==
  ASSUME NEW q \in Seq(Modes), q # <<>>
  PROVE  /\ Fewer(Tail(q), q) /\ Has(q, Head(q))
         /\ \A m \in Modes : Head(q) = m /\ Once(q, m) => ~Has(Tail(q), m)
  <1>1. PICK x : x = Tail(q)
    BY Zenon
  <1>2. /\ Len(q) \in Nat /\ Len(q) >= 1 /\ Len(x) = Len(q) - 1
        /\ \A i \in 1..Len(x) : x[i] = q[i + 1] /\ i + 1 \in 1..Len(q) /\ i + 1 # 1
        /\ Head(q) = q[1] /\ 1 \in 1..Len(q)
    BY <1>1
  <1>3. \A m \in Modes : Has(x, m) => Has(q, m)
    BY <1>2, Zenon DEF Has
  <1>4. ASSUME NEW m \in Modes, Once(q, m), NEW i \in 1..Len(x), NEW j \in 1..Len(x),
               x[i] = m, x[j] = m
        PROVE  i = j
    <2>1. i + 1 = j + 1
      BY <1>2, <1>4, ZenonT(200) DEF Once
    <2> QED
      BY <1>2, <2>1
  <1>5. Fewer(x, q)
    BY <1>3, <1>4 DEF Fewer, Once
  <1>6. ASSUME NEW m \in Modes, Head(q) = m, Once(q, m) PROVE ~Has(x, m)
    BY <1>2, <1>6 DEF Once, Has
  <1>7. Has(q, Head(q))
    BY <1>2 DEF Has
  <1> QED
    BY <1>1, <1>5, <1>6, <1>7, Zenon

LEMMA HasFront ==
  ASSUME NEW q \in Seq(Modes), NEW x \in Seq(Modes),
         \A i \in 1..Len(x) : x[i] = q[i] /\ i \in 1..Len(q)
  PROVE  Fewer(x, q)
  BY Zenon DEF Fewer, Has, Once

LEMMA EntryAppend ==
  ASSUME NEW r \in Seq(PendingRecords), NEW e \in PendingRecords, NEW f, NEW m
  PROVE  /\ HasEntry(Append(r, e), f, m) <=> HasEntry(r, f, m) \/ Entry(e, f, m)
         /\ OnceEntry(r, f, m) /\ (~Entry(e, f, m) \/ ~HasEntry(r, f, m))
              => OnceEntry(Append(r, e), f, m)
  <1>1. PICK x : x = Append(r, e)
    BY Zenon
  <1>2. /\ Len(x) = Len(r) + 1 /\ Len(r) \in Nat
        /\ \A i \in 1..Len(r) : x[i] = r[i]
        /\ x[Len(r) + 1] = e
    BY <1>1
  <1>3. HasEntry(x, f, m) <=> HasEntry(r, f, m) \/ Entry(e, f, m)
    BY <1>2 DEF HasEntry
  <1>4. OnceEntry(r, f, m) /\ (~Entry(e, f, m) \/ ~HasEntry(r, f, m)) => OnceEntry(x, f, m)
    BY <1>2, SMT, SMTT(30) DEF OnceEntry, HasEntry
  <1> QED
    BY <1>1, <1>3, <1>4

LEMMA EntryTail ==
  ASSUME NEW r \in Seq(PendingRecords), r # <<>>
  PROVE  /\ FewerEntries(Tail(r), r)
         /\ \A f, m : Entry(Head(r), f, m) =>
              HasEntry(r, f, m) /\ (OnceEntry(r, f, m) => ~HasEntry(Tail(r), f, m))
  <1>1. PICK x : x = Tail(r)
    BY Zenon
  <1>2. /\ Len(r) \in Nat /\ Len(r) >= 1 /\ Len(x) = Len(r) - 1
        /\ \A i \in 1..Len(x) : x[i] = r[i + 1] /\ i + 1 \in 1..Len(r) /\ i + 1 # 1
        /\ Head(r) = r[1] /\ 1 \in 1..Len(r)
    BY <1>1
  <1>3. \A f \in Servers, m \in Modes : HasEntry(x, f, m) => HasEntry(r, f, m)
    BY <1>2, Zenon DEF HasEntry
  <1>4. ASSUME NEW f \in Servers, NEW m \in Modes, OnceEntry(r, f, m),
               NEW i \in 1..Len(x), NEW j \in 1..Len(x), Entry(x[i], f, m), Entry(x[j], f, m)
        PROVE  i = j
    <2>1. i + 1 = j + 1
      BY <1>2, <1>4, Zenon DEF OnceEntry
    <2> QED
      BY <1>2, <2>1, SMT, SMTT(30)
  <1>5. FewerEntries(x, r)
    BY <1>3, <1>4, Zenon DEF FewerEntries, OnceEntry
  <1>6. ASSUME NEW f, NEW m, Entry(Head(r), f, m), OnceEntry(r, f, m) PROVE ~HasEntry(x, f, m)
    BY <1>2, <1>6, Zenon DEF OnceEntry, HasEntry
  <1>7. \A f, m : Entry(Head(r), f, m) => HasEntry(r, f, m)
    BY <1>2 DEF HasEntry
  <1> QED
    BY <1>1, <1>5, <1>6, <1>7, Zenon

-----------------------------------------------------------------------------
(* Calm, for each way in which channels, lists and syncs change.           *)

\* A server starts a sync; one that shuts down only sends shutdown messages.
LEMMA CalmStart ==
  ASSUME NEW n \in Nets, NEW p \in Pends, NEW y \in Syncs, NEW h, Calm(n, p, y, h),
         NEW s \in Servers, NEW t \in Servers, NEW m \in Modes, y[s].to = None,
         s \notin h \/ m = "SHUTDOWN"
  PROVE  Calm([n EXCEPT ![<<s, t>>] = Append(@, m)], p,
              [y EXCEPT ![s] = [to |-> t, mode |-> m, accepted |-> FALSE]], h)
  <1>n. PICK n1 : n1 = [n EXCEPT ![<<s, t>>] = Append(@, m)]
    BY Zenon
  <1>y. PICK y1 : y1 = [y EXCEPT ![s] = [to |-> t, mode |-> m, accepted |-> FALSE]]
    BY Zenon
  <1>1. ASSUME NEW f \in Servers, NEW u \in Servers PROVE CalmPair(n1, p, y1, h, f, u)
    <2>1. CalmPair(n, p, y, h, f, u)
      BY DEF Calm
    <2>t. n[<<f, u>>] \in Seq(Modes) /\ p[u] \in Seq(PendingRecords)
      BY Zenon DEF Nets, Pends, Pairs
    <2>2. CASE f # s
      <3>1. n1[<<f, u>>] = n[<<f, u>>] /\ y1[f] = y[f]
        BY <1>n, <1>y, <2>2, Zenon DEF Nets, Pairs, Syncs
      <3> QED
        BY <2>1, <3>1, Zenon DEF CalmPair, Outstanding, Waits
    <2>3. f = s => s \in h \/ ~Outstanding(n, p, s, u)
      BY <2>1, Ranks, Zenon DEF CalmPair, Waits
    <2>4. CASE f = s /\ u # t
      <3>1. n1[<<f, u>>] = n[<<f, u>>]
        BY <1>n, <2>4, Zenon DEF Nets, Pairs
      <3> QED
        BY <2>1, <2>3, <2>4, <3>1, Zenon DEF CalmPair, Outstanding
    <2>5. CASE f = s /\ u = t
      <3>1. n1[<<f, u>>] = Append(n[<<f, u>>], m)
        BY <1>n, <2>5, Zenon DEF Nets, Pairs
      <3>2. y1[f] = [to |-> t, mode |-> m, accepted |-> FALSE]
        BY <1>y, <2>5 DEF Syncs
      <3>3. Quiet(n1[<<f, u>>], p[u], f)
        BY <2>1, <2>3, <2>5, <2>t, <3>1, QuietAppend, ZenonT(60) DEF CalmPair, Outstanding
      <3>4. f \notin h /\ Outstanding(n1, p, f, u) => Waits(y1, f, u)
        BY <2>3, <2>5, <2>t, <3>1, <3>2, ReqAppend, SMT, SMTT(30) DEF Outstanding, Waits
      <3> QED
        BY <3>3, <3>4, Zenon DEF CalmPair
    <2> QED
      BY <2>2, <2>4, <2>5, Zenon
  <1> QED
    BY <1>n, <1>y, <1>1, Zenon DEF Calm

\* A sync that is accepted, or that needs no acceptance, ends.
LEMMA CalmEnd ==
  ASSUME NEW n, NEW p, NEW y \in Syncs, NEW h, Calm(n, p, y, h),
         NEW s \in Servers, y[s].accepted \/ ~AcceptRequired(y[s].mode)
  PROVE  Calm(n, p, [y EXCEPT ![s] = NoSync], h)
  <1>y. PICK y1 : y1 = [y EXCEPT ![s] = NoSync]
    BY Zenon
  <1>1. ASSUME NEW f \in Servers, NEW u \in Servers PROVE CalmPair(n, p, y1, h, f, u)
    <2>1. CalmPair(n, p, y, h, f, u)
      BY Zenon DEF Calm
    <2>2. CASE f # s
      <3>1. y1[f] = y[f]
        BY <1>y, <2>2, Zenon DEF Syncs
      <3> QED
        BY <2>1, <3>1, Zenon DEF CalmPair, Waits
    <2>3. CASE f = s
      BY <2>1, <2>3 DEF CalmPair, Waits
    <2> QED
      BY <2>2, <2>3, Zenon
  <1> QED
    BY <1>y, <1>1, Zenon DEF Calm

\* A message is taken off a channel.
LEMMA CalmTake ==
  ASSUME NEW n \in Nets, NEW p \in Pends, NEW y, NEW h, Calm(n, p, y, h),
         NEW s \in Servers, NEW f \in Servers, n[<<f, s>>] # <<>>,
         NEW n1, n1 = [n EXCEPT ![<<f, s>>] = Tail(@)]
  PROVE  /\ Calm(n1, p, y, h)
         /\ AcceptRequired(Head(n[<<f, s>>])) => ~Outstanding(n1, p, f, s)
  <1>q. /\ n1[<<f, s>>] = Tail(n[<<f, s>>]) /\ n[<<f, s>>] \in Seq(Modes)
        /\ p[s] \in Seq(PendingRecords)
    BY DEF Nets, Pends, Pairs
  <1>c. CalmPair(n, p, y, h, f, s)
    BY Zenon DEF Calm
  <1>h. /\ Quiet(n1[<<f, s>>], p[s], f)
        /\ AcceptRequired(Head(n[<<f, s>>])) => ~Outstanding(n1, p, f, s)
    BY <1>q, <1>c, QuietTail, Zenon DEF CalmPair, Outstanding
  <1>1. ASSUME NEW g \in Servers, NEW u \in Servers PROVE CalmPair(n1, p, y, h, g, u)
    <2>1. CalmPair(n, p, y, h, g, u)
      BY DEF Calm
    <2>2. CASE <<g, u>> # <<f, s>>
      <3>1. n1[<<g, u>>] = n[<<g, u>>]
        BY <2>2, Zenon DEF Nets, Pairs
      <3> QED
        BY <2>1, <3>1, Zenon DEF CalmPair, Outstanding
    <2>3. CASE g = f /\ u = s
      <3>1. Outstanding(n1, p, f, s) => Outstanding(n, p, f, s)
        BY <1>q, ReqTail DEF Outstanding
      <3> QED
        BY <2>1, <2>3, <3>1, <1>h, Zenon DEF CalmPair
    <2> QED
      BY <2>2, <2>3, Zenon
  <1> QED
    BY <1>1, <1>h, Zenon DEF Calm

\* The request of f was taken, and is accepted.
LEMMA CalmRespond ==
  ASSUME NEW n, NEW p, NEW y \in Syncs, NEW h, Calm(n, p, y, h),
         NEW s \in Servers, NEW f \in Servers, ~Outstanding(n, p, f, s)
  PROVE  Calm(n, p, [y EXCEPT ![f].accepted = @ \/ y[f].to = s], h)
  <1>y. PICK y1 : y1 = [y EXCEPT ![f].accepted = @ \/ y[f].to = s]
    BY Zenon
  <1>0. /\ y1[f] = [y[f] EXCEPT !.accepted = @ \/ y[f].to = s]
        /\ \A g \in Servers \ {f} : y1[g] = y[g]
    BY <1>y DEF Syncs
  <1>a. /\ y1[f].to = y[f].to /\ y1[f].mode = y[f].mode
        /\ y1[f].accepted = (y[f].accepted \/ y[f].to = s)
    BY <1>0, SMT, SMTT(30) DEF Syncs, SyncRecords
  <1>1. ASSUME NEW g \in Servers, NEW u \in Servers PROVE CalmPair(n, p, y1, h, g, u)
    <2>1. CalmPair(n, p, y, h, g, u)
      BY DEF Calm
    <2>2. CASE g # f
      BY <2>1, <2>2, <1>0, Zenon DEF CalmPair, Waits
    <2>3. CASE g = f /\ u = s
      BY <2>1, <2>3 DEF CalmPair
    <2>4. CASE g = f /\ u # s
      BY <2>1, <2>4, <1>a, Zenon DEF CalmPair, Waits
    <2> QED
      BY <2>2, <2>3, <2>4, Zenon
  <1> QED
    BY <1>y, <1>1, Zenon DEF Calm

\* A message is moved to the pending list.
LEMMA CalmDefer ==
  ASSUME NEW n \in Nets, NEW p \in Pends, NEW y, NEW h, Calm(n, p, y, h),
         NEW s \in Servers, NEW f \in Servers, n[<<f, s>>] # <<>>,
         NEW e \in PendingRecords, e.rank = f, e.mode = Head(n[<<f, s>>]),
         NEW n1, n1 = [n EXCEPT ![<<f, s>>] = Tail(@)],
         NEW p1, p1 = [p EXCEPT ![s] = Append(@, e)]
  PROVE  Calm(n1, p1, y, h)
  <1>q. /\ n1[<<f, s>>] = Tail(n[<<f, s>>]) /\ n[<<f, s>>] \in Seq(Modes)
        /\ p[s] \in Seq(PendingRecords) /\ p1[s] = Append(p[s], e)
    BY Zenon DEF Nets, Pends, Pairs
  <1>1. ASSUME NEW g \in Servers, NEW u \in Servers PROVE CalmPair(n1, p1, y, h, g, u)
    <2>1. CalmPair(n, p, y, h, g, u)
      BY Zenon DEF Calm
    <2>2. CASE u # s
      <3>1. n1[<<g, u>>] = n[<<g, u>>] /\ p1[u] = p[u]
        BY <2>2 DEF Nets, Pairs, Pends
      <3> QED
        BY <2>1, <3>1, Zenon DEF CalmPair, Outstanding
    <2>3. CASE u = s /\ g # f
      <3>1. n1[<<g, u>>] = n[<<g, u>>]
        BY <2>3 DEF Nets, Pairs
      <3>2. /\ Quiet(n[<<g, s>>], p1[s], g)
            /\ NoDeferred(p[s], g) => NoDeferred(p1[s], g)
        BY <1>q, <2>1, <2>3, QuietOther, Zenon DEF CalmPair
      <3> QED
        BY <2>1, <2>3, <3>1, <3>2, Zenon DEF CalmPair, Outstanding
    <2>4. CASE u = s /\ g = f
      <3>1. /\ Quiet(n1[<<f, s>>], p1[s], f)
            /\ NoReq(n[<<f, s>>]) /\ NoDeferred(p[s], f)
                 => NoReq(n1[<<f, s>>]) /\ NoDeferred(p1[s], f)
        BY <1>q, <2>1, <2>4, QuietDefer, SMT, SMTT(30) DEF CalmPair
      <3> QED
        BY <2>1, <2>4, <3>1, Zenon DEF CalmPair, Outstanding
    <2> QED
      BY <2>2, <2>3, <2>4, Zenon
  <1> QED
    BY <1>1, Zenon DEF Calm

\* What f has left on the list r are shutdown messages.
LastOf(r, f) == \A i \in 1..Len(r) : r[i].rank = f => r[i].mode = "SHUTDOWN"

\* The first entry leaves the pending list of s.
LEMMA CalmPop ==
  ASSUME NEW n \in Nets, NEW p \in Pends, NEW y, NEW h, Calm(n, p, y, h),
         NEW s \in Servers, p[s] # <<>>,
         NEW p1, p1 = [p EXCEPT ![s] = Tail(@)]
  PROVE  /\ Calm(n, p1, y, h)
         /\ \A f \in Servers : DeferredOf(Head(p[s]), f) =>
              /\ ~Outstanding(n, p1, f, s)
              /\ LastOf(p1[s], f)
  <1>q. p[s] \in Seq(PendingRecords) /\ p1[s] = Tail(p[s])
    BY DEF Pends
  <1>h. ASSUME NEW f \in Servers
        PROVE  /\ Quiet(n[<<f, s>>], p1[s], f)
               /\ NoDeferred(p[s], f) => NoDeferred(p1[s], f)
               /\ DeferredOf(Head(p[s]), f) =>
                    /\ NoReq(n[<<f, s>>]) /\ NoDeferred(p1[s], f)
                    /\ \A i \in 1..Len(p1[s]) :
                         p1[s][i].rank = f => p1[s][i].mode = "SHUTDOWN"
    <2>1. CalmPair(n, p, y, h, f, s) /\ n[<<f, s>>] \in Seq(Modes)
      BY Zenon DEF Calm, Nets, Pairs
    <2>2. PICK q, r : q = n[<<f, s>>] /\ r = p[s]
      BY Zenon
    <2>3. Quiet(q, r, f) /\ q \in Seq(Modes) /\ r \in Seq(PendingRecords) /\ r # <<>>
      BY <1>q, <2>1, <2>2, Zenon DEF CalmPair
    <2>4. /\ Quiet(q, Tail(r), f)
          /\ NoDeferred(r, f) => NoDeferred(Tail(r), f)
          /\ DeferredOf(Head(r), f) =>
               /\ NoReq(q) /\ NoDeferred(Tail(r), f)
               /\ \A i \in 1..Len(Tail(r)) : Tail(r)[i].rank = f => Tail(r)[i].mode = "SHUTDOWN"
      BY <2>3, QuietPop, Zenon
    <2> QED
      BY <1>q, <2>2, <2>4, Zenon
  <1>1. ASSUME NEW g \in Servers, NEW u \in Servers PROVE CalmPair(n, p1, y, h, g, u)
    <2>1. CalmPair(n, p, y, h, g, u)
      BY Zenon DEF Calm
    <2>2. CASE u # s
      <3>1. p1[u] = p[u]
        BY <2>2, Zenon DEF Pends
      <3> QED
        BY <2>1, <3>1, Zenon DEF CalmPair, Outstanding
    <2>3. CASE u = s
      BY <2>1, <2>3, <1>h, Zenon DEF CalmPair, Outstanding
    <2> QED
      BY <2>2, <2>3, Zenon
  <1>2. \A f \in Servers : DeferredOf(Head(p[s]), f) => ~Outstanding(n, p1, f, s)
    BY <1>h DEF Outstanding
  <1>3. \A f \in Servers : DeferredOf(Head(p[s]), f) => LastOf(p1[s], f)
    BY <1>h, Zenon DEF LastOf
  <1> QED
    BY <1>1, <1>2, <1>3, Zenon DEF Calm

\* Server s gets the shutdown message; MPI_Cancel may take its last message
\* to t back.
LEMMA CalmCancel ==
  ASSUME NEW n \in Nets, NEW p \in Pends, NEW y \in Syncs, NEW h, Calm(n, p, y, h),
         NEW s \in Servers, NEW t \in Servers, NEW n1,
         \/ n1 = n
         \/ /\ n[<<s, t>>] # <<>>
            /\ n1 = [n EXCEPT ![<<s, t>>] = SubSeq(@, 1, Len(@) - 1)]
  PROVE  Calm(n1, p, [y EXCEPT ![s] = NoSync], h \cup {s})
  <1>y. PICK y1 : y1 = [y EXCEPT ![s] = NoSync]
    BY Zenon
  <1>1. ASSUME NEW g \in Servers, NEW u \in Servers
        PROVE  CalmPair(n1, p, y1, h \cup {s}, g, u)
    <2>1. /\ CalmPair(n, p, y, h, g, u) /\ n[<<g, u>>] \in Seq(Modes)
          /\ p[u] \in Seq(PendingRecords)
      BY Zenon DEF Calm, Nets, Pairs, Pends
    <2>2. CASE g # s
      <3>1. y1[g] = y[g] /\ n1[<<g, u>>] = n[<<g, u>>]
        BY <1>y, <2>2, Zenon DEF Syncs, Nets, Pairs
      <3> QED
        BY <2>1, <3>1, Zenon DEF CalmPair, Outstanding, Waits
    <2>3. CASE g = s
      <3>1. \/ n1[<<g, u>>] = n[<<g, u>>]
            \/ /\ n[<<g, u>>] # <<>>
               /\ n1[<<g, u>>] = SubSeq(n[<<g, u>>], 1, Len(n[<<g, u>>]) - 1)
        BY <2>3, Zenon DEF Nets, Pairs
      <3>2. Quiet(n1[<<g, u>>], p[u], g)
        BY <2>1, <3>1, QuietFront, ZenonT(60) DEF CalmPair
      <3> QED
        BY <2>3, <3>2 DEF CalmPair
    <2> QED
      BY <2>2, <2>3
  <1> QED
    BY <1>y, <1>1, Zenon DEF Calm

\* More servers shut down.
LEMMA CalmMore ==
  ASSUME NEW n, NEW p, NEW y, NEW h, Calm(n, p, y, h), NEW k, h \subseteq k
  PROVE  Calm(n, p, y, k)
  BY DEF Calm, CalmPair

-----------------------------------------------------------------------------
(* The probes: what leaves a channel or a list, and what is added.         *)

\* Nothing is added; who is no longer expected has no probe.
LEMMA ProbesFewer ==
  ASSUME NEW n, NEW p, NEW y, NEW b, Probes(n, p, y, b), NEW n1, NEW p1, NEW z, NEW c,
         \A f, t \in Servers : Fewer(n1[<<f, t>>], n[<<f, t>>]),
         \A s \in Servers : FewerEntries(p1[s], p[s]),
         \A s, f \in Servers :
           s # f /\ Expected(y, b, s, f) => Expected(z, c, s, f) \/ NoProbe(n1, p1, s, f)
  PROVE  Probes(n1, p1, z, c)
  <1> SUFFICES ASSUME NEW s \in Servers, NEW f \in Servers, s # f
               PROVE  ProbePair(n1, p1, z, c, s, f)
    BY ZenonT(60) DEF Probes
  <1>1. ProbePair(n, p, y, b, s, f)
    BY DEF Probes
  <1>m. "STEAL_PROBE" \in Modes /\ "STEAL_PROBE_RESP" \in Modes
    BY Zenon DEF Modes
  <1>2. /\ Probing(n1, p1, s, f) => Probing(n, p, s, f)
        /\ Once(n[<<s, f>>], "STEAL_PROBE") => Once(n1[<<s, f>>], "STEAL_PROBE")
    BY <1>m, Zenon DEF Fewer, Probing
  <1>3. /\ Answering(n1, p1, s, f) => Answering(n, p, s, f)
        /\ Once(n[<<f, s>>], "STEAL_PROBE_RESP") => Once(n1[<<f, s>>], "STEAL_PROBE_RESP")
    BY <1>m, Zenon DEF Fewer, Answering
  <1>4. /\ Probed(n1, p1, s, f) => Probed(n, p, s, f)
        /\ OnceEntry(p[f], s, "STEAL_PROBE") => OnceEntry(p1[f], s, "STEAL_PROBE")
    BY <1>m, Zenon DEF FewerEntries, Probed
  <1>5. /\ Answered(n1, p1, s, f) => Answered(n, p, s, f)
        /\ OnceEntry(p[s], f, "STEAL_PROBE_RESP") => OnceEntry(p1[s], f, "STEAL_PROBE_RESP")
    BY <1>m, Zenon DEF FewerEntries, Answered
  <1>6. OneProbe(n1, p1, s, f)
    BY <1>1, <1>2, <1>3, <1>4, <1>5, Zenon DEF ProbePair, OneProbe
  <1>7. NoProbe(n, p, s, f) => NoProbe(n1, p1, s, f)
    BY <1>2, <1>3, <1>4, <1>5, Zenon DEF NoProbe
  <1> QED
    BY <1>1, <1>6, <1>7, Zenon DEF ProbePair

\* A message is sent: a probe where there is none, a response to a probe taken.
LEMMA ProbesSend ==
  ASSUME NEW n \in Nets, NEW p, NEW y, NEW b, Probes(n, p, y, b),
         NEW s \in Servers, NEW t \in Servers, NEW m \in Modes,
         m = "STEAL_PROBE" => NoProbe(n, p, s, t) /\ Expected(y, b, s, t),
         m = "STEAL_PROBE_RESP" => NoProbe(n, p, t, s) /\ Expected(y, b, t, s)
  PROVE  Probes([n EXCEPT ![<<s, t>>] = Append(@, m)], p, y, b)
  <1>n. PICK n1 : n1 = [n EXCEPT ![<<s, t>>] = Append(@, m)]
    BY Zenon
  <1>1. ASSUME NEW a \in Servers, NEW c \in Servers, a # c PROVE ProbePair(n1, p, y, b, a, c)
    <2>1. ProbePair(n, p, y, b, a, c)
      BY <1>1, Zenon DEF Probes
    <2>m. "STEAL_PROBE" \in Modes /\ "STEAL_PROBE_RESP" \in Modes
      BY DEF Modes
    <2>t. n[<<a, c>>] \in Seq(Modes) /\ n[<<c, a>>] \in Seq(Modes)
      BY DEF Nets, Pairs
    <2>p. Probed(n1, p, a, c) = Probed(n, p, a, c) /\ Answered(n1, p, a, c) = Answered(n, p, a, c)
      BY DEF Probed, Answered
    <2>2. CASE a = s /\ c = t
      <3>1. n1[<<a, c>>] = Append(n[<<a, c>>], m) /\ n1[<<c, a>>] = n[<<c, a>>]
        BY <1>n, <1>1, <2>2, ZenonT(60) DEF Nets, Pairs
      <3>2. /\ Probing(n1, p, a, c) <=> Probing(n, p, a, c) \/ m = "STEAL_PROBE"
            /\ Answering(n1, p, a, c) = Answering(n, p, a, c)
            /\ Once(n[<<a, c>>], "STEAL_PROBE") /\ (m # "STEAL_PROBE" \/ ~Probing(n, p, a, c))
                 => Once(n1[<<a, c>>], "STEAL_PROBE")
        BY <2>m, <2>t, <3>1, HasAppend, SMT, SMTT(30) DEF Probing, Answering
      <3>3. m = "STEAL_PROBE" => NoProbe(n, p, a, c) /\ Expected(y, b, a, c)
        BY <2>2, Zenon
      <3> QED
        BY <2>1, <2>p, <3>1, <3>2, <3>3, Zenon DEF ProbePair, OneProbe, NoProbe
    <2>3. CASE a = t /\ c = s
      <3>1. n1[<<c, a>>] = Append(n[<<c, a>>], m) /\ n1[<<a, c>>] = n[<<a, c>>]
        BY <1>n, <1>1, <2>3, ZenonT(60) DEF Nets, Pairs
      <3>2. /\ Answering(n1, p, a, c) <=> Answering(n, p, a, c) \/ m = "STEAL_PROBE_RESP"
            /\ Probing(n1, p, a, c) = Probing(n, p, a, c)
            /\ /\ Once(n[<<c, a>>], "STEAL_PROBE_RESP")
               /\ m # "STEAL_PROBE_RESP" \/ ~Answering(n, p, a, c)
               => Once(n1[<<c, a>>], "STEAL_PROBE_RESP")
        BY <2>m, <2>t, <3>1, HasAppend, SMT, SMTT(30) DEF Probing, Answering
      <3>3. m = "STEAL_PROBE_RESP" => NoProbe(n, p, a, c) /\ Expected(y, b, a, c)
        BY <2>3, Zenon
      <3> QED
        BY <2>1, <2>p, <3>1, <3>2, <3>3, Zenon DEF ProbePair, OneProbe, NoProbe
    <2>4. CASE <<a, c>> # <<s, t>> /\ <<c, a>> # <<s, t>>
      <3>1. n1[<<c, a>>] = n[<<c, a>>] /\ n1[<<a, c>>] = n[<<a, c>>]
        BY <1>n, <2>4, ZenonT(60) DEF Nets, Pairs
      <3>2. Probing(n1, p, a, c) = Probing(n, p, a, c) /\ Answering(n1, p, a, c) = Answering(n, p, a, c)
        BY <3>1 DEF Probing, Answering
      <3> QED
        BY <2>1, <2>p, <3>1, <3>2, ZenonT(60) DEF ProbePair, OneProbe, NoProbe
    <2> QED
      BY <2>2, <2>3, <2>4, Zenon
  <1> QED
    BY <1>n, <1>1, Zenon DEF Probes

\* A probe or a response that was taken is put on the pending list.
LEMMA ProbesDefer ==
  ASSUME NEW n, NEW p \in Pends, NEW y, NEW b, Probes(n, p, y, b),
         NEW s \in Servers, NEW e \in PendingRecords, e.rank # s,
         e.mode = "STEAL_PROBE" => NoProbe(n, p, e.rank, s) /\ Expected(y, b, e.rank, s),
         e.mode = "STEAL_PROBE_RESP" => NoProbe(n, p, s, e.rank) /\ Expected(y, b, s, e.rank)
  PROVE  Probes(n, [p EXCEPT ![s] = Append(@, e)], y, b)
  <1>n. PICK p1 : p1 = [p EXCEPT ![s] = Append(@, e)]
    BY Zenon
  <1>r. e.rank \in Servers
    BY Zenon DEF PendingRecords
  <1>1. ASSUME NEW a \in Servers, NEW c \in Servers, a # c PROVE ProbePair(n, p1, y, b, a, c)
    <2>1. ProbePair(n, p, y, b, a, c)
      BY <1>1 DEF Probes
    <2>t. p[a] \in Seq(PendingRecords) /\ p[c] \in Seq(PendingRecords)
      BY Zenon DEF Pends
    <2>p. Probing(n, p1, a, c) = Probing(n, p, a, c) /\ Answering(n, p1, a, c) = Answering(n, p, a, c)
      BY DEF Probing, Answering
    <2>2. CASE c = s
      <3>1. p1[c] = Append(p[c], e) /\ p1[a] = p[a]
        BY <1>n, <1>1, <2>2, ZenonT(60) DEF Pends
      <3>2. /\ Probed(n, p1, a, c) <=> Probed(n, p, a, c) \/ Entry(e, a, "STEAL_PROBE")
            /\ Answered(n, p1, a, c) = Answered(n, p, a, c)
            /\ /\ OnceEntry(p[c], a, "STEAL_PROBE")
               /\ ~Entry(e, a, "STEAL_PROBE") \/ ~Probed(n, p, a, c)
               => OnceEntry(p1[c], a, "STEAL_PROBE")
        BY <2>t, <3>1, EntryAppend DEF Probed, Answered
      <3>3. Entry(e, a, "STEAL_PROBE") => NoProbe(n, p, a, c) /\ Expected(y, b, a, c)
        BY <2>2, Zenon DEF Entry
      <3> QED
        BY <2>1, <2>p, <3>1, <3>2, <3>3, Zenon DEF ProbePair, OneProbe, NoProbe
    <2>3. CASE a = s
      <3>1. p1[a] = Append(p[a], e) /\ p1[c] = p[c]
        BY <1>n, <1>1, <2>3, ZenonT(60) DEF Pends
      <3>2. /\ Answered(n, p1, a, c) <=> Answered(n, p, a, c) \/ Entry(e, c, "STEAL_PROBE_RESP")
            /\ Probed(n, p1, a, c) = Probed(n, p, a, c)
            /\ /\ OnceEntry(p[a], c, "STEAL_PROBE_RESP")
               /\ ~Entry(e, c, "STEAL_PROBE_RESP") \/ ~Answered(n, p, a, c)
               => OnceEntry(p1[a], c, "STEAL_PROBE_RESP")
        BY <2>t, <3>1, EntryAppend, Zenon DEF Probed, Answered
      <3>3. Entry(e, c, "STEAL_PROBE_RESP") => NoProbe(n, p, a, c) /\ Expected(y, b, a, c)
        BY <2>3, Zenon DEF Entry
      <3> QED
        BY <2>1, <2>p, <3>1, <3>2, <3>3, Zenon DEF ProbePair, OneProbe, NoProbe
    <2>4. CASE a # s /\ c # s
      <3>1. p1[a] = p[a] /\ p1[c] = p[c]
        BY <1>n, <2>4, Zenon DEF Pends
      <3>2. Probed(n, p1, a, c) = Probed(n, p, a, c) /\ Answered(n, p1, a, c) = Answered(n, p, a, c)
        BY <3>1, Zenon DEF Probed, Answered
      <3> QED
        BY <2>1, <2>p, <3>1, <3>2, Zenon DEF ProbePair, OneProbe, NoProbe
    <2> QED
      BY <2>2, <2>3, <2>4, Zenon
  <1> QED
    BY <1>n, <1>1, Zenon DEF Probes

\* A probe or a response taken off its channel is nowhere else.
LEMMA ProbesTake ==
  ASSUME NEW n \in Nets, NEW p, NEW y, NEW b, Probes(n, p, y, b),
         NEW s \in Servers, NEW f \in Servers, f # s, n[<<f, s>>] # <<>>,
         NEW n1, n1 = [n EXCEPT ![<<f, s>>] = Tail(@)], NEW m, m = Head(n[<<f, s>>])
  PROVE  /\ Probes(n1, p, y, b)
         /\ m = "STEAL_PROBE" => NoProbe(n1, p, f, s) /\ Expected(y, b, f, s)
         /\ m = "STEAL_PROBE_RESP" => NoProbe(n1, p, s, f) /\ Expected(y, b, s, f)
  <1>q. /\ n[<<f, s>>] \in Seq(Modes) /\ n1[<<f, s>>] = Tail(n[<<f, s>>])
        /\ n1[<<s, f>>] = n[<<s, f>>]
    BY DEF Nets, Pairs
  <1>t. /\ Fewer(n1[<<f, s>>], n[<<f, s>>]) /\ Has(n[<<f, s>>], m)
        /\ \A k \in Modes : m = k /\ Once(n[<<f, s>>], k) => ~Has(n1[<<f, s>>], k)
    BY <1>q, HasTail, Zenon
  <1>1. ASSUME NEW a \in Servers, NEW c \in Servers PROVE Fewer(n1[<<a, c>>], n[<<a, c>>])
    <2>1. CASE <<a, c>> # <<f, s>>
      <3>1. n1[<<a, c>>] = n[<<a, c>>]
        BY <2>1, Zenon DEF Nets, Pairs
      <3> QED
        BY <3>1, Zenon DEF Fewer
    <2> QED
      BY <1>t, <2>1, Zenon
  <1>2. \A u \in Servers : FewerEntries(p[u], p[u])
    BY DEF FewerEntries
  <1>3. Probes(n1, p, y, b)
    BY <1>1, <1>2, ProbesFewer, ZenonT(60)
  <1>m. "STEAL_PROBE" \in Modes /\ "STEAL_PROBE_RESP" \in Modes
    BY DEF Modes
  <1>4. ASSUME m = "STEAL_PROBE" PROVE NoProbe(n1, p, f, s) /\ Expected(y, b, f, s)
    <2>1. ProbePair(n, p, y, b, f, s)
      BY Zenon DEF Probes
    <2>2. Probing(n, p, f, s)
      BY <1>4, <1>t, Zenon DEF Probing
    <2>3. ~Probing(n1, p, f, s)
      BY <1>4, <1>m, <1>t, <2>1, Zenon DEF Probing, ProbePair, OneProbe
    <2>4. ~Probed(n1, p, f, s) /\ ~Answering(n1, p, f, s) /\ ~Answered(n1, p, f, s)
      BY <1>q, <2>1, <2>2, Zenon DEF ProbePair, OneProbe, Probed, Answering, Answered
    <2> QED
      BY <2>1, <2>2, <2>3, <2>4, Zenon DEF ProbePair, NoProbe
  <1>5. ASSUME m = "STEAL_PROBE_RESP" PROVE NoProbe(n1, p, s, f) /\ Expected(y, b, s, f)
    <2>1. ProbePair(n, p, y, b, s, f)
      BY DEF Probes
    <2>2. Answering(n, p, s, f)
      BY <1>5, <1>t, Zenon DEF Answering
    <2>3. ~Answering(n1, p, s, f)
      BY <1>5, <1>m, <1>t, <2>1, Zenon DEF Answering, ProbePair, OneProbe
    <2>4. ~Probed(n1, p, s, f) /\ ~Probing(n1, p, s, f) /\ ~Answered(n1, p, s, f)
      BY <1>q, <2>1, <2>2, ZenonT(60) DEF ProbePair, OneProbe, Probed, Probing, Answered
    <2> QED
      BY <2>1, <2>2, <2>3, <2>4, Zenon DEF ProbePair, NoProbe
  <1> QED
    BY <1>3, <1>4, <1>5, Zenon

LEMMA ProbesPop ==
  ASSUME NEW n, NEW p \in Pends, NEW y, NEW b, Probes(n, p, y, b),
         NEW s \in Servers, p[s] # <<>>, NEW f \in Servers, f # s,
         NEW p1, p1 = [p EXCEPT ![s] = Tail(@)]
  PROVE  /\ Probes(n, p1, y, b)
         /\ Entry(Head(p[s]), f, "STEAL_PROBE") => NoProbe(n, p1, f, s) /\ Expected(y, b, f, s)
         /\ Entry(Head(p[s]), f, "STEAL_PROBE_RESP") =>
              NoProbe(n, p1, s, f) /\ Expected(y, b, s, f)
  <1>q. p[s] \in Seq(PendingRecords) /\ p1[s] = Tail(p[s]) /\ p1[f] = p[f]
    BY Zenon DEF Pends
  <1>t. /\ FewerEntries(p1[s], p[s])
        /\ \A m : Entry(Head(p[s]), f, m) =>
             HasEntry(p[s], f, m) /\ (OnceEntry(p[s], f, m) => ~HasEntry(p1[s], f, m))
    BY <1>q, EntryTail, SMT, SMTT(30)
  <1>1. ASSUME NEW u \in Servers PROVE FewerEntries(p1[u], p[u])
    <2>1. CASE u # s
      <3>1. p1[u] = p[u]
        BY <2>1, Zenon DEF Pends
      <3> QED
        BY <3>1, Zenon DEF FewerEntries
    <2> QED
      BY <1>t, <2>1, Zenon
  <1>2. \A a, c \in Servers : Fewer(n[<<a, c>>], n[<<a, c>>])
    BY DEF Fewer
  <1>3. Probes(n, p1, y, b)
    BY <1>1, <1>2, ProbesFewer, Zenon
  <1>4. ASSUME Entry(Head(p[s]), f, "STEAL_PROBE")
        PROVE  NoProbe(n, p1, f, s) /\ Expected(y, b, f, s)
    <2>1. ProbePair(n, p, y, b, f, s)
      BY Zenon DEF Probes
    <2>2. Probed(n, p, f, s)
      BY <1>4, <1>t, Zenon DEF Probed
    <2>3. ~Probed(n, p1, f, s)
      BY <1>4, <1>t, <2>1, Zenon DEF Probed, ProbePair, OneProbe
    <2>4. ~Probing(n, p1, f, s) /\ ~Answering(n, p1, f, s) /\ ~Answered(n, p1, f, s)
      BY <1>q, <2>1, <2>2, Zenon DEF ProbePair, OneProbe, Probing, Answering, Answered
    <2> QED
      BY <2>1, <2>2, <2>3, <2>4, ZenonT(60) DEF ProbePair, NoProbe
  <1>5. ASSUME Entry(Head(p[s]), f, "STEAL_PROBE_RESP")
        PROVE  NoProbe(n, p1, s, f) /\ Expected(y, b, s, f)
    <2>1. ProbePair(n, p, y, b, s, f)
      BY Zenon DEF Probes
    <2>2. Answered(n, p, s, f)
      BY <1>5, <1>t, Zenon DEF Answered
    <2>3. ~Answered(n, p1, s, f)
      BY <1>5, <1>t, <2>1, Zenon DEF Answered, ProbePair, OneProbe
    <2>4. ~Probed(n, p1, s, f) /\ ~Probing(n, p1, s, f) /\ ~Answering(n, p1, s, f)
      BY <1>q, <2>1, <2>2, Zenon DEF ProbePair, OneProbe, Probed, Probing, Answering
    <2> QED
      BY <2>1, <2>2, <2>3, <2>4, Zenon DEF ProbePair, NoProbe
  <1> QED
    BY <1>3, <1>4, <1>5, Zenon

-----------------------------------------------------------------------------
(* The three together.                                                     *)

Good(n, p, y, b, h) == Calm(n, p, y, h) /\ Probes(n, p, y, b) /\ Entries(n, p)

\* Only the expectations change.
LEMMA GoodExpect ==
  ASSUME NEW n, NEW p, NEW y, NEW b, Probes(n, p, y, b), NEW z, NEW c,
         \A s, f \in Servers :
           s # f /\ Expected(y, b, s, f) => Expected(z, c, s, f) \/ NoProbe(n, p, s, f)
  PROVE  Probes(n, p, z, c)
  BY DEF Probes, ProbePair

\* xlb_sync2() starts.
LEMMA GoodStart ==
  ASSUME NEW n \in Nets, NEW p \in Pends, NEW y \in Syncs, NEW b, NEW h, Good(n, p, y, b, h),
         NEW s \in Servers, NEW t \in Servers, NEW m \in Modes, y[s].to = None,
         s \notin h \/ m = "SHUTDOWN",
         m = "STEAL_PROBE" => s # t /\ t \notin b[s],
         m = "STEAL_PROBE_RESP" => s # t /\ NoProbe(n, p, t, s) /\ Expected(y, b, t, s),
         NEW n1, n1 = [n EXCEPT ![<<s, t>>] = Append(@, m)],
         NEW y1, y1 = [y EXCEPT ![s] = [to |-> t, mode |-> m, accepted |-> FALSE]]
  PROVE  Good(n1, p, y1, b, h)
  <1>1. Calm(n1, p, y1, h)
    BY CalmStart, Zenon DEF Good
  <1>y. /\ y1[s] = [to |-> t, mode |-> m, accepted |-> FALSE]
        /\ \A a \in Servers \ {s} : y1[a] = y[a]
    BY DEF Syncs
  <1>2. Probes(n, p, y1, b)
    <2>1. ASSUME NEW a \in Servers, NEW c \in Servers, Expected(y, b, a, c)
          PROVE  Expected(y1, b, a, c)
      <3>1. CASE a = s
        BY <2>1, <3>1, Ranks, ZenonT(60) DEF Expected
      <3> QED
        BY <1>y, <2>1, <3>1, Zenon DEF Expected
    <2> QED
      BY <2>1, GoodExpect, Zenon DEF Good
  <1>3. ASSUME m = "STEAL_PROBE" PROVE NoProbe(n, p, s, t) /\ Expected(y1, b, s, t)
    <2>1. ~Expected(y, b, s, t)
      BY <1>3, Ranks, Zenon DEF Expected
    <2>2. ProbePair(n, p, y, b, s, t)
      BY <1>3, Zenon DEF Good, Probes
    <2>3. Expected(y1, b, s, t)
      BY <1>3, <1>y, SMT, SMTT(30) DEF Expected
    <2> QED
      BY <2>1, <2>2, <2>3, Zenon DEF ProbePair
  <1>4. m = "STEAL_PROBE_RESP" => NoProbe(n, p, t, s) /\ Expected(y1, b, t, s)
    BY <1>y, Zenon DEF Expected
  <1>5. Probes(n1, p, y1, b)
    BY <1>2, <1>3, <1>4, ProbesSend, ZenonT(60)
  <1>6. Entries(n1, p)
    <2>1. ASSUME NEW u \in Servers, Has(n1[<<u, u>>], "STEAL_PROBE_RESP") PROVE FALSE
      <3>1. ~Has(n[<<u, u>>], "STEAL_PROBE_RESP") /\ n[<<u, u>>] \in Seq(Modes)
        BY DEF Good, Entries, Nets, Pairs
      <3>2. n1[<<u, u>>] = IF u = s /\ u = t THEN Append(n[<<u, u>>], m) ELSE n[<<u, u>>]
        BY Zenon DEF Nets, Pairs
      <3>3. u = s /\ u = t /\ Has(Append(n[<<u, u>>], m), "STEAL_PROBE_RESP")
        BY <2>1, <3>1, <3>2, ZenonT(60)
      <3>4. "STEAL_PROBE_RESP" \in Modes
        BY ZenonT(60) DEF Modes
      <3>5. m = "STEAL_PROBE_RESP"
        BY <3>1, <3>3, <3>4, HasAppend, ZenonT(60)
      <3> QED
        BY <3>3, <3>5, ZenonT(60)
    <2> QED
      BY <2>1 DEF Good, Entries
  <1> QED
    BY <1>1, <1>5, <1>6, Zenon DEF Good

\* A sync ends: accepted, sent, or (server s shuts down) cancelled.
LEMMA ProbesEnd ==
  ASSUME NEW n, NEW p, NEW y \in Syncs, NEW b \in [Servers -> SUBSET Servers],
         Probes(n, p, y, b), NEW s \in Servers, NEW c,
         c = IF y[s].mode = "STEAL_PROBE" THEN [b EXCEPT ![s] = @ \cup {y[s].to}] ELSE b
  PROVE  Probes(n, p, [y EXCEPT ![s] = NoSync], c)
  <1>y. PICK z : z = [y EXCEPT ![s] = NoSync]
    BY Zenon
  <1>1. ASSUME NEW a \in Servers, NEW f \in Servers, Expected(y, b, a, f)
        PROVE  Expected(z, c, a, f)
    <2>1. b[a] \subseteq c[a]
      BY Zenon
    <2>2. CASE a # s
      <3>1. z[a] = y[a]
        BY <1>y, <2>2, Zenon DEF Syncs
      <3> QED
        BY <1>1, <2>1, <3>1, Zenon DEF Expected
    <2>3. CASE a = s
      <3>1. CASE f \in b[s]
        BY <2>1, <2>3, <3>1, Zenon DEF Expected
      <3>2. CASE y[s].to = f /\ y[s].mode = "STEAL_PROBE"
        BY <2>3, <3>2, Zenon DEF Expected
      <3> QED
        BY <1>1, <2>3, <3>1, <3>2, ZenonT(60) DEF Expected
    <2> QED
      BY <2>2, <2>3, Zenon
  <1> QED
    BY <1>y, <1>1, GoodExpect, Zenon

LEMMA GoodEnd ==
  ASSUME NEW n, NEW p, NEW y \in Syncs, NEW b \in [Servers -> SUBSET Servers], NEW h,
         Good(n, p, y, b, h), NEW s \in Servers,
         y[s].accepted \/ ~AcceptRequired(y[s].mode), NEW c,
         c = IF y[s].mode = "STEAL_PROBE" THEN [b EXCEPT ![s] = @ \cup {y[s].to}] ELSE b
  PROVE  Good(n, p, [y EXCEPT ![s] = NoSync], c, h)
  BY CalmEnd, ProbesEnd, Zenon DEF Good

\* The request of f that was taken is accepted.
LEMMA GoodRespond ==
  ASSUME NEW n, NEW p, NEW y \in Syncs, NEW b, NEW h, Good(n, p, y, b, h),
         NEW s \in Servers, NEW f \in Servers, ~Outstanding(n, p, f, s)
  PROVE  Good(n, p, [y EXCEPT ![f].accepted = @ \/ y[f].to = s], b, h)
  <1>y. PICK y1 : y1 = [y EXCEPT ![f].accepted = @ \/ y[f].to = s]
    BY Zenon
  <1>0. /\ y1[f] = [y[f] EXCEPT !.accepted = @ \/ y[f].to = s]
        /\ \A g \in Servers \ {f} : y1[g] = y[g]
    BY <1>y, Zenon DEF Syncs
  <1>1. y1[f].to = y[f].to /\ y1[f].mode = y[f].mode
    BY <1>0, SMT, SMTT(30) DEF Syncs, SyncRecords
  <1>2. \A a, c \in Servers : Expected(y, b, a, c) => Expected(y1, b, a, c)
    BY <1>0, <1>1, Zenon DEF Expected
  <1>3. Probes(n, p, y1, b)
    BY <1>2, GoodExpect, Zenon DEF Good
  <1>4. Calm(n, p, y1, h)
    BY <1>y, CalmRespond, Zenon DEF Good
  <1> QED
    BY <1>y, <1>3, <1>4, Zenon DEF Good

\* What the handler of a message m of f at server s may rely on, once the
\* message is off the channel or the list.
Taken(n, p, y, b, s, f, m) ==
  /\ AcceptRequired(m) => ~Outstanding(n, p, f, s)
  /\ m = "STEAL_PROBE" => NoProbe(n, p, f, s) /\ Expected(y, b, f, s)
  /\ m = "STEAL_PROBE_RESP" => NoProbe(n, p, s, f) /\ Expected(y, b, s, f)

LEMMA GoodTake ==
  ASSUME NEW n \in Nets, NEW p \in Pends, NEW y, NEW b, NEW h, Good(n, p, y, b, h),
         NEW s \in Servers, NEW f \in Servers, f # s, n[<<f, s>>] # <<>>,
         NEW n1, n1 = [n EXCEPT ![<<f, s>>] = Tail(@)]
  PROVE  Good(n1, p, y, b, h) /\ Taken(n1, p, y, b, s, f, Head(n[<<f, s>>]))
  <1>1. /\ Calm(n1, p, y, h)
        /\ AcceptRequired(Head(n[<<f, s>>])) => ~Outstanding(n1, p, f, s)
    BY CalmTake, Zenon DEF Good
  <1>2. PICK m : m = Head(n[<<f, s>>])
    OBVIOUS
  <1>3. /\ Probes(n1, p, y, b)
        /\ m = "STEAL_PROBE" => NoProbe(n1, p, f, s) /\ Expected(y, b, f, s)
        /\ m = "STEAL_PROBE_RESP" => NoProbe(n1, p, s, f) /\ Expected(y, b, s, f)
    BY <1>2, ProbesTake, ZenonT(200) DEF Good
  <1>4. \A u \in Servers : n1[<<u, u>>] = n[<<u, u>>]
    BY DEF Nets, Pairs
  <1>5. Entries(n1, p)
    BY <1>4 DEF Good, Entries
  <1> QED
    BY <1>1, <1>2, <1>3, <1>5, Zenon DEF Good, Taken

LEMMA GoodPop ==
  ASSUME NEW n \in Nets, NEW p \in Pends, NEW y, NEW b, NEW h, Good(n, p, y, b, h),
         NEW s \in Servers, p[s] # <<>>, NEW e, e = Head(p[s]),
         NEW p1, p1 = [p EXCEPT ![s] = Tail(@)]
  PROVE  /\ Good(n, p1, y, b, h) /\ EntryOK(e, s) /\ e \in PendingRecords
         /\ e.kind = "DEFERRED_SYNC" \/ ~AcceptRequired(e.mode) =>
              Taken(n, p1, y, b, s, e.rank, e.mode)
         /\ e.kind = "DEFERRED_SYNC" /\ AcceptRequired(e.mode) => LastOf(p1[s], e.rank)
  <1>q. /\ p[s] \in Seq(PendingRecords) /\ p1[s] = Tail(p[s])
        /\ \A u \in Servers \ {s} : p1[u] = p[u]
    BY Zenon DEF Pends
  <1>i. /\ 1 \in 1..Len(p[s]) /\ e = p[s][1] /\ e \in PendingRecords
        /\ \A i \in 1..Len(p1[s]) : i + 1 \in 1..Len(p[s]) /\ p1[s][i] = p[s][i + 1]
    <2>1. PICK r, x : r = p[s] /\ x = p1[s]
      BY Zenon
    <2>2. r \in Seq(PendingRecords) /\ x = Tail(r) /\ r # <<>> /\ e = Head(r)
      BY <1>q, <2>1, ZenonT(60)
    <2>3. /\ 1 \in 1..Len(r) /\ e = r[1] /\ e \in PendingRecords
          /\ \A i \in 1..Len(x) : i + 1 \in 1..Len(r) /\ x[i] = r[i + 1]
      BY <2>2, SMT, SMTT(30)
    <2> QED
      BY <2>1, <2>3, Zenon
  <1>e. EntryOK(e, s) /\ e.rank \in Servers /\ e.rank # s
    <2>1. EntryOK(e, s)
      BY <1>i, Zenon DEF Good, Entries
    <2>2. e.rank \in Servers
      BY <1>i, Zenon DEF PendingRecords
    <2> QED
      BY <2>1, <2>2, Zenon DEF EntryOK
  <1>1. /\ Calm(n, p1, y, h)
        /\ \A f \in Servers : DeferredOf(Head(p[s]), f) =>
             ~Outstanding(n, p1, f, s) /\ LastOf(p1[s], f)
    <2>1. Calm(n, p, y, h)
      BY Zenon DEF Good
    <2> QED
      BY <2>1, CalmPop, ZenonT(60)
  <1>2. e.kind = "DEFERRED_SYNC" /\ AcceptRequired(e.mode) => DeferredOf(Head(p[s]), e.rank)
    BY DEF DeferredOf
  <1>3. /\ Probes(n, p1, y, b)
        /\ Entry(Head(p[s]), e.rank, "STEAL_PROBE") =>
             NoProbe(n, p1, e.rank, s) /\ Expected(y, b, e.rank, s)
        /\ Entry(Head(p[s]), e.rank, "STEAL_PROBE_RESP") =>
             NoProbe(n, p1, s, e.rank) /\ Expected(y, b, s, e.rank)
    BY <1>e, ProbesPop, ZenonT(60) DEF Good
  <1>4. \A m : e.mode = m => Entry(Head(p[s]), e.rank, m)
    BY Zenon DEF Entry
  <1>5. Entries(n, p1)
    <2>1. ASSUME NEW u \in Servers, NEW i \in 1..Len(p1[u]) PROVE EntryOK(p1[u][i], u)
      <3>1. CASE u = s
        <4>1. PICK j \in 1..Len(p[s]) : p1[s][i] = p[s][j]
          BY <1>i, <3>1, Zenon
        <4>2. EntryOK(p[s][j], s)
          BY Zenon DEF Good, Entries
        <4> QED
          BY <3>1, <4>1, <4>2, Zenon
      <3>2. CASE u # s
        BY <1>q, <2>1, <3>2, Zenon DEF Good, Entries
      <3> QED
        BY <3>1, <3>2, Zenon
    <2> QED
      BY <2>1 DEF Good, Entries
  <1>6. e.kind = "DEFERRED_SYNC" \/ ~AcceptRequired(e.mode) =>
          Taken(n, p1, y, b, s, e.rank, e.mode)
    BY <1>1, <1>2, <1>3, <1>4, <1>e, ZenonT(60) DEF Taken
  <1>7. Good(n, p1, y, b, h)
    BY <1>1, <1>3, <1>5, Zenon DEF Good
  <1> QED
    BY <1>1, <1>2, <1>6, <1>7, <1>e, <1>i, ZenonT(60)

\* A message is moved to the pending list, as an entry that fits it.
LEMMA GoodDefer ==
  ASSUME NEW n \in Nets, NEW p \in Pends, NEW y, NEW b, NEW h, Good(n, p, y, b, h),
         NEW s \in Servers, NEW f \in Servers, f # s, n[<<f, s>>] # <<>>,
         NEW e \in PendingRecords, e.rank = f, e.mode = Head(n[<<f, s>>]), EntryOK(e, s),
         NEW n1, n1 = [n EXCEPT ![<<f, s>>] = Tail(@)],
         NEW p1, p1 = [p EXCEPT ![s] = Append(@, e)]
  PROVE  Good(n1, p1, y, b, h)
  <1>1. Calm(n1, p1, y, h)
    BY CalmDefer, Zenon DEF Good
  <1>2. Good(n1, p, y, b, h) /\ Taken(n1, p, y, b, s, f, Head(n[<<f, s>>]))
    <2>1. f \in Servers /\ s \in Servers /\ f # s /\ n[<<f, s>>] # <<>>
      OBVIOUS
    <2> QED
      BY <2>1, GoodTake, Zenon
  <1>3. Probes(n1, p1, y, b)
    <2>1. /\ Probes(n1, p, y, b) /\ e.rank # s
          /\ e.mode = "STEAL_PROBE" => NoProbe(n1, p, e.rank, s) /\ Expected(y, b, e.rank, s)
          /\ e.mode = "STEAL_PROBE_RESP" => NoProbe(n1, p, s, e.rank) /\ Expected(y, b, s, e.rank)
      BY <1>2, Zenon DEF Good, Taken
    <2> QED
      BY <2>1, ProbesDefer, Zenon
  <1>q. /\ p[s] \in Seq(PendingRecords) /\ p1[s] = Append(p[s], e)
        /\ \A u \in Servers \ {s} : p1[u] = p[u]
    BY Zenon DEF Pends
  <1>i. \A i \in 1..Len(p1[s]) : (i \in 1..Len(p[s]) /\ p1[s][i] = p[s][i]) \/ p1[s][i] = e
    <2>1. PICK r, x : r = p[s] /\ x = p1[s]
      BY Zenon
    <2>2. r \in Seq(PendingRecords) /\ x = Append(r, e)
      BY <1>q, <2>1, Zenon
    <2>3. \A i \in 1..Len(x) : (i \in 1..Len(r) /\ x[i] = r[i]) \/ x[i] = e
      BY <2>2, SMT, SMTT(30)
    <2> QED
      BY <2>1, <2>3, ZenonT(60)
  <1>4. ASSUME NEW u \in Servers, NEW i \in 1..Len(p1[u]) PROVE EntryOK(p1[u][i], u)
    <2>1. CASE u = s
      BY <1>2, <1>i, <1>4, <2>1, ZenonT(60) DEF Good, Entries
    <2>2. CASE u # s
      BY <1>2, <1>q, <1>4, <2>2, ZenonT(60) DEF Good, Entries
    <2> QED
      BY <2>1, <2>2, Zenon
  <1>5. Entries(n1, p1)
    BY <1>2, <1>4 DEF Good, Entries
  <1> QED
    BY <1>1, <1>3, <1>5, Zenon DEF Good

\* The sync of s is cancelled: it gets the shutdown message.
LEMMA GoodCancel ==
  ASSUME NEW n \in Nets, NEW p \in Pends, NEW y \in Syncs,
         NEW b \in [Servers -> SUBSET Servers], NEW h, Good(n, p, y, b, h),
         NEW s \in Servers, NEW t \in Servers, NEW n1,
         \/ n1 = n
         \/ /\ n[<<s, t>>] # <<>>
            /\ n1 = [n EXCEPT ![<<s, t>>] = SubSeq(@, 1, Len(@) - 1)],
         NEW c,
         c = IF y[s].mode = "STEAL_PROBE" THEN [b EXCEPT ![s] = @ \cup {y[s].to}] ELSE b
  PROVE  Good(n1, p, [y EXCEPT ![s] = NoSync], c, h \cup {s})
  <1>y. PICK z : z = [y EXCEPT ![s] = NoSync]
    BY Zenon
  <1>1. Calm(n1, p, z, h \cup {s})
    BY <1>y, CalmCancel, Zenon DEF Good
  <1>2. Probes(n, p, z, c)
    BY <1>y, ProbesEnd, Zenon DEF Good
  <1>3. ASSUME NEW f \in Servers, NEW u \in Servers PROVE Fewer(n1[<<f, u>>], n[<<f, u>>])
    <2>1. n[<<f, u>>] \in Seq(Modes)
      BY Zenon DEF Nets, Pairs
    <2>2. CASE n1[<<f, u>>] = n[<<f, u>>]
      BY <2>2, Zenon DEF Fewer
    <2>3. CASE /\ n[<<f, u>>] # <<>>
               /\ n1[<<f, u>>] = SubSeq(n[<<f, u>>], 1, Len(n[<<f, u>>]) - 1)
      <3>1. Quiet(n[<<f, u>>], p[u], f) /\ p[u] \in Seq(PendingRecords)
        BY DEF Good, Calm, CalmPair, Pends
      <3>2. /\ n1[<<f, u>>] \in Seq(Modes)
            /\ \A i \in 1..Len(n1[<<f, u>>]) :
                 n1[<<f, u>>][i] = n[<<f, u>>][i] /\ i \in 1..Len(n[<<f, u>>])
        BY <2>1, <2>3, <3>1, QuietFront, Zenon
      <3> QED
        BY <2>1, <3>2, HasFront, ZenonT(60)
    <2> QED
      BY <2>2, <2>3, Zenon DEF Nets, Pairs
  <1>4. \A u \in Servers : FewerEntries(p[u], p[u])
    BY Zenon DEF FewerEntries
  <1>5. Probes(n1, p, z, c)
    BY <1>2, <1>3, <1>4, ProbesFewer, ZenonT(60)
  <1>6. Entries(n1, p)
    <2>1. "STEAL_PROBE_RESP" \in Modes
      BY Zenon DEF Modes
    <2> QED
      BY <1>3, <2>1 DEF Good, Entries, Fewer
  <1> QED
    BY <1>y, <1>1, <1>5, <1>6, ZenonT(60) DEF Good

\* More servers shut down; probes are recorded; an answered one is removed.
LEMMA GoodMore ==
  ASSUME NEW n, NEW p, NEW y, NEW b, NEW h, Good(n, p, y, b, h), NEW k, h \subseteq k,
         NEW c, \A s \in Servers : \A f \in Servers :
                  s # f /\ f \in b[s] => f \in c[s] \/ NoProbe(n, p, s, f)
  PROVE  Good(n, p, y, c, k)
  <1>1. Calm(n, p, y, k)
    BY CalmMore, Zenon DEF Good
  <1>2. \A s, f \in Servers :
          s # f /\ Expected(y, b, s, f) => Expected(y, c, s, f) \/ NoProbe(n, p, s, f)
    BY ZenonT(60) DEF Expected
  <1>3. Probes(n, p, y, c)
    BY <1>2, GoodExpect, ZenonT(60) DEF Good
  <1> QED
    BY <1>1, <1>3, Zenon DEF Good

-----------------------------------------------------------------------------
(* The steps.                                                              *)

GoodNow == Good(net, pending, syncing, probes, shutting)

LEMMA OrderTypes ==
  ASSUME TypeOK
  PROVE  /\ net \in Nets /\ pending \in Pends /\ syncing \in Syncs
         /\ probes \in [Servers -> SUBSET Servers]
  BY ZenonT(60) DEF TypeOK, Nets, Pends, Syncs

\* xlb_sync2(), from a network n, lists p, probes b.
LEMMA Sync2Good ==
  ASSUME TypeOK, NEW s \in Servers, NEW t \in Servers, NEW m \in Modes, ~InSync(s),
         NEW n \in Nets, NEW p \in Pends, NEW b, NEW h, Good(n, p, syncing, b, h),
         Sync2(s, t, m, n), s \in h => s \in shutting \/ m = "SHUTDOWN",
         m = "STEAL_PROBE" => s \in shutting \/ (s # t /\ t \notin b[s]),
         m = "STEAL_PROBE_RESP" =>
           s # t /\ NoProbe(n, p, t, s) /\ Expected(syncing, b, t, s)
  PROVE  Good(net', p, syncing', b, h)
  <1>1. CASE s \notin shutting \/ m = "SHUTDOWN"
    <2>1. /\ syncing' = [syncing EXCEPT ![s] = [to |-> t, mode |-> m, accepted |-> FALSE]]
          /\ net' = [n EXCEPT ![<<s, t>>] = Append(@, m)]
      BY <1>1, Zenon DEF Sync2
    <2>2. /\ syncing[s].to = None /\ syncing \in Syncs
          /\ s \notin h \/ m = "SHUTDOWN"
          /\ m = "STEAL_PROBE" => s # t /\ t \notin b[s]
      BY <1>1, OrderTypes, Zenon DEF InSync
    <2> QED
      BY <2>1, <2>2, GoodStart, ZenonT(60)
  <1>2. CASE s \in shutting /\ m # "SHUTDOWN"
    <2>1. net' = n /\ syncing' = syncing
      BY <1>2, Zenon DEF Sync2
    <2> QED
      BY <2>1, Zenon
  <1> QED
    BY <1>1, <1>2, Zenon

\* xlb_accept_sync(), once the message m of f is off its channel or its list.
LEMMA AcceptGood ==
  ASSUME TypeOK, NEW s \in Servers, NEW f \in Servers, f # s, NEW m \in Modes, ~InSync(s),
         NEW n \in Nets, NEW p \in Pends, Good(n, p, syncing, probes, shutting),
         Taken(n, p, syncing, probes, s, f, m), AcceptSync(s, f, m, n)
  PROVE  Good(net', p, syncing', probes', shutting')
  <1>m. {"STEAL_PROBE_RESP", "STEAL", "NOTIFY"} \subseteq Modes
    BY Zenon DEF Modes
  <1>t. syncing \in Syncs /\ probes \in [Servers -> SUBSET Servers]
    BY OrderTypes, Zenon
  <1>1. CASE Serve(s, f, m, n) /\ UNCHANGED <<probes, shutting>>
    <2>1. net' = n /\ ~Outstanding(n, p, f, s)
          /\ syncing' = [syncing EXCEPT ![f].accepted = @ \/ syncing[f].to = s]
      BY <1>1, Zenon DEF Serve, Respond, Taken
    <2>2. Good(n, p, syncing', probes, shutting)
      BY <1>t, <2>1, GoodRespond, ZenonT(60)
    <2> QED
      BY <1>1, <2>1, <2>2, Zenon
  <1>2. CASE m = "STEAL_PROBE" /\ Sync2(s, f, "STEAL_PROBE_RESP", n)
             /\ UNCHANGED <<probes, shutting>>
    <2>1. NoProbe(n, p, f, s) /\ Expected(syncing, probes, f, s)
      BY <1>2, Zenon DEF Taken
    <2>2. PICK k \in Modes : k = "STEAL_PROBE_RESP" /\ k # "STEAL_PROBE"
      BY <1>m, Zenon
    <2>3. Good(net', p, syncing', probes, shutting)
      BY <1>2, <2>1, <2>2, Sync2Good, ZenonT(60)
    <2> QED
      BY <1>2, <2>3, Zenon
  <1>3. CASE /\ m = "STEAL_PROBE_RESP" /\ probes' = [probes EXCEPT ![s] = @ \ {f}]
             /\ Sync2(s, f, "STEAL", n) \/ NoSync2(n)
             /\ UNCHANGED shutting
    <2>1. NoProbe(n, p, s, f)
      BY <1>3, Zenon DEF Taken
    <2>2. ASSUME NEW a \in Servers, NEW c \in Servers, a # c, c \in probes[a]
          PROVE  c \in probes'[a] \/ NoProbe(n, p, a, c)
      BY <1>3, <1>t, <2>1, <2>2, ZenonT(60)
    <2>3. Good(n, p, syncing, probes', shutting)
      BY <2>2, GoodMore, Zenon
    <2>4. CASE Sync2(s, f, "STEAL", n)
      <3>1. PICK k \in Modes : k = "STEAL" /\ k # "STEAL_PROBE" /\ k # "STEAL_PROBE_RESP"
        BY <1>m, Zenon
      <3>2. PICK b : b = probes'
        BY Zenon
      <3>3. Good(net', p, syncing', b, shutting)
        BY <2>3, <2>4, <3>1, <3>2, Sync2Good, ZenonT(60)
      <3> QED
        BY <1>3, <3>2, <3>3, Zenon
    <2>5. CASE NoSync2(n)
      BY <1>3, <2>3, <2>5, Zenon DEF NoSync2
    <2> QED
      BY <1>3, <2>4, <2>5, Zenon
  <1>4. CASE NoSync2(n) /\ UNCHANGED <<probes, shutting>>
    BY <1>4, Zenon DEF NoSync2
  <1>5. CASE Sync2(s, f, "NOTIFY", n) /\ UNCHANGED <<probes, shutting>>
    <2>1. PICK k \in Modes : k = "NOTIFY" /\ k # "STEAL_PROBE" /\ k # "STEAL_PROBE_RESP"
      BY <1>m, ZenonT(60)
    <2>2. Good(net', p, syncing', probes, shutting)
      BY <1>5, <2>1, Sync2Good, Zenon
    <2> QED
      BY <1>5, <2>2, Zenon
  <1>6. CASE NoSync2(n) /\ shutting' = shutting \cup {s} /\ UNCHANGED probes
    <2>1. Good(n, p, syncing, probes, shutting')
      BY <1>6, GoodMore, Zenon
    <2> QED
      BY <1>6, <2>1, Zenon DEF NoSync2
  <1> QED
    BY <1>1, <1>2, <1>3, <1>4, <1>5, <1>6, ZenonT(60)
       DEF AcceptSync, HandleStealProbe, HandleStealProbeResp, HandleRefcount,
           SendNotify, Subscribed, HandleNotify, HandleShutdown

\* Server s gets no refcount of f on its list while it serves f, and the other
\* servers stay as they are.
NoRefcount(r, f) == \A i \in 1..Len(r) : ~(r[i].rank = f /\ r[i].mode = "REFCOUNT")

LEMMA RefcountsKept ==
  ASSUME RefcountsInOrder, NEW s \in Servers,
         \A u \in Servers \ {s} : /\ pending'[u] = pending[u]
                                  /\ syncing'[u].to = syncing[u].to
                                  /\ serving'[u] = serving[u],
         \/ serving'[s] = None
         \/ syncing'[s].to # None
         \/ NoRefcount(pending'[s], serving'[s])
  PROVE  RefcountsInOrder'
  <1> SUFFICES ASSUME NEW u \in Servers, serving'[u] # None, syncing'[u].to = None
               PROVE  NoRefcount(pending'[u], serving'[u])
    BY Zenon DEF RefcountsInOrder, InSync, NoRefcount
  <1>1. CASE u = s
    BY <1>1, Zenon
  <1>2. CASE u # s
    <2>1. NoRefcount(pending[u], serving[u])
      BY <1>2, Zenon DEF RefcountsInOrder, InSync, NoRefcount
    <2> QED
      BY <1>2, <2>1, Zenon
  <1> QED
    BY <1>1, <1>2, Zenon

\* Nothing that matters here changes.
LEMMA OrderSame ==
  ASSUME GoodNow, RefcountsInOrder,
         UNCHANGED <<net, pending, syncing, probes, shutting>>,
         NEW s \in Servers, serving \in [Servers -> Servers \cup {None}],
         serving' = serving \/ serving' = [serving EXCEPT ![s] = None]
  PROVE  GoodNow' /\ RefcountsInOrder'
  <1>1. GoodNow'
    BY Zenon DEF GoodNow
  <1>2. RefcountsInOrder'
    BY ZenonT(200) DEF RefcountsInOrder, InSync
  <1> QED
    BY <1>1, <1>2, Zenon

\* A sync message outside a sync: at the top of the loop no refcount is
\* pending, so a request may be served.
LEMMA NextSyncMsgOrder ==
  ASSUME TypeOK, LoopIsRunning, GoodNow, RefcountsInOrder,
         NEW s \in Servers, NEW f \in Servers, f # s, NextSyncMsg(s, f)
  PROVE  GoodNow' /\ RefcountsInOrder'
  <1>1. PICK m, n : m = Head(net[<<f, s>>]) /\ n = Take(f, s)
    BY Zenon
  <1>2. /\ n \in Nets /\ m \in Modes /\ net \in Nets /\ pending \in Pends
    BY <1>1, TakeType, OrderTypes, ZenonT(60) DEF NextSyncMsg, TypeOK, Nets
  <1>3. /\ AcceptSync(s, f, m, n) /\ Running(s) /\ net[<<f, s>>] # <<>>
        /\ UNCHANGED <<pending, replying>> /\ phase[s] = "loop"
    BY <1>1, Zenon DEF NextSyncMsg
  <1>4. ~InSync(s) /\ serving[s] = None
    BY <1>3, Zenon DEF Running, Free
  <1>5. /\ Good(n, pending, syncing, probes, shutting)
        /\ Taken(n, pending, syncing, probes, s, f, m)
    BY <1>1, <1>2, <1>3, GoodTake, ZenonT(60) DEF GoodNow, Take
  <1>6. Good(net', pending, syncing', probes', shutting')
    BY <1>2, <1>3, <1>4, <1>5, AcceptGood, ZenonT(60)
  <1>7. GoodNow'
    BY <1>3, <1>6, Zenon DEF GoodNow
  <1>8. \A u \in Servers \ {s} : /\ pending'[u] = pending[u]
                                 /\ syncing'[u].to = syncing[u].to
                                 /\ serving'[u] = serving[u]
    BY <1>3, AcceptOthers, ZenonT(60) DEF OthersKept
  <1>9. \A g : NoRefcount(pending'[s], g)
    <2>1. ~HavePendingNotifs(s)
      BY <1>3, Zenon DEF LoopIsRunning
    <2>2. \A i \in 1..Len(pending[s]) : EntryOK(pending[s][i], s)
      BY Zenon DEF GoodNow, Good, Entries
    <2> QED
      BY <1>3, <2>1, <2>2, ZenonT(60) DEF NoRefcount, HavePendingNotifs, EntryOK, IsPendingNotif
  <1> QED
    BY <1>7, <1>8, <1>9, RefcountsKept, Zenon

\* The next deferred entry: behind a deferred request nothing of its sender is
\* left but a shutdown message.
LEMMA DrainOneOrder ==
  ASSUME TypeOK, GoodNow, RefcountsInOrder, NEW s \in Servers, DrainOne(s)
  PROVE  GoodNow' /\ RefcountsInOrder'
  <1>1. PICK e, p : e = Head(pending[s]) /\ p = [pending EXCEPT ![s] = Tail(@)]
    BY Zenon
  <1>t. net \in Nets /\ pending \in Pends
    BY OrderTypes, Zenon
  <1>2. /\ Running(s) /\ pending' = p /\ pending[s] # <<>>
        /\ UNCHANGED replying
    BY <1>1, Zenon DEF DrainOne
  <1>3. ~InSync(s) /\ serving[s] = None
    BY <1>2, Zenon DEF Running, Free
  <1>4. /\ Good(net, p, syncing, probes, shutting) /\ EntryOK(e, s) /\ e \in PendingRecords
        /\ e.kind = "DEFERRED_SYNC" \/ ~AcceptRequired(e.mode) =>
             Taken(net, p, syncing, probes, s, e.rank, e.mode)
        /\ e.kind = "DEFERRED_SYNC" /\ AcceptRequired(e.mode) => LastOf(p[s], e.rank)
    <2>1. Good(net, pending, syncing, probes, shutting)
      BY DEF GoodNow
    <2> QED
      BY <1>1, <1>2, <1>t, <2>1, GoodPop, ZenonT(200)
  <1>5. PICK f, m : f = e.rank /\ m = e.mode
    OBVIOUS
  <1>6. f \in Servers /\ m \in Modes /\ f # s
    BY <1>4, <1>5 DEF PendingRecords, EntryOK
  <1>7. p \in Pends /\ \A u \in Servers \ {s} : p[u] = pending[u]
    <2>1. pending[s] \in Seq(PendingRecords)
      BY <1>t DEF Pends
    <2>2. Tail(pending[s]) \in Seq(PendingRecords)
      BY <1>2, <2>1
    <2> QED
      BY <1>1, <1>t, <2>2 DEF Pends
  \* The mode whose handler runs.
  <1>8. PICK k \in Modes : /\ AcceptSync(s, f, k, net)
                           /\ Taken(net, p, syncing, probes, s, f, k)
                           /\ AcceptRequired(k) => LastOf(p[s], f)
    <2>m. /\ {"REFCOUNT", "NOTIFY", "SUBSCRIBE", "STEAL_PROBE", "STEAL_PROBE_RESP"} \subseteq Modes
          /\ \A k \in {"REFCOUNT", "NOTIFY", "SUBSCRIBE", "STEAL_PROBE", "STEAL_PROBE_RESP"} :
               ~AcceptRequired(k)
      BY DEF Modes, AcceptRequired
    <2>1. CASE e.kind = "DEFERRED_SYNC" /\ AcceptSync(s, f, m, net)
      <3>1. Taken(net, p, syncing, probes, s, f, m)
            /\ (AcceptRequired(m) => LastOf(p[s], f))
        BY <1>4, <1>5, <2>1
      <3> QED
        BY <1>6, <2>1, <3>1
    <2>2. ASSUME NEW k \in {"REFCOUNT", "NOTIFY", "SUBSCRIBE"}
          PROVE  Taken(net, p, syncing, probes, s, f, k) /\ ~AcceptRequired(k)
      BY <2>m DEF Taken
    <2>3. CASE HandleRefcount(s, net) \/ HandleNotify(s, net) \/ SendNotify(s, f, net)
      <3>1. \E k \in {"REFCOUNT", "NOTIFY", "SUBSCRIBE"} : AcceptSync(s, f, k, net)
        BY <2>3 DEF AcceptSync
      <3> QED
        BY <2>2, <2>m, <3>1
    <2>4. CASE e.kind = "DEFERRED_STEAL_PROBE" /\ HandleStealProbe(s, f, net)
      <3>1. m = "STEAL_PROBE"
        BY <1>4, <1>5, <2>4, Zenon DEF EntryOK
      <3>2. Taken(net, p, syncing, probes, s, f, m) /\ ~AcceptRequired(m)
        BY <1>4, <1>5, <2>m, <3>1, Zenon
      <3>3. AcceptSync(s, f, m, net)
        BY <2>4, <3>1, ZenonT(60) DEF AcceptSync
      <3> QED
        BY <1>6, <3>2, <3>3
    <2>5. CASE e.kind = "DEFERRED_STEAL_PROBE_RESP" /\ HandleStealProbeResp(s, f, net)
      <3>1. m = "STEAL_PROBE_RESP"
        BY <1>4, <1>5, <2>5, ZenonT(60) DEF EntryOK
      <3>2. Taken(net, p, syncing, probes, s, f, m) /\ ~AcceptRequired(m)
        BY <1>4, <1>5, <2>m, <3>1, ZenonT(60)
      <3>3. AcceptSync(s, f, m, net)
        BY <2>5, <3>1, ZenonT(60) DEF AcceptSync
      <3> QED
        BY <1>6, <3>2, <3>3
    <2> QED
      BY <1>1, <1>5, <2>1, <2>3, <2>4, <2>5, Zenon DEF DrainOne
  <1>9. Good(net', p, syncing', probes', shutting')
    BY <1>3, <1>4, <1>6, <1>7, <1>8, <1>t, AcceptGood, ZenonT(60)
  <1>10. GoodNow'
    BY <1>2, <1>9, Zenon DEF GoodNow
  <1>11. \A u \in Servers \ {s} : /\ pending'[u] = pending[u]
                                  /\ syncing'[u].to = syncing[u].to
                                  /\ serving'[u] = serving[u]
    <2>1. \A u \in Servers \ {s} : pending'[u] = pending[u]
      BY <1>2, <1>7, ZenonT(60)
    <2>2. OthersKept(s)
      BY <1>2, <1>6, <1>8, <2>1, AcceptOthers, ZenonT(60)
    <2> QED
      BY <2>2, Zenon DEF OthersKept
  <1>12. serving'[s] = None \/ NoRefcount(pending'[s], serving'[s])
    <2>1. CASE Serve(s, f, k, net)
      <3>1. AcceptRequired(k) /\ serving'[s] \in {None, f}
        BY <1>3, <2>1, Zenon DEF Serve, TypeOK
      <3>2. NoRefcount(p[s], f)
        BY <1>8, <3>1, Zenon DEF LastOf, NoRefcount
      <3> QED
        BY <1>2, <3>1, <3>2, Zenon
    <2>2. CASE UNCHANGED serving
      BY <1>3, <2>2, Zenon
    <2> QED
      BY <1>8, <2>1, <2>2, ZenonT(60)
         DEF AcceptSync, HandleStealProbe, HandleStealProbeResp, HandleRefcount,
             SendNotify, Subscribed, HandleNotify, HandleShutdown
  <1> QED
    BY <1>10, <1>11, <1>12, RefcountsKept, ZenonT(60)

\* A sync message during a sync: a server that stays in its sync is not
\* concerned with the order, and one that cancels it serves nobody.
LEMMA InterruptOrder ==
  ASSUME TypeOK, GoodNow, RefcountsInOrder,
         NEW s \in Servers, NEW f \in Servers, f # s, Interrupt(s, f)
  PROVE  GoodNow' /\ RefcountsInOrder'
  <1>1. PICK m, n : m = Head(net[<<f, s>>]) /\ n = Take(f, s)
    BY Zenon
  <1>2. /\ n \in Nets /\ m \in Modes /\ net \in Nets /\ pending \in Pends
        /\ syncing \in Syncs /\ probes \in [Servers -> SUBSET Servers]
        /\ n = [net EXCEPT ![<<f, s>>] = Tail(@)]
    BY <1>1, TakeType, OrderTypes, ZenonT(60) DEF Interrupt, TypeOK, Nets, Take
  <1>3. InSync(s) /\ serving[s] = None /\ net[<<f, s>>] # <<>>
    BY Zenon DEF Interrupt
  <1>4. /\ Good(n, pending, syncing, probes, shutting)
        /\ Taken(n, pending, syncing, probes, s, f, m)
    BY <1>1, <1>2, <1>3, GoodTake, ZenonT(60) DEF GoodNow
  <1>5. CASE Serve(s, f, m, n) /\ UNCHANGED <<pending, shutting, probes>>
    <2>1. /\ net' = n /\ ~Outstanding(n, pending, f, s)
          /\ syncing' = [syncing EXCEPT ![f].accepted = @ \/ syncing[f].to = s]
      BY <1>4, <1>5, ZenonT(60) DEF Serve, Respond, Taken
    <2>2. Good(n, pending, syncing', probes, shutting)
      BY <1>2, <1>4, <2>1, GoodRespond, ZenonT(60)
    <2>3. GoodNow'
      BY <1>5, <2>1, <2>2, ZenonT(60) DEF GoodNow
    <2>4. /\ \A u \in Servers : syncing'[u].to = syncing[u].to
          /\ \A u \in Servers \ {s} : serving'[u] = serving[u]
      BY <1>5, ServeOthers, Zenon
    <2>5. syncing'[s].to # None
      BY <1>3, <2>4, Zenon DEF InSync
    <2> QED
      BY <1>5, <2>3, <2>4, <2>5, RefcountsKept, ZenonT(60)
  <1>6. ASSUME NEW k \in Kinds, Enqueue(s, k, f, m), NoSync2(n),
               UNCHANGED <<serving, shutting, probes>>,
               m = "REFCOUNT" => k \in {"DEFERRED_SYNC", "ACCEPTED_REFC"},
               k = "DEFERRED_STEAL_PROBE" => m = "STEAL_PROBE",
               k = "DEFERRED_STEAL_PROBE_RESP" => m = "STEAL_PROBE_RESP"
        PROVE  GoodNow' /\ RefcountsInOrder'
    <2>1. PICK e : e = [kind |-> k, rank |-> f, mode |-> m]
      BY Zenon
    <2>2. /\ e \in PendingRecords /\ e.rank = f /\ e.mode = m /\ EntryOK(e, s)
      BY <1>2, <1>6, <2>1, Zenon DEF PendingRecords, EntryOK
    <2>3. /\ pending' = [pending EXCEPT ![s] = Append(@, e)]
          /\ net' = n /\ UNCHANGED syncing
      BY <1>6, <2>1, ZenonT(60) DEF Enqueue, NoSync2
    <2>4. Good(n, pending', syncing, probes, shutting)
      <3>1. Good(net, pending, syncing, probes, shutting) /\ e.mode = Head(net[<<f, s>>])
        BY <1>1, <2>2, Zenon DEF GoodNow
      <3>2. PICK p : p = pending'
        BY Zenon
      <3>3. p = [pending EXCEPT ![s] = Append(@, e)]
        BY <2>3, <3>2, Zenon
      <3>4. Good(n, p, syncing, probes, shutting)
        BY <1>2, <1>3, <2>2, <3>1, <3>3, GoodDefer, ZenonT(60)
      <3> QED
        BY <3>2, <3>4, Zenon
    <2>5. GoodNow'
      BY <1>6, <2>3, <2>4, Zenon DEF GoodNow
    <2>6. \A u \in Servers \ {s} : pending'[u] = pending[u]
      BY <1>2, <2>3, Zenon DEF Pends
    <2>7. syncing'[s].to # None
      BY <1>3, <2>3, Zenon DEF InSync
    <2> QED
      BY <1>6, <2>3, <2>5, <2>6, <2>7, RefcountsKept, ZenonT(60)
  <1>7. CASE Defer(s, f, m) /\ NoSync2(n) /\ UNCHANGED <<serving, shutting, probes>>
    <2>1. CASE UNCHANGED pending
      <3>1. GoodNow'
        BY <1>4, <1>7, <2>1, ZenonT(60) DEF GoodNow, NoSync2
      <3>2. RefcountsInOrder'
        BY <1>7, <2>1, Zenon DEF RefcountsInOrder, InSync, NoSync2
      <3> QED
        BY <3>1, <3>2, ZenonT(60)
    <2>2. CASE \E k \in Kinds : /\ Enqueue(s, k, f, m)
                                /\ m = "REFCOUNT" => k \in {"DEFERRED_SYNC", "ACCEPTED_REFC"}
                                /\ k = "DEFERRED_STEAL_PROBE" => m = "STEAL_PROBE"
                                /\ k = "DEFERRED_STEAL_PROBE_RESP" => m = "STEAL_PROBE_RESP"
      BY <1>6, <1>7, <2>2, Zenon
    <2> QED
      BY <1>7, <2>1, <2>2, ZenonT(60) DEF Defer, Kinds
  <1>8. CASE Enqueue(s, "DEFERRED_SYNC", f, m) /\ NoSync2(n)
             /\ UNCHANGED <<serving, shutting, probes>>
    BY <1>6, <1>8, Zenon DEF Kinds
  <1>9. CASE CancelSync(s, f) /\ UNCHANGED <<pending, serving>>
    <2>1. syncing[s].to \in Servers
      BY <1>3, CallTypes, Zenon DEF InSync
    <2>2. PICK t \in Servers : t = syncing[s].to
      BY <2>1, Zenon
    <2>3. /\ shutting' = shutting \cup {s}
          /\ syncing' = [syncing EXCEPT ![s] = NoSync]
          /\ \/ net' = n
             \/ /\ n[<<s, t>>] # <<>>
                /\ net' = [n EXCEPT ![<<s, t>>] = SubSeq(@, 1, Len(@) - 1)]
          /\ probes' = IF syncing[s].mode = "STEAL_PROBE"
                       THEN [probes EXCEPT ![s] = @ \cup {syncing[s].to}] ELSE probes
      BY <1>1, <1>9, <2>2, ZenonT(60) DEF CancelSync, EndSync
    <2>4. PICK n1, c : n1 = net' /\ c = probes'
      OBVIOUS
    <2>5. Good(n1, pending, [syncing EXCEPT ![s] = NoSync], c, shutting \cup {s})
      BY <1>2, <1>4, <2>3, <2>4, GoodCancel, ZenonT(60)
    <2>6. GoodNow'
      BY <1>9, <2>3, <2>4, <2>5, ZenonT(60) DEF GoodNow
    <2>7. \A u \in Servers \ {s} : syncing'[u] = syncing[u]
      BY <1>2, <2>3, Zenon DEF Syncs
    <2> QED
      BY <1>3, <1>9, <2>6, <2>7, RefcountsKept, ZenonT(60)
  <1> QED
    BY <1>1, <1>5, <1>7, <1>8, <1>9, ZenonT(60) DEF Interrupt

\* A server in no call starts a sync that is no probe and no response.
LEMMA StartOrder ==
  ASSUME TypeOK, GoodNow, RefcountsInOrder, NEW s \in Servers, NEW t \in Servers,
         NEW m \in Modes \ {"STEAL_PROBE", "STEAL_PROBE_RESP"}, Free(s),
         Sync2(s, t, m, net) \/ NoSync2(net), UNCHANGED <<pending, serving, probes>>,
         shutting' = shutting \/ (m = "SHUTDOWN" /\ shutting' = shutting \cup {s})
  PROVE  GoodNow' /\ RefcountsInOrder'
  <1>1. ~InSync(s) /\ serving[s] = None
    BY DEF Free
  <1>t. net \in Nets /\ pending \in Pends
    BY OrderTypes, Zenon
  <1>2. Good(net, pending, syncing, probes, shutting')
    <2>1. Good(net, pending, syncing, probes, shutting) /\ shutting \subseteq shutting'
      BY Zenon DEF GoodNow
    <2> QED
      BY <2>1, GoodMore, Zenon
  <1>3. PICK h : h = shutting'
    BY Zenon
  <1>4. Good(net', pending, syncing', probes, h)
    <2>1. CASE NoSync2(net)
      BY <1>2, <1>3, <2>1, ZenonT(60) DEF NoSync2
    <2>2. CASE Sync2(s, t, m, net)
      <3>1. s \in h => s \in shutting \/ m = "SHUTDOWN"
        BY <1>3, Zenon
      <3>2. m # "STEAL_PROBE" /\ m # "STEAL_PROBE_RESP" /\ m \in Modes
        OBVIOUS
      <3> QED
        BY <1>1, <1>2, <1>3, <1>t, <2>2, <3>1, <3>2, Sync2Good, ZenonT(60)
    <2> QED
      BY <2>1, <2>2, Zenon
  <1>5. GoodNow'
    BY <1>3, <1>4, Zenon DEF GoodNow
  <1>6. \A u \in Servers \ {s} : syncing'[u] = syncing[u]
    BY Sync2Others, Zenon
  <1> QED
    BY <1>1, <1>5, <1>6, RefcountsKept, ZenonT(60)

\* check_steal(): only a server that has no probe is probed.
LEMMA CheckStealOrder ==
  ASSUME TypeOK, GoodNow, RefcountsInOrder, NEW s \in Servers, CheckSteal(s)
  PROVE  GoodNow' /\ RefcountsInOrder'
  <1>1. ~InSync(s) /\ serving[s] = None /\ UNCHANGED <<pending, serving, shutting>>
    BY DEF CheckSteal, Running, Free, idlev
  <1>t. net \in Nets /\ pending \in Pends /\ probes \in [Servers -> SUBSET Servers]
    BY OrderTypes, Zenon
  <1>2. CASE NoSync2(net) /\ UNCHANGED probes
    <2>1. UNCHANGED <<net, pending, syncing, probes, shutting>>
      BY <1>1, <1>2, Zenon DEF NoSync2
    <2> QED
      BY <1>1, <2>1, OrderSame, ZenonT(60) DEF TypeOK
  <1>3. ASSUME NEW t \in Servers \ {s}, t \notin probes[s], Sync2(s, t, "STEAL_PROBE", net),
               probes' = IF s \in shutting THEN [probes EXCEPT ![s] = @ \cup {t}] ELSE probes
        PROVE  GoodNow' /\ RefcountsInOrder'
    <2>1. PICK m \in Modes : m = "STEAL_PROBE" /\ m # "STEAL_PROBE_RESP"
      BY Zenon DEF Modes
    <2>2. Good(net', pending, syncing', probes, shutting)
      BY <1>1, <1>3, <1>t, <2>1, Sync2Good, ZenonT(60) DEF GoodNow
    <2>3. \A a \in Servers : probes[a] \subseteq probes'[a]
      BY <1>3, <1>t, Zenon
    <2>4. PICK n, y, b : n = net' /\ y = syncing' /\ b = probes'
      BY Zenon
    <2>5. Good(n, pending, y, b, shutting)
      BY <2>2, <2>3, <2>4, GoodMore, ZenonT(60)
    <2>6. GoodNow'
      BY <1>1, <2>4, <2>5, Zenon DEF GoodNow
    <2>7. \A u \in Servers \ {s} : syncing'[u] = syncing[u]
      BY <1>3, Sync2Others, Zenon
    <2> QED
      BY <1>1, <2>6, <2>7, RefcountsKept, ZenonT(60)
  <1> QED
    BY <1>2, <1>3, ZenonT(60) DEF CheckSteal

\* Every step keeps the order.
LEMMA OrderStep ==
  ASSUME TypeOK, LoopIsRunning, GoodNow, RefcountsInOrder, [Next]_vars
  PROVE  GoodNow' /\ RefcountsInOrder'
  <1> USE DEF chans, calls, loopv, idlev, bound
  <1>m. {"REQUEST", "REFCOUNT", "SUBSCRIBE", "NOTIFY", "SHUTDOWN"}
          \subseteq Modes \ {"STEAL_PROBE", "STEAL_PROBE_RESP"}
    BY Zenon DEF Modes
  <1>t. syncing \in Syncs /\ probes \in [Servers -> SUBSET Servers]
        /\ serving \in [Servers -> Servers \cup {None}]
    BY OrderTypes, ZenonT(60) DEF TypeOK
  \* A sync ends.
  <1>e. ASSUME NEW s \in Servers, serving[s] = None,
               syncing[s].accepted \/ ~AcceptRequired(syncing[s].mode), syncing' = EndSync(s),
               probes' = IF syncing[s].mode = "STEAL_PROBE"
                         THEN [probes EXCEPT ![s] = @ \cup {syncing[s].to}] ELSE probes,
               UNCHANGED <<net, pending, serving, shutting>>
        PROVE  GoodNow' /\ RefcountsInOrder'
    <2>1. PICK c : c = probes'
      OBVIOUS
    <2>2. Good(net, pending, [syncing EXCEPT ![s] = NoSync], c, shutting)
      BY <1>e, <1>t, <2>1, GoodEnd, ZenonT(60) DEF GoodNow
    <2>3. GoodNow'
      BY <1>e, <2>1, <2>2, Zenon DEF GoodNow, EndSync
    <2>4. \A u \in Servers \ {s} : syncing'[u] = syncing[u]
      BY <1>e, <1>t, ZenonT(60) DEF EndSync, Syncs
    <2> QED
      BY <1>e, <2>3, <2>4, RefcountsKept, ZenonT(60)
  <1>1. ASSUME NEW s \in Servers, SyncAccepted(s) PROVE GoodNow' /\ RefcountsInOrder'
    <2>1. /\ serving[s] = None /\ syncing[s].accepted /\ syncing' = EndSync(s)
          /\ syncing[s].mode # "STEAL_PROBE"
          /\ UNCHANGED <<net, pending, serving, shutting, probes>>
      BY <1>1, ZenonT(60) DEF SyncAccepted
    <2> QED
      BY <1>e, <2>1, Zenon
  <1>2. ASSUME NEW s \in Servers, SyncSent(s) PROVE GoodNow' /\ RefcountsInOrder'
    <2>1. /\ serving[s] = None /\ ~AcceptRequired(syncing[s].mode) /\ syncing' = EndSync(s)
          /\ probes' = IF syncing[s].mode = "STEAL_PROBE"
                       THEN [probes EXCEPT ![s] = @ \cup {syncing[s].to}] ELSE probes
          /\ UNCHANGED <<net, pending, serving, shutting>>
      BY <1>2, Zenon DEF SyncSent
    <2> QED
      BY <1>e, <2>1, Zenon
  <1>3. ASSUME NEW s \in Servers, NEW f \in Servers \ {s}, TakeSync(s, f)
        PROVE  GoodNow' /\ RefcountsInOrder'
    BY <1>3, InterruptOrder, NextSyncMsgOrder, Zenon DEF TakeSync
  <1>4. ASSUME NEW s \in Servers, \/ ServeRpc(s) \/ NestedSync(s)
                                  \/ (\E f \in Servers \ {s} : PollRpc(s, f))
                                  \/ Reply(s) \/ StealSent(s) \/ ClientRequest(s)
                                  \/ HandlerDone(s) \/ DrainDone(s) \/ Exit(s)
        PROVE  GoodNow' /\ RefcountsInOrder'
    <2>1. /\ UNCHANGED <<net, pending, syncing, probes, shutting>>
          /\ serving' = serving \/ serving' = [serving EXCEPT ![s] = None]
      BY <1>4, ZenonT(60)
         DEF ServeRpc, NestedSync, PollRpc, Reply, StealSent, ClientRequest, HandlerDone,
             DrainDone, Exit
    <2> QED
      BY <1>t, <2>1, OrderSame, ZenonT(60)
  <1>5. ASSUME NEW s \in Servers, PreacquireSync(s) \/ HandlerSync(s)
        PROVE  GoodNow' /\ RefcountsInOrder'
    <2>1. /\ Free(s) /\ UNCHANGED <<pending, serving, probes, shutting>>
          /\ \E t \in Servers, m \in {"REQUEST", "REFCOUNT", "SUBSCRIBE", "NOTIFY"} :
               Sync2(s, t, m, net)
      <3>1. CASE PreacquireSync(s)
        BY <3>1, Zenon DEF PreacquireSync
      <3>2. CASE HandlerSync(s)
        <4>1. HandlerModes(phase[s]) \subseteq {"REQUEST", "REFCOUNT", "SUBSCRIBE", "NOTIFY"}
          BY ParamsAssumption, Zenon DEF HandlerModes
        <4> QED
          BY <3>2, <4>1, ZenonT(60) DEF HandlerSync, Running
      <3> QED
        BY <1>5, <3>1, <3>2, ZenonT(60)
    <2> QED
      BY <1>m, <2>1, StartOrder, Zenon
  <1>6. ASSUME MasterStep PROVE GoodNow' /\ RefcountsInOrder'
    <2>n. /\ Master \in Servers /\ 2 \in Servers
          /\ checking < N => checking + 1 \in Servers
      BY Ranks, NAssumption, SMT, SMTT(30) DEF TypeOK, Servers, None
    <2>1. Free(Master) /\ UNCHANGED <<pending, serving, probes>>
      BY <1>6, Zenon
         DEF MasterStep, StartIdleCheck, IdleAnswered, AllIdle, ShutdownNext, Running
    <2>2. \/ /\ UNCHANGED shutting
             /\ \E t \in Servers, m \in {"REQUEST", "SHUTDOWN"} :
                  Sync2(Master, t, m, net) \/ NoSync2(net)
          \/ /\ shutting' = shutting \cup {Master}
             /\ Sync2(Master, 2, "SHUTDOWN", net)
      BY <1>6, <2>n, ZenonT(30)
         DEF MasterStep, StartIdleCheck, IdleAnswered, AllIdle, ShutdownNext
    <2> QED
      BY <1>m, <2>n, <2>1, <2>2, StartOrder, ZenonT(60)
  <1>7. CASE UNCHANGED vars
    <2>1. UNCHANGED <<net, pending, syncing, probes, shutting, serving>>
      BY <1>7, Zenon DEF vars
    <2> QED
      BY <1>t, <2>1, OrderSame, Ranks, ZenonT(60)
  <1> QED
    BY <1>1, <1>2, <1>3, <1>4, <1>5, <1>6, <1>7, DrainOneOrder, CheckStealOrder, ZenonT(60)
       DEF Next, Step

-----------------------------------------------------------------------------
(* The theorems.                                                           *)

LEMMA OrderInit == Init => OrderInv
  <1> SUFFICES ASSUME Init PROVE OrderInv
    BY Zenon
  <1>1. /\ \A s \in Servers : /\ syncing[s].to = None /\ serving[s] = None
                              /\ pending[s] = <<>>
        /\ \A f, t \in Servers : net[<<f, t>>] = <<>>
    BY DEF Init, NoSync, Pairs
  <1>e. 1..Len(<<>>) = {}
    BY NoIndex
  <1>2. Calm(net, pending, syncing, shutting)
    <2>1. ASSUME NEW f PROVE Quiet(<<>>, <<>>, f) /\ NoReq(<<>>) /\ NoDeferred(<<>>, f)
      BY <1>e, Zenon DEF Quiet, NoReq, NoDeferred
    <2> QED
      BY <1>1, <2>1, Zenon DEF Calm, CalmPair, Outstanding
  <1>3. Probes(net, pending, syncing, probes)
    <2>1. ASSUME NEW f, NEW m
          PROVE  /\ ~Has(<<>>, m) /\ Once(<<>>, m)
                 /\ ~HasEntry(<<>>, f, m) /\ OnceEntry(<<>>, f, m)
      BY <1>e, Zenon DEF Has, Once, HasEntry, OnceEntry
    <2> SUFFICES ASSUME NEW s \in Servers, NEW f \in Servers
                 PROVE  OneProbe(net, pending, s, f) /\ NoProbe(net, pending, s, f)
      BY Zenon DEF Probes, ProbePair
    <2>2. NoProbe(net, pending, s, f)
      BY <1>1, <2>1, Zenon DEF NoProbe, Probing, Probed, Answering, Answered
    <2> QED
      BY <1>1, <2>1, <2>2, Zenon DEF OneProbe, NoProbe
  <1>4. Entries(net, pending)
    BY <1>1, <1>e, ZenonT(60) DEF Entries, Has
  <1>5. RefcountsInOrder
    BY <1>1 DEF RefcountsInOrder
  <1> QED
    BY <1>2, <1>3, <1>4, <1>5, Zenon DEF OrderInv

\* Also during a shutdown, what one server sends to another keeps its order:
\* behind a REQUEST or STEAL that the target has not accepted, in the channel
\* or on the list of xlb_pending_syncs, comes nothing but a shutdown message;
\* a probe and its response are at one place at most, and only while the probe
\* is registered.
THEOREM OrderInvariant == Spec => []OrderInv
  <1>1. TypeOK /\ LoopIsRunning /\ OrderInv /\ [Next]_vars => OrderInv'
    <2> SUFFICES ASSUME TypeOK, LoopIsRunning, OrderInv, [Next]_vars
                 PROVE  OrderInv'
      BY Zenon
    <2>1. GoodNow /\ RefcountsInOrder
      BY DEF OrderInv, GoodNow, Good
    <2>2. GoodNow' /\ RefcountsInOrder'
      BY <2>1, OrderStep, Zenon
    <2> QED
      BY <2>2, Zenon DEF OrderInv, GoodNow, Good
  <1> QED
    BY <1>1, OrderInit, TypeCorrect, LoopRuns, PTL DEF Spec

\* A server outside a sync loop never serves an RPC of a server whose earlier
\* refcount change is still on its list (sync.c line 815).
THEOREM RefcountsOrdered == Spec => []RefcountsInOrder
  <1>1. OrderInv => RefcountsInOrder
    BY Zenon DEF OrderInv
  <1> QED
    BY <1>1, OrderInvariant, PTL

\* The check "probe not found" of xlb_handle_steal_probe_resp() never fails:
\* a response only meets a probe that is registered or whose send finishes.
THEOREM ProbesExpected == Spec => []ProbeExpected
  <1>1. OrderInv => ProbeExpected
    <2> SUFFICES ASSUME OrderInv, NEW s \in Servers, NEW f \in Servers,
                        \/ Has(net[<<f, s>>], "STEAL_PROBE_RESP")
                        \/ HasEntry(pending[s], f, "STEAL_PROBE_RESP")
                 PROVE  Expected(syncing, probes, s, f)
      BY Zenon DEF ProbeExpected, Has, HasEntry, Entry, Expected
    <2>1. CASE s = f
      BY <2>1, Zenon DEF OrderInv, Entries, HasEntry, Entry, EntryOK
    <2>2. CASE s # f
      <3>1. ProbePair(net, pending, syncing, probes, s, f)
        BY <2>2, Zenon DEF OrderInv, Probes
      <3> QED
        BY <3>1, Zenon DEF ProbePair, NoProbe, Answering, Answered
    <2> QED
      BY <2>1, <2>2, Zenon
  <1> QED
    BY <1>1, OrderInvariant, PTL
=============================================================================
