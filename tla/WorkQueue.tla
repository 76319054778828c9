----------------------------- MODULE WorkQueue ------------------------------
(***************************************************************************)
(* The queue of unmatched work units of one server (workqueue.c).          *)
(*                                                                         *)
(* Serial units are in wu_array; three families of heaps index it by       *)
(* worker, by host and by type alone.  A soft-targeted unit is in two      *)
(* heaps.  Taking a unit through one heap leaves its entry in the other,   *)
(* and the array slot is used again, so an entry is compared with the unit *)
(* it leads to before it is believed.  Parallel units are in a tree per    *)
(* type.                                                                   *)
(*                                                                         *)
(* A heap is the bag of its entries.  Entries with equal keys leave a heap *)
(* in an order that depends on its history, here in any order.  Freeing an *)
(* empty heap's memory, and the performance counters, are left out.        *)
(***************************************************************************)
EXTENDS QueueParams, Integers, Sequences, FiniteSets, Bags

CONSTANTS
  Idx,          \* slots of wu_array
  IntMin,       \* INT_MIN
  Penalty       \* XLB_SOFT_TARGET_PRIORITY_PENALTY

ASSUME WorkQueueAssumption ==
  /\ IntMin \in Int /\ IntMin < 0
  /\ Penalty \in 1..(-IntMin - 1)

NoUnit == [id |-> "none"]

\* The values of an int; a priority is one of them.
Ints == IntMin..(-IntMin - 1)

(* A work unit: target < 0 means untargeted. *)
Units(Ids) == [id: Ids, type: Types, target: {-1} \cup Nat,
               strict: {"HARD", "SOFT"}, accry: {"RANK", "NODE"},
               pri: Ints, par: Nat \ {0}]

Entries == [key: Ints, idx: Idx]

WorkQueueInit ==
  [wu_array |-> [i \in Idx |-> NoUnit],
   untargeted_work |-> [t \in Types |-> EmptyBag],
   targeted_work |-> [w \in Workers |-> [t \in Types |-> EmptyBag]],
   host_targeted_work |-> [h \in Hosts |-> [t \in Types |-> EmptyBag]],
   parallel_work |-> [t \in Types |-> {}],
   parallel_task_count |-> 0]

(* Minus, on an int: the least one is its own negative. *)
Negated(i) == IF i = IntMin THEN IntMin ELSE -i

SoftTargetPriority(p) == IF p < IntMin + Penalty THEN IntMin ELSE p - Penalty

Entry(priority, i) == SetToBag({[key |-> Negated(priority), idx |-> i]})

AddParallel(q, wu) ==
  [q EXCEPT !.parallel_work[wu.type] = @ \cup {wu},
            !.parallel_task_count = @ + 1]

AddUntargeted(q, wu, i) ==
  [q EXCEPT !.untargeted_work[wu.type] = @ (+) Entry(wu.pri, i)]

\* Mutant of AddTargeted: no second entry for a soft target.
AddTargetedOnce(q, wu, i) ==
  IF wu.target \notin Workers THEN AddUntargeted(q, wu, i)
  ELSE IF wu.accry = "RANK"
  THEN [q EXCEPT !.targeted_work[wu.target][wu.type] = @ (+) Entry(wu.pri, i)]
  ELSE [q EXCEPT !.host_targeted_work[Host[wu.target]][wu.type] = @ (+) Entry(wu.pri, i)]

(* A hard-targeted unit is only put on the server of its target. *)
AddTargeted(q, wu, i) ==
  LET mine == wu.target \in Workers
      q1 == IF mine /\ wu.accry = "RANK"
            THEN [q EXCEPT !.targeted_work[wu.target][wu.type] =
                             @ (+) Entry(wu.pri, i)]
            ELSE IF mine
            THEN [q EXCEPT !.host_targeted_work[Host[wu.target]][wu.type] =
                             @ (+) Entry(wu.pri, i)]
            ELSE q
  IN IF wu.strict # "HARD"
     THEN [q1 EXCEPT !.untargeted_work[wu.type] =
                       @ (+) Entry(SoftTargetPriority(wu.pri), i)]
     ELSE q1

FreeIdx(q) == {i \in Idx : q.wu_array[i] = NoUnit}

AddSerial(q, wu, i) ==
  LET q1 == [q EXCEPT !.wu_array[i] = wu]
  IN IF wu.target >= 0 THEN AddTargeted(q1, wu, i) ELSE AddUntargeted(q1, wu, i)

(* xlb_workq_add(): the queues it may leave, one for each free slot. *)
WorkqAdd(q, wu) ==
  IF wu.par > 1 THEN {AddParallel(q, wu)}
  ELSE {AddSerial(q, wu, i) : i \in FreeIdx(q)}

-----------------------------------------------------------------------------
(* The three checks of an entry against the unit its index leads to. *)

TryRemoveUntargeted(q, e, type) ==
  LET wu == q.wu_array[e.idx]
  IN /\ wu # NoUnit
     /\ wu.type = type
     /\ wu.target < 0 \/ wu.strict # "HARD"
     /\ Negated(e.key) = IF wu.strict # "HARD" THEN SoftTargetPriority(wu.pri)
                         ELSE wu.pri

\* Mutant of TryRemoveTargeted: the priority is not compared.
TryRemoveTargetedAnyKey(q, e, type, target) ==
  LET wu == q.wu_array[e.idx]
  IN wu # NoUnit /\ wu.type = type /\ wu.target = target

TryRemoveTargeted(q, e, type, target) ==
  LET wu == q.wu_array[e.idx]
  IN wu # NoUnit /\ wu.type = type /\ wu.target = target /\ wu.pri = Negated(e.key)

(* host_idx_from_rank2() is asked of any unit that took the slot, also of  *)
(* an untargeted one or a stolen one whose target another server serves.   *)
(* layout.h asserts that this does not happen; without assertions the word *)
(* that is read may be any host, so such an entry may or may not match.    *)
HostCandidate(q, e, type) ==
  LET wu == q.wu_array[e.idx]
  IN wu # NoUnit /\ wu.type = type /\ wu.pri = Negated(e.key)

TryRemoveHostTargeted(q, e, type, host) ==
  /\ HostCandidate(q, e, type)
  /\ q.wu_array[e.idx].target \in Workers
  /\ Host[q.wu_array[e.idx].target] = host

HostUndefined(q, e, type) ==
  HostCandidate(q, e, type) /\ q.wu_array[e.idx].target \notin Workers

(* Popping a heap until an entry is valid.  Every entry before it in the   *)
(* order of keys goes, and with it some of the stale ones with its key; if *)
(* none is valid the heap ends empty.                                      *)
Pops(H, valid) ==
  LET first == {e \in valid : \A f \in valid : e.key <= f.key}
      from(e) == [f \in {g \in BagToSet(H) : g.key >= e.key} |-> H[f]]
      stale(e) == [f \in {g \in BagToSet(H) \ valid : g.key = e.key} |-> H[f]]
  IN IF valid = {} THEN {[heap |-> EmptyBag, idx |-> "none"]}
     ELSE UNION {{[heap |-> (from(e) (-) SetToBag({e})) (-) s, idx |-> e.idx] :
                    s \in SubBag(stale(e))} : e \in first}

\* Mutant of Removed: the slot is not cleared.
RemovedNot(q, p) ==
  [q |-> q, wu |-> IF p.idx = "none" THEN NoUnit ELSE q.wu_array[p.idx]]

(* The unit leaves the array with the entry that was popped. *)
Removed(q, p) ==
  IF p.idx = "none" THEN [q |-> q, wu |-> NoUnit]
  ELSE [q |-> [q EXCEPT !.wu_array[p.idx] = NoUnit], wu |-> q.wu_array[p.idx]]

PopTargeted(q, type, target) ==
  LET H == q.targeted_work[target][type]
      valid == {e \in BagToSet(H) : TryRemoveTargeted(q, e, type, target)}
  IN {Removed([q EXCEPT !.targeted_work[target][type] = p.heap], p) :
        p \in Pops(H, valid)}

PopHostTargeted(q, type, host) ==
  LET H == q.host_targeted_work[host][type]
      valid == {e \in BagToSet(H) : TryRemoveHostTargeted(q, e, type, host)}
      unsure == {e \in BagToSet(H) : HostUndefined(q, e, type)}
  IN {Removed([q EXCEPT !.host_targeted_work[host][type] = p.heap], p) :
        p \in UNION {Pops(H, valid \cup v) : v \in SUBSET unsure}}

PopUntargeted(q, type) ==
  LET H == q.untargeted_work[type]
      valid == {e \in BagToSet(H) : TryRemoveUntargeted(q, e, type)}
  IN {Removed([q EXCEPT !.untargeted_work[type] = p.heap], p) :
        p \in Pops(H, valid)}

(* xlb_workq_get(): the worker's own units first, then those of its host,  *)
(* then the untargeted ones.  The set of the outcomes.                     *)
WorkqGet(q, target, type) ==
  LET OrElse(outcomes, Pop(_)) ==
        UNION {IF o.wu # NoUnit THEN {o} ELSE Pop(o.q) : o \in outcomes}
      own == PopTargeted(q, type, target)
      near == OrElse(own, LAMBDA x : PopHostTargeted(x, type, Host[target]))
  IN OrElse(near, LAMBDA x : PopUntargeted(x, type))

-----------------------------------------------------------------------------
(* Parallel units: the tree is walked in the order of its keys for a unit  *)
(* that the waiting workers, fits of them, are enough for.                 *)
ParallelFits(q, type, waiting) ==
  LET fits == {u \in q.parallel_work[type] : u.par <= waiting}
  IN {u \in fits : \A v \in fits : Negated(u.pri) <= Negated(v.pri)}

\* Mutant of RemoveParallel: the count of parallel units is not lowered.
RemoveParallelUncounted(q, wu) == [q EXCEPT !.parallel_work[wu.type] = @ \ {wu}]

RemoveParallel(q, wu) ==
  [q EXCEPT !.parallel_work[wu.type] = @ \ {wu}, !.parallel_task_count = @ - 1]

(* The counts that steal probes and idle checks report: heap entries, the  *)
(* stale ones included, and parallel units.                                *)
WorkqTypeCount(q, t) ==
  BagCardinality(q.untargeted_work[t]) + Cardinality(q.parallel_work[t])

(* xlb_workq_steal() gives up a part of the work of a type only if the     *)
(* thief has less of it: nothing, or fewer by more than a tenth.           *)
StealSends(total, stealer) ==
  total > 0 /\ (stealer = 0 \/ 10 * (total - stealer) > stealer)

(* The parallel units sent: their share, rounded down, but at least one. *)
ParToSend(total, stealer, par) ==
  LET share == ((total - stealer) * par) \div (2 * total)
  IN IF par > 0 /\ share = 0 THEN 1 ELSE share

(* heap_steal_type(): each entry of the untargeted heap is drawn at random *)
(* with the share as its probability, which is at most a half, so none and *)
(* all are possible when it is positive.  Every drawn entry goes, its unit *)
(* only if the entry is valid.  An index can be drawn twice; the second    *)
(* entry then is stale.                                                    *)
HeapSteal(q, t, drawn) ==
  LET hit == {e.idx : e \in {f \in BagToSet(drawn) : TryRemoveUntargeted(q, f, t)}}
  IN [q |-> [q EXCEPT !.untargeted_work[t] = @ (-) drawn,
                      !.wu_array = [i \in Idx |-> IF i \in hit THEN NoUnit ELSE @[i]]],
      units |-> {q.wu_array[i] : i \in hit}]

(* The outcomes of a steal of one type: the queue left and the units sent. *)
WorkqSteal(q, t, stealer) ==
  LET total == WorkqTypeCount(q, t)
      par == Cardinality(q.parallel_work[t])
      num == ParToSend(total, stealer, par)
      after(d, ps) ==
        LET h == HeapSteal(q, t, d)
        IN [q |-> [h.q EXCEPT !.parallel_work[t] = @ \ ps,
                              !.parallel_task_count = @ - num],
            units |-> h.units \cup ps]
  IN IF ~StealSends(total, stealer) THEN {[q |-> q, units |-> {}]}
     ELSE {after(d, ps) : d \in SubBag(q.untargeted_work[t]),
             ps \in {s \in SUBSET q.parallel_work[t] : Cardinality(s) = num}}
=============================================================================
