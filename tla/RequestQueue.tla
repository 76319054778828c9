---------------------------- MODULE RequestQueue ----------------------------
(***************************************************************************)
(* The queue of unmatched get requests of one server (requestqueue.c).     *)
(*                                                                         *)
(* A worker has at most one entry: a further request of it is merged into  *)
(* the entry.  An entry is reached in two ways, from the worker (targets)  *)
(* and from the list of its work type (type_requests).  The operators take *)
(* and return the whole queue, so that a handler that matches several      *)
(* requests composes them.  Requests come from the server's own workers    *)
(* only (clients send them to xlb_s.layout.my_server), so the entries the  *)
(* code would allocate for other ranks do not occur; the pool of list      *)
(* nodes is memory management and left out.                                *)
(***************************************************************************)
EXTENDS QueueParams, Integers, Sequences, SequencesExt, FiniteSetsExt

\* ADLB_RANK_NULL, and the value of an entry whose item is NULL.
RankNull == -200
NoRequest == [type |-> "none", count |-> 0, blocking |-> FALSE]

Requests == [type: Types, count: Nat \ {0}, blocking: BOOLEAN]

RequestQueueInit ==
  [targets |-> [w \in Workers |-> NoRequest],
   type_requests |-> [t \in Types |-> <<>>],
   nblocked |-> 0]

HasRequest(q, w) == q.targets[w] # NoRequest

(* A second request of a worker joins the first. *)
MergeRequest(q, w, count, blocking) ==
  [q EXCEPT !.targets[w].count = @ + count,
            !.targets[w].blocking = @ \/ blocking,
            !.nblocked = @ + (IF blocking THEN 1 ELSE 0)]

(* The CHECK_MSG on the type of a merged request is AddAllowed. *)
AddAllowed(q, w, type) == HasRequest(q, w) => q.targets[w].type = type

RequestqueueAdd(q, w, type, count, blocking) ==
  IF HasRequest(q, w)
  THEN MergeRequest(q, w, count, blocking)
  ELSE [targets |-> [q.targets EXCEPT ![w] =
                       [type |-> type, count |-> count, blocking |-> blocking]],
        type_requests |-> [q.type_requests EXCEPT ![type] = Append(@, w)],
        nblocked |-> q.nblocked + (IF blocking THEN 1 ELSE 0)]

\* Mutants of RequestMatchUpdate: the worker stays counted as blocked, or keeps
\* the mark of a blocking request.
RequestMatchUpdateCounted(q, w, count) ==
  [q EXCEPT !.targets[w] = NoRequest,
            !.type_requests[q.targets[w].type] = SelectSeq(@, LAMBDA x : x # w)]

RequestMatchUpdateMarked(q, w, count) ==
  LET R == q.targets[w]
      q1 == [q EXCEPT !.nblocked = IF R.blocking THEN @ - 1 ELSE @]
  IN IF R.count = count
     THEN [q1 EXCEPT !.targets[w] = NoRequest,
                     !.type_requests[R.type] = SelectSeq(@, LAMBDA x : x # w)]
     ELSE [q1 EXCEPT !.targets[w].count = @ - count]

(* count work units were matched to the entry of w.  The first match       *)
(* unblocks the worker; the entry goes when nothing of it is left.         *)
RequestMatchUpdate(q, w, count) ==
  LET R == q.targets[w]
      unblocked == IF R.blocking THEN q.nblocked - 1 ELSE q.nblocked
  IN IF R.count = count
     THEN [targets |-> [q.targets EXCEPT ![w] = NoRequest],
           type_requests |-> [q.type_requests EXCEPT ![R.type] =
                                SelectSeq(@, LAMBDA x : x # w)],
           nblocked |-> unblocked]
     ELSE [targets |-> [q.targets EXCEPT ![w].count = @ - count,
                                         ![w].blocking = FALSE],
           type_requests |-> q.type_requests,
           nblocked |-> unblocked]

(* Results of the matching operators: the queue after, and the worker. *)
NoMatch(q) == [q |-> q, worker |-> RankNull]
Matched(q, w) == [q |-> RequestMatchUpdate(q, w, 1), worker |-> w]

Waiting(q, w, type) == HasRequest(q, w) /\ q.targets[w].type = type

(* The first worker of the target's host, in index order, that waits. *)
RequestqMatchesTgtNode(q, target, type) ==
  LET ready == {w \in Workers : Host[w] = Host[target] /\ Waiting(q, w, type)}
  IN IF ready = {} THEN NoMatch(q) ELSE Matched(q, Min(ready))

\* Mutant of RequestqueueMatchesTarget: the accuracy is not looked at.
RequestqueueMatchesHost(q, target, type, accuracy) ==
  IF Waiting(q, target, type) THEN Matched(q, target)
  ELSE RequestqMatchesTgtNode(q, target, type)

RequestqueueMatchesTarget(q, target, type, accuracy) ==
  IF Waiting(q, target, type) THEN Matched(q, target)
  ELSE IF accuracy = "NODE" THEN RequestqMatchesTgtNode(q, target, type)
  ELSE NoMatch(q)

(* pop_rank_from_types(): the oldest entry of the type. *)
RequestqueueMatchesType(q, type) ==
  IF q.type_requests[type] = <<>> THEN NoMatch(q)
  ELSE Matched(q, Head(q.type_requests[type]))

\* Mutant of RequestqueueParallelWorkers: one worker more than needed must wait.
RequestqueueParallelMore(q, type, parallelism) ==
  IF Len(q.type_requests[type]) > parallelism
  THEN [q |-> [q EXCEPT !.type_requests[type] = <<>>],
        ranks |-> SubSeq(q.type_requests[type], 1, parallelism)]
  ELSE [q |-> q, ranks |-> <<>>]

(* Workers for a parallel task, popped one after the other from the head   *)
(* of the list: a worker whose entry counts several units stays the head.  *)
RequestqueueParallelWorkers(q, type, parallelism) ==
  LET pops[i \in 0..parallelism] ==
        IF i = 0 THEN [q |-> q, ranks |-> <<>>]
        ELSE LET m == RequestqueueMatchesType(pops[i - 1].q, type)
             IN [q |-> m.q, ranks |-> Append(pops[i - 1].ranks, m.worker)]
  IN IF Len(q.type_requests[type]) >= parallelism
     THEN pops[parallelism]
     ELSE [q |-> q, ranks |-> <<>>]

(* A worker that waits for an earlier request announces that it blocks. *)
RequestqueueIncrBlocked(q) == [q EXCEPT !.nblocked = @ + 1]
RequestqueueDecrBlocked(q) == [q EXCEPT !.nblocked = @ - 1]

(* xlb_requestqueue_get(): the entries, type by type in list order. *)
RequestqueueGet(q) ==
  FoldLeft(LAMBDA ws, t : ws \o q.type_requests[t], <<>>, SetToSeq(Types))

(* xlb_requestqueue_shutdown(): the entries are popped one unit at a time, *)
(* each answered with ADLB_SHUTDOWN.                                       *)
ShutdownAnswers(q) == [w \in Workers |-> q.targets[w].count]

RequestQueueTypeOK(q) ==
  /\ q.targets \in [Workers -> Requests \cup {NoRequest}]
  /\ q.type_requests \in [Types -> Seq(Workers)]
  /\ q.nblocked \in Nat
=============================================================================
