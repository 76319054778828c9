------------------------------ MODULE Matching ------------------------------
(***************************************************************************)
(* One server's work queue and request queue, the handlers that match the  *)
(* one with the other (handlers.c), and the workers that call them         *)
(* (adlb.c).  Other servers appear as the set of units they hold, which a  *)
(* steal moves to or from.                                                 *)
(*                                                                         *)
(* A request of a worker and its notes that it blocks or goes on are       *)
(* messages, in order (requests); the answers are counted (answers).  A    *)
(* put is a remote call the putter waits for, so it is one step.           *)
(***************************************************************************)
EXTENDS WorkQueue, RequestQueue

CONSTANT
  Plans         \* what may happen around the server: sets of units and of
                \*   calls, and the bounds of a run (PlanFields)

(* puts: units clients put; ready: units the engine releases               *)
(* (xlb_put_work_unit); local: units of local notifications                *)
(* (xlb_put_targeted_local); foreign: units that are on other servers at   *)
(* the start; calls: calls workers make ("GET", "IGET", "AGET", "AMGET",   *)
(* "WAIT"); callers: the workers that make them.  Bounds: count, the most  *)
(* units one Amget asks for; due, the most a worker has asked for and not  *)
(* read; steals, the steals from and by this server.                       *)
PlanFields == {"puts", "ready", "local", "foreign", "calls", "callers",
               "count", "due", "steals"}

PlanUnits(p) == p.puts \cup p.ready \cup p.local \cup p.foreign

ASSUME MatchingAssumption ==
  \A p \in Plans :
    /\ DOMAIN p = PlanFields
    /\ IsFiniteSet(PlanUnits(p))
    /\ \A u, v \in PlanUnits(p) : u.id = v.id => u = v
    /\ \A u \in p.local : u.target \in Workers

VARIABLES
  plan,         \* the plan of this behaviour, constant
  wq,           \* the work queue
  rq,           \* the request queue
  outside,      \* units not put yet
  elsewhere,    \* units on other servers
  delivered,    \* for each unit, the workers it was sent to
  requests,     \* for each worker, its messages to the server
  answers,      \* for each worker, answers it has not read
  worker,       \* each worker's state, the answers due to it, and how many of
                \*   them must be there before it goes on
  blockers,     \* workers whose note that they block the server has handled
  up,           \* the server has not shut down
  steals        \* number of steals so far

vars == <<plan, wq, rq, outside, elsewhere, delivered, requests, answers, worker, blockers, up, steals>>

clients == <<plan, requests, worker, blockers, up>>

AllUnits == PlanUnits(plan)

Runs == [state |-> "runs", type |-> "none", due |-> 0, need |-> 0]

Init ==
  /\ plan \in Plans
  /\ wq = WorkQueueInit
  /\ rq = RequestQueueInit
  /\ outside = plan.puts \cup plan.ready \cup plan.local
  /\ elsewhere = plan.foreign
  /\ delivered = [u \in AllUnits |-> <<>>]
  /\ requests = [w \in Workers |-> <<>>]
  /\ answers = [w \in Workers |-> 0]
  /\ worker = [w \in Workers |-> Runs]
  /\ blockers = {}
  /\ up = TRUE
  /\ steals = 0

-----------------------------------------------------------------------------
(* Sending work (send_work and its callers): who gets the unit, and one    *)
(* answer for each of them.  A parallel unit goes to all its workers.      *)
SendWork(u, ranks) ==
  /\ delivered' = [delivered EXCEPT ![u] = @ \o ranks]
  /\ answers' = [w \in Workers |->
                   answers[w] + Cardinality({i \in DOMAIN ranks : ranks[i] = w})]

Store(u) == wq' \in WorkqAdd(wq, u)

(* attempt_match_par_work() *)
AttemptMatchPar(u) == RequestqueueParallelWorkers(rq, u.type, u.par)

\* Mutant of AttemptMatch: no other worker is tried for a soft target.
AttemptMatchTarget(u) ==
  IF u.target < 0 THEN RequestqueueMatchesType(rq, u.type)
  ELSE RequestqueueMatchesTarget(rq, u.target, u.type, u.accry)

(* attempt_match_work(): the target, for soft targets another worker. *)
AttemptMatch(u) ==
  LET t == RequestqueueMatchesTarget(rq, u.target, u.type, u.accry)
  IN IF u.target < 0 THEN RequestqueueMatchesType(rq, u.type)
     ELSE IF t.worker = RankNull /\ u.strict # "HARD"
     THEN RequestqueueMatchesType(rq, u.type)
     ELSE t

(* A put that finds enough workers bypasses the work queue. *)
PutWith(u, m) ==
  IF u.par > 1
  THEN LET p == AttemptMatchPar(u)
       IN IF p.ranks # <<>> THEN rq' = p.q /\ SendWork(u, p.ranks) /\ UNCHANGED wq
          ELSE Store(u) /\ UNCHANGED <<rq, delivered, answers>>
  ELSE IF m.worker # RankNull
       THEN rq' = m.q /\ SendWork(u, <<m.worker>>) /\ UNCHANGED wq
       ELSE Store(u) /\ UNCHANGED <<rq, delivered, answers>>

(* handle_put() *)
HandlePut(u) ==
  /\ up /\ u \in plan.puts \cap outside
  /\ PutWith(u, AttemptMatch(u))
  /\ outside' = outside \ {u}
  /\ UNCHANGED <<elsewhere, clients, steals>>

(* xlb_put_work_unit(): for units the engine releases.  A soft target that *)
(* does not wait is not replaced by another worker.                        *)
PutWorkUnit(u) ==
  /\ up /\ u \in plan.ready \cap outside
  /\ PutWith(u, IF u.target >= 0
                THEN RequestqueueMatchesTarget(rq, u.target, u.type, u.accry)
                ELSE RequestqueueMatchesType(rq, u.type))
  /\ outside' = outside \ {u}
  /\ UNCHANGED <<elsewhere, clients, steals>>

(* xlb_put_targeted_local(): the unit is sent to its target, also when the *)
(* worker that was matched is another one of the target's host.            *)
PutTargetedLocal(u) ==
  LET m == RequestqueueMatchesTarget(rq, u.target, u.type, u.accry)
  IN /\ up /\ u \in plan.local \cap outside
     /\ IF m.worker # RankNull
        THEN rq' = m.q /\ SendWork(u, <<u.target>>) /\ UNCHANGED wq
        ELSE Store(u) /\ UNCHANGED <<rq, delivered, answers>>
     /\ outside' = outside \ {u}
     /\ UNCHANGED <<elsewhere, clients, steals>>

-----------------------------------------------------------------------------
(* check_workqueue(): up to count units for a worker, one after the other. *)
(* The outcomes: the queue left and the units sent.                        *)
CheckWorkqueue(q, w, type, count) ==
  LET step(o) ==
        IF o.done THEN {o}
        ELSE {IF g.wu = NoUnit THEN [q |-> g.q, sent |-> o.sent, done |-> TRUE]
              ELSE [q |-> g.q, sent |-> Append(o.sent, g.wu), done |-> FALSE] :
                g \in WorkqGet(o.q, w, type)}
      after[i \in 0..count] ==
        IF i = 0 THEN {[q |-> q, sent |-> <<>>, done |-> FALSE]}
        ELSE UNION {step(o) : o \in after[i - 1]}
  IN after[count]

(* Several deliveries of one handler: pairs of a unit and its workers. *)
SendAll(sends) ==
  /\ delivered' = [u \in AllUnits |->
       delivered[u] \o FoldLeft(LAMBDA r, s : IF s.unit = u THEN r \o s.ranks ELSE r,
                                <<>>, sends)]
  /\ answers' = [w \in Workers |-> answers[w] +
       FoldLeft(LAMBDA n, s : n + Cardinality({i \in DOMAIN s.ranks : s.ranks[i] = w}),
                0, sends)]

ToWorker(units, w) == [i \in DOMAIN units |-> [unit |-> units[i], ranks |-> <<w>>]]

\* Mutant of CheckParallelTasks: only the first unit of the tree is tried.
CheckParallelFirst(q, r, type) ==
  LET first == {u \in q.parallel_work[type] : u.par <= Len(r.type_requests[type])
                  /\ \A v \in q.parallel_work[type] : v.pri <= u.pri}
      release(u) == LET p == RequestqueueParallelWorkers(r, type, u.par)
                    IN [q |-> RemoveParallel(q, u), r |-> p.q,
                        sends |-> <<[unit |-> u, ranks |-> p.ranks]>>]
  IN IF first = {} THEN {[q |-> q, r |-> r, sends |-> <<>>]}
     ELSE {release(u) : u \in first}

(* xlb_check_parallel_tasks(): one parallel unit of the type, if any fits. *)
CheckParallelTasks(q, r, type) ==
  LET fits == ParallelFits(q, type, Len(r.type_requests[type]))
      release(u) == LET p == RequestqueueParallelWorkers(r, type, u.par)
                    IN [q |-> RemoveParallel(q, u), r |-> p.q,
                        sends |-> <<[unit |-> u, ranks |-> p.ranks]>>]
  IN IF fits = {} THEN {[q |-> q, r |-> r, sends |-> <<>>]}
     ELSE {release(u) : u \in fits}

(* process_get_request(): what is matched at once unblocks the worker; the *)
(* rest is queued, and may be what a parallel unit was waiting for.  The   *)
(* steal probe it may then send is in module Steal.                        *)
ProcessGetRequest(w, type, count, blocking) ==
  \E o \in CheckWorkqueue(wq, w, type, count) :
    LET matched == Len(o.sent)
        r1 == RequestqueueAdd(rq, w, type, count - matched, blocking /\ matched = 0)
        par == IF o.q.parallel_task_count > 0 THEN CheckParallelTasks(o.q, r1, type)
               ELSE {[q |-> o.q, r |-> r1, sends |-> <<>>]}
    IN IF matched = count
       THEN wq' = o.q /\ rq' = rq /\ SendAll(ToWorker(o.sent, w))
       ELSE \E p \in par :
              wq' = p.q /\ rq' = p.r /\ SendAll(ToWorker(o.sent, w) \o p.sends)

(* handle_iget(): no entry is queued, the answer may be ADLB_NOTHING. *)
ProcessIget(w, type) ==
  \E o \in CheckWorkqueue(wq, w, type, 1) :
    /\ wq' = o.q
    /\ rq' = rq
    /\ delivered' = [u \in AllUnits |->
                       delivered[u] \o (IF o.sent = <<u>> THEN <<w>> ELSE <<>>)]
    /\ answers' = [answers EXCEPT ![w] = @ + 1]

(* handle_block_worker() *)
ProcessBlock(w, blocks) ==
  /\ rq' = IF blocks THEN RequestqueueIncrBlocked(rq) ELSE RequestqueueDecrBlocked(rq)
  /\ blockers' = IF blocks THEN blockers \cup {w} ELSE blockers \ {w}
  /\ UNCHANGED <<wq, delivered, answers>>

(* handle_get(), handle_amget(), handle_iget(), handle_block_worker() *)
HandleRequest(w) ==
  /\ up /\ requests[w] # <<>>
  /\ LET m == Head(requests[w])
     IN \/ /\ m.tag = "GET"
           /\ AddAllowed(rq, w, m.type)
           /\ ProcessGetRequest(w, m.type, m.count, m.blocking)
           /\ UNCHANGED blockers
        \/ /\ m.tag = "IGET"
           /\ ProcessIget(w, m.type)
           /\ UNCHANGED blockers
        \/ /\ m.tag = "BLOCK"
           /\ ProcessBlock(w, m.blocking)
  /\ requests' = [requests EXCEPT ![w] = Tail(@)]
  /\ UNCHANGED <<plan, outside, elsewhere, worker, up, steals>>

-----------------------------------------------------------------------------
(* Steals.  A thief with a known number of units takes some away. *)
HandleSteal(t, stealer) ==
  \E o \in WorkqSteal(wq, t, stealer) :
    /\ up /\ o.units # {} /\ steals < plan.steals
    /\ steals' = steals + 1
    /\ wq' = o.q
    /\ elsewhere' = elsewhere \cup o.units
    /\ UNCHANGED <<rq, outside, delivered, answers, clients>>

(* xlb_recheck_single_queues(): every entry is matched with the work queue *)
(* in turn.                                                                *)
RecheckSingle(q, r) ==
  LET step(o, w) ==
        {[q |-> c.q,
          r |-> IF c.sent = <<>> THEN o.r
                ELSE RequestMatchUpdate(o.r, w, Len(c.sent)),
          sends |-> o.sends \o ToWorker(c.sent, w)] :
            c \in CheckWorkqueue(o.q, w, o.r.targets[w].type, o.r.targets[w].count)}
  IN FoldLeft(LAMBDA os, w : UNION {step(o, w) : o \in os},
              {[q |-> q, r |-> r, sends |-> <<>>]}, RequestqueueGet(r))

(* xlb_recheck_parallel_queues(): one parallel unit of each type. *)
RecheckParallel(o) ==
  FoldLeft(LAMBDA os, t :
             UNION {{[p EXCEPT !.sends = x.sends \o @] :
                       p \in CheckParallelTasks(x.q, x.r, t)} : x \in os},
           {o}, SetToSeq(Types))

(* steal_payloads(), and xlb_recheck_queues() once the steal is over. *)
Steal(units) ==
  LET single == \E u \in units : u.par <= 1
      par == \E u \in units : u.par > 1
      stored == FoldSet(LAMBDA u, qs : UNION {WorkqAdd(q, u) : q \in qs}, {wq}, units)
  IN /\ up /\ units # {} /\ units \subseteq elsewhere /\ steals < plan.steals
     /\ steals' = steals + 1
     /\ \A u \in units : u.target < 0 \/ u.strict # "HARD"
     /\ \E q \in stored :
        \E s \in IF single THEN RecheckSingle(q, rq)
                 ELSE {[q |-> q, r |-> rq, sends |-> <<>>]} :
        \E o \in IF par /\ s.q.parallel_task_count > 0 THEN RecheckParallel(s) ELSE {s} :
          wq' = o.q /\ rq' = o.r /\ SendAll(o.sends)
     /\ elsewhere' = elsewhere \ units
     /\ UNCHANGED <<outside, clients>>
-----------------------------------------------------------------------------
(* xlb_requestqueue_shutdown(), once workers_idle() holds: whatever is     *)
(* still asked for is answered with ADLB_SHUTDOWN.                         *)
WorkersIdle == rq.nblocked = Cardinality(Workers)

Shutdown ==
  /\ up /\ WorkersIdle
  /\ up' = FALSE
  /\ answers' = [w \in Workers |-> answers[w] + ShutdownAnswers(rq)[w]]
  /\ rq' = [RequestQueueInit EXCEPT !.nblocked = Cardinality(blockers)]
  /\ UNCHANGED <<plan, wq, outside, elsewhere, delivered, requests, worker, blockers, steals>>

-----------------------------------------------------------------------------
(* The workers.  One that has an answer due only asks for the same type    *)
(* again ("We leave it to the client code").                               *)
Message(tag, type, count, blocking) ==
  [tag |-> tag, type |-> type, count |-> count, blocking |-> blocking]

Send(w, m) == requests' = [requests EXCEPT ![w] = Append(@, m)]

(* ADLBP_Get(), ADLBP_Iget(): one request, then wait for its answer. *)
CallGet(w, type) ==
  /\ "GET" \in plan.calls /\ worker[w] = Runs
  /\ Send(w, Message("GET", type, 1, TRUE))
  /\ worker' = [worker EXCEPT ![w] =
                  [state |-> "waits", type |-> type, due |-> 1, need |-> 1]]
  /\ UNCHANGED <<plan, wq, rq, outside, elsewhere, delivered, answers, blockers, up, steals>>

CallIget(w, type) ==
  /\ "IGET" \in plan.calls /\ worker[w] = Runs
  /\ Send(w, Message("IGET", type, 1, FALSE))
  /\ worker' = [worker EXCEPT ![w] =
                  [state |-> "polls", type |-> type, due |-> 1, need |-> 1]]
  /\ UNCHANGED <<plan, wq, rq, outside, elsewhere, delivered, answers, blockers, up, steals>>

(* ADLBP_Amget(): receives are posted for count answers; with wait set it  *)
(* waits for the first of them, which comes after those due before.        *)
CallAmget(w, type, count, wait) ==
  /\ (IF wait THEN "AMGET" ELSE "AGET") \in plan.calls
  /\ worker[w].state = "runs"
  /\ worker[w].due > 0 => worker[w].type = type
  /\ worker[w].due + count <= plan.due
  /\ Send(w, Message("GET", type, count, wait))
  /\ worker' = [worker EXCEPT ![w] =
                  [state |-> IF wait THEN "amget" ELSE "runs", type |-> type,
                   due |-> @.due + count, need |-> IF wait THEN @.due + 1 ELSE 0]]
  /\ UNCHANGED <<plan, wq, rq, outside, elsewhere, delivered, answers, blockers, up, steals>>

(* An answer read once the server is down is ADLB_SHUTDOWN: the worker     *)
(* makes no further call.                                                  *)
Read(w) ==
  /\ answers' = [answers EXCEPT ![w] = @ - 1]
  /\ worker' = [worker EXCEPT ![w] = IF ~up THEN [Runs EXCEPT !.state = "done"]
                  ELSE IF @.due = 1 THEN Runs
                  ELSE [@ EXCEPT !.state = "runs", !.due = @ - 1, !.need = 0]]

(* ADLBP_Aget_test() that finds an answer. *)
AgetTest(w) ==
  /\ worker[w].state = "runs" /\ worker[w].due > 0 /\ answers[w] > 0
  /\ Read(w)
  /\ UNCHANGED <<plan, wq, rq, outside, elsewhere, delivered, requests, blockers, up, steals>>

(* ADLBP_Aget_wait() for the k-th answer due: the answer is not there, so  *)
(* the worker tells the server that it blocks.                             *)
AgetWait(w, k) ==
  /\ "WAIT" \in plan.calls
  /\ worker[w].state = "runs" /\ k <= worker[w].due /\ answers[w] < k
  /\ Send(w, Message("BLOCK", "none", 0, TRUE))
  /\ worker' = [worker EXCEPT ![w].state = "blocked", ![w].need = k]
  /\ UNCHANGED <<plan, wq, rq, outside, elsewhere, delivered, answers, blockers, up, steals>>

(* The answer came: the call returns; Aget_wait tells the server. *)
GetReturns(w) ==
  /\ worker[w].state \in {"waits", "polls", "blocked"} /\ answers[w] >= worker[w].need
  /\ Read(w)
  /\ IF worker[w].state = "blocked" /\ up
     THEN Send(w, Message("BLOCK", "none", 0, FALSE))
     ELSE UNCHANGED requests
  /\ UNCHANGED <<plan, wq, rq, outside, elsewhere, delivered, blockers, up, steals>>

(* Amget leaves the answer it waited for to Aget_test or Aget_wait. *)
AmgetReturns(w) ==
  /\ worker[w].state = "amget" /\ answers[w] >= worker[w].need
  /\ worker' = [worker EXCEPT ![w].state = "runs", ![w].need = 0]
  /\ UNCHANGED <<plan, wq, rq, outside, elsewhere, delivered, requests, answers, blockers, up, steals>>

ServerStep ==
  \/ \E u \in plan.puts : HandlePut(u)
  \/ \E u \in plan.ready : PutWorkUnit(u)
  \/ \E u \in plan.local : PutTargetedLocal(u)
  \/ \E w \in Workers : HandleRequest(w)
  \/ Shutdown

StealStep ==
  \/ \E t \in Types, n \in 0..1 : HandleSteal(t, n)
  \/ \E units \in SUBSET elsewhere : Steal(units)

WorkerStep(w) ==
  \/ \E t \in Types : CallGet(w, t) \/ CallIget(w, t)
  \/ \E t \in Types, c \in 1..plan.count, wait \in BOOLEAN : CallAmget(w, t, c, wait)
  \/ AgetTest(w)
  \/ \E k \in 1..plan.due : AgetWait(w, k)
  \/ GetReturns(w) \/ AmgetReturns(w)

Next == ServerStep \/ StealStep \/ \E w \in plan.callers : WorkerStep(w)

Spec == Init /\ [][Next]_vars
(* Each worker asks for work again and again, and reads its answers; the   *)
(* server handles what it is sent.                                         *)
Fairness ==
  /\ \A w \in Workers :
       /\ WF_vars(HandleRequest(w))
       /\ WF_vars(GetReturns(w))
       /\ \A t \in Types : WF_vars(w \in plan.callers /\ CallGet(w, t))

LiveSpec == Spec /\ Fairness

-----------------------------------------------------------------------------
(* Properties. *)

\* Every value has its type.
TypeOK ==
  /\ wq.wu_array \in [Idx -> AllUnits \cup {NoUnit}]
  /\ \A t \in Types : IsABag(wq.untargeted_work[t])
  /\ RequestQueueTypeOK(rq)
  /\ outside \subseteq AllUnits /\ elsewhere \subseteq AllUnits
  /\ delivered \in [AllUnits -> Seq(Workers)]
  /\ answers \in [Workers -> Nat]

InArray(u) == {i \in Idx : wq.wu_array[i] = u}

(* No handler loses or copies a unit: it is in one place only, and once it *)
(* is sent it went to as many different workers as it needs.               *)
UnitsConserved ==
  \A u \in AllUnits :
    LET places == Cardinality(InArray(u))
                  + Cardinality({t \in Types : u \in wq.parallel_work[t]})
                  + (IF u \in outside THEN 1 ELSE 0)
                  + (IF u \in elsewhere THEN 1 ELSE 0)
    IN /\ places = IF delivered[u] = <<>> THEN 1 ELSE 0
       /\ Len(delivered[u]) \in {0, u.par} /\ IsInjective(delivered[u])

\* The entries a unit must have for every get that should find it.
Indexed(u, i) ==
  LET own == [key |-> Negated(u.pri), idx |-> i]
      soft == [key |-> Negated(SoftTargetPriority(u.pri)), idx |-> i]
  IN /\ u.target < 0 => BagIn(own, wq.untargeted_work[u.type])
     /\ u.target \in Workers /\ u.accry = "RANK" =>
          BagIn(own, wq.targeted_work[u.target][u.type])
     /\ u.target \in Workers /\ u.accry = "NODE" =>
          BagIn(own, wq.host_targeted_work[Host[u.target]][u.type])
     /\ u.target >= 0 /\ u.strict # "HARD" => BagIn(soft, wq.untargeted_work[u.type])

(* A unit in wu_array is never orphaned: the heaps may hold stale entries, *)
(* but they also hold an entry that still finds the unit.                  *)
NoUnitOrphaned ==
  \A i \in Idx : wq.wu_array[i] # NoUnit => Indexed(wq.wu_array[i], i)

(* Units w may be given. *)
MayRun(w, u) ==
  \/ u.target < 0 \/ u.strict # "HARD"
  \/ u.target = w
  \/ u.accry = "NODE" /\ u.target \in Workers /\ Host[u.target] = Host[w]

(* Matching is complete: between two handlers no worker waits in the       *)
(* request queue for work that the work queue holds for it.                *)
NoWorkWithheld ==
  \A w \in Workers, i \in Idx :
    HasRequest(rq, w) /\ wq.wu_array[i] # NoUnit
      /\ wq.wu_array[i].type = rq.targets[w].type
        => ~MayRun(w, wq.wu_array[i])

(* The same for parallel units: enough workers never wait for one. *)
NoParallelWithheld ==
  up => \A t \in Types : ParallelFits(wq, t, Len(rq.type_requests[t])) = {}

(* "Strict: task must run with given accuracy": a unit with a hard target  *)
(* is run there, whatever stale entries lead to it, and not stolen.        *)
HardTargetsKept ==
  /\ \A u \in AllUnits : \A k \in DOMAIN delivered[u] : MayRun(delivered[u][k], u)
  /\ \A u \in elsewhere \ plan.foreign : u.target < 0 \/ u.strict # "HARD"

(* The two ways to an entry agree, each worker is in one list at most, and *)
(* the counter that the fast path of the parallel matching reads is the    *)
(* one a recount would give.                                               *)
QueuesConsistent ==
  /\ TypeOK
  /\ \A w \in Workers, t \in Types :
       (w \in Range(rq.type_requests[t])) <=> Waiting(rq, w, t)
  /\ \A t \in Types : IsInjective(rq.type_requests[t])
  /\ wq.parallel_task_count = MapThenSumSet(LAMBDA t : Cardinality(wq.parallel_work[t]), Types)

\* The worker waits for an answer that was not sent.
Blocked(w) ==
  worker[w].state \in {"waits", "amget", "blocked"} /\ answers[w] < worker[w].need

(* "Total number of workers blocked on requests": as long as workers use   *)
(* blocking gets only, a server that counts all of them as idle is right,  *)
(* and one whose workers are all blocked finds it out when it has read     *)
(* their messages.  (A note that a worker blocks can cross its answer.)    *)
BlockingCalls == plan.calls \subseteq {"GET", "IGET"}

WorkersIdleExact ==
  BlockingCalls /\ up =>
    /\ WorkersIdle => \A w \in Workers : Blocked(w)
    /\ (\A w \in Workers : Blocked(w) /\ requests[w] = <<>>) => WorkersIdle

(* The counter of the idle check is the one a recount of the entries and   *)
(* the notes gives, and stays within the assertions of workers_idle() and  *)
(* xlb_requestqueue_decr_blocked(), however the notes cross the answers.   *)
BlockedExact ==
  /\ rq.nblocked = Cardinality({w \in Workers : rq.targets[w].blocking})
                   + Cardinality(blockers)
  /\ rq.nblocked \in 0..Cardinality(Workers)

(* A get takes no unit from the array while it leaves one for the same     *)
(* worker that comes before it: its own by priority, then its host's, then *)
(* the untargeted ones with soft targets after them.                       *)
Rank(w, u) ==
  IF u.target = w /\ u.accry = "RANK" THEN <<2, u.pri>>
  ELSE IF u.accry = "NODE" /\ u.target \in Workers /\ Host[u.target] = Host[w]
  THEN <<1, u.pri>>
  ELSE <<0, IF u.target < 0 THEN u.pri ELSE SoftTargetPriority(u.pri)>>

Before(a, b) == a[1] > b[1] \/ (a[1] = b[1] /\ a[2] > b[2])

PriorityKept ==
  [][\A w \in Workers, i, j \in Idx :
       LET u == wq.wu_array[i]
           v == wq.wu_array[j]
       IN /\ u # NoUnit /\ v # NoUnit /\ u.type = v.type
          /\ wq'.wu_array[i] # u /\ wq'.wu_array[j] = v
          /\ delivered'[u] # delivered[u] /\ Last(delivered'[u]) = w
          /\ MayRun(w, v)
          => ~Before(Rank(w, v), Rank(w, u))]_vars

(* Every unit that is put is run in the end. *)
AllDelivered ==
  \A p \in Plans : \A u \in p.puts \cup p.ready :
    (plan = p /\ u \notin outside) ~> (plan = p /\ delivered[u] # <<>>)
=============================================================================
