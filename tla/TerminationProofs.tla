------------------------- MODULE TerminationProofs --------------------------
(***************************************************************************)
(* Proofs about Termination, for any number of servers, workers and types: *)
(* its types, what a steal moves, the numbers of the rounds, which never   *)
(* run ahead of the master's, and that a round of idle checks that         *)
(* succeeds found the system quiescent, unless a thief passed a check with *)
(* its STEAL in flight.                                                    *)
(***************************************************************************)
EXTENDS Termination, TLAPS, FiniteSetTheorems, WellFoundedInduction

\* A set of ranks has a lowest one.
LEMMA LowestOf ==
  ASSUME NEW S, S \subseteq Nat, S # {}, NEW R, IsWellFoundedOn(R, Nat),
         \A x, y \in Nat : y < x => <<y, x>> \in R
  PROVE  \E x \in S : \A y \in S : x <= y
<1>1. PICK x \in S : \A y \in S : ~(<<y, x>> \in R)
  BY WFMin, Zenon
<1>2. \A y \in S : x <= y
  <2> TAKE y \in S
  <2>1. x \in Nat /\ y \in Nat /\ ~(y < x)
    BY <1>1, Zenon
  <2> QED
    BY <2>1
<1> QED
  BY <1>2

LEMMA LowestRank ==
  ASSUME NEW S, S \subseteq Nat, S # {}
  PROVE  \E x \in S : \A y \in S : x <= y
<1>1. \A x, y \in Nat : y < x => <<y, x>> \in OpToRel(<, Nat)
  BY DEF OpToRel
<1> QED
  BY <1>1, NatLessThanWellFounded, LowestOf, Zenon

\* The master is a server, the one of the lowest rank (server.c).
LEMMA MasterLowest ==
  Master \in Servers /\ \A s \in Servers : Master <= s
BY LowestRank, TerminationAssumption DEF Master

\* The next server after s in the order of a round: none is in between.
LEMMA AfterNext ==
  ASSUME NEW s \in Servers
  PROVE  /\ After(s) \in Nat /\ s < After(s)
         /\ \A x \in Servers : x < After(s) => x <= s
<1>1. CASE \E x \in Servers : x > s
  <2> DEFINE S == {x \in Servers : x > s}
             Nearest(x) == x > s /\ \A y \in Servers : y > s => x <= y
  <2>1. S \subseteq Nat /\ S # {}
    BY <1>1, TerminationAssumption
  <2>2. PICK n \in S : \A m \in S : n <= m
    <3> HIDE DEF S
    <3> QED BY <2>1, LowestRank
  <2>3. \E x \in Servers : Nearest(x)
    BY <2>2
  <2>4. After(s) = CHOOSE x \in Servers : Nearest(x)
    BY <1>1 DEF After
  <2>5. After(s) \in Servers /\ Nearest(After(s))
    <3> HIDE DEF Nearest
    <3> QED BY <2>3, <2>4
  <2> QED
    <3>1. \A x \in Servers : x \in Nat
      BY TerminationAssumption
    <3>2. s \in Nat /\ After(s) \in Nat
      BY <2>5, <3>1
    <3> QED
      BY <2>5, <3>1, <3>2
<1>2. CASE ~\E x \in Servers : x > s
  <2>1. \A x \in Servers : x \in Nat
    BY TerminationAssumption
  <2>2. After(s) = s + 1
    BY <1>2 DEF After
  <2> QED
    BY <1>2, <2>1, <2>2
<1> QED
  BY <1>1, <1>2

\* What Cardinality(fedWith(t)) is compared with in HandleSteal.
LEMMA MinOfTwo ==
  ASSUME NEW a \in Nat, NEW b \in Nat
  PROVE  Min({a, b}) \in Nat /\ Min({a, b}) <= a /\ Min({a, b}) <= b
BY DEF Min

-----------------------------------------------------------------------------
(* What a steal moves, type by type: xlb_workq_steal() takes no more than  *)
(* the victim has, xlb_recheck_queues() feeds a worker of the thief only   *)
(* with a unit that arrived.                                               *)
LEMMA StolenUnits ==
  ASSUME TypeOK, NEW s \in Servers, NEW n \in [Types -> 0..MaxPuts],
         NEW fed \in SUBSET Workers, HandleSteal(s, n, fed), NEW t \in Types
  PROVE  /\ n[t] \in Nat /\ n[t] <= work[steal[s].victim][t]
         /\ Cardinality({w \in fed : worker[w] = t}) \in 0..n[t]
         /\ \A w \in fed : worker[w] = t => ServerOf[w] = s /\ n[t] > 0
<1> DEFINE v == steal[s].victim
           fedWith == {w \in fed : worker[w] = t}
<1>1. /\ MaySend(steal[s], v, t, n[t])
      /\ fedWith \subseteq Waiting(s, t)
      /\ Cardinality(fedWith) = Min({n[t], Cardinality(Waiting(s, t))})
  BY DEF HandleSteal
<1>2. n[t] \in Nat
  BY TerminationAssumption
<1>3. n[t] <= work[v][t]
  BY <1>1 DEF MaySend
<1>4. IsFiniteSet(Waiting(s, t)) /\ IsFiniteSet(fedWith)
  <2>1. Waiting(s, t) \subseteq Workers /\ fedWith \subseteq Workers
    BY DEF Waiting
  <2> QED
    BY <2>1, FS_Subset, TerminationAssumption
<1>5. Cardinality(Waiting(s, t)) \in Nat /\ Cardinality(fedWith) \in Nat
  BY <1>4, FS_CardinalityType
<1>6. Cardinality(fedWith) <= n[t]
  BY <1>1, <1>2, <1>5, MinOfTwo
<1>7. ASSUME NEW w \in fed, worker[w] = t
      PROVE  ServerOf[w] = s /\ n[t] > 0
  <2>1. w \in fedWith
    BY <1>7
  <2>2. ServerOf[w] = s
    BY <1>1, <2>1 DEF Waiting
  <2>3. Cardinality(fedWith) # 0
    <3> HIDE DEF fedWith
    <3> QED BY <2>1, <1>4, FS_EmptySet
  <2> QED
    BY <2>2, <2>3, <1>2, <1>5, <1>6
<1> QED
  BY <1>2, <1>3, <1>5, <1>6, <1>7

(* The same for the state after the steal. *)
LEMMA AfterSteal ==
  ASSUME TypeOK, NEW s \in Servers, NEW n \in [Types -> 0..MaxPuts],
         NEW fed \in SUBSET Workers, HandleSteal(s, n, fed)
  PROVE  /\ steal[s].victim \in Servers \ {s}
         /\ work' \in [Servers -> [Types -> Nat]]
         /\ \A x \in Servers \ {s, steal[s].victim} : work'[x] = work[x]
         /\ \A t \in Types : /\ work'[steal[s].victim][t] = work[steal[s].victim][t] - n[t]
                             /\ work'[s][t] <= work[s][t] + n[t]
<1> DEFINE v == steal[s].victim
           card(t) == Cardinality({w \in fed : worker[w] = t})
<1>1. v \in Servers \ {s}
  BY DEF HandleSteal, TypeOK
<1>2. work' = [work EXCEPT ![v] = [t \in Types |-> @[t] - n[t]],
                           ![s] = [t \in Types |-> @[t] + n[t] - card(t)]]
  BY DEF HandleSteal
<1>3. \A t \in Types : /\ n[t] \in Nat /\ n[t] <= work[v][t] /\ card(t) \in 0..n[t]
                       /\ work[v][t] \in Nat /\ work[s][t] \in Nat
  <2> TAKE t \in Types
  <2>1. n[t] \in Nat /\ n[t] <= work[v][t] /\ card(t) \in 0..n[t]
    BY StolenUnits
  <2>2. work[v][t] \in Nat /\ work[s][t] \in Nat
    BY <1>1 DEF TypeOK
  <2> QED
    BY <2>1, <2>2
<1> HIDE DEF card, v
<1>4. work \in [Servers -> [Types -> Nat]]
  BY DEF TypeOK
<1>5. \A t \in Types : /\ work[v][t] - n[t] \in Nat
                       /\ work[s][t] + n[t] - card(t) \in Nat
                       /\ work[s][t] + n[t] - card(t) <= work[s][t] + n[t]
  BY <1>3
<1>6. /\ work'[v] = [t \in Types |-> work[v][t] - n[t]]
      /\ work'[s] = [t \in Types |-> work[s][t] + n[t] - card(t)]
      /\ \A x \in Servers \ {s, v} : work'[x] = work[x]
  BY <1>1, <1>2, <1>4
<1>7. /\ DOMAIN work' = Servers /\ work' = [x \in Servers |-> work'[x]]
      /\ \A x \in Servers : work'[x] \in [Types -> Nat]
  BY <1>1, <1>2, <1>4, <1>5, <1>6
<1>8. work' \in [Servers -> [Types -> Nat]]
  BY <1>7
<1> QED
  BY <1>1, <1>5, <1>6, <1>8 DEF v

-----------------------------------------------------------------------------
LEMMA TypeInit == Init => TypeOK
<1> SUFFICES ASSUME Init PROVE TypeOK
  OBVIOUS
<1>1. NoProbe \in [state: {"none", "sent", "answered"}, has: SUBSET Types]
  BY DEF NoProbe
<1>2. NoSteal \in [victim: Servers \cup {-1}, counts: [Types -> Nat], attempt: Nat]
  BY DEF NoSteal
<1>3. NoRound \in [next: Int, req: SUBSET Types, has: SUBSET Types]
  BY DEF NoRound
<1>4. [s \in Servers |-> [t \in Types |-> 0]] \in [Servers -> [Types -> Nat]]
  OBVIOUS
<1>5. [w \in Workers |-> [t \in Types |-> 0]] \in [Workers -> [Types -> Nat]]
  OBVIOUS
<1> QED
  BY <1>1, <1>2, <1>3, <1>4, <1>5 DEF Init, TypeOK

\* A counter of a table of counters changes.
LEMMA Recounted ==
  ASSUME NEW A, NEW B, NEW f \in [A -> [B -> Nat]], NEW a \in A, NEW b \in B, NEW k \in Nat
  PROVE  [f EXCEPT ![a] = [f[a] EXCEPT ![b] = k]] \in [A -> [B -> Nat]]
<1>1. [f[a] EXCEPT ![b] = k] \in [B -> Nat]
  OBVIOUS
<1> QED
  BY <1>1

LEMMA TypeOfWorkerStep ==
  ASSUME TypeOK, WorkerStep
  PROVE  TypeOK'
<1>0. \A w \in Workers : ServerOf[w] \in Servers
  BY TerminationAssumption
<1>T. /\ work \in [Servers -> [Types -> Nat]]
      /\ targeted \in [Workers -> [Types -> Nat]]
      /\ worker \in [Workers -> Types \cup {"runs", "left"}]
      /\ expired \in [Servers -> BOOLEAN] /\ puts \in Nat
  BY DEF TypeOK
<1>1. ASSUME NEW w \in Workers, ShutdownWorker(w)
      PROVE  TypeOK'
  BY <1>0, <1>1 DEF TypeOK, ShutdownWorker, Touched, stealing
<1>2. ASSUME NEW w \in Workers, NEW t \in Types, Put(w, t)
      PROVE  TypeOK'
  <2>0. PICK s \in Servers : s = ServerOf[w]
    BY <1>0
  <2>1. work' \in [Servers -> [Types -> Nat]]
    <3>1. work' = work \/ work' = [work EXCEPT ![s] = [work[s] EXCEPT ![t] = work[s][t] + 1]]
      BY <1>2, <2>0, <1>T DEF Put
    <3>2. work[s][t] + 1 \in Nat
      BY <1>T
    <3> QED
      BY <3>1, <3>2, <1>T, Recounted
  <2>2. worker' \in [Workers -> Types \cup {"runs", "left"}]
    BY <1>2, <1>T DEF Put
  <2>3. expired' \in [Servers -> BOOLEAN] /\ puts' \in Nat
    <3>1. expired' = [expired EXCEPT ![ServerOf[w]] = FALSE] /\ puts' = puts + 1
      BY <1>2 DEF Put, Touched
    <3>2. [expired EXCEPT ![ServerOf[w]] = FALSE] \in [Servers -> BOOLEAN]
      BY <1>T, Zenon
    <3>3. puts + 1 \in Nat
      BY <1>T
    <3> QED
      BY <3>1, <3>2, <3>3
  <2> QED
    BY <1>2, <2>1, <2>2, <2>3 DEF TypeOK, Put, stealing
<1>3. ASSUME NEW w \in Workers, NEW t \in Types, Get(w, t)
      PROVE  TypeOK'
  <2>0. PICK s \in Servers : s = ServerOf[w]
    BY <1>0
  <2>1. work' \in [Servers -> [Types -> Nat]]
    <3>1. work' = work \/ /\ work[s][t] > 0
                          /\ work' = [work EXCEPT ![s] = [work[s] EXCEPT ![t] = work[s][t] - 1]]
      <4>1. CASE targeted[w][t] > 0 \/ ~(work[s][t] > 0)
        BY <1>3, <2>0, <4>1 DEF Get
      <4>2. CASE ~(targeted[w][t] > 0) /\ work[s][t] > 0
        BY <1>3, <2>0, <4>2 DEF Get
      <4> QED
        BY <4>1, <4>2
    <3>2. CASE work[s][t] > 0
      <4>1. work[s][t] - 1 \in Nat
        BY <3>2, <1>T
      <4> QED
        BY <3>1, <4>1, <1>T, Recounted
    <3> QED
      BY <3>1, <3>2, <1>T
  <2>2. targeted' \in [Workers -> [Types -> Nat]]
    <3>1. targeted' = targeted
            \/ /\ targeted[w][t] > 0
               /\ targeted' = [targeted EXCEPT ![w] = [targeted[w] EXCEPT ![t] = targeted[w][t] - 1]]
      BY <1>3, <1>T DEF Get
    <3>2. targeted[w][t] > 0 => targeted[w][t] - 1 \in Nat
      BY <1>T
    <3> QED
      BY <3>1, <3>2, <1>T, Recounted
  <2>3. worker' \in [Workers -> Types \cup {"runs", "left"}]
    BY <1>3, <1>T DEF Get
  <2>4. expired' \in [Servers -> BOOLEAN]
    BY <1>3, <1>T DEF Get, Touched
  <2> QED
    BY <1>3, <2>1, <2>2, <2>3, <2>4 DEF TypeOK, Get, stealing
<1>4. ASSUME NEW w \in Workers, NEW v \in Workers, NEW t \in Types, PutTargeted(w, v, t)
      PROVE  TypeOK'
  <2>1. targeted' \in [Workers -> [Types -> Nat]]
    <3>1. targeted' = targeted
            \/ targeted' = [targeted EXCEPT ![v] = [targeted[v] EXCEPT ![t] = targeted[v][t] + 1]]
      BY <1>4, <1>T DEF PutTargeted
    <3>2. targeted[v][t] + 1 \in Nat
      BY <1>T
    <3> QED
      BY <3>1, <3>2, <1>T, Recounted
  <2>2. worker' \in [Workers -> Types \cup {"runs", "left"}]
    BY <1>4, <1>T DEF PutTargeted
  <2>3. expired' \in [Servers -> BOOLEAN] /\ puts' \in Nat
    <3>1. expired' = [expired EXCEPT ![ServerOf[v]] = FALSE] /\ puts' = puts + 1
      BY <1>4 DEF PutTargeted, Touched
    <3>2. [expired EXCEPT ![ServerOf[v]] = FALSE] \in [Servers -> BOOLEAN]
      BY <1>T, Zenon
    <3>3. puts + 1 \in Nat
      BY <1>T
    <3> QED
      BY <3>1, <3>2, <3>3
  <2> QED
    BY <1>4, <2>1, <2>2, <2>3 DEF TypeOK, PutTargeted, stealing
<1> QED
  BY <1>1, <1>2, <1>3, <1>4 DEF WorkerStep

LEMMA TypeOfStealStep ==
  ASSUME TypeOK, StealStep
  PROVE  TypeOK'
<1>1. ASSUME NEW s \in Servers, NEW v \in Servers, RandomStealProbe(s, v)
      PROVE  TypeOK'
  BY <1>1 DEF TypeOK, RandomStealProbe, queues, NoProbe, NoSteal
<1>2. ASSUME NEW s \in Servers, NEW v \in Servers, HandleStealProbe(s, v)
      PROVE  TypeOK'
  BY <1>2 DEF TypeOK, HandleStealProbe, Present, queues, NoProbe, NoSteal
<1>3. ASSUME NEW s \in Servers, NEW v \in Servers, HandleStealProbeResp(s, v)
      PROVE  TypeOK'
  BY <1>3 DEF TypeOK, HandleStealProbeResp, queues, NoProbe, NoSteal
<1>4. ASSUME NEW s \in Servers, NEW n \in [Types -> 0..MaxPuts],
             NEW fed \in SUBSET Workers, HandleSteal(s, n, fed)
      PROVE  TypeOK'
  <2>1. work' \in [Servers -> [Types -> Nat]]
    BY <1>4, AfterSteal
  <2>2. worker' \in [Workers -> Types \cup {"runs", "left"}]
    BY <1>4 DEF TypeOK, HandleSteal
  <2>3. attempt' \in [Servers -> Nat]
    BY <1>4 DEF TypeOK, HandleSteal
  <2>4. NoSteal \in [victim: Servers \cup {-1}, counts: [Types -> Nat], attempt: Nat]
    BY DEF NoSteal
  <2>5. /\ steal' \in [Servers -> [victim: Servers \cup {-1}, counts: [Types -> Nat], attempt: Nat]]
        /\ \A x \in Servers : steal'[x] = NoSteal \/ steal'[x] = steal[x]
    BY <1>4, <2>4 DEF TypeOK, HandleSteal
  <2> QED
    BY <1>4, <2>1, <2>2, <2>3, <2>5 DEF TypeOK, HandleSteal
<1> QED
  BY <1>1, <1>2, <1>3, <1>4 DEF StealStep

LEMMA TypeOfDecided ==
  ASSUME TypeOK, NEW r \in [next: Int, req: SUBSET Types, has: SUBSET Types], Decided(r)
  PROVE  round' \in [next: Int, req: SUBSET Types, has: SUBSET Types] /\ down' \in BOOLEAN
<1>1. NoRound \in [next: Int, req: SUBSET Types, has: SUBSET Types]
  BY DEF NoRound
<1>2. round' = r \/ round' = NoRound
  BY DEF Decided
<1>3. down' \in BOOLEAN
  BY Zenon DEF Decided
<1> QED
  BY <1>1, <1>2, <1>3

LEMMA TypeOfIdleStep ==
  ASSUME TypeOK, IdleStep
  PROVE  TypeOK'
<1>0. Master \in Servers /\ \A s \in Servers : After(s) \in Int /\ s \in Nat
  BY MasterLowest, AfterNext, TerminationAssumption
<1>1. ASSUME StartRound
      PROVE  TypeOK'
  <2>1. [next |-> After(Master), req |-> Requested(Master), has |-> Present(Master)]
          \in [next: Int, req: SUBSET Types, has: SUBSET Types]
    BY <1>0 DEF Requested, Present
  <2>2. round' \in [next: Int, req: SUBSET Types, has: SUBSET Types] /\ down' \in BOOLEAN
    BY <1>1, <2>1, TypeOfDecided DEF StartRound
  <2>3. attempt' \in [Servers -> Nat]
    BY <1>0, <1>1 DEF StartRound, TypeOK
  <2> QED
    BY <1>1, <2>2, <2>3 DEF StartRound, queues, TypeOK
<1>2. ASSUME NEW v \in Servers, CheckIdle(v)
      PROVE  TypeOK'
  <2>1. [next |-> After(v), req |-> round.req \cup Requested(v), has |-> round.has \cup Present(v)]
          \in [next: Int, req: SUBSET Types, has: SUBSET Types]
    BY <1>0 DEF Requested, Present, TypeOK
  <2>2. NoRound \in [next: Int, req: SUBSET Types, has: SUBSET Types]
    BY DEF NoRound
  <2>3. round' \in [next: Int, req: SUBSET Types, has: SUBSET Types] /\ down' \in BOOLEAN
    BY <1>2, <2>1, <2>2, TypeOfDecided DEF CheckIdle, TypeOK
  <2>4. attempt' \in [Servers -> Nat]
    BY <1>0, <1>2 DEF CheckIdle, TypeOK
  <2>5. raced' \in BOOLEAN
    BY <1>2 DEF CheckIdle, TypeOK
  <2> QED
    BY <1>2, <2>3, <2>4, <2>5 DEF CheckIdle, queues, TypeOK
<1>3. ASSUME NEW v \in Servers, TimerExpires(v)
      PROVE  TypeOK'
  BY <1>3 DEF TimerExpires, queues, stealing, TypeOK
<1> QED
  BY <1>1, <1>2, <1>3 DEF IdleStep

\* Every variable keeps its type under every step of workers and servers.
LEMMA TypeStep == TypeOK /\ [Next]_vars => TypeOK'
<1> SUFFICES ASSUME TypeOK, [Next]_vars PROVE TypeOK'
  OBVIOUS
<1>1. CASE UNCHANGED vars
  BY <1>1 DEF TypeOK, vars
<1> QED
  BY <1>1, TypeOfWorkerStep, TypeOfStealStep, TypeOfIdleStep DEF Next

-----------------------------------------------------------------------------
(* The numbers of the rounds. *)

LEMMA WorkersLeaveServers ==
  WorkerStep => UNCHANGED <<probe, steal, attempt, round, down, raced>>
BY DEF WorkerStep, ShutdownWorker, Put, Get, PutTargeted, stealing

LEMMA AttemptsStep ==
  ASSUME TypeOK, AttemptsBehind, [Next]_vars
  PROVE  AttemptsBehind'
<1>0. /\ Master \in Servers /\ attempt \in [Servers -> Nat]
      /\ steal \in [Servers -> [victim: Servers \cup {-1}, counts: [Types -> Nat], attempt: Nat]]
      /\ \A s \in Servers : /\ attempt[s] \in Nat /\ steal[s].attempt \in Nat
                            /\ attempt[s] <= attempt[Master]
                            /\ steal[s].attempt <= attempt[s]
  BY MasterLowest DEF TypeOK, AttemptsBehind
<1>1. CASE UNCHANGED <<steal, attempt>>
  BY <1>1 DEF AttemptsBehind
<1>2. ASSUME NEW s \in Servers, NEW v \in Servers, HandleStealProbeResp(s, v)
      PROVE  AttemptsBehind'
  <2>1. attempt' = attempt
    BY <1>2 DEF HandleStealProbeResp
  <2>2. steal' = steal \/ steal' = [steal EXCEPT ![s] = [victim |-> v, counts |-> work[s],
                                                         attempt |-> attempt[s]]]
    BY <1>2 DEF HandleStealProbeResp
  <2>3. ASSUME NEW x \in Servers
        PROVE  steal'[x].attempt <= attempt[x]
    <3>1. CASE steal'[x] = steal[x]
      BY <1>0, <3>1
    <3>2. CASE x = s /\ steal' # steal
      <4>1. steal'[s].attempt = attempt[s]
        BY <1>0, <2>2, <3>2
      <4> QED
        BY <1>0, <3>2, <4>1
    <3> QED
      BY <1>0, <2>2, <3>1, <3>2
  <2> QED
    BY <1>0, <2>1, <2>3 DEF AttemptsBehind
<1>3. ASSUME NEW s \in Servers, NEW n \in [Types -> 0..MaxPuts],
             NEW fed \in SUBSET Workers, HandleSteal(s, n, fed)
      PROVE  AttemptsBehind'
  <2>1. PICK v \in Servers : v = steal[s].victim
    BY <1>3, AfterSteal
  <2>2. \/ attempt' = attempt
        \/ attempt' = [attempt EXCEPT ![v] = steal[s].attempt] /\ steal[s].attempt > attempt[v]
    BY <1>3, <2>1 DEF HandleSteal
  <2>3. \A x \in Servers : attempt[x] <= attempt'[x] /\ attempt'[x] <= attempt[Master]
    BY <1>0, <2>2
  <2>4. attempt'[Master] = attempt[Master]
    BY <1>0, <2>2
  <2>5. steal' = [steal EXCEPT ![s] = NoSteal]
    BY <1>3 DEF HandleSteal
  <2>6. \A x \in Servers : steal'[x].attempt = steal[x].attempt \/ steal'[x].attempt = 0
    BY <1>0, <2>5 DEF NoSteal
  <2>7. \A x \in Servers : attempt'[x] \in Nat
    BY <1>0, <2>2
  <2> QED
    BY <1>0, <2>3, <2>4, <2>6, <2>7 DEF AttemptsBehind
<1>4. ASSUME StartRound
      PROVE  AttemptsBehind'
  <2>1. attempt' = [attempt EXCEPT ![Master] = attempt[Master] + 1] /\ steal' = steal
    BY <1>4 DEF StartRound
  <2> QED
    BY <1>0, <2>1 DEF AttemptsBehind
<1>5. ASSUME NEW v \in Servers, CheckIdle(v)
      PROVE  AttemptsBehind'
  <2>1. attempt' = [attempt EXCEPT ![v] = attempt[Master]] /\ steal' = steal
    BY <1>5 DEF CheckIdle
  <2> QED
    BY <1>0, <2>1 DEF AttemptsBehind
<1>6. ASSUME NEW s \in Servers, NEW v \in Servers,
             RandomStealProbe(s, v) \/ HandleStealProbe(s, v) \/ TimerExpires(s)
      PROVE  UNCHANGED <<steal, attempt>>
  BY <1>6 DEF RandomStealProbe, HandleStealProbe, TimerExpires, stealing
<1>7. UNCHANGED vars => UNCHANGED <<steal, attempt>>
  BY DEF vars
<1> QED
  BY <1>1, <1>2, <1>3, <1>4, <1>5, <1>6, <1>7, WorkersLeaveServers
     DEF Next, StealStep, IdleStep

-----------------------------------------------------------------------------
(* Blocked workers and the units targeted at them. *)

LEMMA TargetsStep ==
  ASSUME TypeOK, TargetsTaken, [Next]_vars
  PROVE  TargetsTaken'
<1>0. /\ worker \in [Workers -> Types \cup {"runs", "left"}]
      /\ targeted \in [Workers -> [Types -> Nat]]
      /\ "runs" \notin Types /\ "left" \notin Types
      /\ \A w \in Workers : worker[w] \in Types => targeted[w][worker[w]] = 0
  BY TerminationAssumption DEF TypeOK, TargetsTaken
<1>1. CASE /\ UNCHANGED targeted /\ DOMAIN worker' = Workers
           /\ \A w \in Workers : worker'[w] = worker[w] \/ worker'[w] \notin Types
  BY <1>0, <1>1 DEF TargetsTaken
<1>2. ASSUME NEW w \in Workers, ShutdownWorker(w)
      PROVE  TargetsTaken'
  <2>1. worker' = [worker EXCEPT ![w] = "left"] /\ targeted' = targeted
    BY <1>2 DEF ShutdownWorker
  <2> QED
    BY <1>0, <1>1, <2>1
<1>3. ASSUME NEW w \in Workers, NEW t \in Types, Put(w, t)
      PROVE  TargetsTaken'
  <2>1. /\ targeted' = targeted
        /\ worker' = worker \/ \E v \in Workers : worker' = [worker EXCEPT ![v] = "runs"]
    BY <1>3 DEF Put, Waiting
  <2> QED
    BY <1>0, <1>1, <2>1
<1>4. ASSUME NEW w \in Workers, NEW t \in Types, Get(w, t)
      PROVE  TargetsTaken'
  <2>1. CASE targeted[w][t] > 0
    <3>1. worker' = worker /\ worker[w] = "runs"
      BY <1>4, <2>1 DEF Get
    <3>2. targeted' = [targeted EXCEPT ![w] = [targeted[w] EXCEPT ![t] = targeted[w][t] - 1]]
      BY <1>4, <2>1 DEF Get
    <3>3. \A v \in Workers : v # w => targeted'[v] = targeted[v]
      BY <1>0, <3>2
    <3> QED
      BY <1>0, <3>1, <3>3 DEF TargetsTaken
  <2>2. CASE ~(targeted[w][t] > 0)
    <3>1. targeted' = targeted /\ (worker' = worker \/ worker' = [worker EXCEPT ![w] = t])
      BY <1>4, <2>2 DEF Get
    <3>2. targeted[w][t] = 0
      BY <1>0, <2>2
    <3> QED
      BY <1>0, <3>1, <3>2 DEF TargetsTaken
  <2> QED
    BY <2>1, <2>2
<1>5. ASSUME NEW w \in Workers, NEW v \in Workers, NEW t \in Types, PutTargeted(w, v, t)
      PROVE  TargetsTaken'
  <2>1. CASE worker[v] = t
    <3>1. worker' = [worker EXCEPT ![v] = "runs"] /\ targeted' = targeted
      BY <1>5, <2>1 DEF PutTargeted
    <3> QED
      BY <1>0, <1>1, <3>1
  <2>2. CASE worker[v] # t
    <3>1. /\ worker' = worker
          /\ targeted' = [targeted EXCEPT ![v] = [targeted[v] EXCEPT ![t] = targeted[v][t] + 1]]
      BY <1>5, <2>2 DEF PutTargeted
    <3>2. \A x \in Workers, y \in Types : x # v \/ y # t => targeted'[x][y] = targeted[x][y]
      BY <1>0, <3>1
    <3> QED
      BY <1>0, <2>2, <3>1, <3>2 DEF TargetsTaken
  <2> QED
    BY <2>1, <2>2
<1>6. ASSUME NEW s \in Servers, NEW n \in [Types -> 0..MaxPuts],
             NEW fed \in SUBSET Workers, HandleSteal(s, n, fed)
      PROVE  TargetsTaken'
  <2>1. /\ worker' = [w \in Workers |-> IF w \in fed THEN "runs" ELSE worker[w]]
        /\ targeted' = targeted
    BY <1>6 DEF HandleSteal
  <2> QED
    BY <1>0, <1>1, <2>1
<1>7. ASSUME NEW s \in Servers, NEW v \in Servers,
             \/ RandomStealProbe(s, v) \/ HandleStealProbe(s, v) \/ HandleStealProbeResp(s, v)
             \/ StartRound \/ CheckIdle(s) \/ TimerExpires(s)
      PROVE  UNCHANGED <<worker, targeted>>
  BY <1>7 DEF RandomStealProbe, HandleStealProbe, HandleStealProbeResp, StartRound,
              CheckIdle, TimerExpires, queues
<1>8. UNCHANGED vars => UNCHANGED <<worker, targeted>>
  BY DEF vars
<1>9. CASE UNCHANGED <<worker, targeted>>
  BY <1>0, <1>1, <1>9
<1>10. ASSUME StartRound PROVE UNCHANGED <<worker, targeted>>
  BY <1>10 DEF StartRound, queues
<1> QED
  BY <1>2, <1>3, <1>4, <1>5, <1>6, <1>7, <1>8, <1>9, <1>10
     DEF Next, WorkerStep, StealStep, IdleStep

-----------------------------------------------------------------------------
\* The numbers of the rounds are the master's: no server, and no STEAL in
\* flight, carries a later one than the master, for any number of servers (the
\* assertion of xlb_server_check_idle_local()).
THEOREM AttemptsTheorem == Spec => [](TypeOK /\ AttemptsBehind)
<1>1. Init => TypeOK /\ AttemptsBehind
  <2>1. Init => AttemptsBehind
    BY MasterLowest DEF Init, AttemptsBehind, NoSteal
  <2> QED
    BY <2>1, TypeInit
<1>2. TypeOK /\ AttemptsBehind /\ [Next]_vars => (TypeOK /\ AttemptsBehind)'
  BY TypeStep, AttemptsStep
<1> QED
  BY <1>1, <1>2, PTL DEF Spec

LEMMA Unaffected ==
  ASSUME NEW s \in Servers, work'[s] = work[s],
         \A w \in Workers : ServerOf[w] = s => worker'[w] = worker[w]
  PROVE  /\ WorkersIdle(s)' <=> WorkersIdle(s)
         /\ Requested(s)' = Requested(s) /\ Present(s)' = Present(s)
<1>1. WorkersIdle(s)' <=> WorkersIdle(s)
  BY DEF WorkersIdle
<1>2. \A t : Waiting(s, t)' = Waiting(s, t)
  BY DEF Waiting
<1>3. Requested(s)' = Requested(s)
  BY <1>2 DEF Requested
<1>4. Present(s)' = Present(s)
  BY DEF Present
<1> QED
  BY <1>1, <1>3, <1>4

(* Steps that leave the servers' numbers and steals alone, and the passed  *)
(* servers as they were counted.                                           *)
LEMMA QuietStep ==
  ASSUME RoundCounted, UNCHANGED <<steal, attempt, round, down, raced>>,
         round # NoRound =>
           \A s \in Servers : s < round.next /\ WorkersIdle(s) =>
             /\ WorkersIdle(s)'
             /\ Requested(s)' \subseteq Requested(s) /\ Present(s)' \subseteq Present(s)
  PROVE  RoundCounted'
<1> SUFFICES ASSUME round # NoRound PROVE RoundCounted'
  BY DEF RoundCounted
<1>1. RoundFails' <=> RoundFails
  BY DEF RoundFails
<1>2. ASSUME NEW s \in Servers, s < round.next, StaysCounted(s)
      PROVE  StaysCounted(s)'
  BY <1>2 DEF StaysCounted
<1>3. \/ raced \/ RoundFails \/ \A s \in Servers : s < round.next => StaysCounted(s)
  BY DEF RoundCounted
<1>4. \/ raced' \/ RoundFails' \/ \A s \in Servers : s < round'.next => StaysCounted(s)'
  BY <1>1, <1>2, <1>3
<1> QED
  BY <1>4 DEF RoundCounted

(* Work is targeted at workers of the same server only, or there are at    *)
(* most two servers.                                                       *)
NoneCrosses == ~CrossPuts \/ \A x, y \in Servers \ {Master} : x = y

(* A step of the workers disturbs no server that has passed: it comes from *)
(* a running worker of the server it changes, or it reaches a server in    *)
(* its loop, which with two servers none that has passed is.               *)
LEMMA RoundOfWorkerStep ==
  ASSUME TypeOK, RoundCounted, NoneCrosses, WorkerStep
  PROVE  RoundCounted'
<1>0. /\ Servers \subseteq Nat /\ Master \in Servers
      /\ \A w \in Workers : ServerOf[w] \in Servers
      /\ worker \in [Workers -> Types \cup {"runs", "left"}]
      /\ work \in [Servers -> [Types -> Nat]]
      /\ UNCHANGED <<steal, attempt, round, down, raced>>
  BY TerminationAssumption, MasterLowest, WorkersLeaveServers DEF TypeOK
<1>1. ASSUME NEW x \in Servers,
             round # NoRound /\ x < round.next => ~WorkersIdle(x),
             \A s \in Servers : s # x => work'[s] = work[s],
             \A v \in Workers : ServerOf[v] # x => worker'[v] = worker[v]
      PROVE  RoundCounted'
  <2>1. ASSUME round # NoRound, NEW s \in Servers, s < round.next, WorkersIdle(s)
        PROVE  /\ WorkersIdle(s)'
               /\ Requested(s)' \subseteq Requested(s) /\ Present(s)' \subseteq Present(s)
    <3>1. s # x
      BY <1>1, <2>1
    <3>2. work'[s] = work[s] /\ \A w \in Workers : ServerOf[w] = s => worker'[w] = worker[w]
      BY <1>1, <3>1
    <3> QED
      BY <2>1, <3>2, Unaffected
  <2> QED
    BY <1>0, <2>1, QuietStep
<1>2. ASSUME NEW w \in Workers, worker[w] = "runs"
      PROVE  ~WorkersIdle(ServerOf[w])
  BY <1>2 DEF WorkersIdle
<1>3. ASSUME NEW w \in Workers, ShutdownWorker(w)
      PROVE  RoundCounted'
  <2>1. /\ worker[w] = "runs" /\ worker' = [worker EXCEPT ![w] = "left"] /\ work' = work
    BY <1>3 DEF ShutdownWorker
  <2>2. \A v \in Workers : ServerOf[v] # ServerOf[w] => worker'[v] = worker[v]
    BY <1>0, <2>1
  <2> QED
    BY <1>0, <1>1, <1>2, <2>1, <2>2
<1>4. ASSUME NEW w \in Workers, NEW t \in Types, Put(w, t)
      PROVE  RoundCounted'
  <2>1. /\ worker[w] = "runs"
        /\ \A s \in Servers : s # ServerOf[w] => work'[s] = work[s]
    BY <1>0, <1>4 DEF Put
  <2>2. \A v \in Workers : ServerOf[v] # ServerOf[w] => worker'[v] = worker[v]
    BY <1>0, <1>4 DEF Put, Waiting
  <2> QED
    BY <1>0, <1>1, <1>2, <2>1, <2>2
<1>5. ASSUME NEW w \in Workers, NEW t \in Types, Get(w, t)
      PROVE  RoundCounted'
  <2>1. /\ worker[w] = "runs"
        /\ \A s \in Servers : s # ServerOf[w] => work'[s] = work[s]
    BY <1>0, <1>5 DEF Get
  <2>2. \A v \in Workers : ServerOf[v] # ServerOf[w] => worker'[v] = worker[v]
    BY <1>0, <1>5 DEF Get
  <2> QED
    BY <1>0, <1>1, <1>2, <2>1, <2>2
<1>6. ASSUME NEW w \in Workers, NEW v \in Workers, NEW t \in Types, PutTargeted(w, v, t)
      PROVE  RoundCounted'
  <2>1. /\ worker[w] = "runs" /\ InLoop(ServerOf[v]) /\ work' = work
        /\ CrossPuts \/ ServerOf[v] = ServerOf[w]
    BY <1>6 DEF PutTargeted
  <2>2. \A x \in Workers : ServerOf[x] # ServerOf[v] => worker'[x] = worker[x]
    BY <1>0, <1>6 DEF PutTargeted
  <2>3. CASE ServerOf[v] = ServerOf[w]
    BY <1>0, <1>1, <1>2, <2>1, <2>2, <2>3
  <2>4. CASE \A x, y \in Servers \ {Master} : x = y
    <3>1. ASSUME round # NoRound PROVE ~(ServerOf[v] < round.next)
      <4>1. ServerOf[v] # Master
        BY <2>1, <3>1 DEF InLoop
      <4>2. PICK y \in Servers : y >= round.next /\ Master < round.next
        BY <3>1 DEF RoundCounted
      <4>3. round.next \in Int /\ y \in Nat /\ Master \in Nat /\ ServerOf[v] \in Nat
        BY <1>0 DEF TypeOK
      <4>4. y = ServerOf[v]
        BY <1>0, <2>4, <4>1, <4>2, <4>3
      <4> QED
        BY <4>2, <4>3, <4>4
    <3> QED
      BY <1>0, <1>1, <2>1, <2>2, <3>1
  <2> QED
    BY <2>1, <2>3, <2>4 DEF NoneCrosses
<1> QED
  BY <1>3, <1>4, <1>5, <1>6 DEF WorkerStep

(* A STEAL is sent by a server that has passed: it carries the number of   *)
(* the round.                                                              *)
LEMMA RoundOfProbeResp ==
  ASSUME TypeOK, RoundCounted, NEW s \in Servers, NEW v \in Servers,
         HandleStealProbeResp(s, v)
  PROVE  RoundCounted'
<1> SUFFICES ASSUME round # NoRound PROVE RoundCounted'
  BY DEF HandleStealProbeResp, RoundCounted
<1>1. UNCHANGED <<worker, work, attempt, round, down, raced>>
  BY DEF HandleStealProbeResp, queues
<1>2. RoundFails' <=> RoundFails
  BY <1>1 DEF RoundFails
<1>3. steal \in [Servers -> [victim: Servers \cup {-1}, counts: [Types -> Nat], attempt: Nat]]
  BY DEF TypeOK
<1>4. steal' = steal \/ steal' = [steal EXCEPT ![s] = [victim |-> v, counts |-> work[s],
                                                       attempt |-> attempt[s]]]
  BY DEF HandleStealProbeResp
<1>5. ASSUME NEW x \in Servers, x < round.next, StaysCounted(x)
      PROVE  StaysCounted(x)'
  <2>1. attempt[x] = attempt[Master]
    BY <1>5 DEF RoundCounted
  <2>2. steal'[x] # NoSteal => steal'[x].attempt = attempt[Master]
    BY <1>3, <1>4, <1>5, <2>1 DEF StaysCounted
  <2>3. /\ WorkersIdle(x)' <=> WorkersIdle(x)
        /\ Requested(x)' = Requested(x) /\ Present(x)' = Present(x)
    BY <1>1, Unaffected
  <2> QED
    BY <1>1, <1>5, <2>2, <2>3 DEF StaysCounted
<1>6. raced \/ RoundFails \/ \A x \in Servers : x < round.next => StaysCounted(x)
  BY DEF RoundCounted
<1>7. raced' \/ RoundFails' \/ \A x \in Servers : x < round'.next => StaysCounted(x)'
  BY <1>1, <1>2, <1>5, <1>6
<1> QED
  BY <1>1, <1>7 DEF RoundCounted

(* A steal: if the thief has passed and units move, then either its victim *)
(* has not passed and gets the number of the round, or both have passed    *)
(* and what moved was counted.                                             *)
LEMMA RoundOfSteal ==
  ASSUME TypeOK, AttemptsBehind, RoundCounted, NEW s \in Servers,
         NEW n \in [Types -> 0..MaxPuts], NEW fed \in SUBSET Workers, HandleSteal(s, n, fed)
  PROVE  RoundCounted'
<1> SUFFICES ASSUME round # NoRound PROVE RoundCounted'
  BY DEF HandleSteal, RoundCounted
<1>v. PICK v \in Servers : v = steal[s].victim /\ v # s
  BY AfterSteal
<1> DEFINE moved == \E t \in Types : n[t] > 0
<1>0. /\ Servers \subseteq Nat /\ Master \in Servers /\ round.next \in Int
      /\ attempt \in [Servers -> Nat]
      /\ \A x \in Servers : attempt[x] <= attempt[Master] /\ steal[x].attempt <= attempt[x]
      /\ \A x \in Servers : x < round.next => attempt[x] = attempt[Master]
  BY TerminationAssumption, MasterLowest DEF TypeOK, AttemptsBehind, RoundCounted
<1>1. /\ UNCHANGED <<round, down, raced>>
      /\ steal' = [steal EXCEPT ![s] = NoSteal]
      /\ attempt' = IF moved /\ steal[s].attempt > attempt[v]
                    THEN [attempt EXCEPT ![v] = steal[s].attempt] ELSE attempt
      /\ worker' = [w \in Workers |-> IF w \in fed THEN "runs" ELSE worker[w]]
  BY <1>v DEF HandleSteal
<1>2. /\ attempt'[Master] = attempt[Master]
      /\ \A x \in Servers : attempt[x] = attempt[Master] => attempt'[x] = attempt[Master]
  <2>1. steal[s].attempt \in Nat /\ steal[s].attempt <= attempt[Master]
    BY <1>0 DEF TypeOK
  <2> QED
    BY <1>0, <1>1, <2>1
<1>3. RoundFails => RoundFails'
  BY <1>1, <1>2 DEF RoundFails
<1>4. ASSUME NEW t \in Types, n[t] > 0
      PROVE  t \in Present(v)
  <2>1. n[t] \in Nat /\ n[t] <= work[v][t]
    BY <1>v, StolenUnits
  <2>2. work[v][t] \in Nat
    BY DEF TypeOK
  <2> QED
    BY <1>4, <2>1, <2>2 DEF Present
<1>5. ASSUME NEW w \in fed
      PROVE  /\ w \in Workers /\ ServerOf[w] = s /\ worker[w] \in Types
             /\ n[worker[w]] > 0 /\ worker[w] \in Requested(s) \cap Present(v)
  <2>1. w \in Workers /\ worker[w] \in Types
    BY <1>5 DEF HandleSteal
  <2>2. ServerOf[w] = s /\ n[worker[w]] > 0
    BY <1>5, <2>1, StolenUnits
  <2>3. worker[w] \in Requested(s)
    BY <2>1, <2>2 DEF Requested, Waiting
  <2> QED
    BY <1>4, <2>1, <2>2, <2>3
<1>6. /\ work' \in [Servers -> [Types -> Nat]] /\ work \in [Servers -> [Types -> Nat]]
      /\ \A x \in Servers \ {s, v} : work'[x] = work[x]
      /\ \A t \in Types : n[t] \in Nat /\ work'[v][t] = work[v][t] - n[t] /\ work'[s][t] <= work[s][t] + n[t]
  <2>1. work \in [Servers -> [Types -> Nat]]
    BY DEF TypeOK
  <2>2. \A t \in Types : n[t] \in Nat
    BY StolenUnits
  <2> QED
    BY <1>v, <2>1, <2>2, AfterSteal
<1>7. ASSUME NEW x \in Servers, x # s
      PROVE  /\ WorkersIdle(x) => WorkersIdle(x)'
             /\ Requested(x)' \subseteq Requested(x) /\ Present(x)' \subseteq Present(x)
             /\ steal'[x] = steal[x]
  <2>1. \A w \in Workers : ServerOf[w] = x => worker'[w] = worker[w]
    BY <1>1, <1>5, <1>7
  <2>2. WorkersIdle(x) => WorkersIdle(x)'
    BY <2>1 DEF WorkersIdle
  <2>3. Requested(x)' \subseteq Requested(x)
    BY <2>1 DEF Requested, Waiting
  <2>4. \A t \in Types : work'[x][t] > 0 => work[x][t] > 0
    BY <1>v, <1>0, <1>6, <1>7
  <2>5. steal'[x] = steal[x]
    BY <1>1, <1>7 DEF TypeOK
  <2> QED
    BY <2>2, <2>3, <2>4, <2>5 DEF Present
<1>8. ASSUME NEW x \in Servers, x < round.next, x # s, StaysCounted(x)
      PROVE  StaysCounted(x)'
  BY <1>1, <1>2, <1>7, <1>8 DEF StaysCounted
<1>9. ASSUME s < round.next, StaysCounted(s), v < round.next => StaysCounted(v)
      PROVE  RoundFails' \/ StaysCounted(s)'
  <2>1. CASE ~moved
    <3>1. fed = {}
      BY <1>5, <2>1
    <3>2. \A w \in Workers : worker'[w] = worker[w]
      BY <1>1, <3>1
    <3>3. \A t \in Types : work'[s][t] > 0 => work[s][t] > 0
      BY <1>v, <1>0, <1>6, <2>1
    <3>4. steal'[s] = NoSteal
      BY <1>1 DEF TypeOK
    <3>5. WorkersIdle(s)' /\ Requested(s)' \subseteq Requested(s)
      BY <1>9, <3>2 DEF StaysCounted, WorkersIdle, Requested, Waiting
    <3>6. Present(s)' \subseteq Present(s)
      BY <3>3 DEF Present
    <3> QED
      BY <1>1, <1>9, <3>4, <3>5, <3>6 DEF StaysCounted
  <2>2. CASE moved /\ ~(v < round.next)
    <3>1. steal[s] # NoSteal /\ steal[s].attempt = attempt[Master]
      BY <1>9 DEF StaysCounted, HandleSteal
    <3>2. attempt'[v] = attempt[Master]
      BY <1>0, <1>1, <2>2, <3>1
    <3>3. v >= round'.next
      BY <1>0, <1>1, <2>2
    <3> QED
      BY <1>0, <1>2, <3>2, <3>3 DEF RoundFails
  <2>3. CASE v < round.next /\ fed # {}
    <3>1. Requested(s) \cap Present(v) # {}
      BY <1>5, <2>3
    <3>2. round.req \cap round.has # {}
      BY <1>9, <2>3, <3>1 DEF StaysCounted
    <3> QED
      BY <1>1, <3>2 DEF RoundFails
  <2>4. CASE v < round.next /\ fed = {}
    <3>1. \A w \in Workers : worker'[w] = worker[w]
      BY <1>1, <2>4
    <3>2. \A t \in Types : work'[s][t] > 0 => work[s][t] > 0 \/ n[t] > 0
      BY <1>0, <1>6
    <3>3. Present(s)' \subseteq Present(s) \cup Present(v)
      BY <1>4, <3>2 DEF Present
    <3>4. steal'[s] = NoSteal
      BY <1>1 DEF TypeOK
    <3>5. WorkersIdle(s)' /\ Requested(s)' \subseteq Requested(s)
      BY <1>9, <3>1 DEF StaysCounted, WorkersIdle, Requested, Waiting
    <3> QED
      BY <1>1, <1>9, <2>4, <3>3, <3>4, <3>5 DEF StaysCounted
  <2> QED
    BY <2>1, <2>2, <2>3, <2>4
<1>10. raced \/ RoundFails \/ \A x \in Servers : x < round.next => StaysCounted(x)
  BY DEF RoundCounted
<1>11. raced' \/ RoundFails' \/ \A x \in Servers : x < round'.next => StaysCounted(x)'
  BY <1>0, <1>1, <1>3, <1>8, <1>9, <1>10
<1>12. /\ ~down' /\ Master < round'.next /\ \E x \in Servers : x >= round'.next
       /\ \A x \in Servers : x < round'.next => attempt'[x] = attempt'[Master]
  BY <1>0, <1>1, <1>2 DEF RoundCounted
<1> QED
  BY <1>11, <1>12 DEF RoundCounted

LEMMA RoundOfStealStep ==
  ASSUME TypeOK, AttemptsBehind, RoundCounted, StealStep
  PROVE  RoundCounted'
<1>1. ASSUME NEW s \in Servers, NEW v \in Servers,
             RandomStealProbe(s, v) \/ HandleStealProbe(s, v)
      PROVE  RoundCounted'
  <2>1. UNCHANGED <<worker, work, steal, attempt, round, down, raced>>
    BY <1>1 DEF RandomStealProbe, HandleStealProbe, queues
  <2>2. \A x \in Servers : /\ WorkersIdle(x)' <=> WorkersIdle(x)
                           /\ Requested(x)' = Requested(x) /\ Present(x)' = Present(x)
    BY <2>1, Unaffected
  <2> QED
    BY <2>1, <2>2, QuietStep
<1> QED
  BY <1>1, RoundOfProbeResp, RoundOfSteal DEF StealStep

(* The end of a successful round: everybody counted, nothing matches. *)
LEMMA AllCounted ==
  ASSUME TypeOK, TargetsTaken, NEW req, NEW has, req \cap has = {},
         \A s \in Servers : /\ WorkersIdle(s)
                            /\ Requested(s) \subseteq req /\ Present(s) \subseteq has
  PROVE  Quiescent
<1>1. \A w \in Workers : ServerOf[w] \in Servers
  BY TerminationAssumption
<1>2. \A w \in Workers : worker[w] # "runs"
  BY <1>1 DEF WorkersIdle
<1>3. \A s, v \in Servers : Requested(s) \cap Present(v) = {}
  OBVIOUS
<1> QED
  BY <1>2, <1>3 DEF Quiescent, TargetsTaken

(* The master counts itself, and may be the only server. *)
LEMMA RoundOfStart ==
  ASSUME TypeOK, TargetsTaken, StartRound
  PROVE  RoundCounted' /\ (down' => Quiescent)
<1> DEFINE r == [next |-> After(Master), req |-> Requested(Master), has |-> Present(Master)]
<1>0. /\ Servers \subseteq Nat /\ Master \in Servers /\ After(Master) \in Nat
      /\ Master < After(Master)
      /\ \A s \in Servers : s < After(Master) => s = Master
  BY TerminationAssumption, MasterLowest, AfterNext
<1>1. /\ UNCHANGED <<worker, work, steal>> /\ steal[Master] = NoSteal
      /\ WorkersIdle(Master) /\ Decided(r)
  BY DEF StartRound, InLoop, queues
<1>2. CASE \E s \in Servers : s >= After(Master)
  <2>1. ~down' /\ round' = r
    BY <1>1, <1>2 DEF Decided
  <2>2. /\ WorkersIdle(Master)' <=> WorkersIdle(Master)
        /\ Requested(Master)' = Requested(Master) /\ Present(Master)' = Present(Master)
    BY <1>0, <1>1, Unaffected
  <2>3. StaysCounted(Master)'
    BY <1>1, <2>1, <2>2 DEF StaysCounted
  <2>4. \A s \in Servers : s < round'.next => s = Master
    BY <1>0, <2>1
  <2>5. Master < round'.next /\ \E s \in Servers : s >= round'.next
    BY <1>0, <1>2, <2>1
  <2> QED
    BY <2>1, <2>3, <2>4, <2>5 DEF RoundCounted
<1>3. CASE ~\E s \in Servers : s >= After(Master)
  <2>1. round' = NoRound /\ (down' => Requested(Master) \cap Present(Master) = {})
    BY <1>1, <1>3 DEF Decided
  <2>2. \A s \in Servers : s = Master
    BY <1>0, <1>3
  <2>3. down' => Quiescent
    BY <1>1, <2>1, <2>2, AllCounted
  <2> QED
    BY <2>1, <2>3 DEF RoundCounted, NoRound
<1> QED
  BY <1>2, <1>3

(* A server is asked: it spoils the round or has passed.  The round then   *)
(* fails later, or the servers passed stay as counted.                     *)
LEMMA RoundOfCheck ==
  ASSUME TypeOK, TargetsTaken, RoundCounted, NEW v \in Servers, CheckIdle(v)
  PROVE  RoundCounted' /\ (down' /\ ~raced' => Quiescent)
<1> DEFINE r == [next |-> After(v), req |-> round.req \cup Requested(v),
                 has |-> round.has \cup Present(v)]
           pass == ~(attempt[v] = attempt[Master] \/ ~WorkersIdle(v) \/ ~expired[v])
<1>0. /\ Servers \subseteq Nat /\ Master \in Servers /\ After(v) \in Nat /\ v < After(v)
      /\ \A x \in Servers : x < After(v) => x <= v
  BY TerminationAssumption, MasterLowest, AfterNext
<1>1. /\ round # NoRound /\ v = round.next /\ ~down
      /\ UNCHANGED <<worker, work, steal>>
      /\ attempt' = [attempt EXCEPT ![v] = attempt[Master]]
  BY DEF CheckIdle, Accepts, queues
<1>2. CASE ~pass
  <2>1. round' = NoRound /\ down' = down
    BY <1>2 DEF CheckIdle
  <2> QED
    BY <1>1, <2>1 DEF RoundCounted, NoRound
<1>3. CASE pass
  <2>1. /\ Decided(r) /\ (raced' <=> raced \/ (steal[v] # NoSteal /\ \E x \in Servers : x > v))
        /\ attempt[v] # attempt[Master] /\ WorkersIdle(v)
    BY <1>3 DEF CheckIdle
  <2>2. /\ Master < v /\ attempt \in [Servers -> Nat]
        /\ \A x \in Servers : x < v => attempt[x] = attempt[Master]
    BY <1>1 DEF RoundCounted, TypeOK
  <2>3. /\ attempt'[Master] = attempt[Master] /\ attempt'[v] = attempt[Master]
        /\ \A x \in Servers : x # v => attempt'[x] = attempt[x]
    BY <1>0, <1>1, <2>2
  <2>4. \A x \in Servers : /\ WorkersIdle(x)' <=> WorkersIdle(x)
                           /\ Requested(x)' = Requested(x) /\ Present(x)' = Present(x)
    BY <1>1, Unaffected
  <2>5. \A x \in Servers : x < After(v) => x < v \/ x = v
    BY <1>0
  <2>6. \/ raced
        \/ \E x \in Servers : x > v /\ attempt[x] = attempt[Master]
        \/ round.req \cap round.has # {}
        \/ \A x \in Servers : x < v => StaysCounted(x)
    <3>1. raced \/ RoundFails \/ \A x \in Servers : x < round.next => StaysCounted(x)
      BY <1>1 DEF RoundCounted
    <3>2. RoundFails => \/ \E x \in Servers : x > v /\ attempt[x] = attempt[Master]
                        \/ round.req \cap round.has # {}
      BY <1>0, <1>1, <2>1 DEF RoundFails
    <3> QED
      BY <1>1, <3>1, <3>2
  <2>7. CASE \E x \in Servers : x >= After(v)
    <3>1. ~down' /\ round' = r
      BY <2>1, <2>7 DEF Decided
    <3>2. /\ round'.next = After(v) /\ round'.req = round.req \cup Requested(v)
          /\ round'.has = round.has \cup Present(v)
      BY <3>1
    <3>3. Master < round'.next
      BY <1>0, <2>2, <3>2
    <3>4. \A x \in Servers : x < round'.next => attempt'[x] = attempt'[Master]
      BY <2>2, <2>3, <2>5, <3>2
    <3>5. ASSUME NEW x \in Servers, x > v, attempt[x] = attempt[Master]
          PROVE  RoundFails'
      <4>1. x >= round'.next /\ attempt'[x] = attempt'[Master]
        BY <1>0, <2>3, <3>2, <3>5
      <4> QED
        BY <4>1 DEF RoundFails
    <3>6. ASSUME round.req \cap round.has # {}
          PROVE  RoundFails'
      BY <3>2, <3>6 DEF RoundFails
    <3>7. ASSUME NEW x \in Servers, x < v, StaysCounted(x)
          PROVE  StaysCounted(x)'
      BY <1>1, <2>3, <2>4, <3>2, <3>7 DEF StaysCounted
    <3>8. raced' \/ StaysCounted(v)'
      <4>1. \E x \in Servers : x > v
        BY <1>0, <2>7
      <4>2. raced' \/ steal[v] = NoSteal
        BY <2>1, <4>1
      <4> QED
        BY <1>1, <2>1, <2>4, <3>2, <4>2 DEF StaysCounted
    <3>9. raced' \/ RoundFails' \/ \A x \in Servers : x < round'.next => StaysCounted(x)'
      BY <2>1, <2>5, <2>6, <3>2, <3>5, <3>6, <3>7, <3>8
    <3> QED
      BY <2>7, <3>1, <3>2, <3>3, <3>4, <3>9 DEF RoundCounted
  <2>8. CASE ~\E x \in Servers : x >= After(v)
    <3>1. round' = NoRound /\ (down' => r.req \cap r.has = {})
      BY <2>1, <2>8 DEF Decided
    <3>2. \A x \in Servers : x < v \/ x = v
      BY <1>0, <2>8
    <3>3. ASSUME down', ~raced'
          PROVE  Quiescent
      <4>1. /\ ~raced /\ ~\E x \in Servers : x > v
        <5>1. ~\E x \in Servers : x > v
          BY <1>0, <3>2
        <5> QED
          BY <2>1, <3>3, <5>1
      <4>2. r.req \cap r.has = {}
        BY <3>1, <3>3
      <4>3. \A x \in Servers : x < v => StaysCounted(x)
        BY <2>6, <4>1, <4>2
      <4>4. \A x \in Servers : /\ WorkersIdle(x)
                               /\ Requested(x) \subseteq r.req /\ Present(x) \subseteq r.has
        BY <2>1, <3>2, <4>3 DEF StaysCounted
      <4> HIDE DEF r
      <4> QED
        BY <4>2, <4>4, AllCounted
    <3> QED
      BY <3>1, <3>3 DEF RoundCounted, NoRound
  <2> QED
    BY <2>7, <2>8
<1> QED
  BY <1>2, <1>3

-----------------------------------------------------------------------------
(* Once the master has decided, only timers run. *)
LEMMA DownStays ==
  ASSUME [Next]_vars, down
  PROVE  UNCHANGED <<worker, work, targeted, steal, attempt, round, down, raced>>
<1>1. CASE UNCHANGED vars
  BY <1>1 DEF vars
<1>2. ~WorkerStep
  BY DEF WorkerStep, ShutdownWorker, Put, Get, PutTargeted, InLoop
<1>3. ~StealStep
  BY DEF StealStep, RandomStealProbe, HandleStealProbe, HandleStealProbeResp, HandleSteal,
         InLoop, Accepts
<1>4. ~StartRound /\ \A s \in Servers : ~CheckIdle(s)
  BY DEF StartRound, CheckIdle, InLoop, Accepts
<1>5. ASSUME NEW s \in Servers, TimerExpires(s)
      PROVE  UNCHANGED <<worker, work, targeted, steal, attempt, round, down, raced>>
  BY <1>5 DEF TimerExpires, queues, stealing
<1> QED
  BY <1>1, <1>2, <1>3, <1>4, <1>5 DEF Next, IdleStep

(* The steps other than the master's decision leave down alone. *)
LEMMA RoundStep ==
  ASSUME NoneCrosses, TypeOK, RoundInv, SafeUnlessRaced, [Next]_vars
  PROVE  RoundInv' /\ SafeUnlessRaced'
<1>0. AttemptsBehind' /\ TargetsTaken'
  BY AttemptsStep, TargetsStep DEF RoundInv
<1>1. CASE down
  <2>1. UNCHANGED <<worker, work, targeted, steal, attempt, round, down, raced>>
    BY <1>1, DownStays
  <2>2. SafeUnlessRaced'
    BY <2>1 DEF SafeUnlessRaced, Quiescent, Requested, Waiting, Present
  <2>3. RoundCounted'
    BY <1>1, <2>1 DEF RoundInv, RoundCounted
  <2> QED
    BY <1>0, <2>2, <2>3 DEF RoundInv
<1>2. CASE ~down /\ UNCHANGED <<worker, work, steal, attempt, round, down, raced>>
  <2>1. \A x \in Servers : /\ WorkersIdle(x)' <=> WorkersIdle(x)
                           /\ Requested(x)' = Requested(x) /\ Present(x)' = Present(x)
    BY <1>2, Unaffected
  <2>2. RoundCounted'
    BY <1>2, <2>1, QuietStep DEF RoundInv
  <2> QED
    BY <1>0, <1>2, <2>2 DEF RoundInv, SafeUnlessRaced
<1>3. CASE ~down /\ WorkerStep
  BY <1>0, <1>3, RoundOfWorkerStep, WorkersLeaveServers DEF RoundInv, SafeUnlessRaced
<1>4. CASE ~down /\ StealStep
  <2>1. down' = down
    BY <1>4 DEF StealStep, RandomStealProbe, HandleStealProbe, HandleStealProbeResp, HandleSteal
  <2> QED
    BY <1>0, <1>4, <2>1, RoundOfStealStep DEF RoundInv, SafeUnlessRaced
<1>5. CASE StartRound
  <2>1. RoundCounted' /\ (down' => Quiescent)
    BY <1>5, RoundOfStart DEF RoundInv
  <2>2. Quiescent => Quiescent'
    BY <1>5 DEF StartRound, queues, Quiescent, Requested, Waiting, Present
  <2> QED
    BY <1>0, <2>1, <2>2 DEF RoundInv, SafeUnlessRaced
<1>6. ASSUME NEW v \in Servers, CheckIdle(v)
      PROVE  RoundInv' /\ SafeUnlessRaced'
  <2>1. RoundCounted' /\ (down' /\ ~raced' => Quiescent)
    BY <1>6, RoundOfCheck DEF RoundInv
  <2>2. Quiescent => Quiescent'
    BY <1>6 DEF CheckIdle, queues, Quiescent, Requested, Waiting, Present
  <2> QED
    BY <1>0, <2>1, <2>2 DEF RoundInv, SafeUnlessRaced
<1>7. ASSUME NEW v \in Servers, TimerExpires(v)
      PROVE  UNCHANGED <<worker, work, steal, attempt, round, down, raced>>
  BY <1>7 DEF TimerExpires, queues, stealing
<1>8. UNCHANGED vars => UNCHANGED <<worker, work, steal, attempt, round, down, raced>>
  BY DEF vars
<1> QED
  BY <1>1, <1>2, <1>3, <1>4, <1>5, <1>6, <1>7, <1>8 DEF Next, IdleStep

-----------------------------------------------------------------------------
LEMMA RoundInit == Init => RoundInv /\ SafeUnlessRaced
<1>1. Init => AttemptsBehind
  BY MasterLowest DEF Init, AttemptsBehind, NoSteal
<1>2. Init => TargetsTaken
  BY TerminationAssumption DEF Init, TargetsTaken
<1>3. Init => RoundCounted /\ SafeUnlessRaced
  BY DEF Init, RoundCounted, SafeUnlessRaced
<1> QED
  BY <1>1, <1>2, <1>3 DEF RoundInv

\* For any number of workers and types, and any number of servers when work is
\* targeted at workers of the same server only: the servers that passed the
\* check of a round stay as counted or the round fails, and the master shuts
\* the system down only when it is quiescent, unless a thief passed a check
\* with its STEAL in flight and servers still to be asked (servers_idle(),
\* xlb_handle_steal()).
THEOREM RoundTheorem ==
  ASSUME NoneCrosses
  PROVE  Spec => [](TypeOK /\ RoundInv /\ SafeUnlessRaced)
<1>1. Init => TypeOK /\ RoundInv /\ SafeUnlessRaced
  BY TypeInit, RoundInit
<1>2. TypeOK /\ RoundInv /\ SafeUnlessRaced /\ [Next]_vars
        => (TypeOK /\ RoundInv /\ SafeUnlessRaced)'
  BY TypeStep, RoundStep
<1> QED
  BY <1>1, <1>2, PTL DEF Spec

(* With two servers no server is left to be asked after the first check. *)
LEMMA RaceNeedsThird ==
  ASSUME TypeOK, RoundInv, ~raced, [Next]_vars, \A x, y \in Servers \ {Master} : x = y
  PROVE  ~raced'
<1>1. ASSUME NEW v \in Servers, CheckIdle(v)
      PROVE  ~raced'
  <2>1. v # Master
    <3>1. Master < v /\ Master \in Nat
      BY <1>1, MasterLowest, TerminationAssumption DEF CheckIdle, RoundInv, RoundCounted
    <3> QED
      BY <3>1
  <2>2. ~\E x \in Servers : x > v
    <3> SUFFICES ASSUME NEW x \in Servers, x > v PROVE FALSE
      OBVIOUS
    <3>1. x \in Nat /\ v \in Nat /\ Master \in Nat /\ Master <= v
      BY MasterLowest, TerminationAssumption
    <3>2. x # Master /\ x # v
      BY <3>1
    <3> QED
      BY <2>1, <3>2
  <2> QED
    BY <1>1, <2>2 DEF CheckIdle
<1>2. ASSUME NEW v \in Servers, TimerExpires(v)
      PROVE  raced' = raced
  BY <1>2 DEF TimerExpires, stealing
<1>3. StartRound => raced' = raced
  BY DEF StartRound
<1>4. StealStep => raced' = raced
  BY DEF StealStep, RandomStealProbe, HandleStealProbe, HandleStealProbeResp, HandleSteal
<1>5. WorkerStep => raced' = raced
  BY WorkersLeaveServers
<1>6. UNCHANGED vars => raced' = raced
  BY DEF vars
<1> QED
  BY <1>1, <1>2, <1>3, <1>4, <1>5, <1>6 DEF Next, IdleStep

\* With at most two servers the system only shuts down when it is quiescent,
\* whatever the workers, the types, the steals in flight and the targets of
\* puts (check_idle(), xlb_idle_check_attempt).
THEOREM TwoServersSafe ==
  ASSUME \A x, y \in Servers \ {Master} : x = y
  PROVE  Spec => []SafeShutdown
<1> DEFINE Inv == TypeOK /\ RoundInv /\ SafeUnlessRaced
<1>1. NoneCrosses
  BY DEF NoneCrosses
<1>2. Spec => []Inv
  BY <1>1, RoundTheorem
<1>3. Init => ~raced
  BY DEF Init
<1>4. Inv /\ ~raced /\ [Next]_vars => ~raced'
  BY RaceNeedsThird
<1>5. Inv /\ ~raced => SafeShutdown
  BY DEF SafeUnlessRaced, SafeShutdown
<1> HIDE DEF Inv
<1> QED
  BY <1>2, <1>3, <1>4, <1>5, PTL DEF Spec
=============================================================================
