---------------------------- MODULE Termination -----------------------------
(***************************************************************************)
(* How the servers share work by stealing (steal.c) and find out that      *)
(* there is none left (server.c): the rounds of idle checks of the master, *)
(* the numbers that mark them, and the steals that race with them.         *)
(*                                                                         *)
(* A unit is counted, by its type on the server that holds it or by the    *)
(* worker it is targeted at.  A call of a worker is one step of its server *)
(* (Matching has its details), a sync is one step of the server that       *)
(* accepts it (Sync).  In between a steal is a message in flight: the      *)
(* thief waits, and in the meantime accepts syncs from lower ranks only.   *)
(* The idle timers may run out at any time after the last client call.     *)
(***************************************************************************)
EXTENDS Integers, FiniteSets, FiniteSetsExt

CONSTANTS
  Servers,      \* ranks of the servers
  Workers,      \* workers
  ServerOf,     \* the server of each worker
  Types,        \* work types
  SentTypes,    \* types whose counts fit into what xlb_sync_steal() copies
  CrossPuts,    \* workers target work at workers of other servers
  ProbeLimit,   \* xlb_steal_concurrency_limit
  MaxPuts,      \* bound: units put
  MaxAttempts   \* bound: rounds of idle checks

ASSUME TerminationAssumption ==
  /\ Servers \subseteq Nat /\ Servers # {}
  /\ ServerOf \in [Workers -> Servers]
  /\ IsFiniteSet(Workers) /\ MaxPuts \in Nat
  /\ SentTypes \subseteq Types
  /\ "runs" \notin Types /\ "left" \notin Types

VARIABLES
  worker,       \* "runs", "left", or the type it is blocked on
  work,         \* untargeted units of each type on each server
  targeted,     \* units targeted at each worker
  probe,        \* of each thief and target: not sent, sent, or answered with
                \*   the types present (sent_steal_probes and the messages)
  steal,        \* the STEAL each server waits for
  attempt,      \* xlb_idle_check_attempt of each server
  expired,      \* the server's idle timer has run out
  round,        \* the master's round: the next server, the types asked for
                \*   and the types present on those before it
  down,         \* the master has decided to shut down
  raced,        \* history: a thief passed a check while its STEAL was in flight,
                \*   and it was not the last server of the round
  puts          \* units put so far

vars == <<worker, work, targeted, probe, steal, attempt, expired, round, down, raced, puts>>
stealing == <<probe, steal, attempt, round, down, raced>>
queues == <<worker, work, targeted>>

Master == CHOOSE m \in Servers : \A s \in Servers : m <= s

NoProbe == [state |-> "none", has |-> {}]
NoSteal == [victim |-> -1, counts |-> [t \in Types |-> 0], attempt |-> 0]
NoRound == [next |-> -1, req |-> {}, has |-> {}]

Init ==
  /\ worker = [w \in Workers |-> "runs"]
  /\ work = [s \in Servers |-> [t \in Types |-> 0]]
  /\ targeted = [w \in Workers |-> [t \in Types |-> 0]]
  /\ probe = [s \in Servers |-> [v \in Servers |-> NoProbe]]
  /\ steal = [s \in Servers |-> NoSteal]
  /\ attempt = [s \in Servers |-> 0]
  /\ expired = [s \in Servers |-> FALSE]
  /\ round = NoRound
  /\ down = FALSE
  /\ raced = FALSE
  /\ puts = 0

Waiting(s, t) == {w \in Workers : ServerOf[w] = s /\ worker[w] = t}
Requested(s) == {t \in Types : Waiting(s, t) # {}}
Present(s) == {t \in Types : work[s][t] > 0}

\* Mutant of InLoop: the master serves requests during its round.
InLoopInRound(s) == ~down /\ steal[s] = NoSteal

(* The server is in its loop, not in a sync or in the master's round. *)
InLoop(s) == ~down /\ steal[s] = NoSteal /\ (s = Master => round = NoRound)

(* A sync of s is accepted in the loop, or by a waiting server of higher   *)
(* rank.                                                                   *)
Accepts(v, s) == ~down /\ (InLoop(v) \/ (steal[v] # NoSteal /\ s < v))

(* update_time_last_action() *)
Touched(s) == expired' = [expired EXCEPT ![s] = FALSE]

TimerExpires(s) ==
  /\ ~expired[s]
  /\ expired' = [expired EXCEPT ![s] = TRUE]
  /\ UNCHANGED <<queues, stealing, puts>>

-----------------------------------------------------------------------------
(* The workers. *)

Put(w, t) ==
  LET s == ServerOf[w]
  IN /\ worker[w] = "runs" /\ InLoop(s) /\ puts < MaxPuts
     /\ IF Waiting(s, t) = {}
        THEN work' = [work EXCEPT ![s][t] = @ + 1] /\ UNCHANGED worker
        ELSE \E v \in Waiting(s, t) :
               worker' = [worker EXCEPT ![v] = "runs"] /\ UNCHANGED work
     /\ puts' = puts + 1
     /\ Touched(s)
     /\ UNCHANGED <<targeted, stealing>>

PutTargeted(w, v, t) ==
  LET s == ServerOf[v]
  IN /\ worker[w] = "runs" /\ InLoop(s) /\ puts < MaxPuts
     /\ CrossPuts \/ s = ServerOf[w]
     /\ IF worker[v] = t
        THEN worker' = [worker EXCEPT ![v] = "runs"] /\ UNCHANGED targeted
        ELSE targeted' = [targeted EXCEPT ![v][t] = @ + 1] /\ UNCHANGED worker
     /\ puts' = puts + 1
     /\ Touched(s)
     /\ UNCHANGED <<work, stealing>>

Get(w, t) ==
  LET s == ServerOf[w]
  IN /\ worker[w] = "runs" /\ InLoop(s)
     /\ IF targeted[w][t] > 0
        THEN targeted' = [targeted EXCEPT ![w][t] = @ - 1] /\ UNCHANGED <<worker, work>>
        ELSE IF work[s][t] > 0
        THEN work' = [work EXCEPT ![s][t] = @ - 1] /\ UNCHANGED <<worker, targeted>>
        ELSE worker' = [worker EXCEPT ![w] = t] /\ UNCHANGED <<work, targeted>>
     /\ Touched(s)
     /\ UNCHANGED <<stealing, puts>>

(* ADLB_Shutdown(), xlb_shutdown_worker() *)
ShutdownWorker(w) ==
  /\ worker[w] = "runs" /\ InLoop(ServerOf[w])
  /\ worker' = [worker EXCEPT ![w] = "left"]
  /\ Touched(ServerOf[w])
  /\ UNCHANGED <<work, targeted, stealing, puts>>

-----------------------------------------------------------------------------
(* Stealing. *)

(* check_steal(), xlb_random_steal_probe() *)
RandomStealProbe(s, v) ==
  /\ InLoop(s) /\ Requested(s) # {}
  /\ v # s /\ probe[s][v] = NoProbe
  /\ Cardinality({x \in Servers : probe[s][x] # NoProbe}) < ProbeLimit
  /\ probe' = [probe EXCEPT ![s][v] = [state |-> "sent", has |-> {}]]
  /\ UNCHANGED <<queues, steal, attempt, expired, round, down, raced, puts>>

(* xlb_handle_steal_probe() *)
HandleStealProbe(s, v) ==
  /\ InLoop(v) /\ probe[s][v].state = "sent"
  /\ probe' = [probe EXCEPT ![s][v] = [state |-> "answered", has |-> Present(v)]]
  /\ UNCHANGED <<queues, steal, attempt, expired, round, down, raced, puts>>

(* xlb_can_steal(): the response may be out of date. *)
CanSteal(s, present) == Requested(s) \cap present # {}

\* Mutant of HandleStealProbeResp: the entry of the table is only removed with
\* a steal.
HandleStealProbeRespKept(s, v) ==
  /\ InLoop(s) /\ probe[s][v].state = "answered"
  /\ CanSteal(s, probe[s][v].has)
  /\ probe' = [probe EXCEPT ![s][v] = NoProbe]
  /\ steal' = [steal EXCEPT ![s] = [victim |-> v, counts |-> work[s], attempt |-> attempt[s]]]
  /\ UNCHANGED <<queues, attempt, expired, round, down, raced, puts>>

(* xlb_handle_steal_probe_resp(), up to the STEAL it sends. *)
HandleStealProbeResp(s, v) ==
  /\ InLoop(s) /\ probe[s][v].state = "answered"
  /\ probe' = [probe EXCEPT ![s][v] = NoProbe]
  /\ steal' = IF CanSteal(s, probe[s][v].has)
              THEN [steal EXCEPT ![s] = [victim |-> v, counts |-> work[s],
                                         attempt |-> attempt[s]]]
              ELSE steal
  /\ UNCHANGED <<queues, attempt, expired, round, down, raced, puts>>

(* xlb_workq_steal(): the counts of the thief decide which types are sent. *)
(* What the thief did not copy into the message is not initialised.        *)
MaySend(m, v, t, n) ==
  /\ n <= work[v][t]
  /\ n > 0 /\ t \in SentTypes => \/ m.counts[t] = 0
                                 \/ 10 * (work[v][t] - m.counts[t]) > m.counts[t]

(* xlb_handle_steal(), and what the thief does with the units it gets:     *)
(* xlb_recheck_queues() gives them to its workers as far as they wait.     *)
HandleSteal(s, n, fed) ==
  LET m == steal[s]
      v == m.victim
      fedWith(t) == {w \in fed : worker[w] = t}
      moved == \E t \in Types : n[t] > 0
  IN /\ m # NoSteal /\ Accepts(v, s)
     /\ \A t \in Types :
          /\ MaySend(m, v, t, n[t])
          /\ fedWith(t) \subseteq Waiting(s, t)
          /\ Cardinality(fedWith(t)) = Min({n[t], Cardinality(Waiting(s, t))})
     /\ \A w \in fed : worker[w] \in Types
     /\ worker' = [w \in Workers |-> IF w \in fed THEN "runs" ELSE worker[w]]
     /\ work' = [work EXCEPT ![v] = [t \in Types |-> @[t] - n[t]],
                             ![s] = [t \in Types |-> @[t] + n[t] - Cardinality(fedWith(t))]]
     /\ attempt' = IF moved /\ m.attempt > attempt[v]
                   THEN [attempt EXCEPT ![v] = m.attempt] ELSE attempt
     /\ steal' = [steal EXCEPT ![s] = NoSteal]
     /\ UNCHANGED <<targeted, probe, expired, round, down, raced, puts>>

-----------------------------------------------------------------------------
(* The idle check. *)

WorkersIdle(s) == \A w \in Workers : ServerOf[w] = s => worker[w] # "runs"

\* Mutant of Decided: the counts are not compared.
DecidedUncounted(r) == IF \E s \in Servers : s >= r.next
                       THEN down' = FALSE /\ round' = r
                       ELSE round' = NoRound /\ down' = TRUE

(* The round is over when no server is left: what could be matched by a    *)
(* steal is not idle.                                                      *)
Decided(r) == IF \E s \in Servers : s >= r.next
              THEN down' = FALSE /\ round' = r
              ELSE round' = NoRound /\ down' = (r.req \cap r.has = {})

(* The servers are asked in the order of their ranks. *)
After(s) == IF \E x \in Servers : x > s
            THEN CHOOSE x \in Servers : x > s /\ \A y \in Servers : y > s => x <= y
            ELSE s + 1

\* Mutant of StartRound: the round gets no new number.
StartRoundSame ==
  /\ InLoop(Master) /\ WorkersIdle(Master) /\ expired[Master]
  /\ Decided([next |-> After(Master), req |-> Requested(Master), has |-> Present(Master)])
  /\ UNCHANGED <<queues, attempt, probe, steal, expired, raced, puts>>

(* check_idle(), servers_idle(): the master counts itself first. *)
StartRound ==
  /\ InLoop(Master) /\ attempt[Master] < MaxAttempts
  /\ WorkersIdle(Master) /\ expired[Master]
  /\ attempt' = [attempt EXCEPT ![Master] = @ + 1]
  /\ Decided([next |-> After(Master), req |-> Requested(Master), has |-> Present(Master)])
  /\ UNCHANGED <<queues, probe, steal, expired, raced, puts>>

(* handle_check_idle(), xlb_server_check_idle_local(), and the answer.     *)
CheckIdle(v) ==
  /\ round # NoRound /\ v = round.next
  /\ Accepts(v, Master)
  /\ attempt' = [attempt EXCEPT ![v] = attempt[Master]]
  /\ IF attempt[v] = attempt[Master] \/ ~WorkersIdle(v) \/ ~expired[v]
     THEN round' = NoRound /\ UNCHANGED <<down, raced>>
     ELSE /\ Decided([next |-> After(v), req |-> round.req \cup Requested(v),
                      has |-> round.has \cup Present(v)])
          /\ raced' = (raced \/ (steal[v] # NoSteal /\ \E x \in Servers : x > v))
  /\ UNCHANGED <<queues, probe, steal, expired, puts>>

-----------------------------------------------------------------------------
WorkerStep ==
  \E w \in Workers :
    \/ ShutdownWorker(w)
    \/ \E t \in Types : Put(w, t) \/ Get(w, t)
    \/ \E v \in Workers, t \in Types : PutTargeted(w, v, t)

StealStep ==
  \/ \E s, v \in Servers :
       RandomStealProbe(s, v) \/ HandleStealProbe(s, v) \/ HandleStealProbeResp(s, v)
  \/ \E s \in Servers, n \in [Types -> 0..MaxPuts], fed \in SUBSET Workers :
       HandleSteal(s, n, fed)

IdleStep == StartRound \/ \E s \in Servers : CheckIdle(s) \/ TimerExpires(s)

Next == WorkerStep \/ StealStep \/ IdleStep

Spec == Init /\ [][Next]_vars

StealUnits(s) == \E n \in [Types -> 0..MaxPuts], fed \in SUBSET Workers :
                   (\E t \in Types : n[t] > 0) /\ HandleSteal(s, n, fed)

(* The loop of every server runs on, and time passes.  The target of a     *)
(* probe and the units sent are drawn at random, so none is left out for   *)
(* ever.                                                                   *)
Fairness ==
  /\ WF_vars(StartRound)
  /\ \A s \in Servers :
       /\ WF_vars(TimerExpires(s)) /\ WF_vars(CheckIdle(s))
       /\ WF_vars(\E n \in [Types -> 0..MaxPuts], fed \in SUBSET Workers : HandleSteal(s, n, fed))
       /\ SF_vars(StealUnits(s))
       /\ \A v \in Servers \ {s} :
            /\ SF_vars(RandomStealProbe(s, v))
            /\ SF_vars(HandleStealProbe(s, v) \/ HandleStealProbeResp(s, v))

LiveSpec == Spec /\ Fairness
-----------------------------------------------------------------------------
TypeOK ==
  /\ worker \in [Workers -> Types \cup {"runs", "left"}]
  /\ work \in [Servers -> [Types -> Nat]]
  /\ targeted \in [Workers -> [Types -> Nat]]
  /\ probe \in [Servers -> [Servers -> [state: {"none", "sent", "answered"}, has: SUBSET Types]]]
  /\ steal \in [Servers -> [victim: Servers \cup {-1}, counts: [Types -> Nat], attempt: Nat]]
  /\ \A s \in Servers : /\ probe[s][s] = NoProbe
                        /\ steal[s] = NoSteal \/ steal[s].victim \in Servers \ {s}
  /\ round \in [next: Int, req: SUBSET Types, has: SUBSET Types]
  /\ attempt \in [Servers -> Nat]
  /\ expired \in [Servers -> BOOLEAN]
  /\ down \in BOOLEAN /\ raced \in BOOLEAN /\ puts \in Nat

\* Nothing runs, and nothing could: no worker waits for work that is there.
Quiescent ==
  /\ \A w \in Workers : worker[w] # "runs"
  /\ \A s, v \in Servers : Requested(s) \cap Present(v) = {}
  /\ \A w \in Workers : worker[w] \in Types => targeted[w][worker[w]] = 0

(* The servers shut down only when all are idle: "Suppose three servers    *)
(* ... Shutdown even though B is not idle" is what the numbers exclude.    *)
SafeShutdown == down => Quiescent

(* "These numbers are generated by master, so shouldn't be ahead": the     *)
(* assertion of xlb_server_check_idle_local(), for every way a number      *)
(* travels.                                                                *)
AttemptsBehind ==
  \A s \in Servers : attempt[s] <= attempt[Master] /\ steal[s].attempt <= attempt[s]

(* The numbers do exclude it as long as no thief passes a check, with      *)
(* servers still to be asked, while its STEAL with the number of an        *)
(* earlier round is in flight.                                             *)
SafeUnlessRaced == down /\ ~raced => Quiescent

(* Why: the servers that have passed the check of this round stay as they  *)
(* were counted, or the round fails.  What can disturb one of them is a    *)
(* steal, its own or another server's: if units move, the victim gets the  *)
(* number of the round and fails, or thief and victim have both passed and *)
(* the counts already show that work and requests match.                   *)
StaysCounted(s) ==
  /\ WorkersIdle(s)
  /\ Requested(s) \subseteq round.req /\ Present(s) \subseteq round.has
  /\ steal[s] # NoSteal => steal[s].attempt = attempt[Master]

RoundFails ==
  \/ \E v \in Servers : v >= round.next /\ attempt[v] = attempt[Master]
  \/ round.req \cap round.has # {}

RoundCounted ==
  round # NoRound =>
    /\ ~down /\ Master < round.next /\ \E s \in Servers : s >= round.next
    /\ \A s \in Servers : s < round.next => attempt[s] = attempt[Master]
    /\ raced \/ RoundFails \/ \A s \in Servers : s < round.next => StaysCounted(s)

(* A blocked worker has no unit targeted at it that it would take. *)
TargetsTaken == \A w \in Workers : worker[w] \in Types => targeted[w][worker[w]] = 0

(* The state between two checks of a round, under every interleaving with  *)
(* puts, gets and steals: what servers_idle() has counted still holds when *)
(* the next server is asked, or the round is bound to fail.                *)
RoundInv == AttemptsBehind /\ RoundCounted /\ TargetsTaken

(* "we only want to steal work types where the other server has more of    *)
(* them than us": a steal takes no type the thief has more of.             *)
StealsFromRicher ==
  [][\A s, v \in Servers, t \in Types :
       s # v /\ work'[v][t] < work[v][t] /\ steal'[s] # steal[s] /\ steal[s].victim = v
         => steal[s].counts[t] < work[v][t]]_vars

(* A system in which nothing can run any more shuts down: the numbers, the *)
(* counts and steals in flight spoil a few rounds at most.  Up to three    *)
(* more rounds are within the bound.                                       *)
IdleShutsDown ==
  (Quiescent /\ (\A s \in Servers : expired[s]) /\ attempt[Master] + 3 <= MaxAttempts)
     ~> down

(* Work that a worker of another server waits for does not stay apart from *)
(* it: a steal brings them together, and meanwhile nobody shuts down.      *)
StealMatches ==
  \A t \in Types :
    (\E s, v \in Servers : t \in Requested(s) \cap Present(v))
      ~> ~(\E s, v \in Servers : t \in Requested(s) \cap Present(v))
=============================================================================
