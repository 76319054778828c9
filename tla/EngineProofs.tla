---------------------------- MODULE EngineProofs ----------------------------
(***************************************************************************)
(* What the engines, the data and the notifications between them keep true *)
(* for any servers, data and tasks, and that they do what ADLB_Dput        *)
(* promises.  Data are not gone while a task still needs them, and the     *)
(* caches of closed data are not empty.                                    *)
(***************************************************************************)
EXTENDS Engine, WellFoundedInduction, TLAPS

Counts == [Servers -> [Keys -> Nat]]
Calls == [task : Tasks \cup {NoTask}, next : Nat, sync : BOOLEAN]
Tables == UNION {[D -> Transforms] : D \in SUBSET Tasks}
Engines == [transforms : Tables, blockers : [Keys -> Seq(Tasks)],
            subscribed : SUBSET Keys, cache : Seq(Keys), subCache : Seq(Keys),
            ready : [Tasks -> Nat]]

Types ==
  /\ fail = "ok"
  /\ data \in [Keys -> {"open", "closed", "gone"}]
  /\ eng \in [Servers -> Engines] /\ dput \in [Servers -> Calls]
  /\ subs \in Counts /\ lis \in Counts /\ ntfs \in Counts /\ rpcs \in Counts
  /\ put \subseteq Tasks /\ released \in [Tasks -> Nat]

-----------------------------------------------------------------------------
(* An engine e of server s in the call c, with data d.                     *)

\* Transform T of task t, of which the first n - 1 inputs were looked at: what is
\* marked is closed, all before the blocker is marked, and where an input is not
\* marked the task is blocked.
TransformOK(e, d, t, T, n) ==
  /\ T.closed \subseteq DOMAIN Inputs[t]
  /\ T.blocker \in 1..(Len(Inputs[t]) + 1)
  /\ \A i \in 1..Len(Inputs[t]) :
       /\ i < T.blocker => i \in T.closed
       /\ i \in T.closed => d[Inputs[t][i]] # "open"
       /\ i < n /\ i \notin T.closed =>
            \E j \in 1..Len(e.blockers[Inputs[t][i]]) : e.blockers[Inputs[t][i]][j] = t

\* A transform on the list waits for the input it is blocked by.
Waiting(t, T) == T.blocker \in 1..Len(Inputs[t]) /\ T.blocker \notin T.closed

TransformsOK(e, c, d) ==
  \A t \in DOMAIN e.transforms :
    IF t = c.task THEN TransformOK(e, d, t, e.transforms[t], c.next)
    ELSE /\ TransformOK(e, d, t, e.transforms[t], Len(Inputs[t]) + 1)
         /\ Waiting(t, e.transforms[t])

\* The call of xlb_engine_put: its transform exists; of the inputs still to be
\* looked at only some of this server may be marked, and not the one whose
\* subscription is being sent.
CallOK(s, e, c) ==
  /\ c.task = NoTask => ~c.sync
  /\ c.task # NoTask =>
       /\ c.task \in DOMAIN e.transforms
       /\ c.next \in 1..(Len(Inputs[c.task]) + 1)
       /\ \A i \in e.transforms[c.task].closed :
            i >= c.next => HomeOf[Inputs[c.task][i]] = s
  /\ c.sync =>
       /\ c.next <= Len(Inputs[c.task])
       /\ c.next \notin e.transforms[c.task].closed
       /\ HomeOf[Inputs[c.task][c.next]] # s
       /\ Inputs[c.task][c.next] \notin e.subscribed

\* A list of blocked tasks: each has a transform that waits for the key, and
\* its repetitions are next to each other, at the end for the call's task.
BlockedOK(e, c, k, b) ==
  \A i \in 1..Len(b) :
    /\ b[i] \in DOMAIN e.transforms
    /\ \E j \in 1..Len(Inputs[b[i]]) : /\ Inputs[b[i]][j] = k
                                       /\ j \notin e.transforms[b[i]].closed
    /\ b[i] = c.task => b[Len(b)] = c.task
    /\ \A j \in 1..Len(b) : i < j /\ b[i] = b[j] => b[j - 1] = b[j]

BlockersOK(e, c) ==
  \A k \in Keys : /\ k \in e.subscribed <=> e.blockers[k] # <<>>
                  /\ BlockedOK(e, c, k, e.blockers[k])

CacheOK(s, q, d) ==
  /\ Len(q) <= CacheSize
  /\ \A i \in 1..Len(q) : d[q[i]] # "open" /\ HomeOf[q[i]] # s

EngineOK(s, e, c, d) ==
  /\ CallOK(s, e, c) /\ TransformsOK(e, c, d) /\ BlockersOK(e, c)
  /\ CacheOK(s, e.cache, d) /\ CacheOK(s, e.subCache, d)

-----------------------------------------------------------------------------
(* Where a task and a subscription are.                                    *)

InputsClosed(d, t) == \A i \in 1..Len(Inputs[t]) : d[Inputs[t][i]] # "open"

\* A task is with one engine, as a transform or as ready work, until it is
\* released, and is not ready before all its inputs are closed.
TasksOK(e, r, p, d) ==
  \A t \in Tasks :
    /\ r[t] > 0 => r[t] = 1 /\ t \in p /\ InputsClosed(d, t)
    /\ \A s \in Servers :
         /\ t \in DOMAIN e[s].transforms \/ e[s].ready[t] > 0 =>
              /\ t \in p /\ r[t] = 0
              /\ \A u \in Servers \ {s} : t \notin DOMAIN e[u].transforms /\ e[u].ready[t] = 0
         /\ e[s].ready[t] > 0 => /\ e[s].ready[t] = 1 /\ InputsClosed(d, t)
                                 /\ t \notin DOMAIN e[s].transforms

\* A server does not subscribe to its own data by syncs; who listens does so to
\* open data, and is told of closed data.
PlacesOK ==
  \A s \in Servers, k \in Keys :
    /\ HomeOf[k] = s => subs[s][k] = 0 /\ ntfs[s][k] = 0 /\ rpcs[s][k] = 0
    /\ data[k] = "open" => ntfs[s][k] = 0 /\ rpcs[s][k] = 0
    /\ data[k] # "open" => lis[s][k] = 0

\* A datum that is gone is needed by no task.
GoneOK == \A k \in Keys, t \in Tasks :
            data[k] = "gone" => ~Needs(t, k)

EngineInv ==
  /\ Types
  /\ \A s \in Servers : EngineOK(s, eng[s], dput[s], data)
  /\ TasksOK(eng, released, put, data)
  /\ OneAnswer /\ PlacesOK /\ GoneOK

-----------------------------------------------------------------------------
(* The operators of an engine.                                             *)

\* A non-empty set of naturals has a least element.
LEMMA LeastOf ==
  ASSUME NEW S, S \subseteq Nat, S # {}, NEW R, IsWellFoundedOn(R, Nat),
         \A x, y \in Nat : y < x => <<y, x>> \in R
  PROVE  \E x \in S : \A y \in S : x <= y
  <1>1. PICK x \in S : \A y \in S : <<y, x>> \notin R
    BY WFMin, Zenon
  <1>2. ASSUME NEW y \in S PROVE x <= y
    <2>1. x \in Nat /\ y \in Nat /\ ~(y < x)
      BY <1>1, Zenon
    <2> QED
      BY <2>1
  <1> QED
    BY <1>2

LEMMA Least ==
  ASSUME NEW S, S \subseteq Nat, S # {}
  PROVE  \E x \in S : \A y \in S : x <= y
  <1>1. \A x, y \in Nat : y < x => <<y, x>> \in OpToRel(<, Nat)
    BY DEF OpToRel
  <1> QED
    BY <1>1, NatLessThanWellFounded, LeastOf, Zenon

\* The inputs before the blocker of T are marked.
MarkedBefore(t, T) ==
  /\ T \in Transforms /\ T.blocker \in 1..(Len(Inputs[t]) + 1)
  /\ \A i \in 1..Len(Inputs[t]) : i < T.blocker => i \in T.closed

LEMMA InputsType ==
  ASSUME NEW t \in Tasks
  PROVE  /\ Inputs[t] \in Seq(Keys) /\ Len(Inputs[t]) \in Nat
         /\ DOMAIN Inputs[t] = 1..Len(Inputs[t])
         /\ \A i \in 1..Len(Inputs[t]) : Inputs[t][i] \in Keys
         /\ t # NoTask
  BY EngineAssumption

\* progress() stops at an input that is not marked, or after all of them.
LEMMA ProgressStops ==
  ASSUME NEW t \in Tasks, NEW T, MarkedBefore(t, T), NEW P, P = Progress(t, T)
  PROVE  /\ P.closed = T.closed /\ MarkedBefore(t, P)
         /\ P.blocker <= Len(Inputs[t]) => P.blocker \notin P.closed
         /\ Done(t, P) <=> \A i \in 1..Len(Inputs[t]) : i \in T.closed
  <1>1. PICK n \in Nat : n = Len(Inputs[t])
    BY InputsType
  <1>2. /\ T \in [closed : SUBSET Nat, blocker : Nat] /\ T.blocker \in 1..(n + 1)
        /\ \A i \in 1..n : i < T.blocker => i \in T.closed
    BY <1>1 DEF MarkedBefore, Transforms
  <1> DEFINE open == {i \in T.blocker..n : i \notin T.closed}
             b == IF open = {} THEN n + 1 ELSE CHOOSE i \in open : \A j \in open : i <= j
  <1>3. P = [T EXCEPT !.blocker = b]
    BY <1>1, SMT, SMTT(30) DEF Progress
  <1>4. CASE open = {}
    <2>1. b = n + 1
      BY <1>4
    <2>2. \A i \in 1..n : i \in T.closed
      BY <1>2, <1>4
    <2> QED
      BY <1>1, <1>2, <1>3, <2>1, <2>2, SMT, SMTT(30) DEF MarkedBefore, Transforms, Done
  <1>5. CASE open # {}
    <2>1. open \subseteq Nat
      BY <1>2
    <2>2. \E i \in open : \A j \in open : i <= j
      <3> HIDE DEF open
      <3> QED
        BY <1>5, <2>1, Least, Zenon
    <2>3. b \in open /\ \A j \in open : b <= j
      BY <1>5, <2>2, Zenon
    <2>4. b \in T.blocker..n /\ b \notin T.closed /\ b \in Nat
      BY <2>3, <1>2
    <2>5. \A i \in 1..n : i < b => i \in T.closed
      BY <1>2, <2>3, <2>4
    <2> HIDE DEF b, open
    <2> QED
      BY <1>1, <1>2, <1>3, <2>4, <2>5, SMT, SMTT(30) DEF MarkedBefore, Transforms, Done
  <1> QED
    BY <1>4, <1>5

\* P is the transform T of task t after key k closed: the inputs that are the key
\* are marked, those before the blocker included.
UpdateOK(t, T, k, P) ==
  /\ MarkedBefore(t, P) /\ P.closed \subseteq 1..Len(Inputs[t])
  /\ P.blocker <= Len(Inputs[t]) => P.blocker \notin P.closed
  /\ \A i \in 1..Len(Inputs[t]) :
       i \in P.closed <=> i \in T.closed \/ Inputs[t][i] = k
  /\ Done(t, P) <=> \A i \in 1..Len(Inputs[t]) : i \in P.closed

\* That is what xlb_engine_close_update() does.
LEMMA UpdatedStops ==
  ASSUME NEW t \in Tasks, NEW T, MarkedBefore(t, T), NEW k,
         NEW P, P = Progress(t, Marked(t, T, k)), T.closed \subseteq 1..Len(Inputs[t])
  PROVE  UpdateOK(t, T, k, P)
  <1>1. PICK n \in Nat : n = Len(Inputs[t])
    BY InputsType
  <1>2. /\ T \in [closed : SUBSET Nat, blocker : Nat] /\ T.blocker \in 1..(n + 1)
        /\ \A i \in 1..n : i < T.blocker => i \in T.closed
    BY <1>1 DEF MarkedBefore, Transforms
  <1>3. PICK M : M = Marked(t, T, k)
    OBVIOUS
  <1>4. /\ M.closed = T.closed \cup {i \in T.blocker..n : Inputs[t][i] = k}
        /\ M.blocker = T.blocker /\ M \in [closed : SUBSET Nat, blocker : Nat]
    BY <1>1, <1>2, <1>3 DEF Marked
  <1>5. MarkedBefore(t, M)
    BY <1>1, <1>2, <1>4 DEF MarkedBefore, Transforms
  <1>6. \A i \in 1..n : i \in M.closed <=> i \in T.closed \/ Inputs[t][i] = k
    BY <1>2, <1>4
  <1>7. M.closed \subseteq 1..n
    BY <1>1, <1>2, <1>4
  <1>8. /\ P.closed = M.closed /\ MarkedBefore(t, P)
        /\ P.blocker <= Len(Inputs[t]) => P.blocker \notin P.closed
        /\ Done(t, P) <=> \A i \in 1..Len(Inputs[t]) : i \in M.closed
    BY <1>3, <1>5, ProgressStops
  <1> QED
    BY <1>1, <1>6, <1>7, <1>8, Zenon DEF UpdateOK

\* What a cache may hold: closed keys of other servers.
Cachable(s, k, d) == k \in Keys /\ d[k] # "open" /\ HomeOf[k] # s

\* Adding a closed key to a cache evicts the oldest entry of a full one.
LEMMA EvictOK ==
  ASSUME NEW s, NEW d, NEW q \in Seq(Keys), NEW k, CacheOK(s, q, d), Cachable(s, k, d),
         CacheSize > 0, NEW r, r = Append(IF Len(q) < CacheSize THEN q ELSE Tail(q), k)
  PROVE  r \in Seq(Keys) /\ CacheOK(s, r, d) /\ ~(Len(q) >= CacheSize /\ q = <<>>)
  <1>0. CacheSize \in Nat /\ Len(q) \in Nat /\ k \in Keys
    BY EngineAssumption DEF Cachable
  <1>1. CASE Len(q) < CacheSize
    <2>1. r = Append(q, k)
      BY <1>1
    <2>2. /\ r \in Seq(Keys) /\ Len(r) = Len(q) + 1 /\ r[Len(q) + 1] = k
          /\ \A i \in 1..Len(q) : r[i] = q[i]
      BY <1>0, <2>1
    <2> QED
      BY <1>0, <1>1, <2>2 DEF CacheOK, Cachable
  <1>2. CASE ~(Len(q) < CacheSize)
    <2>1. q # <<>>
      BY <1>0, <1>2
    <2>2. PICK p : p = Tail(q)
      BY Zenon
    <2>3. /\ p \in Seq(Keys) /\ Len(p) = Len(q) - 1
          /\ \A i \in 1..Len(p) : p[i] = q[i + 1]
      BY <2>1, <2>2
    <2>4. r = Append(p, k)
      BY <1>2, <2>2
    <2>5. /\ r \in Seq(Keys) /\ Len(r) = Len(p) + 1 /\ r[Len(p) + 1] = k
          /\ \A i \in 1..Len(p) : r[i] = p[i]
      BY <1>0, <2>3, <2>4
    <2>6. Len(r) <= CacheSize
      BY <1>0, <2>3, <2>5, SMT, SMTT(30) DEF CacheOK
    <2>7. \A i \in 1..Len(r) : d[r[i]] # "open" /\ HomeOf[r[i]] # s
      BY <1>0, <2>3, <2>5, SMT, SMTT(30) DEF CacheOK, Cachable
    <2> QED
      BY <2>1, <2>5, <2>6, <2>7, Zenon DEF CacheOK
  <1> QED
    BY <1>1, <1>2

\* A hit moves to the end of its cache.
LEMMA LruOK ==
  ASSUME NEW s, NEW d, NEW q \in Seq(Keys), CacheOK(s, q, d), NEW i \in DOMAIN q,
         NEW r, r = MoveLast(q, i)
  PROVE  r \in Seq(Keys) /\ CacheOK(s, r, d)
  <1>1. Len(q) \in Nat /\ DOMAIN q = 1..Len(q) /\ \A j \in 1..Len(q) : q[j] \in Keys
    OBVIOUS
  <1>2. r = [j \in 1..Len(q) |-> IF j < i THEN q[j]
                                ELSE IF j < Len(q) THEN q[j + 1] ELSE q[i]]
    BY <1>1 DEF MoveLast
  <1>3. \A j \in 1..Len(q) : \E g \in 1..Len(q) : r[j] = q[g]
    BY <1>1, <1>2
  <1>4. r \in Seq(Keys) /\ Len(r) = Len(q)
    <2>1. r \in [1..Len(q) -> Keys]
      BY <1>1, <1>2, <1>3, Zenon
    <2> QED
      BY <1>1, <2>1
  <1>5. ASSUME NEW j \in 1..Len(q) PROVE d[r[j]] # "open" /\ HomeOf[r[j]] # s
    <2>1. PICK g \in 1..Len(q) : r[j] = q[g]
      BY <1>3
    <2> QED
      BY <2>1 DEF CacheOK
  <1> QED
    BY <1>4, <1>5 DEF CacheOK

\* Engines that differ in their caches only.
SameButCaches(e, g) ==
  /\ g.transforms = e.transforms /\ g.blockers = e.blockers
  /\ g.subscribed = e.subscribed /\ g.ready = e.ready
CachesOK(s, e, d) == CacheOK(s, e.cache, d) /\ CacheOK(s, e.subCache, d)

LEMMA SetCacheOK ==
  ASSUME NEW s, NEW d, NEW e \in Engines, NEW k \in Keys, CachesOK(s, e, d),
         NEW q \in Seq(Keys), CacheOK(s, q, d), NEW g, g = SetCache(e, k, q)
  PROVE  g \in Engines /\ SameButCaches(e, g) /\ CachesOK(s, g, d)
  BY Zenon DEF SetCache, SameButCaches, CachesOK, Engines

\* id_closed_cache_add() finds a victim and keeps the caches in order.
LEMMA CacheAddOK ==
  ASSUME NEW s, NEW d, NEW e \in Engines, NEW k, CachesOK(s, e, d),
         Cachable(s, k, d), CacheSize > 0, NEW g, g = CacheAdd(e, k)
  PROVE  /\ g \in Engines /\ SameButCaches(e, g) /\ CachesOK(s, g, d)
         /\ ~NoVictim(e, k)
  <1>1. PICK q : q = CacheOf(e, k)
    OBVIOUS
  <1>2. q \in Seq(Keys) /\ CacheOK(s, q, d)
    BY <1>1 DEF CacheOf, CachesOK, Engines
  <1>3. PICK r : r = Append(IF Len(q) < CacheSize THEN q ELSE Tail(q), k)
    BY Zenon
  <1>4. r \in Seq(Keys) /\ CacheOK(s, r, d) /\ ~(Len(q) >= CacheSize /\ q = <<>>)
    BY <1>2, <1>3, EvictOK, Zenon
  <1>5. g = SetCache(e, k, r)
    BY <1>1, <1>3 DEF CacheAdd
  <1>6. ~NoVictim(e, k)
    BY <1>1, <1>4 DEF NoVictim
  <1> QED
    BY <1>4, <1>5, <1>6, SetCacheOK DEF Cachable

LEMMA UpdateLruOK ==
  ASSUME NEW s, NEW d, NEW e \in Engines, NEW k \in Keys, CachesOK(s, e, d),
         CacheCheck(e, k), NEW g, g = UpdateLru(e, k)
  PROVE  /\ g \in Engines /\ SameButCaches(e, g) /\ CachesOK(s, g, d)
         /\ d[k] # "open"
  <1>1. PICK q : q = CacheOf(e, k)
    OBVIOUS
  <1>2. q \in Seq(Keys) /\ CacheOK(s, q, d) /\ k \in Range(q)
    BY <1>1 DEF CacheOf, CachesOK, Engines, CacheCheck
  <1>3. PICK i : i = CHOOSE j \in DOMAIN q : q[j] = k
    OBVIOUS
  <1>4. i \in DOMAIN q /\ q[i] = k
    BY <1>2, <1>3 DEF Range
  <1>5. PICK r : r = MoveLast(q, i)
    OBVIOUS
  <1>6. r \in Seq(Keys) /\ CacheOK(s, r, d)
    BY <1>2, <1>4, <1>5, LruOK
  <1>7. g = SetCache(e, k, r)
    BY <1>1, <1>3, <1>5 DEF UpdateLru
  <1>8. d[k] # "open"
    BY <1>2, <1>4 DEF CacheOK
  <1> QED
    BY <1>6, <1>7, <1>8, SetCacheOK, Zenon

\* The tasks blocked by key k, and those that are done when it closes.
Blocked(e, k) == Range(e.blockers[k])
Finished(e, k) == {t \in Blocked(e, k) : Done(t, Updated(e, t, k))}

\* Engine f is what xlb_engine_close() makes of e when key k closes; its caches
\* hold what they may.
Closes(s, e, k, f, d) ==
  /\ f.subscribed = e.subscribed \ {k}
  /\ f.blockers = [e.blockers EXCEPT ![k] = <<>>]
  /\ f.transforms = [t \in DOMAIN e.transforms \ Finished(e, k) |->
                       IF t \in Blocked(e, k) THEN Updated(e, t, k)
                       ELSE e.transforms[t]]
  /\ f.ready = [t \in Tasks |-> IF t \in Finished(e, k) THEN e.ready[t] + 1
                                ELSE e.ready[t]]
  /\ f.cache \in Seq(Keys) /\ f.subCache \in Seq(Keys) /\ CachesOK(s, f, d)
  /\ f = [transforms |-> f.transforms, blockers |-> f.blockers,
          subscribed |-> f.subscribed, cache |-> f.cache,
          subCache |-> f.subCache, ready |-> f.ready]

LEMMA CloseShape ==
  ASSUME NEW s, NEW d, NEW e \in Engines, NEW k \in Keys, CachesOK(s, e, d),
         NEW remote \in BOOLEAN, remote => Cachable(s, k, d), CacheSize > 0,
         NEW f, f = EngineClose(e, k, remote)
  PROVE  Closes(s, e, k, f, d) /\ ~(remote /\ NoVictim(e, k))
  <1>1. PICK e1 : e1 = [e EXCEPT !.subscribed = @ \ {k}]
    BY Zenon
  <1>2. /\ e1 \in Engines /\ CachesOK(s, e1, d) /\ e1.transforms = e.transforms
        /\ e1.blockers = e.blockers /\ e1.ready = e.ready
        /\ e1.subscribed = e.subscribed \ {k}
        /\ NoVictim(e1, k) <=> NoVictim(e, k)
    BY <1>1, Zenon DEF Engines, CachesOK, NoVictim, CacheOf
  <1>3. PICK g : g = IF remote THEN CacheAdd(e1, k) ELSE e1
    OBVIOUS
  <1>4. /\ g \in Engines /\ SameButCaches(e1, g) /\ CachesOK(s, g, d)
        /\ ~(remote /\ NoVictim(e, k))
    <2>1. CASE remote
      BY <1>2, <1>3, <2>1, CacheAddOK, Zenon
    <2>2. CASE ~remote
      BY <1>2, <1>3, <2>2 DEF SameButCaches
    <2> QED
      BY <2>1, <2>2, Zenon
  <1>5. f = CloseUpdate(g, k)
    BY <1>1, <1>3 DEF EngineClose
  <1>6. /\ g.transforms = e.transforms /\ g.blockers = e.blockers
        /\ g.subscribed = e.subscribed \ {k} /\ g.ready = e.ready
    BY <1>2, <1>4 DEF SameButCaches
  <1>7. /\ \A t : Updated(g, t, k) = Updated(e, t, k)
        /\ Range(g.blockers[k]) = Blocked(e, k)
    BY <1>6 DEF Updated, Blocked
  <1>8. {t \in Range(g.blockers[k]) : Done(t, Updated(g, t, k))} = Finished(e, k)
    BY <1>7 DEF Finished
  <1>9. f = [g EXCEPT !.blockers = [e.blockers EXCEPT ![k] = <<>>],
                      !.transforms = [t \in DOMAIN e.transforms \ Finished(e, k) |->
                                        IF t \in Blocked(e, k) THEN Updated(e, t, k)
                                        ELSE e.transforms[t]],
                      !.ready = [t \in Tasks |-> IF t \in Finished(e, k)
                                                 THEN e.ready[t] + 1 ELSE e.ready[t]]]
    BY <1>5, <1>6, <1>7, <1>8, ZenonT(200) DEF CloseUpdate
  <1> QED
    BY <1>4, <1>6, <1>9, Zenon DEF Engines, CachesOK, Closes

-----------------------------------------------------------------------------
(* A key closes for an engine.                                             *)

\* What is open never opens again.
Later(d, d1) == \A k \in Keys : d[k] # "open" => d1[k] # "open"

\* xlb_engine_close() runs outside xlb_engine_put(), or for a key of this server
\* while the latter sends a subscription.
Interruptible(s, c, k) == c.task = NoTask \/ (c.sync /\ HomeOf[k] = s)

LEMMA TableType ==
  ASSUME NEW e \in Engines, NEW t \in DOMAIN e.transforms
  PROVE  t \in Tasks /\ t # NoTask /\ e.transforms[t] \in Transforms
  BY InputsType DEF Engines, Tables

\* Every transform is one that progress() may be called for.
LEMMA MarkedOK ==
  ASSUME NEW s, NEW e \in Engines, NEW c, NEW d, EngineOK(s, e, c, d),
         NEW t \in DOMAIN e.transforms
  PROVE  /\ MarkedBefore(t, e.transforms[t])
         /\ e.transforms[t].closed \subseteq 1..Len(Inputs[t])
         /\ t \in Tasks
  <1>1. t \in Tasks /\ e.transforms[t] \in Transforms
    BY TableType
  <1>2. PICK n : TransformOK(e, d, t, e.transforms[t], n)
    BY DEF EngineOK, TransformsOK
  <1> QED
    BY <1>1, <1>2, InputsType DEF TransformOK, MarkedBefore

\* The transforms that a close touches exist, and those not done still wait.
LEMMA UpdatedOK ==
  ASSUME NEW s, NEW e \in Engines, NEW c, NEW d, EngineOK(s, e, c, d),
         NEW k \in Keys, NEW t \in Blocked(e, k), NEW P, P = Updated(e, t, k)
  PROVE  /\ t \in DOMAIN e.transforms /\ t \in Tasks
         /\ UpdateOK(t, e.transforms[t], k, P)
  <1>1. e.blockers[k] \in Seq(Tasks)
    BY DEF Engines
  <1>2. PICK j \in 1..Len(e.blockers[k]) : e.blockers[k][j] = t
    BY <1>1 DEF Blocked, Range
  <1>3. t \in DOMAIN e.transforms
    BY <1>2 DEF EngineOK, BlockersOK, BlockedOK
  <1>4. PICK T : T = e.transforms[t]
    BY Zenon
  <1>5. MarkedBefore(t, T) /\ T.closed \subseteq 1..Len(Inputs[t]) /\ t \in Tasks
    BY <1>3, <1>4, MarkedOK, Zenon
  <1>6. P = Progress(t, Marked(t, T, k))
    BY <1>4 DEF Updated
  <1> QED
    BY <1>3, <1>4, <1>5, <1>6, UpdatedStops

\* The task whose put is under way is not done: the input whose subscription is
\* being sent is not marked.
LEMMA CallNotDone ==
  ASSUME NEW s, NEW e \in Engines, NEW c \in Calls, NEW d, EngineOK(s, e, c, d),
         NEW k \in Keys, Interruptible(s, c, k), c.task \in Blocked(e, k)
  PROVE  /\ ~Done(c.task, Updated(e, c.task, k))
         /\ c.next \notin Updated(e, c.task, k).closed
  <1>1. PICK P : P = Updated(e, c.task, k)
    OBVIOUS
  <1>2. c.task \in Tasks
    BY SMT, SMTT(30) DEF Blocked, Range, Engines
  <1>3. c.sync /\ Inputs[c.task][c.next] # k
    BY <1>2, InputsType, Zenon DEF Interruptible, EngineOK, CallOK
  <1>4. /\ c.next \in 1..Len(Inputs[c.task])
        /\ c.next \notin e.transforms[c.task].closed
    BY <1>2, <1>3, InputsType DEF EngineOK, CallOK, Calls
  <1>5. UpdateOK(c.task, e.transforms[c.task], k, P)
    BY <1>1, UpdatedOK, Zenon
  <1>6. c.next \notin P.closed
    BY <1>3, <1>4, <1>5, Zenon DEF UpdateOK
  <1>7. ~Done(c.task, P)
    BY <1>4, <1>5, <1>6, Zenon DEF UpdateOK
  <1> QED
    BY <1>1, <1>6, <1>7

\* So none of the assertions of xlb_engine_close() fails, and nothing freed or
\* not yet on the list is used.
LEMMA NoCloseError ==
  ASSUME NEW s, NEW e \in Engines, NEW c \in Calls, NEW d, EngineOK(s, e, c, d),
         NEW k \in e.subscribed, Interruptible(s, c, k), NEW remote,
         ~(remote /\ NoVictim(e, k))
  PROVE  CloseError(e, k, remote, c.task) = "ok"
  <1>0. k \in Keys
    BY Zenon DEF Engines
  <1>1. PICK b : b = e.blockers[k]
    OBVIOUS
  <1>2. b \in Seq(Tasks) /\ DOMAIN b = 1..Len(b) /\ Range(b) = Blocked(e, k)
    BY <1>0, <1>1 DEF Engines, Blocked
  <1>3. Range(b) \subseteq DOMAIN e.transforms
    <2> SUFFICES ASSUME NEW t \in Blocked(e, k) PROVE t \in DOMAIN e.transforms
      BY <1>2
    <2>1. PICK P : P = Updated(e, t, k)
      OBVIOUS
    <2> QED
      BY <1>0, <2>1, UpdatedOK, Zenon
  <1>4. \A i, j \in 1..Len(b) : i < j /\ b[i] = b[j] => b[j - 1] = b[j]
    <2>1. BlockedOK(e, c, k, b)
      BY <1>0, <1>1, Zenon DEF EngineOK, BlockersOK
    <2> QED
      BY <2>1 DEF BlockedOK
  <1>5. ~UsesFreed(e, k)
    BY <1>1, <1>2, <1>3, <1>4, Zenon DEF UsesFreed
  <1>6. ~(c.task \in Range(e.blockers[k]) /\ Done(c.task, Updated(e, c.task, k)))
    BY <1>0, <1>1, <1>2, CallNotDone, Zenon
  <1> QED
    BY <1>5, <1>6 DEF CloseError

\* A transform that the close of key k has changed, or does not concern.
LEMMA CloseTransform ==
  ASSUME NEW t \in Tasks, NEW T, NEW n \in Nat, NEW e \in Engines, NEW d, NEW d1,
         NEW k \in Keys, TransformOK(e, d, t, T, n), Later(d, d1), d1[k] # "open",
         NEW f, f.blockers = [e.blockers EXCEPT ![k] = <<>>],
         NEW P, UpdateOK(t, T, k, P) \/ (P = T /\ t \notin Blocked(e, k))
  PROVE  TransformOK(f, d1, t, P, n)
  <1>1. /\ Len(Inputs[t]) \in Nat /\ DOMAIN Inputs[t] = 1..Len(Inputs[t])
        /\ \A i \in 1..Len(Inputs[t]) : Inputs[t][i] \in Keys
    BY InputsType, Zenon
  <1>2. /\ P.closed \subseteq 1..Len(Inputs[t])
        /\ P.blocker \in 1..(Len(Inputs[t]) + 1)
        /\ \A i \in 1..Len(Inputs[t]) : i < P.blocker => i \in P.closed
        /\ \A i \in 1..Len(Inputs[t]) :
             /\ i \in P.closed => i \in T.closed \/ Inputs[t][i] = k
             /\ i \notin P.closed => i \notin T.closed
    BY <1>1, Zenon DEF TransformOK, UpdateOK, MarkedBefore
  <1>3. ASSUME NEW i \in 1..Len(Inputs[t]), i \in P.closed
        PROVE  d1[Inputs[t][i]] # "open"
    BY <1>1, <1>2, <1>3, Zenon DEF TransformOK, Later
  <1>4. ASSUME NEW i \in 1..Len(Inputs[t]), i < n, i \notin P.closed
        PROVE  \E j \in 1..Len(f.blockers[Inputs[t][i]]) : f.blockers[Inputs[t][i]][j] = t
    <2>1. PICK j \in 1..Len(e.blockers[Inputs[t][i]]) : e.blockers[Inputs[t][i]][j] = t
      BY <1>2, <1>4, Zenon DEF TransformOK
    <2>2. Inputs[t][i] # k
      <3>1. CASE UpdateOK(t, T, k, P)
        BY <1>4, <3>1, Zenon DEF UpdateOK
      <3>2. CASE P = T /\ t \notin Blocked(e, k)
        <4>1. e.blockers[Inputs[t][i]] \in Seq(Tasks)
          BY <1>1, Zenon DEF Engines
        <4>2. t \in Blocked(e, Inputs[t][i])
          BY <2>1, <4>1, SMT, SMTT(30) DEF Blocked, Range
        <4> QED
          BY <3>2, <4>2, Zenon
      <3> QED
        BY <3>1, <3>2, Zenon
    <2>3. f.blockers[Inputs[t][i]] = e.blockers[Inputs[t][i]]
      BY <1>1, <2>2, Zenon DEF Engines
    <2> QED
      BY <2>1, <2>3, Zenon
  <1> QED
    BY <1>1, <1>2, <1>3, <1>4, Zenon DEF TransformOK

\* A task that waits for another key than k is not done when k closes.
LEMMA StillBlocked ==
  ASSUME NEW s, NEW e \in Engines, NEW c, NEW d, EngineOK(s, e, c, d),
         NEW k \in Keys, NEW t \in DOMAIN e.transforms,
         NEW j \in 1..Len(Inputs[t]), Inputs[t][j] # k, j \notin e.transforms[t].closed
  PROVE  /\ t \notin Finished(e, k)
         /\ t \in Blocked(e, k) => j \notin Updated(e, t, k).closed
  <1> SUFFICES ASSUME t \in Blocked(e, k)
               PROVE  ~Done(t, Updated(e, t, k)) /\ j \notin Updated(e, t, k).closed
    BY DEF Finished
  <1>1. PICK P : P = Updated(e, t, k)
    OBVIOUS
  <1>2. UpdateOK(t, e.transforms[t], k, P)
    BY <1>1, UpdatedOK, Zenon
  <1> QED
    BY <1>1, <1>2, Zenon DEF UpdateOK

\* The engine after xlb_engine_close(): all of EngineOK still holds, and what
\* became ready has all its inputs closed.
ReadyMoved(e, f, d) ==
  /\ DOMAIN f.transforms \subseteq DOMAIN e.transforms
  /\ \A t \in Tasks :
       \/ f.ready[t] = e.ready[t]
       \/ /\ f.ready[t] = e.ready[t] + 1 /\ InputsClosed(d, t)
          /\ t \in DOMAIN e.transforms \ DOMAIN f.transforms

Told(s, e, c, d, k, remote, f) ==
  /\ f \in Engines /\ EngineOK(s, f, c, d)
  /\ f.subscribed = e.subscribed \ {k} /\ ReadyMoved(e, f, d)
  /\ CloseError(e, k, remote, c.task) = "ok"

LEMMA CloseOK ==
  ASSUME NEW s, NEW e \in Engines, NEW c \in Calls, NEW d, NEW d1,
         EngineOK(s, e, c, d), Later(d, d1), NEW k \in e.subscribed,
         d1[k] # "open", Interruptible(s, c, k), NEW remote \in BOOLEAN,
         remote => HomeOf[k] # s, CacheSize > 0,
         NEW f, f = EngineClose(e, k, remote)
  PROVE  Told(s, e, c, d1, k, remote, f)
  <1>0. k \in Keys /\ e.cache \in Seq(Keys) /\ e.subCache \in Seq(Keys)
    BY Zenon DEF Engines
  <1>1. CachesOK(s, e, d1) /\ (remote => Cachable(s, k, d1))
    BY <1>0, SMT, SMTT(30) DEF EngineOK, CacheOK, CachesOK, Later, Cachable
  <1>a. Closes(s, e, k, f, d1) /\ ~(remote /\ NoVictim(e, k))
    BY <1>0, <1>1, CloseShape, Zenon
  <1>2. /\ f.subscribed = e.subscribed \ {k}
        /\ f.blockers = [e.blockers EXCEPT ![k] = <<>>]
        /\ f.transforms = [t \in DOMAIN e.transforms \ Finished(e, k) |->
                             IF t \in Blocked(e, k) THEN Updated(e, t, k)
                             ELSE e.transforms[t]]
        /\ f.ready = [t \in Tasks |-> IF t \in Finished(e, k) THEN e.ready[t] + 1
                                      ELSE e.ready[t]]
        /\ f.cache \in Seq(Keys) /\ f.subCache \in Seq(Keys) /\ CachesOK(s, f, d1)
        /\ f = [transforms |-> f.transforms, blockers |-> f.blockers,
                subscribed |-> f.subscribed, cache |-> f.cache,
                subCache |-> f.subCache, ready |-> f.ready]
        /\ ~(remote /\ NoVictim(e, k))
    BY <1>a, ZenonT(60) DEF Closes
  <1>3. CloseError(e, k, remote, c.task) = "ok"
    BY <1>2, NoCloseError
  <1>4. \A t \in Blocked(e, k) :
          /\ t \in DOMAIN e.transforms /\ t \in Tasks
          /\ UpdateOK(t, e.transforms[t], k, Updated(e, t, k))
    BY <1>0, UpdatedOK, Zenon
  <1>5. ASSUME NEW t \in DOMAIN f.transforms
        PROVE  /\ t \in DOMAIN e.transforms /\ t \in Tasks /\ t \notin Finished(e, k)
               /\ f.transforms[t] \in Transforms
               /\ \/ /\ t \in Blocked(e, k) /\ f.transforms[t] = Updated(e, t, k)
                     /\ UpdateOK(t, e.transforms[t], k, f.transforms[t])
                     /\ ~Done(t, f.transforms[t])
                  \/ t \notin Blocked(e, k) /\ f.transforms[t] = e.transforms[t]
    <2>1. t \in DOMAIN e.transforms \ Finished(e, k)
      BY <1>2, Zenon
    <2>2. t \in Tasks /\ e.transforms[t] \in Transforms
      BY <2>1, TableType, Zenon
    <2>3. CASE t \in Blocked(e, k)
      BY <1>2, <1>4, <2>1, <2>2, <2>3, ZenonT(200) DEF Finished, UpdateOK, MarkedBefore
    <2>4. CASE t \notin Blocked(e, k)
      BY <1>2, <2>1, <2>2, <2>4
    <2> QED
      BY <2>1, <2>2, <2>3, <2>4, Zenon
  <1>6. f \in Engines
    <2>1. f.transforms \in Tables
      <3> DEFINE D == DOMAIN e.transforms \ Finished(e, k)
      <3>1. DOMAIN f.transforms = D
        BY <1>2, Zenon
      <3>2. D \in SUBSET Tasks
        BY <1>5, <3>1, Zenon
      <3>3. f.transforms \in [D -> Transforms]
        BY <1>2, <1>5, <3>1, Zenon
      <3> QED
        BY <3>2, <3>3 DEF Tables
    <2>2. f.blockers \in [Keys -> Seq(Tasks)] /\ f.subscribed \in SUBSET Keys
      BY <1>0, <1>2, SMT, SMTT(30) DEF Engines
    <2>3. f.ready \in [Tasks -> Nat]
      BY <1>2, SMT, SMTT(30) DEF Engines
    <2> QED
      BY <1>2, <2>1, <2>2, <2>3, Zenon DEF Engines
  <1>7. ReadyMoved(e, f, d1)
    <2>1. ASSUME NEW t \in Finished(e, k)
          PROVE  t \in DOMAIN e.transforms /\ InputsClosed(d1, t)
      <3>1. /\ t \in DOMAIN e.transforms /\ t \in Tasks /\ Done(t, Updated(e, t, k))
            /\ UpdateOK(t, e.transforms[t], k, Updated(e, t, k))
        BY <1>4, Zenon DEF Finished
      <3>2. \A i \in 1..Len(Inputs[t]) : i \in e.transforms[t].closed \/ Inputs[t][i] = k
        BY <3>1, Zenon DEF UpdateOK
      <3>3. PICK n : TransformOK(e, d, t, e.transforms[t], n)
        BY <3>1, Zenon DEF EngineOK, TransformsOK
      <3> QED
        BY <3>1, <3>2, <3>3, InputsType, Zenon DEF TransformOK, InputsClosed, Later
    <2> QED
      BY <1>2, <2>1 DEF ReadyMoved
  <1>8. CallOK(s, f, c)
    <2>1. c.task # NoTask => c.task \in Tasks /\ c.sync
      BY DEF Calls, Interruptible
    <2>2. ASSUME c.sync
          PROVE  /\ c.task \in DOMAIN f.transforms
                 /\ c.next \notin f.transforms[c.task].closed
                 /\ \A i \in f.transforms[c.task].closed :
                      i >= c.next => HomeOf[Inputs[c.task][i]] = s
      <3>1. /\ c.task \in DOMAIN e.transforms /\ Inputs[c.task][c.next] # k
            /\ c.next \in 1..Len(Inputs[c.task])
            /\ c.next \notin e.transforms[c.task].closed
        BY <2>2, InputsType DEF EngineOK, CallOK, Interruptible, Calls
      <3>2. c.task \notin Finished(e, k)
        BY <1>0, <3>1, StillBlocked, Zenon
      <3>3. c.task \in Blocked(e, k) => c.next \notin Updated(e, c.task, k).closed
        BY <1>0, <3>1, StillBlocked, Zenon
      <3>4. c.task \in DOMAIN f.transforms /\ c.task \in Tasks /\ HomeOf[k] = s
        BY <1>2, <2>2, <3>1, <3>2, TableType, Zenon DEF Interruptible
      <3>5. ASSUME NEW i \in f.transforms[c.task].closed, i >= c.next
            PROVE  HomeOf[Inputs[c.task][i]] = s
        <4>1. i \in 1..Len(Inputs[c.task])
              /\ (i \in e.transforms[c.task].closed \/ Inputs[c.task][i] = k)
          <5>1. CASE UpdateOK(c.task, e.transforms[c.task], k, f.transforms[c.task])
            BY <3>5, <5>1, Zenon DEF UpdateOK
          <5>2. CASE f.transforms[c.task] = e.transforms[c.task]
            BY <3>1, <3>5, <5>2, MarkedOK, Zenon
          <5> QED
            BY <1>5, <3>4, <5>1, <5>2, Zenon
        <4> QED
          BY <3>4, <3>5, <4>1, EngineAssumption, Zenon DEF EngineOK, CallOK
      <3> QED
        BY <1>2, <3>1, <3>2, <3>3, <3>5, ZenonT(60)
    <2> QED
      BY <1>2, <2>1, <2>2, Zenon DEF EngineOK, CallOK
  <1>9. TransformsOK(f, c, d1)
    <2> SUFFICES ASSUME NEW t \in DOMAIN f.transforms
                 PROVE  IF t = c.task THEN TransformOK(f, d1, t, f.transforms[t], c.next)
                        ELSE /\ TransformOK(f, d1, t, f.transforms[t], Len(Inputs[t]) + 1)
                             /\ Waiting(t, f.transforms[t])
      BY Zenon DEF TransformsOK
    <2>1. t \in Tasks /\ t \in DOMAIN e.transforms /\ Len(Inputs[t]) \in Nat
      BY <1>5, InputsType
    <2>2. \/ UpdateOK(t, e.transforms[t], k, f.transforms[t])
          \/ f.transforms[t] = e.transforms[t] /\ t \notin Blocked(e, k)
      BY <1>5, Zenon
    <2>3. ASSUME NEW n \in Nat, TransformOK(e, d, t, e.transforms[t], n)
          PROVE  TransformOK(f, d1, t, f.transforms[t], n)
      BY <1>0, <1>2, <2>1, <2>2, <2>3, CloseTransform, Zenon
    <2>4. CASE t = c.task
      <3>1. TransformOK(e, d, t, e.transforms[t], c.next)
        BY <2>1, <2>4, ZenonT(60) DEF EngineOK, TransformsOK
      <3> QED
        BY <2>3, <2>4, <3>1, Zenon DEF Calls
    <2>5. CASE t # c.task
      <3>1. TransformOK(e, d, t, e.transforms[t], Len(Inputs[t]) + 1)
            /\ Waiting(t, e.transforms[t])
        BY <2>1, <2>5, ZenonT(60) DEF EngineOK, TransformsOK
      <3>2. Waiting(t, f.transforms[t])
        BY <1>5, <2>1, <3>1, SMT, SMTT(30) DEF Waiting, UpdateOK, Done, MarkedBefore
      <3> QED
        BY <2>1, <2>3, <2>5, <3>1, <3>2, SMT, SMTT(30)
    <2> QED
      BY <2>4, <2>5, Zenon
  <1>10. BlockersOK(f, c)
    <2> SUFFICES ASSUME NEW x \in Keys
                 PROVE  /\ x \in f.subscribed <=> f.blockers[x] # <<>>
                        /\ BlockedOK(f, c, x, f.blockers[x])
      BY ZenonT(60) DEF BlockersOK
    <2>1. CASE x = k
      <3>1. f.blockers[x] = <<>>
        BY <1>0, <1>2, <2>1, Zenon DEF Engines
      <3> QED
        BY <1>2, <2>1, <3>1, SMT, SMTT(30) DEF BlockedOK
    <2>2. CASE x # k
      <3>1. PICK b : b = e.blockers[x]
        BY Zenon
      <3>2. f.blockers[x] = b
        BY <1>0, <1>2, <2>2, <3>1, Zenon DEF Engines
      <3>3. (x \in e.subscribed <=> b # <<>>) /\ BlockedOK(e, c, x, b)
        BY <3>1, Zenon DEF EngineOK, BlockersOK
      <3>4. ASSUME NEW i \in 1..Len(b)
            PROVE  /\ b[i] \in DOMAIN f.transforms
                   /\ \E j \in 1..Len(Inputs[b[i]]) : /\ Inputs[b[i]][j] = x
                                                      /\ j \notin f.transforms[b[i]].closed
        <4>1. PICK t : t = b[i]
          BY Zenon
        <4>2. t \in DOMAIN e.transforms
          BY <3>3, <4>1, Zenon DEF BlockedOK
        <4>3. PICK j \in 1..Len(Inputs[t]) : /\ Inputs[t][j] = x
                                             /\ j \notin e.transforms[t].closed
          BY <3>3, <4>1, Zenon DEF BlockedOK
        <4>4. /\ t \notin Finished(e, k)
              /\ t \in Blocked(e, k) => j \notin Updated(e, t, k).closed
          BY <1>0, <2>2, <4>2, <4>3, StillBlocked, Zenon
        <4> QED
          BY <1>2, <4>1, <4>2, <4>3, <4>4, ZenonT(60)
      <3>5. BlockedOK(f, c, x, b)
        BY <3>3, <3>4, Zenon DEF BlockedOK
      <3> QED
        BY <1>2, <2>2, <3>2, <3>3, <3>5, Zenon
    <2> QED
      BY <2>1, <2>2, Zenon
  <1> QED
    BY <1>2, <1>3, <1>6, <1>7, <1>8, <1>9, <1>10, Zenon DEF EngineOK, CachesOK, Told

-----------------------------------------------------------------------------
(* The steps of xlb_engine_put for its engine.                             *)

\* What other servers do to the data disturbs no engine.
LEMMA LaterOK ==
  ASSUME NEW s, NEW e \in Engines, NEW c, NEW d, EngineOK(s, e, c, d),
         NEW d1, Later(d, d1)
  PROVE  EngineOK(s, e, c, d1)
  <1>1. ASSUME NEW t \in DOMAIN e.transforms, NEW n,
               TransformOK(e, d, t, e.transforms[t], n)
        PROVE  TransformOK(e, d1, t, e.transforms[t], n)
    <2>1. t \in Tasks
      BY TableType
    <2> QED
      BY <1>1, <2>1, InputsType, Zenon DEF TransformOK, Later
  <1>2. TransformsOK(e, c, d1)
    BY <1>1, Zenon DEF EngineOK, TransformsOK
  <1>3. ASSUME NEW q \in Seq(Keys), CacheOK(s, q, d)
        PROVE  CacheOK(s, q, d1)
    BY <1>3 DEF CacheOK, Later
  <1>4. CacheOK(s, e.cache, d1) /\ CacheOK(s, e.subCache, d1)
    BY <1>3, Zenon DEF EngineOK, Engines
  <1> QED
    BY <1>2, <1>4, Zenon DEF EngineOK

\* transform_create() for task t.
Creating(e, t) ==
  [e EXCEPT !.transforms =
     [u \in DOMAIN @ \cup {t} |-> IF u = t THEN TransformCreate ELSE @[u]]]

LEMMA CreateOK ==
  ASSUME NEW s, NEW e \in Engines, NEW c \in Calls, NEW d, EngineOK(s, e, c, d),
         c.task = NoTask, NEW t \in Tasks, t \notin DOMAIN e.transforms,
         NEW f, f = Creating(e, t),
         NEW c1, c1 = [task |-> t, next |-> 1, sync |-> FALSE]
  PROVE  f \in Engines /\ c1 \in Calls /\ EngineOK(s, f, c1, d)
  <1>1. /\ f.transforms = [u \in DOMAIN e.transforms \cup {t} |->
                             IF u = t THEN TransformCreate ELSE e.transforms[u]]
        /\ f.blockers = e.blockers /\ f.subscribed = e.subscribed
        /\ f.cache = e.cache /\ f.subCache = e.subCache /\ f.ready = e.ready
    BY Zenon DEF Engines, Creating
  <1>2. c1 \in Calls /\ c1.task = t /\ c1.next = 1 /\ c1.sync = FALSE
    BY DEF Calls
  <1>3. TransformCreate \in Transforms /\ TransformCreate.closed = {}
        /\ TransformCreate.blocker = 1
    BY Zenon DEF Transforms, TransformCreate
  <1>4. ASSUME NEW u \in DOMAIN f.transforms
        PROVE  /\ u = t => f.transforms[u] = TransformCreate
               /\ u # t => u \in DOMAIN e.transforms /\ f.transforms[u] = e.transforms[u]
               /\ u \in Tasks /\ f.transforms[u] \in Transforms
    BY <1>1, <1>3, TableType, ZenonT(60)
  <1>5. f \in Engines
    <2>1. f.transforms \in [DOMAIN e.transforms \cup {t} -> Transforms]
          /\ DOMAIN e.transforms \cup {t} \in SUBSET Tasks
      BY <1>1, <1>4, TableType, Zenon
    <2>2. f.transforms \in Tables
      BY <2>1, Zenon DEF Tables
    <2> QED
      BY <2>2, Zenon DEF Engines, Creating
  <1>6. CallOK(s, f, c1)
    <2>1. t \in DOMAIN f.transforms /\ f.transforms[t].closed = {}
      BY <1>1, <1>3, <1>4, Zenon
    <2> QED
      BY <1>2, <2>1, InputsType, SMT, SMTT(30) DEF CallOK
  <1>7. TransformsOK(f, c1, d)
    <2>1. TransformOK(f, d, t, TransformCreate, 1)
      BY <1>3, InputsType DEF TransformOK
    <2>2. ASSUME NEW u \in DOMAIN e.transforms
          PROVE  /\ TransformOK(f, d, u, e.transforms[u], Len(Inputs[u]) + 1)
                 /\ Waiting(u, e.transforms[u])
      <3>1. /\ TransformOK(e, d, u, e.transforms[u], Len(Inputs[u]) + 1)
            /\ Waiting(u, e.transforms[u])
        BY TableType, Zenon DEF EngineOK, TransformsOK
      <3> QED
        BY <1>1, <3>1, ZenonT(200) DEF TransformOK
    <2> QED
      BY <1>2, <1>4, <2>1, <2>2, ZenonT(60) DEF TransformsOK
  <1>8. BlockersOK(f, c1)
    <2> SUFFICES ASSUME NEW k \in Keys PROVE BlockedOK(f, c1, k, e.blockers[k])
      BY <1>1, Zenon DEF EngineOK, BlockersOK
    <2>1. BlockedOK(e, c, k, e.blockers[k])
      BY DEF EngineOK, BlockersOK
    <2>2. \A i \in 1..Len(e.blockers[k]) :
            /\ e.blockers[k][i] \in DOMAIN e.transforms /\ e.blockers[k][i] # t
            /\ e.blockers[k][i] \in DOMAIN f.transforms
            /\ f.transforms[e.blockers[k][i]] = e.transforms[e.blockers[k][i]]
      BY <1>1, <2>1, ZenonT(60) DEF BlockedOK
    <2> QED
      BY <1>2, <2>1, <2>2, Zenon DEF BlockedOK
  <1> QED
    BY <1>1, <1>2, <1>5, <1>6, <1>7, <1>8, Zenon DEF EngineOK

\* The call goes on to the next input.
NextCall(c) == [c EXCEPT !.next = @ + 1, !.sync = FALSE]

LEMMA NextCallType ==
  ASSUME NEW c \in Calls
  PROVE  /\ NextCall(c) \in Calls /\ NextCall(c).task = c.task
         /\ NextCall(c).next = c.next + 1 /\ NextCall(c).sync = FALSE
  <1>1. PICK n \in Nat : n = c.next + 1
    BY DEF Calls
  <1>2. NextCall(c) = [c EXCEPT !.next = n, !.sync = FALSE]
    BY <1>1 DEF NextCall
  <1>3. \A y \in BOOLEAN : [c EXCEPT !.next = n, !.sync = y] \in Calls
    BY Zenon DEF Calls
  <1>4. NextCall(c) \in Calls
    BY <1>2, <1>3, Zenon
  <1> QED
    BY <1>4 DEF Calls, NextCall

\* List g is b with t at the end.
Appended(b, t, g) ==
  /\ Len(b) \in Nat /\ Len(g) = Len(b) + 1 /\ g[Len(b) + 1] = t
  /\ \A i \in 1..Len(b) : g[i] = b[i]

LEMMA AppendShape ==
  ASSUME NEW S, NEW t \in S, NEW b \in Seq(S)
  PROVE  Appended(b, t, Append(b, t))
  BY SMT, SMTT(30) DEF Appended

\* The engine with task t at the end of the list of key k.
Blocking(e, k, t) ==
  [e EXCEPT !.subscribed = @ \cup {k}, !.blockers[k] = Append(@, t)]

LEMMA BlockingShape ==
  ASSUME NEW e \in Engines, NEW k \in Keys, NEW t \in Tasks,
         NEW f, f = Blocking(e, k, t)
  PROVE  /\ f \in Engines
         /\ f.transforms = e.transforms /\ f.subscribed = e.subscribed \cup {k}
         /\ f.cache = e.cache /\ f.subCache = e.subCache /\ f.ready = e.ready
         /\ Appended(e.blockers[k], t, f.blockers[k])
         /\ \A j \in Keys : j # k => f.blockers[j] = e.blockers[j]
  <1>1. /\ f.transforms = e.transforms /\ f.subscribed = e.subscribed \cup {k}
        /\ f.cache = e.cache /\ f.subCache = e.subCache /\ f.ready = e.ready
        /\ f.blockers = [e.blockers EXCEPT ![k] = Append(@, t)]
    BY DEF Engines, Blocking
  <1>0. PICK b : b = e.blockers[k]
    OBVIOUS
  <1>2. e.blockers \in [Keys -> Seq(Tasks)] /\ b \in Seq(Tasks)
    BY <1>0 DEF Engines
  <1>3. Append(b, t) \in Seq(Tasks)
    BY <1>2, SMT, SMTT(30)
  <1>4. f.blockers \in [Keys -> Seq(Tasks)] /\ f.blockers[k] = Append(b, t)
        /\ \A j \in Keys : j # k => f.blockers[j] = e.blockers[j]
    BY <1>0, <1>1, <1>2, <1>3, Zenon
  <1>5. f = [e EXCEPT !.subscribed = e.subscribed \cup {k}, !.blockers = f.blockers]
    BY <1>1 DEF Blocking, Engines
  <1>6. f \in Engines
    BY <1>1, <1>4, <1>5, Zenon DEF Engines
  <1>7. Appended(b, t, f.blockers[k])
    BY <1>2, <1>4, AppendShape, Zenon
  <1> QED
    BY <1>0, <1>1, <1>4, <1>6, <1>7, Zenon

\* What else the engine has stays.
BlockingOnly(e, f, k) ==
  /\ f.subscribed = e.subscribed \cup {k} /\ f.ready = e.ready
  /\ f.transforms = e.transforms

LEMMA BlockingKeeps ==
  ASSUME NEW e \in Engines, NEW k \in Keys, NEW t \in Tasks,
         NEW f, f = Blocking(e, k, t)
  PROVE  BlockingOnly(e, f, k)
  BY BlockingShape DEF BlockingOnly

\* add_blocker(): the call's task, whose next input is not marked.
LEMMA BlockerOK ==
  ASSUME NEW s, NEW e \in Engines, NEW c \in Calls, NEW d, EngineOK(s, e, c, d),
         c.task # NoTask, c.next <= Len(Inputs[c.task]),
         NEW k, k = Inputs[c.task][c.next], c.next \notin e.transforms[c.task].closed,
         NEW f, f = Blocking(e, k, c.task), NEW c1, c1 = NextCall(c)
  PROVE  f \in Engines /\ c1 \in Calls /\ EngineOK(s, f, c1, d)
  <1>0. PICK t : t = c.task
    BY ZenonT(60)
  <1>1. /\ t \in Tasks /\ t \in DOMAIN e.transforms /\ k \in Keys
        /\ c.next \in 1..Len(Inputs[t])
    BY <1>0, InputsType DEF Calls, EngineOK, CallOK
  <1>4. PICK b : b = e.blockers[k]
    BY ZenonT(60)
  <1>2. /\ f.transforms = e.transforms /\ f.subscribed = e.subscribed \cup {k}
        /\ f.cache = e.cache /\ f.subCache = e.subCache /\ f.ready = e.ready
    BY <1>0, <1>1, BlockingShape
  <1>3. /\ c1 \in Calls /\ c1.task = t /\ c1.next = c.next + 1 /\ c1.sync = FALSE
    BY <1>0, NextCallType, Zenon
  <1>a. PICK g : g = f.blockers[k]
    BY ZenonT(60)
  <1>5. \A j \in Keys : j # k => f.blockers[j] = e.blockers[j]
    BY <1>0, <1>1, <1>4, BlockingShape, SMT, SMTT(30)
  <1>6. /\ Len(g) = Len(b) + 1 /\ g[Len(b) + 1] = t
        /\ \A i \in 1..Len(b) : g[i] = b[i]
        /\ Len(b) \in Nat /\ f \in Engines
    <2>1. f = Blocking(e, k, t)
      BY <1>0, Zenon
    <2>2. Appended(b, t, g) /\ f \in Engines
      BY <1>1, <1>4, <1>a, <2>1, BlockingShape, ZenonT(200)
    <2> QED
      BY <2>2, Zenon DEF Appended
  <1>7. f \in Engines
    BY <1>6, Zenon
  <1>8. CallOK(s, f, c1)
    <2>1. \A i \in e.transforms[t].closed : i \in Nat
      BY <1>1, TableType DEF Transforms
    <2>2. c.next + 1 \in 1..(Len(Inputs[t]) + 1)
      BY <1>1, InputsType, SMT, SMTT(30)
    <2>3. ASSUME NEW i \in e.transforms[t].closed, i >= c.next + 1
          PROVE  HomeOf[Inputs[t][i]] = s
      <3>1. \A n, x \in Nat : x >= n + 1 => x >= n
        OBVIOUS
      <3>2. i >= c.next
        BY <1>1, <2>1, <2>3, <3>1, Zenon DEF Calls
      <3> QED
        BY <1>0, <1>1, <2>3, <3>2, Zenon DEF EngineOK, CallOK
    <2> QED
      BY <1>0, <1>1, <1>2, <1>3, <2>2, <2>3, ZenonT(200) DEF CallOK
  <1>9. TransformsOK(f, c1, d)
    <2>1. ASSUME NEW u \in DOMAIN e.transforms, NEW n, NEW n1,
                 TransformOK(e, d, u, e.transforms[u], n),
                 \A i \in 1..Len(Inputs[u]) :
                   i < n1 => i < n \/ (u = t /\ i = c.next)
          PROVE  TransformOK(f, d, u, e.transforms[u], n1)
      <3>1. u \in Tasks
        BY TableType, Zenon
      <3>2. ASSUME NEW i \in 1..Len(Inputs[u]), i < n1, i \notin e.transforms[u].closed
            PROVE  \E j \in 1..Len(f.blockers[Inputs[u][i]]) :
                     f.blockers[Inputs[u][i]][j] = u
        <4>1. Inputs[u][i] \in Keys
          BY <3>1, InputsType, Zenon
        <4>2. CASE i < n
          <5>1. PICK j \in 1..Len(e.blockers[Inputs[u][i]]) :
                  e.blockers[Inputs[u][i]][j] = u
            BY <2>1, <3>2, <4>2, Zenon DEF TransformOK
          <5>2. CASE Inputs[u][i] = k
            <6>1. j \in 1..Len(b) /\ b[j] = u
              BY <1>4, <5>1, <5>2, ZenonT(60)
            <6>2. j \in 1..Len(g) /\ g[j] = u
              BY <1>6, <6>1, SMT, SMTT(30)
            <6> QED
              BY <1>a, <5>2, <6>2, Zenon
          <5>3. CASE Inputs[u][i] # k
            BY <1>5, <4>1, <5>1, <5>3, Zenon
          <5> QED
            BY <5>2, <5>3, Zenon
        <4>3. CASE u = t /\ i = c.next
          <5>1. Len(b) + 1 \in 1..Len(g) /\ g[Len(b) + 1] = u
            BY <1>6, <4>3
          <5>2. Inputs[u][i] = k
            BY <1>0, <4>3, Zenon
          <5> QED
            BY <1>a, <5>1, <5>2, ZenonT(60)
        <4> QED
          BY <2>1, <3>2, <4>2, <4>3, Zenon
      <3> QED
        BY <2>1, <3>2, Zenon DEF TransformOK
    <2>2. ASSUME NEW u \in DOMAIN e.transforms
          PROVE  IF u = t THEN TransformOK(f, d, u, e.transforms[u], c1.next)
                 ELSE /\ TransformOK(f, d, u, e.transforms[u], Len(Inputs[u]) + 1)
                      /\ Waiting(u, e.transforms[u])
      <3>1. CASE u = t
        <4>1. TransformOK(e, d, u, e.transforms[u], c.next)
          BY <1>0, <3>1, Zenon DEF EngineOK, TransformsOK
        <4>2. \A i \in 1..Len(Inputs[u]) : i < c.next + 1 => i < c.next \/ (u = t /\ i = c.next)
          BY <1>1, <3>1
        <4>3. TransformOK(f, d, u, e.transforms[u], c.next + 1)
          BY <2>1, <4>1, <4>2, Zenon
        <4> QED
          BY <1>3, <3>1, <4>3, Zenon
      <3>2. CASE u # t
        <4>1. /\ TransformOK(e, d, u, e.transforms[u], Len(Inputs[u]) + 1)
              /\ Waiting(u, e.transforms[u])
          BY <1>0, <3>2, Zenon DEF EngineOK, TransformsOK
        <4> QED
          BY <2>1, <3>2, <4>1, Zenon
      <3> QED
        BY <3>1, <3>2, Zenon
    <2> QED
      BY <1>2, <1>3, <2>2, Zenon DEF TransformsOK
  <1>10. BlockersOK(f, c1)
    <2>1. ASSUME NEW j \in Keys
          PROVE  (j \in f.subscribed <=> f.blockers[j] # <<>>)
                 /\ BlockedOK(f, c1, j, f.blockers[j])
      <3>1. /\ j \in e.subscribed <=> e.blockers[j] # <<>>
            /\ BlockedOK(e, c, j, e.blockers[j])
        BY Zenon DEF EngineOK, BlockersOK
      <3>2. CASE j # k
        <4>1. \A q : BlockedOK(e, c, j, q) => BlockedOK(f, c1, j, q)
          BY <1>0, <1>2, <1>3, ZenonT(60) DEF BlockedOK
        <4>2. f.blockers[j] = e.blockers[j] /\ (j \in f.subscribed <=> j \in e.subscribed)
          BY <1>2, <1>5, <3>2, Zenon
        <4> QED
          BY <3>1, <4>1, <4>2, Zenon
      <3>3. CASE j = k
        <4>1. g # <<>>
          BY <1>6
        <4>2. BlockedOK(e, c, k, b)
          BY <1>4, <3>1, <3>3, ZenonT(60)
        <4>3. BlockedOK(f, c1, k, g)
          <5> SUFFICES ASSUME NEW i \in 1..(Len(b) + 1)
                       PROVE  /\ g[i] \in DOMAIN e.transforms
                              /\ \E n \in 1..Len(Inputs[g[i]]) :
                                   /\ Inputs[g[i]][n] = k
                                   /\ n \notin e.transforms[g[i]].closed
                              /\ g[i] = t => g[Len(b) + 1] = t
                              /\ \A n \in 1..(Len(b) + 1) :
                                   i < n /\ g[i] = g[n] => g[n - 1] = g[n]
            BY <1>2, <1>3, <1>6, ZenonT(60) DEF BlockedOK
          <5>1. CASE i = Len(b) + 1
            BY <1>0, <1>1, <1>6, <5>1, SMT, SMTT(30)
          <5>2. CASE i \in 1..Len(b)
            <6>1. \A n \in 1..(Len(b) + 1) :
                    i < n /\ g[i] = g[n] => g[n - 1] = g[n]
              <7> TAKE n \in 1..(Len(b) + 1)
              <7> HAVE i < n /\ g[i] = g[n]
              <7>1. CASE n \in 1..Len(b)
                <8>1. b[n - 1] = b[n]
                  BY <1>6, <4>2, <5>2, <7>1, ZenonT(60) DEF BlockedOK
                <8>2. n - 1 \in 1..Len(b)
                  BY <1>6, <5>2, <7>1, SMT, SMTT(30)
                <8> QED
                  BY <1>6, <7>1, <8>1, <8>2, Zenon
              <7>2. CASE n = Len(b) + 1
                <8>1. b[i] = t
                  BY <1>6, <5>2, <7>2, Zenon
                <8>2. b[Len(b)] = t
                  BY <1>0, <4>2, <5>2, <8>1, ZenonT(60) DEF BlockedOK
                <8>3. Len(b) \in 1..Len(b) /\ n - 1 = Len(b)
                  BY <1>6, <5>2, <7>2, SMT, SMTT(30)
                <8> QED
                  BY <1>6, <7>2, <8>2, <8>3, Zenon
              <7> QED
                BY <1>6, <5>2, <7>1, <7>2, SMT, SMTT(30)
            <6> QED
              BY <1>0, <1>6, <4>2, <5>2, <6>1, ZenonT(60) DEF BlockedOK
          <5> QED
            BY <1>6, <5>1, <5>2, SMT, SMTT(30)
        <4> QED
          BY <1>2, <1>a, <3>3, <4>1, <4>3, ZenonT(60)
      <3> QED
        BY <3>2, <3>3, Zenon
    <2> QED
      BY <2>1, Zenon DEF BlockersOK
  <1> QED
    BY <1>2, <1>3, <1>7, <1>8, <1>9, <1>10, Zenon DEF EngineOK

\* The engine with transform T for task t.
With(e, t, T) == [e EXCEPT !.transforms[t] = T]

\* Engine f differs from e in its table.
SameButTable(e, f) ==
  /\ f.blockers = e.blockers /\ f.subscribed = e.subscribed /\ f.ready = e.ready
  /\ f.cache = e.cache /\ f.subCache = e.subCache

LEMMA TransformKept ==
  ASSUME NEW e, NEW f, SameButTable(e, f), NEW d
  PROVE  \A u, U, m : TransformOK(e, d, u, U, m) => TransformOK(f, d, u, U, m)
  <1>1. f.blockers = e.blockers
    BY Zenon DEF SameButTable
  <1> QED
    BY <1>1, ZenonT(200) DEF TransformOK

\* One transform of its table.
Replaced(e, f, t, T) ==
  /\ f \in Engines /\ SameButTable(e, f)
  /\ DOMAIN f.transforms = DOMAIN e.transforms
  /\ f.transforms[t] = T
  /\ \A u \in DOMAIN e.transforms : u # t => f.transforms[u] = e.transforms[u]

LEMMA WithShape ==
  ASSUME NEW e \in Engines, NEW t \in DOMAIN e.transforms, NEW T \in Transforms
  PROVE  Replaced(e, With(e, t, T), t, T)
  <1>0. PICK f : f = With(e, t, T)
    OBVIOUS
  <1>1. f.transforms = [e.transforms EXCEPT ![t] = T] /\ SameButTable(e, f)
    BY <1>0, Zenon DEF With, Engines, SameButTable
  <1>2. PICK D \in SUBSET Tasks : e.transforms \in [D -> Transforms]
    BY DEF Engines, Tables
  <1>3. f.transforms \in [D -> Transforms]
    BY <1>1, <1>2
  <1>4. f.transforms \in Tables
    BY <1>3 DEF Tables
  <1>5. f = [e EXCEPT !.transforms = f.transforms]
    BY <1>0, <1>1 DEF With, Engines
  <1>6. f \in Engines
    BY <1>4, <1>5, Zenon DEF Engines
  <1> QED
    BY <1>0, <1>1, <1>2, <1>6, Zenon DEF Replaced

\* A hit in a cache changes what is least recently used only.
LEMMA HitOK ==
  ASSUME NEW s, NEW e \in Engines, NEW c, NEW d, EngineOK(s, e, c, d),
         NEW k \in Keys, CacheCheck(e, k), NEW g, g = UpdateLru(e, k)
  PROVE  /\ g \in Engines /\ SameButCaches(e, g) /\ EngineOK(s, g, c, d)
         /\ d[k] # "open"
  <1>1. CachesOK(s, e, d)
    BY DEF EngineOK, CachesOK
  <1>2. /\ g \in Engines /\ SameButCaches(e, g) /\ CachesOK(s, g, d)
        /\ d[k] # "open"
    BY <1>1, UpdateLruOK, Zenon
  <1>3. g.transforms = e.transforms /\ g.blockers = e.blockers /\ g.subscribed = e.subscribed
    BY <1>2, Zenon DEF SameButCaches
  <1>4. CallOK(s, g, c)
    BY <1>3, Zenon DEF EngineOK, CallOK
  <1>5. TransformsOK(g, c, d)
    <2>1. \A t, T, n : TransformOK(e, d, t, T, n) => TransformOK(g, d, t, T, n)
      BY <1>3 DEF TransformOK
    <2> QED
      BY <1>3, <2>1, ZenonT(60) DEF EngineOK, TransformsOK
  <1>6. BlockersOK(g, c)
    <2>1. \A j, b : BlockedOK(e, c, j, b) => BlockedOK(g, c, j, b)
      BY <1>3, ZenonT(60) DEF BlockedOK
    <2> QED
      BY <1>3, <2>1, Zenon DEF EngineOK, BlockersOK
  <1> QED
    BY <1>2, <1>4, <1>5, <1>6, Zenon DEF EngineOK, CachesOK

\* Transform T with input n marked.
MarkOne(T, n) == [T EXCEPT !.closed = @ \cup {n}]

\* The next input of the call is found closed.
LEMMA MarkOK ==
  ASSUME NEW s, NEW e \in Engines, NEW c \in Calls, NEW d, EngineOK(s, e, c, d),
         c.task # NoTask, c.next <= Len(Inputs[c.task]),
         Inputs[c.task][c.next] \notin e.subscribed,
         d[Inputs[c.task][c.next]] # "open",
         NEW T, T = MarkOne(e.transforms[c.task], c.next),
         NEW f, f = With(e, c.task, T), NEW c1, c1 = NextCall(c)
  PROVE  f \in Engines /\ c1 \in Calls /\ EngineOK(s, f, c1, d) /\ SameButTable(e, f)
         /\ DOMAIN f.transforms = DOMAIN e.transforms
  <1>0. PICK t, n : t = c.task /\ n = c.next
    BY ZenonT(60)
  <1>1. /\ t \in Tasks /\ t \in DOMAIN e.transforms /\ n \in 1..Len(Inputs[t])
        /\ e.transforms[t] \in Transforms /\ Inputs[t][n] \in Keys
    BY <1>0, InputsType, TableType, SMT, SMTT(30) DEF Calls, EngineOK, CallOK
  <1>2. /\ T \in Transforms /\ T.closed = e.transforms[t].closed \cup {n}
        /\ T.blocker = e.transforms[t].blocker
    BY <1>0, <1>1, SMT, SMTT(30) DEF Transforms, MarkOne
  <1>3. /\ f \in Engines /\ SameButTable(e, f)
        /\ DOMAIN f.transforms = DOMAIN e.transforms
        /\ f.transforms[t] = T
        /\ \A u \in DOMAIN e.transforms : u # t => f.transforms[u] = e.transforms[u]
    <2>1. Replaced(e, f, t, T)
      BY <1>0, <1>1, <1>2, WithShape, Zenon
    <2> QED
      BY <2>1, Zenon DEF Replaced
  <1>4. /\ c1 \in Calls /\ c1.task = t /\ c1.next = n + 1 /\ c1.sync = FALSE
    BY <1>0, NextCallType, Zenon
  <1>5. CallOK(s, f, c1)
    <2>1. ASSUME NEW i \in T.closed, i >= n + 1
          PROVE  HomeOf[Inputs[t][i]] = s
      <3>1. i \in e.transforms[t].closed /\ i \in Nat /\ i >= n
        BY <1>1, <1>2, <2>1, SMT, SMTT(30) DEF Transforms
      <3> QED
        BY <1>0, <3>1, ZenonT(60) DEF EngineOK, CallOK
    <2>2. n + 1 \in 1..(Len(Inputs[t]) + 1)
      BY <1>1, InputsType, SMT, SMTT(30)
    <2> QED
      BY <1>1, <1>3, <1>4, <2>1, <2>2, ZenonT(60) DEF CallOK
  <1>6. TransformsOK(f, c1, d)
    <2>1. TransformOK(f, d, t, T, n + 1)
      <3>1. TransformOK(e, d, t, e.transforms[t], n)
        BY <1>0, <1>1, Zenon DEF EngineOK, TransformsOK
      <3>2. /\ T.closed \subseteq DOMAIN Inputs[t]
            /\ T.blocker \in 1..(Len(Inputs[t]) + 1)
        BY <1>1, <1>2, <3>1, InputsType, Zenon DEF TransformOK
      <3>3. ASSUME NEW i \in 1..Len(Inputs[t])
            PROVE  /\ i < T.blocker => i \in T.closed
                   /\ i \in T.closed => d[Inputs[t][i]] # "open"
        BY <1>0, <1>2, <3>1, Zenon DEF TransformOK
      <3>4. ASSUME NEW i \in 1..Len(Inputs[t]), i < n + 1, i \notin T.closed
            PROVE  \E j \in 1..Len(f.blockers[Inputs[t][i]]) : f.blockers[Inputs[t][i]][j] = t
        <4>1. i < n /\ i \notin e.transforms[t].closed
          BY <1>1, <1>2, <3>4, SMT, SMTT(30)
        <4>2. \E j \in 1..Len(e.blockers[Inputs[t][i]]) : e.blockers[Inputs[t][i]][j] = t
          BY <3>1, <3>4, <4>1, ZenonT(60) DEF TransformOK
        <4> QED
          BY <1>3, <4>2, ZenonT(60) DEF SameButTable
      <3> QED
        BY <3>2, <3>3, <3>4, Zenon DEF TransformOK
    <2>2. \A u, U, m : TransformOK(e, d, u, U, m) => TransformOK(f, d, u, U, m)
      <3>1. SameButTable(e, f)
        BY <1>3, Zenon
      <3> QED
        BY <3>1, TransformKept, ZenonT(200)
    <2>3. ASSUME NEW u \in DOMAIN e.transforms, u # t
          PROVE  /\ TransformOK(f, d, u, f.transforms[u], Len(Inputs[u]) + 1)
                 /\ Waiting(u, f.transforms[u])
      <3>1. /\ TransformOK(e, d, u, e.transforms[u], Len(Inputs[u]) + 1)
            /\ Waiting(u, e.transforms[u])
        BY <1>0, <2>3, Zenon DEF EngineOK, TransformsOK
      <3> QED
        BY <1>3, <2>2, <2>3, <3>1, Zenon
    <2> QED
      BY <1>3, <1>4, <2>1, <2>3, Zenon DEF TransformsOK
  <1>7. BlockersOK(f, c1)
    <2> SUFFICES ASSUME NEW j \in Keys
                 PROVE  BlockedOK(f, c1, j, e.blockers[j])
      BY <1>3, ZenonT(60) DEF EngineOK, BlockersOK, SameButTable
    <2>0. PICK b : b = e.blockers[j]
      BY Zenon
    <2>1. BlockedOK(e, c, j, b) /\ (j \in e.subscribed <=> b # <<>>) /\ b \in Seq(Tasks)
      BY <2>0, Zenon DEF EngineOK, BlockersOK, Engines
    <2>2. ASSUME NEW i \in 1..Len(b)
          PROVE  \E m \in 1..Len(Inputs[b[i]]) : /\ Inputs[b[i]][m] = j
                                                 /\ m \notin f.transforms[b[i]].closed
      <3>1. b # <<>>
        BY <2>1, <2>2
      <3>2. j # Inputs[t][n]
        BY <1>0, <2>1, <3>1, Zenon
      <3>3. PICK m \in 1..Len(Inputs[b[i]]) : /\ Inputs[b[i]][m] = j
                                              /\ m \notin e.transforms[b[i]].closed
        BY <2>1, Zenon DEF BlockedOK
      <3>4. b[i] \in DOMAIN e.transforms
        BY <2>1, Zenon DEF BlockedOK
      <3> QED
        BY <1>2, <1>3, <3>2, <3>3, <3>4, ZenonT(200)
    <2>3. BlockedOK(f, c1, j, b)
      BY <1>0, <1>3, <1>4, <2>1, <2>2, ZenonT(60) DEF BlockedOK
    <2> QED
      BY <2>0, <2>3, Zenon
  <1> QED
    BY <1>3, <1>4, <1>5, <1>6, <1>7, Zenon DEF EngineOK, SameButTable

\* The next input of the call is with another server, which is asked for it.
LEMMA AskOK ==
  ASSUME NEW s, NEW e \in Engines, NEW c \in Calls, NEW d, EngineOK(s, e, c, d),
         c.task # NoTask, c.next <= Len(Inputs[c.task]),
         Inputs[c.task][c.next] \notin e.subscribed,
         HomeOf[Inputs[c.task][c.next]] # s,
         NEW c1, c1 = [c EXCEPT !.sync = TRUE]
  PROVE  c1 \in Calls /\ EngineOK(s, e, c1, d)
  <1>1. c1 \in Calls
    <2>1. \A y \in BOOLEAN : [c EXCEPT !.sync = y] \in Calls
      BY DEF Calls
    <2> QED
      BY <2>1, Zenon
  <1>2. c1.task = c.task /\ c1.next = c.next /\ c1.sync
    BY Zenon DEF Calls
  <1>3. CallOK(s, e, c1)
    <2>1. c.next \in Nat
      BY Zenon DEF Calls
    <2>2. c.next \notin e.transforms[c.task].closed
      BY <2>1, SMT, SMTT(30) DEF EngineOK, CallOK
    <2> QED
      BY <1>2, <2>2 DEF EngineOK, CallOK
  <1>4. TransformsOK(e, c1, d)
    BY <1>2 DEF EngineOK, TransformsOK
  <1>5. BlockersOK(e, c1)
    <2>1. \A j, b : BlockedOK(e, c, j, b) => BlockedOK(e, c1, j, b)
      BY <1>2, ZenonT(60) DEF BlockedOK
    <2> QED
      BY <2>1, Zenon DEF EngineOK, BlockersOK
  <1> QED
    BY <1>1, <1>3, <1>4, <1>5, Zenon DEF EngineOK

\* The end of xlb_engine_put().
LEMMA NoPutType ==
  NoPut \in Calls /\ NoPut.task = NoTask /\ ~NoPut.sync
  BY DEF NoPut, Calls

\* The transform of the call that ends, and that of every other task.
LEMMA PutShape ==
  ASSUME NEW s, NEW e \in Engines, NEW c \in Calls, NEW d, EngineOK(s, e, c, d),
         c.task # NoTask, c.next > Len(Inputs[c.task]),
         NEW P, P = Progress(c.task, e.transforms[c.task])
  PROVE  /\ c.task \in Tasks /\ c.task \in DOMAIN e.transforms /\ P \in Transforms
         /\ P.closed = e.transforms[c.task].closed
         /\ TransformOK(e, d, c.task, P, Len(Inputs[c.task]) + 1)
         /\ ~Done(c.task, P) => Waiting(c.task, P)
         /\ Done(c.task, P) => \A i \in 1..Len(Inputs[c.task]) : i \in P.closed
         /\ \A u \in DOMAIN e.transforms : u # c.task =>
              /\ TransformOK(e, d, u, e.transforms[u], Len(Inputs[u]) + 1)
              /\ Waiting(u, e.transforms[u])
  <1>0. PICK t, T : t = c.task /\ T = e.transforms[t]
    BY Zenon
  <1>1. /\ t \in Tasks /\ t \in DOMAIN e.transforms /\ c.next = Len(Inputs[t]) + 1
    BY <1>0, InputsType, SMT, SMTT(30) DEF Calls, EngineOK, CallOK
  <1>2. MarkedBefore(t, T) /\ TransformOK(e, d, t, T, Len(Inputs[t]) + 1)
    BY <1>0, <1>1, MarkedOK, ZenonT(60) DEF EngineOK, TransformsOK
  <1>3. /\ P.closed = T.closed /\ MarkedBefore(t, P)
        /\ P.blocker <= Len(Inputs[t]) => P.blocker \notin P.closed
        /\ Done(t, P) <=> \A i \in 1..Len(Inputs[t]) : i \in T.closed
    BY <1>0, <1>1, <1>2, ProgressStops, SMT, SMTT(30)
  <1>4. P \in Transforms /\ TransformOK(e, d, t, P, Len(Inputs[t]) + 1)
    BY <1>2, <1>3, ZenonT(60) DEF TransformOK, MarkedBefore
  <1>5. ~Done(t, P) => Waiting(t, P)
    BY <1>1, <1>3, InputsType, SMT, SMTT(30) DEF Done, Waiting, MarkedBefore
  <1>6. \A u \in DOMAIN e.transforms : u # t =>
              /\ TransformOK(e, d, u, e.transforms[u], Len(Inputs[u]) + 1)
              /\ Waiting(u, e.transforms[u])
    BY <1>0, Zenon DEF EngineOK, TransformsOK
  <1> QED
    BY <1>0, <1>1, <1>3, <1>4, <1>5, <1>6, Zenon

\* The task waits.
LEMMA WaitOK ==
  ASSUME NEW s, NEW e \in Engines, NEW c \in Calls, NEW d, EngineOK(s, e, c, d),
         c.task # NoTask, c.next > Len(Inputs[c.task]),
         NEW P, P = Progress(c.task, e.transforms[c.task]), ~Done(c.task, P),
         NEW f, f = With(e, c.task, P)
  PROVE  /\ f \in Engines /\ EngineOK(s, f, NoPut, d) /\ SameButTable(e, f)
         /\ DOMAIN f.transforms = DOMAIN e.transforms
  <1>0. PICK t : t = c.task
    BY Zenon
  <1>1. /\ t \in Tasks /\ t \in DOMAIN e.transforms /\ P \in Transforms
        /\ P.closed = e.transforms[t].closed /\ Waiting(t, P)
        /\ TransformOK(e, d, t, P, Len(Inputs[t]) + 1)
        /\ \A u \in DOMAIN e.transforms : u # t =>
              /\ TransformOK(e, d, u, e.transforms[u], Len(Inputs[u]) + 1)
              /\ Waiting(u, e.transforms[u])
    BY <1>0, PutShape, ZenonT(200)
  <1>2. /\ f \in Engines /\ SameButTable(e, f)
        /\ DOMAIN f.transforms = DOMAIN e.transforms
        /\ f.transforms[t] = P
        /\ \A u \in DOMAIN e.transforms : u # t => f.transforms[u] = e.transforms[u]
    <2>1. Replaced(e, f, t, P)
      BY <1>0, <1>1, WithShape, Zenon
    <2> QED
      BY <2>1, Zenon DEF Replaced
  <1>3. CallOK(s, f, NoPut)
    BY NoPutType, Zenon DEF CallOK
  <1>4. TransformsOK(f, NoPut, d)
    <2>1. \A u, U, m : TransformOK(e, d, u, U, m) => TransformOK(f, d, u, U, m)
      <3>1. SameButTable(e, f)
        BY <1>2, Zenon
      <3> QED
        BY <3>1, TransformKept, ZenonT(200)
    <2>2. ASSUME NEW u \in DOMAIN f.transforms
          PROVE  /\ TransformOK(f, d, u, f.transforms[u], Len(Inputs[u]) + 1)
                 /\ Waiting(u, f.transforms[u]) /\ u # NoTask
      BY <1>1, <1>2, <2>1, TableType, Zenon
    <2> QED
      BY <2>2, NoPutType, Zenon DEF TransformsOK
  <1>5. BlockersOK(f, NoPut)
    <2>1. \A u \in DOMAIN e.transforms : f.transforms[u].closed = e.transforms[u].closed
      BY <1>1, <1>2, Zenon
    <2>2. ASSUME NEW j \in Keys
          PROVE  /\ j \in e.subscribed <=> e.blockers[j] # <<>>
                 /\ BlockedOK(f, NoPut, j, e.blockers[j])
      <3>1. PICK b : b = e.blockers[j]
        BY Zenon
      <3>2. /\ b \in Seq(Tasks) /\ BlockedOK(e, c, j, b)
            /\ j \in e.subscribed <=> e.blockers[j] # <<>>
        BY <3>1, ZenonT(60) DEF EngineOK, BlockersOK, Engines
      <3>3. \A i \in 1..Len(b) : b[i] # NoTask
        BY <3>2, EngineAssumption, SMT, SMTT(30)
      <3>4. BlockedOK(f, NoPut, j, b)
        BY <1>2, <2>1, <3>2, <3>3, NoPutType, ZenonT(60) DEF BlockedOK
      <3> QED
        BY <3>1, <3>2, <3>4, Zenon
    <2> QED
      BY <1>2, <2>2, Zenon DEF BlockersOK, SameButTable
  <1> QED
    BY <1>2, <1>3, <1>4, <1>5, Zenon DEF EngineOK, SameButTable

\* The engine without the transform of task t.
Without(e, t) == [e EXCEPT !.transforms = [u \in DOMAIN @ \ {t} |-> @[u]]]

LEMMA WithoutShape ==
  ASSUME NEW e \in Engines, NEW t, NEW f, f = Without(e, t)
  PROVE  /\ f \in Engines /\ SameButTable(e, f)
         /\ DOMAIN f.transforms = DOMAIN e.transforms \ {t}
         /\ \A u \in DOMAIN f.transforms : f.transforms[u] = e.transforms[u]
  <1>1. /\ f.transforms = [u \in DOMAIN e.transforms \ {t} |-> e.transforms[u]]
        /\ SameButTable(e, f)
    BY Zenon DEF Without, Engines, SameButTable
  <1>2. PICK D \in SUBSET Tasks : e.transforms \in [D -> Transforms]
    BY Zenon DEF Engines, Tables
  <1>3. f.transforms \in [D \ {t} -> Transforms] /\ D \ {t} \in SUBSET Tasks
    BY <1>1, <1>2, Zenon
  <1>4. f.transforms \in Tables
    BY <1>3, Zenon DEF Tables
  <1>5. f = [e EXCEPT !.transforms = f.transforms]
    BY <1>1 DEF Without, Engines
  <1>6. f \in Engines
    BY <1>4, <1>5, Zenon DEF Engines
  <1> QED
    BY <1>1, <1>6, Zenon

\* The task is done at once.
LEMMA DoneOK ==
  ASSUME NEW s, NEW e \in Engines, NEW c \in Calls, NEW d, EngineOK(s, e, c, d),
         c.task # NoTask, c.next > Len(Inputs[c.task]),
         Done(c.task, Progress(c.task, e.transforms[c.task])),
         NEW f, f = Without(e, c.task)
  PROVE  /\ f \in Engines /\ EngineOK(s, f, NoPut, d) /\ SameButTable(e, f)
         /\ DOMAIN f.transforms = DOMAIN e.transforms \ {c.task}
         /\ c.task \in Tasks /\ c.task \in DOMAIN e.transforms
         /\ InputsClosed(d, c.task)
  <1>0. PICK t, P : t = c.task /\ P = Progress(c.task, e.transforms[c.task])
    BY Zenon
  <1>1. /\ t \in Tasks /\ t \in DOMAIN e.transforms
        /\ TransformOK(e, d, t, P, Len(Inputs[t]) + 1)
        /\ P.closed = e.transforms[t].closed
        /\ \A i \in 1..Len(Inputs[t]) : i \in P.closed
        /\ \A u \in DOMAIN e.transforms : u # t =>
              /\ TransformOK(e, d, u, e.transforms[u], Len(Inputs[u]) + 1)
              /\ Waiting(u, e.transforms[u])
    BY <1>0, PutShape, ZenonT(200)
  <1>2. /\ f \in Engines /\ SameButTable(e, f)
        /\ DOMAIN f.transforms = DOMAIN e.transforms \ {t}
        /\ \A u \in DOMAIN f.transforms : f.transforms[u] = e.transforms[u]
    BY <1>0, WithoutShape
  <1>3. CallOK(s, f, NoPut)
    BY NoPutType, Zenon DEF CallOK
  <1>4. TransformsOK(f, NoPut, d)
    <2>1. \A u, U, m : TransformOK(e, d, u, U, m) => TransformOK(f, d, u, U, m)
      <3>1. SameButTable(e, f)
        BY <1>2, Zenon
      <3> QED
        BY <3>1, TransformKept, Zenon
    <2>2. ASSUME NEW u \in DOMAIN f.transforms
          PROVE  /\ TransformOK(f, d, u, f.transforms[u], Len(Inputs[u]) + 1)
                 /\ Waiting(u, f.transforms[u]) /\ u # NoTask
      BY <1>1, <1>2, <2>1, TableType, Zenon
    <2> QED
      BY <2>2, NoPutType, Zenon DEF TransformsOK
  <1>5. BlockersOK(f, NoPut)
    <2>2. ASSUME NEW j \in Keys
          PROVE  /\ j \in e.subscribed <=> e.blockers[j] # <<>>
                 /\ BlockedOK(f, NoPut, j, e.blockers[j])
      <3>1. PICK b : b = e.blockers[j]
        BY Zenon
      <3>2. /\ b \in Seq(Tasks) /\ BlockedOK(e, c, j, b)
            /\ j \in e.subscribed <=> e.blockers[j] # <<>>
        BY <3>1, ZenonT(60) DEF EngineOK, BlockersOK, Engines
      <3>3. \A i \in 1..Len(b) : b[i] # NoTask /\ b[i] # t /\ b[i] \in DOMAIN f.transforms
        BY <1>1, <1>2, <3>2, EngineAssumption, SMT, SMTT(30) DEF BlockedOK
      <3>4. BlockedOK(f, NoPut, j, b)
        BY <1>2, <3>2, <3>3, NoPutType, ZenonT(60) DEF BlockedOK
      <3> QED
        BY <3>1, <3>2, <3>4, Zenon
    <2> QED
      BY <1>2, <2>2, Zenon DEF BlockersOK, SameButTable
  <1>6. InputsClosed(d, t)
    BY <1>1 DEF InputsClosed, TransformOK
  <1> QED
    BY <1>0, <1>1, <1>2, <1>3, <1>4, <1>5, <1>6, ZenonT(60) DEF EngineOK, SameButTable
=============================================================================
