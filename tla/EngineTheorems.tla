--------------------------- MODULE EngineTheorems ---------------------------
(***************************************************************************)
(* Every step of the engines, the data and the notifications between them  *)
(* keeps EngineInv, and what follows: no server stops, every subscription  *)
(* has one answer, no waiting task is forgotten, and the engines do what   *)
(* ADLB_Dput promises.                                                     *)
(***************************************************************************)
EXTENDS EngineProofs

-----------------------------------------------------------------------------
(* The invariant.                                                          *)

\* A task stays where it is, or becomes ready work.
LEMMA TasksMoved ==
  ASSUME NEW e \in [Servers -> Engines], NEW f \in [Servers -> Engines],
         NEW r \in [Tasks -> Nat], NEW p, NEW d, NEW d1, TasksOK(e, r, p, d),
         Later(d, d1), \A s \in Servers : ReadyMoved(e[s], f[s], d1)
  PROVE  TasksOK(f, r, p, d1)
  <1> SUFFICES ASSUME NEW t \in Tasks
               PROVE  /\ r[t] > 0 => r[t] = 1 /\ t \in p /\ InputsClosed(d1, t)
                      /\ \A s \in Servers :
                           /\ t \in DOMAIN f[s].transforms \/ f[s].ready[t] > 0 =>
                                /\ t \in p /\ r[t] = 0
                                /\ \A u \in Servers \ {s} :
                                     t \notin DOMAIN f[u].transforms /\ f[u].ready[t] = 0
                           /\ f[s].ready[t] > 0 => /\ f[s].ready[t] = 1 /\ InputsClosed(d1, t)
                                                   /\ t \notin DOMAIN f[s].transforms
    BY Zenon DEF TasksOK
  <1>1. InputsClosed(d, t) => InputsClosed(d1, t)
    BY InputsType, Zenon DEF InputsClosed, Later
  <1>2. \A s \in Servers : e[s].ready[t] \in Nat /\ f[s].ready[t] \in Nat
    BY Zenon DEF Engines
  <1>3. ASSUME NEW s \in Servers
        PROVE  /\ t \in DOMAIN f[s].transforms => t \in DOMAIN e[s].transforms
               /\ f[s].ready[t] > 0 => \/ e[s].ready[t] > 0 /\ f[s].ready[t] = e[s].ready[t]
                                       \/ /\ t \in DOMAIN e[s].transforms
                                          /\ t \notin DOMAIN f[s].transforms
                                          /\ f[s].ready[t] = e[s].ready[t] + 1
                                          /\ InputsClosed(d1, t)
    BY <1>2, <1>3, Zenon DEF ReadyMoved
  <1>4. ASSUME NEW s \in Servers,
               t \in DOMAIN f[s].transforms \/ f[s].ready[t] > 0
        PROVE  t \in DOMAIN e[s].transforms \/ e[s].ready[t] > 0
    BY <1>3, <1>4, Zenon
  <1>5. ASSUME NEW s \in Servers,
               t \in DOMAIN f[s].transforms \/ f[s].ready[t] > 0
        PROVE  /\ t \in p /\ r[t] = 0
               /\ \A u \in Servers \ {s} :
                    t \notin DOMAIN f[u].transforms /\ f[u].ready[t] = 0
    <2>1. /\ t \in p /\ r[t] = 0
          /\ \A u \in Servers \ {s} : t \notin DOMAIN e[u].transforms /\ e[u].ready[t] = 0
      BY <1>4, <1>5, Zenon DEF TasksOK
    <2>2. ASSUME NEW u \in Servers \ {s}
          PROVE  t \notin DOMAIN f[u].transforms /\ f[u].ready[t] = 0
      BY <1>2, <1>4, <2>1, SMT, SMTT(30)
    <2> QED
      BY <2>1, <2>2, Zenon
  <1>6. ASSUME NEW s \in Servers, f[s].ready[t] > 0
        PROVE  /\ f[s].ready[t] = 1 /\ InputsClosed(d1, t)
               /\ t \notin DOMAIN f[s].transforms
    <2>1. /\ e[s].ready[t] > 0 => /\ e[s].ready[t] = 1 /\ InputsClosed(d, t)
                                  /\ t \notin DOMAIN e[s].transforms
          /\ t \in DOMAIN e[s].transforms => e[s].ready[t] = 0
      BY <1>2 DEF TasksOK
    <2> QED
      BY <1>1, <1>3, <1>6, <2>1, SMT, SMTT(30)
  <1>7. r[t] > 0 => r[t] = 1 /\ t \in p /\ InputsClosed(d1, t)
    BY <1>1, Zenon DEF TasksOK
  <1> QED
    BY <1>5, <1>6, <1>7, Zenon

\* A step of one server.
LEMMA StepOf ==
  ASSUME Types, \A u \in Servers : EngineOK(u, eng[u], dput[u], data),
         NEW s \in Servers, NEW f \in Engines, NEW c \in Calls, EngineOK(s, f, c, data),
         eng' = [eng EXCEPT ![s] = f], dput' = [dput EXCEPT ![s] = c], UNCHANGED data
  PROVE  /\ eng' \in [Servers -> Engines] /\ dput' \in [Servers -> Calls]
         /\ eng'[s] = f /\ dput'[s] = c
         /\ \A u \in Servers : u # s => eng'[u] = eng[u] /\ dput'[u] = dput[u]
         /\ \A u \in Servers : EngineOK(u, eng'[u], dput'[u], data')
  <1>1. /\ eng' \in [Servers -> Engines] /\ dput' \in [Servers -> Calls]
        /\ eng'[s] = f /\ dput'[s] = c
        /\ \A u \in Servers : u # s => eng'[u] = eng[u] /\ dput'[u] = dput[u]
    BY Zenon DEF Types
  <1>2. ASSUME NEW u \in Servers PROVE EngineOK(u, eng'[u], dput'[u], data')
    <2>1. CASE u = s
      BY <1>1, <2>1, Zenon
    <2>2. CASE u # s
      BY <1>1, <2>2, Zenon
    <2> QED
      BY <2>1, <2>2, Zenon
  <1> QED
    BY <1>1, <1>2, Zenon

\* Its tasks stay where they are.
LEMMA SameTasks ==
  ASSUME Types, Types', TasksOK(eng, released, put, data), NEW s \in Servers,
         DOMAIN eng'[s].transforms = DOMAIN eng[s].transforms,
         eng'[s].ready = eng[s].ready, \A u \in Servers : u # s => eng'[u] = eng[u],
         UNCHANGED <<data, put, released>>
  PROVE  TasksOK(eng', released', put', data')
  <1>1. \A u \in Servers : ReadyMoved(eng[u], eng'[u], data)
    BY Zenon DEF ReadyMoved
  <1>2. Later(data, data)
    BY Zenon DEF Later
  <1>3. TasksOK(eng', released, put, data)
    BY <1>1, <1>2, TasksMoved, Zenon DEF Types
  <1> QED
    BY <1>3, Zenon

\* One count of c.
Changed(c, c1, s, k, m) ==
  /\ c1 \in Counts /\ c1[s][k] = m
  /\ \A u \in Servers, j \in Keys : u # s \/ j # k => c1[u][j] = c[u][j]

LEMMA MoreOK ==
  ASSUME NEW c \in Counts, NEW s \in Servers, NEW k \in Keys
  PROVE  Changed(c, More(c, s, k), s, k, c[s][k] + 1)
  BY DEF Counts, More, Changed

LEMMA LessOK ==
  ASSUME NEW c \in Counts, NEW s \in Servers, NEW k \in Keys, c[s][k] > 0
  PROVE  Changed(c, Less(c, s, k), s, k, c[s][k] - 1)
  BY DEF Counts, Less, Changed

\* The engine e in the call c is owed an answer for key k.
Owed(e, c, k) == k \in e.subscribed \/ (c.sync /\ k = Inputs[c.task][c.next])

Answered(s, k, e, c, a) == a = (IF Owed(e, c, k) THEN 1 ELSE 0)

LEMMA OwedAnswers ==
  OneAnswer <=> \A s \in Servers, k \in Keys :
                  Answered(s, k, eng[s], dput[s],
                           subs[s][k] + lis[s][k] + ntfs[s][k] + rpcs[s][k])
  BY Zenon DEF OneAnswer, Answered, Owed, Subscribing

LEMMA OwedAnswersNext ==
  OneAnswer' <=> \A s \in Servers, k \in Keys :
                   Answered(s, k, eng'[s], dput'[s],
                            subs'[s][k] + lis'[s][k] + ntfs'[s][k] + rpcs'[s][k])
  BY Zenon DEF OneAnswer, Answered, Owed, Subscribing

\* Who is owed an answer by one count has it there.
LEMMA OneOfFour ==
  ASSUME Types, OneAnswer, NEW s \in Servers, NEW k \in Keys
  PROVE  /\ subs[s][k] \in Nat /\ lis[s][k] \in Nat /\ ntfs[s][k] \in Nat /\ rpcs[s][k] \in Nat
         /\ Owed(eng[s], dput[s], k) => subs[s][k] + lis[s][k] + ntfs[s][k] + rpcs[s][k] = 1
         /\ ~Owed(eng[s], dput[s], k) =>
              subs[s][k] = 0 /\ lis[s][k] = 0 /\ ntfs[s][k] = 0 /\ rpcs[s][k] = 0
  <1>1. /\ subs[s][k] \in Nat /\ lis[s][k] \in Nat /\ ntfs[s][k] \in Nat /\ rpcs[s][k] \in Nat
    BY ZenonT(200) DEF Types, Counts
  <1>2. Answered(s, k, eng[s], dput[s], subs[s][k] + lis[s][k] + ntfs[s][k] + rpcs[s][k])
    BY OwedAnswers, Zenon
  <1>4. Owed(eng[s], dput[s], k) => subs[s][k] + lis[s][k] + ntfs[s][k] + rpcs[s][k] = 1
    BY <1>2, Zenon DEF Answered
  <1>5. ~Owed(eng[s], dput[s], k) => subs[s][k] + lis[s][k] + ntfs[s][k] + rpcs[s][k] = 0
    BY <1>2, Zenon DEF Answered
  <1>6. ASSUME ~Owed(eng[s], dput[s], k)
        PROVE  subs[s][k] = 0 /\ lis[s][k] = 0 /\ ntfs[s][k] = 0 /\ rpcs[s][k] = 0
    <2>1. PICK x \in Nat, y \in Nat, z \in Nat, w \in Nat :
            x = subs[s][k] /\ y = lis[s][k] /\ z = ntfs[s][k] /\ w = rpcs[s][k]
      BY <1>1, Zenon
    <2>2. x + y + z + w = 0
      BY <1>5, <1>6, <2>1
    <2>3. x = 0 /\ y = 0 /\ z = 0 /\ w = 0
      BY <2>2
    <2> QED
      BY <2>1, <2>3, Zenon
  <1> QED
    BY <1>1, <1>4, <1>6, Zenon

LEMMA InitOK ==
  Init => EngineInv
  <1> SUFFICES ASSUME Init PROVE EngineInv
    BY Zenon
  <1>1. EngineInit \in Engines
    <2>1. << >> \in [{} -> Transforms] /\ {} \in SUBSET Tasks
      OBVIOUS
    <2>2. << >> \in Tables
      BY <2>1, Zenon DEF Tables
    <2> QED
      BY <2>2 DEF EngineInit, Engines
  <1>2. /\ DOMAIN EngineInit.transforms = {} /\ EngineInit.subscribed = {}
        /\ EngineInit.cache = << >> /\ EngineInit.subCache = << >>
        /\ \A k \in Keys : EngineInit.blockers[k] = << >>
        /\ \A t \in Tasks : EngineInit.ready[t] = 0
    BY DEF EngineInit
  <1>3. None \in Counts /\ \A s \in Servers, k \in Keys : None[s][k] = 0
    BY DEF None, Counts
  <1>4. Types
    BY <1>1, <1>3, NoPutType, Zenon DEF Init, Types
  <1>5. ASSUME NEW s \in Servers PROVE EngineOK(s, eng[s], dput[s], data)
    <2>1. eng[s] = EngineInit /\ dput[s] = NoPut
      BY Zenon DEF Init
    <2>2. CallOK(s, EngineInit, NoPut)
      BY NoPutType, Zenon DEF CallOK
    <2>3. TransformsOK(EngineInit, NoPut, data)
      BY <1>2, Zenon DEF TransformsOK
    <2>4. BlockersOK(EngineInit, NoPut)
      BY <1>2 DEF BlockersOK, BlockedOK
    <2>5. CacheOK(s, << >>, data)
      BY EngineAssumption DEF CacheOK
    <2> QED
      BY <1>2, <2>1, <2>2, <2>3, <2>4, <2>5, Zenon DEF EngineOK
  <1>6. TasksOK(eng, released, put, data)
    BY <1>2 DEF Init, TasksOK
  <1>7. OneAnswer /\ PlacesOK
    <2>1. \A s \in Servers, k \in Keys : ~Owed(eng[s], dput[s], k)
      BY <1>2, NoPutType, Zenon DEF Init, Owed
    <2>2. OneAnswer
      BY <1>3, <2>1, OwedAnswers, SMT, SMTT(30) DEF Init, Answered
    <2> QED
      BY <1>3, <2>2, Zenon DEF Init, PlacesOK
  <1>8. GoneOK
    BY Zenon DEF Init, GoneOK
  <1> QED
    BY <1>4, <1>5, <1>6, <1>7, <1>8, Zenon DEF EngineInv

LEMMA DputOK ==
  ASSUME EngineInv, NEW s \in Servers, NEW t \in Tasks, Dput(s, t)
  PROVE  EngineInv'
  <1>0. PICK e, c : e = eng[s] /\ c = dput[s]
    OBVIOUS
  <1>1. /\ Types /\ e \in Engines /\ c \in Calls /\ EngineOK(s, e, c, data)
        /\ c.task = NoTask /\ TasksOK(eng, released, put, data)
    BY <1>0, Zenon DEF EngineInv, Types, Dput, Idle
  <1>2. /\ t \notin DOMAIN e.transforms /\ released[t] = 0
        /\ \A u \in Servers : t \notin DOMAIN eng[u].transforms /\ eng[u].ready[t] = 0
    <2>1. t \notin put /\ \A u \in Servers : eng[u].ready[t] \in Nat
      BY <1>1, SMT, SMTT(30) DEF Dput, Types, Engines
    <2>2. \A u \in Servers : t \notin DOMAIN eng[u].transforms /\ eng[u].ready[t] = 0
      BY <1>1, <2>1, SMT, SMTT(30) DEF TasksOK
    <2>3. released[t] = 0
      BY <1>1, <2>1, SMT, SMTT(30) DEF TasksOK, Types
    <2> QED
      BY <1>0, <2>2, <2>3, Zenon
  <1>3. PICK f : f = Creating(e, t)
    OBVIOUS
  <1>4. PICK c1 : c1 = [task |-> t, next |-> 1, sync |-> FALSE]
    BY Zenon
  <1>5. f \in Engines /\ c1 \in Calls /\ EngineOK(s, f, c1, data)
    BY <1>1, <1>2, <1>3, <1>4, CreateOK, SMT, SMTT(30)
  <1>6. /\ f.subscribed = e.subscribed /\ f.ready = e.ready
        /\ DOMAIN f.transforms = DOMAIN e.transforms \cup {t}
    BY <1>1, <1>3, Zenon DEF Engines, Creating
  <1>7. eng' = [eng EXCEPT ![s] = f] /\ dput' = [dput EXCEPT ![s] = c1]
    BY <1>0, <1>1, <1>3, <1>4, Zenon DEF Dput, Types, Creating
  <1>8. /\ eng' \in [Servers -> Engines] /\ dput' \in [Servers -> Calls]
        /\ eng'[s] = f /\ dput'[s] = c1
        /\ \A u \in Servers : u # s => eng'[u] = eng[u] /\ dput'[u] = dput[u]
        /\ \A u \in Servers : EngineOK(u, eng'[u], dput'[u], data')
    <2>1. UNCHANGED data /\ \A u \in Servers : EngineOK(u, eng[u], dput[u], data)
      BY Zenon DEF Dput, EngineInv
    <2> QED
      BY <1>1, <1>5, <1>7, <2>1, StepOf, ZenonT(60)
  <1>9. Types'
    BY <1>1, <1>8, Zenon DEF Types, Dput
  <1>10. TasksOK(eng', released', put', data')
    <2>1. released' = released /\ data' = data /\ put' = put \cup {t}
      BY Zenon DEF Dput
    <2>2. ASSUME NEW v \in Tasks, v # t
          PROVE  \A u \in Servers : /\ v \in DOMAIN eng'[u].transforms <=> v \in DOMAIN eng[u].transforms
                                    /\ eng'[u].ready[v] = eng[u].ready[v]
      BY <1>0, <1>6, <1>8, <2>2, Zenon
    <2>3. \A u \in Servers : /\ u # s => t \notin DOMAIN eng'[u].transforms
                             /\ eng'[u].ready[t] = 0
      BY <1>0, <1>2, <1>6, <1>8, ZenonT(200)
    <2>4. ASSUME NEW v \in Tasks
          PROVE  /\ released[v] > 0 => released[v] = 1 /\ v \in put' /\ InputsClosed(data, v)
                 /\ \A u \in Servers :
                      /\ v \in DOMAIN eng'[u].transforms \/ eng'[u].ready[v] > 0 =>
                           /\ v \in put' /\ released[v] = 0
                           /\ \A w \in Servers \ {u} :
                                v \notin DOMAIN eng'[w].transforms /\ eng'[w].ready[v] = 0
                      /\ eng'[u].ready[v] > 0 =>
                           /\ eng'[u].ready[v] = 1 /\ InputsClosed(data, v)
                           /\ v \notin DOMAIN eng'[u].transforms
      <3>1. CASE v = t
        BY <1>2, <2>1, <2>3, <3>1
      <3>2. CASE v # t
        BY <1>1, <2>1, <2>2, <3>2 DEF TasksOK
      <3> QED
        BY <3>1, <3>2, Zenon
    <2> QED
      BY <2>1, <2>4, ZenonT(60) DEF TasksOK
  <1>11. OneAnswer'
    <2>1. \A u \in Servers, k \in Keys : Owed(eng'[u], dput'[u], k) <=> Owed(eng[u], dput[u], k)
      <3>1. ASSUME NEW k \in Keys PROVE Owed(f, c1, k) <=> Owed(e, c, k)
        BY <1>1, <1>4, <1>6, Zenon DEF Owed, EngineOK, CallOK
      <3> QED
        BY <1>0, <1>8, <3>1, Zenon
    <2>2. UNCHANGED <<subs, lis, ntfs, rpcs>> /\ OneAnswer
      BY DEF Dput, EngineInv
    <2> QED
      BY <2>1, <2>2, OwedAnswers, OwedAnswersNext, Zenon DEF Answered
  <1>12. PlacesOK' /\ GoneOK'
    BY Zenon DEF Dput, EngineInv, PlacesOK, GoneOK, Needs
  <1> QED
    BY <1>8, <1>9, <1>10, <1>11, <1>12, ZenonT(60) DEF EngineInv

\* What the engine of server s is owed changes for key k at most.
OnlyOwed(s, k) ==
  \A u \in Servers, j \in Keys :
    u # s \/ j # k => (Owed(eng'[u], dput'[u], j) <=> Owed(eng[u], dput[u], j))

\* The input that a call looks at.
LEMMA CallInput ==
  ASSUME NEW s, NEW e \in Engines, NEW c \in Calls, NEW d, EngineOK(s, e, c, d),
         c.task # NoTask, c.next <= Len(Inputs[c.task])
  PROVE  /\ c.task \in Tasks /\ c.task \in DOMAIN e.transforms
         /\ c.next \in 1..Len(Inputs[c.task]) /\ Inputs[c.task][c.next] \in Keys
         /\ c.next \in e.transforms[c.task].closed =>
              /\ HomeOf[Inputs[c.task][c.next]] = s
              /\ d[Inputs[c.task][c.next]] # "open"
  <1>1. /\ c.task \in Tasks /\ c.task \in DOMAIN e.transforms
        /\ c.next \in 1..Len(Inputs[c.task]) /\ Inputs[c.task][c.next] \in Keys
    BY InputsType, SMT, SMTT(30) DEF Calls, EngineOK, CallOK
  <1>2. TransformOK(e, d, c.task, e.transforms[c.task], c.next)
    BY <1>1, Zenon DEF EngineOK, TransformsOK
  <1>3. c.next \in e.transforms[c.task].closed => d[Inputs[c.task][c.next]] # "open"
    BY <1>1, <1>2, ZenonT(60) DEF TransformOK
  <1>4. c.next \in e.transforms[c.task].closed => HomeOf[Inputs[c.task][c.next]] = s
    BY <1>1, SMT, SMTT(30) DEF EngineOK, CallOK
  <1> QED
    BY <1>1, <1>3, <1>4, ZenonT(60)

\* add_blocker() for the input k that the call of server s looks at.
LEMMA AddedOK ==
  ASSUME EngineInv, NEW s \in Servers, NEW k, dput[s].task # NoTask,
         dput[s].next <= Len(Inputs[dput[s].task]),
         k = Inputs[dput[s].task][dput[s].next],
         dput[s].next \notin eng[s].transforms[dput[s].task].closed,
         AddBlocker(s, k), NextInput(s), UNCHANGED <<data, put, released, fail>>,
         subs' \in Counts, lis' \in Counts, ntfs' \in Counts, rpcs' \in Counts
  PROVE  /\ Types' /\ \A u \in Servers : EngineOK(u, eng'[u], dput'[u], data')
         /\ TasksOK(eng', released', put', data') /\ GoneOK'
         /\ OnlyOwed(s, k) /\ Owed(eng'[s], dput'[s], k)
         /\ k \in Keys
  <1>0. PICK e, c, t : e = eng[s] /\ c = dput[s] /\ t = c.task
    BY Zenon
  <1>1. /\ Types /\ e \in Engines /\ c \in Calls /\ EngineOK(s, e, c, data)
        /\ TasksOK(eng, released, put, data)
        /\ \A u \in Servers : EngineOK(u, eng[u], dput[u], data)
    BY <1>0, Zenon DEF EngineInv, Types
  <1>2. t \in Tasks /\ k \in Keys
    BY <1>0, <1>1, CallInput, ZenonT(60)
  <1>3. PICK f, c1 : f = Blocking(e, k, t) /\ c1 = NextCall(c)
    OBVIOUS
  <1>4. f \in Engines /\ c1 \in Calls /\ EngineOK(s, f, c1, data)
    <2>1. /\ c.task # NoTask /\ c.next <= Len(Inputs[c.task])
          /\ k = Inputs[c.task][c.next] /\ c.next \notin e.transforms[c.task].closed
          /\ f = Blocking(e, k, c.task)
      BY <1>0, <1>3, ZenonT(60)
    <2> QED
      BY <1>1, <1>3, <2>1, BlockerOK, Zenon
  <1>5. /\ f.subscribed = e.subscribed \cup {k} /\ f.ready = e.ready
        /\ f.transforms = e.transforms
    <2>1. f = Blocking(e, k, t)
      BY <1>3, Zenon
    <2>2. BlockingOnly(e, f, k)
      BY <1>1, <1>2, <2>1, BlockingKeeps, Zenon
    <2> QED
      BY <2>2, Zenon DEF BlockingOnly
  <1>6. eng' = [eng EXCEPT ![s] = f]
    BY <1>0, <1>1, <1>3, ZenonT(200) DEF AddBlocker, Blocking, Types
  <1>7. dput' = [dput EXCEPT ![s] = c1]
    BY <1>0, <1>1, <1>3, Zenon DEF NextInput, NextCall, Types
  <1>8. /\ eng' \in [Servers -> Engines] /\ dput' \in [Servers -> Calls]
        /\ eng'[s] = f /\ dput'[s] = c1
        /\ \A u \in Servers : u # s => eng'[u] = eng[u] /\ dput'[u] = dput[u]
        /\ \A u \in Servers : EngineOK(u, eng'[u], dput'[u], data')
    BY <1>1, <1>4, <1>6, <1>7, StepOf, ZenonT(60)
  <1>9. Types'
    BY <1>1, <1>8, Zenon DEF Types
  <1>10. TasksOK(eng', released', put', data')
    BY <1>0, <1>1, <1>5, <1>8, <1>9, SameTasks, ZenonT(60)
  <1>11. OnlyOwed(s, k) /\ Owed(eng'[s], dput'[s], k)
    <2>1. c1.sync = FALSE
      BY <1>1, <1>3, NextCallType, Zenon
    <2>2. ASSUME NEW j \in Keys, j # k PROVE Owed(f, c1, j) <=> Owed(e, c, j)
      BY <1>0, <1>5, <2>1, <2>2, Zenon DEF Owed
    <2> QED
      BY <1>0, <1>5, <1>8, <2>2, ZenonT(200) DEF Owed, OnlyOwed
  <1>12. GoneOK'
    BY Zenon DEF EngineInv, GoneOK, Needs
  <1> QED
    BY <1>2, <1>8, <1>9, <1>10, <1>11, <1>12, ZenonT(60)

\* The input that the call of server s looks at.
LEMMA InputShape ==
  ASSUME EngineInv, NEW s \in Servers, NEW k, InputIs(s, k)
  PROVE  /\ dput[s].task # NoTask /\ dput[s].next <= Len(Inputs[dput[s].task])
         /\ dput[s].task \in Tasks /\ dput[s].task \in DOMAIN eng[s].transforms
         /\ dput[s].next \in 1..Len(Inputs[dput[s].task])
         /\ k = Inputs[dput[s].task][dput[s].next] /\ k \in Keys
         /\ \A j : Owed(eng[s], dput[s], j) <=> j \in eng[s].subscribed
         /\ dput[s].next \in eng[s].transforms[dput[s].task].closed =>
              HomeOf[k] = s /\ data[k] # "open"
  <1>0. PICK e, c, t : e = eng[s] /\ c = dput[s] /\ t = c.task
    BY Zenon
  <1>1. /\ Types /\ e \in Engines /\ c \in Calls /\ EngineOK(s, e, c, data)
    BY <1>0, Zenon DEF EngineInv, Types
  <1>2. /\ c.task # NoTask /\ c.next <= Len(Inputs[c.task]) /\ ~c.sync
        /\ k = Inputs[c.task][c.next]
    BY <1>0, ZenonT(200) DEF InputIs, Idle
  <1>3. /\ t \in Tasks /\ t \in DOMAIN e.transforms
        /\ c.next \in 1..Len(Inputs[t]) /\ k \in Keys
        /\ c.next \in e.transforms[t].closed => HomeOf[k] = s /\ data[k] # "open"
    BY <1>0, <1>1, <1>2, CallInput, SMT, SMTT(30)
  <1> QED
    BY <1>0, <1>2, <1>3, Zenon DEF Owed

LEMMA InputSubscribedOK ==
  ASSUME EngineInv, NEW s \in Servers, NEW k \in Keys, InputSubscribed(s, k)
  PROVE  EngineInv'
  <1>0. /\ InputIs(s, k) /\ AddBlocker(s, k) /\ NextInput(s)
        /\ UNCHANGED <<data, put, released, fail>> /\ k \in eng[s].subscribed
        /\ UNCHANGED <<subs, lis, ntfs, rpcs>>
    BY Zenon DEF InputSubscribed, Subscribe
  <1>1. Types /\ OneAnswer /\ PlacesOK
    BY Zenon DEF EngineInv
  <1>2. dput[s].next \notin eng[s].transforms[dput[s].task].closed
    <2>1. Owed(eng[s], dput[s], k)
      BY <1>0, Zenon DEF Owed
    <2>2. HomeOf[k] = s => data[k] = "open"
      <3>1. ASSUME HomeOf[k] = s, data[k] # "open"
            PROVE  subs[s][k] = 0 /\ lis[s][k] = 0 /\ ntfs[s][k] = 0 /\ rpcs[s][k] = 0
        BY <1>1, <3>1, Zenon DEF PlacesOK
      <3>2. subs[s][k] + lis[s][k] + ntfs[s][k] + rpcs[s][k] = 1
        BY <1>1, <2>1, OneOfFour, Zenon
      <3> QED
        BY <3>1, <3>2, SMT, SMTT(30)
    <2> QED
      BY <1>0, <2>2, InputShape, ZenonT(60)
  <1>3. /\ subs' \in Counts /\ lis' \in Counts /\ ntfs' \in Counts /\ rpcs' \in Counts
    BY <1>0, <1>1, Zenon DEF Types
  <1>4. /\ Types' /\ \A u \in Servers : EngineOK(u, eng'[u], dput'[u], data')
        /\ TasksOK(eng', released', put', data') /\ GoneOK'
        /\ OnlyOwed(s, k) /\ Owed(eng'[s], dput'[s], k)
    BY <1>0, <1>2, <1>3, InputShape, AddedOK, ZenonT(60)
  <1>5. OneAnswer'
    <2>1. Owed(eng[s], dput[s], k)
      BY <1>0 DEF Owed
    <2>2. \A u \in Servers, j \in Keys : Owed(eng'[u], dput'[u], j) <=> Owed(eng[u], dput[u], j)
      BY <1>4, <2>1, ZenonT(60) DEF OnlyOwed
    <2> QED
      BY <1>0, <1>1, <2>2, OwedAnswers, OwedAnswersNext, ZenonT(60) DEF Answered
  <1>6. PlacesOK'
    BY <1>0, <1>1, ZenonT(60) DEF PlacesOK
  <1> QED
    BY <1>4, <1>5, <1>6, Zenon DEF EngineInv

LEMMA InputHereOK ==
  ASSUME EngineInv, NEW s \in Servers, NEW k \in Keys, InputHere(s, k)
  PROVE  EngineInv'
  <1>0. /\ InputIs(s, k) /\ AddBlocker(s, k) /\ NextInput(s)
        /\ UNCHANGED <<data, put, released, fail>> /\ UNCHANGED <<subs, ntfs, rpcs>>
        /\ k \notin eng[s].subscribed /\ HomeOf[k] = s /\ data[k] = "open"
        /\ lis' = More(lis, s, k)
    BY ZenonT(60) DEF InputHere, Subscribe
  <1>1. Types /\ OneAnswer /\ PlacesOK
    BY Zenon DEF EngineInv
  <1>2. dput[s].next \notin eng[s].transforms[dput[s].task].closed
    BY <1>0, InputShape, SMT, SMTT(30)
  <1>3. Changed(lis, lis', s, k, lis[s][k] + 1)
    BY <1>0, <1>1, MoreOK, Zenon DEF Types
  <1>4. /\ subs' \in Counts /\ lis' \in Counts /\ ntfs' \in Counts /\ rpcs' \in Counts
    BY <1>0, <1>1, <1>3, ZenonT(200) DEF Types, Changed
  <1>5. /\ Types' /\ \A u \in Servers : EngineOK(u, eng'[u], dput'[u], data')
        /\ TasksOK(eng', released', put', data') /\ GoneOK'
        /\ OnlyOwed(s, k) /\ Owed(eng'[s], dput'[s], k)
    BY <1>0, <1>2, <1>4, InputShape, AddedOK, SMT, SMTT(30)
  <1>6. OneAnswer'
    <2>1. ~Owed(eng[s], dput[s], k)
      BY <1>0, InputShape, Zenon
    <2>2. subs[s][k] = 0 /\ lis[s][k] = 0 /\ ntfs[s][k] = 0 /\ rpcs[s][k] = 0
      BY <1>1, <2>1, OneOfFour, Zenon
    <2>3. ASSUME NEW u \in Servers, NEW j \in Keys
          PROVE  Answered(u, j, eng'[u], dput'[u],
                          subs'[u][j] + lis'[u][j] + ntfs'[u][j] + rpcs'[u][j])
      <3>1. CASE u = s /\ j = k
        BY <1>0, <1>3, <1>5, <2>2, <3>1, SMT, SMTT(30) DEF Changed, Answered
      <3>2. CASE u # s \/ j # k
        BY <1>0, <1>1, <1>3, <1>5, <3>2, OwedAnswers, SMT, SMTT(30)
           DEF Changed, Answered, OnlyOwed
      <3> QED
        BY <3>1, <3>2, ZenonT(60)
    <2> QED
      BY <2>3, OwedAnswersNext, Zenon
  <1>7. PlacesOK'
    BY <1>0, <1>1, <1>3, SMT, SMTT(30) DEF PlacesOK, Changed
  <1> QED
    BY <1>5, <1>6, <1>7, Zenon DEF EngineInv

LEMMA SubscribeSentOK ==
  ASSUME EngineInv, NEW s \in Servers, SubscribeSent(s)
  PROVE  EngineInv'
  <1>0. PICK k : k = Inputs[dput[s].task][dput[s].next]
    OBVIOUS
  <1>1. /\ Types /\ OneAnswer /\ PlacesOK /\ eng[s] \in Engines /\ dput[s] \in Calls
        /\ EngineOK(s, eng[s], dput[s], data)
    BY DEF EngineInv, Types
  <1>2. /\ AddBlocker(s, k) /\ NextInput(s) /\ dput[s].sync
        /\ UNCHANGED <<data, put, released, fail>> /\ UNCHANGED <<subs, lis, ntfs, rpcs>>
    BY <1>0, Zenon DEF SubscribeSent
  <1>3. /\ dput[s].task # NoTask /\ dput[s].next <= Len(Inputs[dput[s].task])
        /\ dput[s].next \notin eng[s].transforms[dput[s].task].closed
    BY <1>1, <1>2, Zenon DEF EngineOK, CallOK
  <1>4. /\ subs' \in Counts /\ lis' \in Counts /\ ntfs' \in Counts /\ rpcs' \in Counts
    BY <1>1, <1>2, Zenon DEF Types
  <1>5. /\ Types' /\ \A u \in Servers : EngineOK(u, eng'[u], dput'[u], data')
        /\ TasksOK(eng', released', put', data') /\ GoneOK'
        /\ OnlyOwed(s, k) /\ Owed(eng'[s], dput'[s], k)
    BY <1>0, <1>2, <1>3, <1>4, AddedOK, ZenonT(60)
  <1>6. OneAnswer'
    <2>1. Owed(eng[s], dput[s], k)
      BY <1>0, <1>2, ZenonT(60) DEF Owed
    <2>2. \A u \in Servers, j \in Keys : Owed(eng'[u], dput'[u], j) <=> Owed(eng[u], dput[u], j)
      BY <1>5, <2>1, ZenonT(60) DEF OnlyOwed
    <2> QED
      BY <1>1, <1>2, <2>2, OwedAnswers, OwedAnswersNext, ZenonT(60) DEF Answered
  <1>7. PlacesOK'
    BY <1>1, <1>2, ZenonT(60) DEF PlacesOK
  <1> QED
    BY <1>5, <1>6, <1>7, Zenon DEF EngineInv

LEMMA InputThereOK ==
  ASSUME EngineInv, NEW s \in Servers, NEW k \in Keys, InputThere(s, k)
  PROVE  EngineInv'
  <1>0. /\ InputIs(s, k) /\ UNCHANGED <<data, eng, put, released, fail>>
        /\ UNCHANGED <<lis, ntfs, rpcs>> /\ subs' = More(subs, s, k)
        /\ k \notin eng[s].subscribed /\ HomeOf[k] # s
        /\ dput' = [dput EXCEPT ![s].sync = TRUE]
    BY Zenon DEF InputThere, Subscribe
  <1>1. /\ Types /\ OneAnswer /\ PlacesOK /\ TasksOK(eng, released, put, data)
        /\ eng[s] \in Engines /\ dput[s] \in Calls
        /\ \A u \in Servers : EngineOK(u, eng[u], dput[u], data)
    BY DEF EngineInv, Types
  <1>2. PICK c, c1 : c = dput[s] /\ c1 = [c EXCEPT !.sync = TRUE]
    BY Zenon
  <1>3. /\ c.task # NoTask /\ c.next <= Len(Inputs[c.task])
        /\ k = Inputs[c.task][c.next]
    BY <1>0, <1>2, InputShape, Zenon
  <1>4. c1 \in Calls /\ EngineOK(s, eng[s], c1, data)
    BY <1>0, <1>1, <1>2, <1>3, AskOK, ZenonT(60)
  <1>5. dput' = [dput EXCEPT ![s] = c1] /\ eng' = [eng EXCEPT ![s] = eng[s]]
    BY <1>0, <1>1, <1>2, Zenon DEF Types
  <1>6. /\ dput' \in [Servers -> Calls] /\ dput'[s] = c1
        /\ \A u \in Servers : u # s => dput'[u] = dput[u]
        /\ \A u \in Servers : EngineOK(u, eng'[u], dput'[u], data')
    BY <1>0, <1>1, <1>4, <1>5, StepOf, ZenonT(60)
  <1>7. Changed(subs, subs', s, k, subs[s][k] + 1)
    BY <1>0, <1>1, MoreOK, Zenon DEF Types
  <1>8. Types'
    BY <1>0, <1>1, <1>6, <1>7, ZenonT(60) DEF Types, Changed
  <1>9. TasksOK(eng', released', put', data') /\ GoneOK'
    BY <1>0, <1>1, ZenonT(60) DEF EngineInv, GoneOK, Needs
  <1>10. OneAnswer'
    <2>1. ~Owed(eng[s], dput[s], k) /\ ~dput[s].sync
      BY <1>0, InputShape, ZenonT(200) DEF InputIs
    <2>2. subs[s][k] = 0 /\ lis[s][k] = 0 /\ ntfs[s][k] = 0 /\ rpcs[s][k] = 0
      BY <1>1, <2>1, OneOfFour, Zenon
    <2>3. c1.sync /\ c1.task = c.task /\ c1.next = c.next
      BY <1>1, <1>2 DEF Calls
    <2>4. ASSUME NEW u \in Servers, NEW j \in Keys
          PROVE  Answered(u, j, eng'[u], dput'[u],
                          subs'[u][j] + lis'[u][j] + ntfs'[u][j] + rpcs'[u][j])
      <3>1. CASE u = s /\ j = k
        <4>1. Owed(eng'[u], dput'[u], j)
          BY <1>3, <1>6, <2>3, <3>1, Zenon DEF Owed
        <4> QED
          BY <1>0, <1>7, <2>2, <3>1, <4>1 DEF Changed, Answered
      <3>2. CASE u # s \/ j # k
        <4>1. Owed(eng'[u], dput'[u], j) <=> Owed(eng[u], dput[u], j)
          BY <1>0, <1>2, <1>3, <1>6, <2>1, <2>3, <3>2, ZenonT(200) DEF Owed
        <4> QED
          BY <1>0, <1>1, <1>7, <3>2, <4>1, OwedAnswers, ZenonT(200) DEF Changed, Answered
      <3> QED
        BY <3>1, <3>2
    <2> QED
      BY <2>4, OwedAnswersNext, Zenon
  <1>11. PlacesOK'
    BY <1>0, <1>1, <1>7 DEF PlacesOK, Changed
  <1> QED
    BY <1>6, <1>8, <1>9, <1>10, <1>11, ZenonT(60) DEF EngineInv

\* The inputs of a task that an engine has are not gone.
LEMMA NotGone ==
  ASSUME EngineInv, NEW s \in Servers, NEW t \in Tasks, t \in DOMAIN eng[s].transforms,
         NEW i \in 1..Len(Inputs[t])
  PROVE  data[Inputs[t][i]] # "gone"
  <1>1. released[t] = 0
    BY Zenon DEF EngineInv, TasksOK
  <1>2. Inputs[t][i] \in Keys /\ DOMAIN Inputs[t] = 1..Len(Inputs[t])
    BY InputsType, Zenon
  <1>3. Inputs[t][i] \in Range(Inputs[t])
    BY <1>2, ZenonT(60) DEF Range
  <1> QED
    BY <1>1, <1>2, <1>3, Zenon DEF EngineInv, GoneOK, Needs

LEMMA InputReadyOK ==
  ASSUME EngineInv, NEW s \in Servers, NEW k \in Keys, InputReady(s, k)
  PROVE  EngineInv'
  <1>0. PICK c, t, n : c = dput[s] /\ t = c.task /\ n = c.next
    BY Zenon
  <1>a. PICK e : e = IF HomeOf[k] = s THEN eng[s] ELSE UpdateLru(eng[s], k)
    BY Zenon
  <1>1. /\ InputIs(s, k) /\ UNCHANGED <<data, put, released>> /\ NextInput(s)
        /\ UNCHANGED <<subs, lis, ntfs, rpcs>> /\ k \notin eng[s].subscribed
        /\ eng' = [eng EXCEPT ![s] = [e EXCEPT !.transforms[t].closed = @ \cup {n}]]
        /\ fail' = IF HomeOf[k] = s /\ data[k] = "gone" THEN "UNKNOWN" ELSE "ok"
        /\ HomeOf[k] = s => data[k] # "open"
        /\ HomeOf[k] # s => CacheCheck(eng[s], k)
    BY <1>0, <1>a, Zenon DEF InputReady, Subscribe
  <1>2. /\ Types /\ OneAnswer /\ PlacesOK /\ TasksOK(eng, released, put, data)
        /\ eng[s] \in Engines /\ c \in Calls
        /\ \A u \in Servers : EngineOK(u, eng[u], dput[u], data)
    BY <1>0, Zenon DEF EngineInv, Types
  <1>3. /\ t # NoTask /\ n <= Len(Inputs[t]) /\ t \in Tasks /\ t \in DOMAIN eng[s].transforms
        /\ n \in 1..Len(Inputs[t]) /\ k = Inputs[t][n]
    BY <1>0, <1>1, InputShape, Zenon
  <1>4. fail' = "ok"
    BY <1>1, <1>3, NotGone, Zenon
  <1>5. /\ e \in Engines /\ SameButCaches(eng[s], e) /\ EngineOK(s, e, c, data)
        /\ data[k] # "open"
    <2>1. CASE HomeOf[k] = s
      BY <1>0, <1>1, <1>2, <1>a, <2>1, ZenonT(60) DEF SameButCaches
    <2>2. CASE HomeOf[k] # s
      <3>1. e = UpdateLru(eng[s], k) /\ CacheCheck(eng[s], k) /\ EngineOK(s, eng[s], c, data)
        BY <1>0, <1>1, <1>2, <1>a, <2>2, ZenonT(60)
      <3> QED
        BY <1>2, <3>1, HitOK, Zenon
    <2> QED
      BY <2>1, <2>2, Zenon
  <1>6. PICK T : T = MarkOne(e.transforms[t], n)
    OBVIOUS
  <1>7. PICK f, c1 : f = With(e, t, T) /\ c1 = NextCall(c)
    BY ZenonT(60)
  <1>8. /\ f \in Engines /\ c1 \in Calls /\ EngineOK(s, f, c1, data)
        /\ SameButTable(e, f) /\ DOMAIN f.transforms = DOMAIN e.transforms
    <2>1. /\ c.task # NoTask /\ c.next <= Len(Inputs[c.task])
          /\ Inputs[c.task][c.next] \notin e.subscribed
          /\ data[Inputs[c.task][c.next]] # "open"
          /\ T = MarkOne(e.transforms[c.task], c.next) /\ f = With(e, c.task, T)
      BY <1>0, <1>1, <1>3, <1>5, <1>6, <1>7, ZenonT(60) DEF SameButCaches
    <2> QED
      BY <1>2, <1>5, <1>7, <2>1, MarkOK, SMT, SMTT(30)
  <1>9. eng' = [eng EXCEPT ![s] = f]
    BY <1>1, <1>6, <1>7, Zenon DEF With, MarkOne
  <1>10. dput' = [dput EXCEPT ![s] = c1]
    BY <1>0, <1>1, <1>2, <1>7, ZenonT(60) DEF NextInput, NextCall, Types
  <1>11. /\ eng' \in [Servers -> Engines] /\ dput' \in [Servers -> Calls]
         /\ eng'[s] = f /\ dput'[s] = c1
         /\ \A u \in Servers : u # s => eng'[u] = eng[u] /\ dput'[u] = dput[u]
         /\ \A u \in Servers : EngineOK(u, eng'[u], dput'[u], data')
    BY <1>1, <1>2, <1>8, <1>9, <1>10, StepOf, ZenonT(60)
  <1>12. Types'
    BY <1>1, <1>2, <1>4, <1>11, ZenonT(60) DEF Types
  <1>13. /\ f.subscribed = eng[s].subscribed /\ f.ready = eng[s].ready
         /\ DOMAIN f.transforms = DOMAIN eng[s].transforms
    BY <1>5, <1>8, Zenon DEF SameButCaches, SameButTable
  <1>14. TasksOK(eng', released', put', data')
    BY <1>1, <1>2, <1>11, <1>12, <1>13, SameTasks, ZenonT(60)
  <1>15. OneAnswer'
    <2>1. c1.sync = FALSE /\ ~c.sync
      BY <1>0, <1>1, <1>2, <1>7, NextCallType, ZenonT(60) DEF InputIs
    <2>2. \A u \in Servers, j \in Keys : Owed(eng'[u], dput'[u], j) <=> Owed(eng[u], dput[u], j)
      BY <1>0, <1>11, <1>13, <2>1, ZenonT(60) DEF Owed
    <2> QED
      BY <1>1, <1>2, <2>2, OwedAnswers, OwedAnswersNext, ZenonT(60) DEF Answered
  <1>16. PlacesOK' /\ GoneOK'
    BY <1>1, <1>2, ZenonT(60) DEF EngineInv, PlacesOK, GoneOK, Needs
  <1> QED
    BY <1>11, <1>12, <1>14, <1>15, <1>16, Zenon DEF EngineInv

\* Server s releases the tasks R, which are closed and with its engine.
Releasing(e, f, r, r1, d, s, R) ==
  /\ \A u \in Servers : u # s => f[u] = e[u]
  /\ \A t \in Tasks :
       IF t \in R
       THEN /\ r1[t] = r[t] + 1 /\ InputsClosed(d, t)
            /\ t \in DOMAIN e[s].transforms \/ e[s].ready[t] > 0
            /\ t \notin DOMAIN f[s].transforms /\ f[s].ready[t] = 0
       ELSE /\ r1[t] = r[t] /\ f[s].ready[t] = e[s].ready[t]
            /\ t \in DOMAIN f[s].transforms <=> t \in DOMAIN e[s].transforms

LEMMA TasksReleased ==
  ASSUME NEW e \in [Servers -> Engines], NEW f \in [Servers -> Engines],
         NEW r \in [Tasks -> Nat], NEW r1 \in [Tasks -> Nat], NEW p, NEW d,
         TasksOK(e, r, p, d), NEW s \in Servers, NEW R, Releasing(e, f, r, r1, d, s, R)
  PROVE  TasksOK(f, r1, p, d)
  <1> SUFFICES ASSUME NEW t \in Tasks
               PROVE  /\ r1[t] > 0 => r1[t] = 1 /\ t \in p /\ InputsClosed(d, t)
                      /\ \A u \in Servers :
                           /\ t \in DOMAIN f[u].transforms \/ f[u].ready[t] > 0 =>
                                /\ t \in p /\ r1[t] = 0
                                /\ \A w \in Servers \ {u} :
                                     t \notin DOMAIN f[w].transforms /\ f[w].ready[t] = 0
                           /\ f[u].ready[t] > 0 => /\ f[u].ready[t] = 1 /\ InputsClosed(d, t)
                                                   /\ t \notin DOMAIN f[u].transforms
    BY Zenon DEF TasksOK
  <1>1. CASE t \in R
    <2>1. /\ t \in p /\ r[t] = 0 /\ r1[t] = 1 /\ InputsClosed(d, t)
          /\ \A u \in Servers \ {s} : t \notin DOMAIN e[u].transforms /\ e[u].ready[t] = 0
      BY <1>1, SMT, SMTT(30) DEF TasksOK, Releasing
    <2>2. \A u \in Servers : t \notin DOMAIN f[u].transforms /\ f[u].ready[t] = 0
      BY <1>1, <2>1, SMT, SMTT(30) DEF Releasing
    <2> QED
      BY <2>1, <2>2, SMT, SMTT(30)
  <1>2. CASE t \notin R
    <2>1. /\ r1[t] = r[t]
          /\ \A u \in Servers : /\ f[u].ready[t] = e[u].ready[t]
                                /\ t \in DOMAIN f[u].transforms <=> t \in DOMAIN e[u].transforms
      BY <1>2, Zenon DEF Releasing
    <2> QED
      BY <2>1, SMT, SMTT(30) DEF TasksOK
  <1> QED
    BY <1>1, <1>2, Zenon

LEMMA PutDoneOK ==
  ASSUME EngineInv, NEW s \in Servers, PutDone(s)
  PROVE  EngineInv'
  <1>0. PICK e, c, t : e = eng[s] /\ c = dput[s] /\ t = c.task
    BY Zenon
  <1>1. /\ Types /\ OneAnswer /\ PlacesOK /\ TasksOK(eng, released, put, data)
        /\ e \in Engines /\ c \in Calls /\ EngineOK(s, e, c, data)
        /\ \A u \in Servers : EngineOK(u, eng[u], dput[u], data)
    BY <1>0, Zenon DEF EngineInv, Types
  <1>2. PICK P : P = Progress(t, e.transforms[t])
    BY Zenon
  <1>a. c.task # NoTask /\ ~c.sync /\ c.next > Len(Inputs[c.task])
    BY <1>0, Zenon DEF PutDone, Idle
  <1>3. /\ dput' = [dput EXCEPT ![s] = NoPut]
        /\ \/ /\ Done(t, P)
              /\ eng' = [eng EXCEPT ![s].transforms = [u \in DOMAIN @ \ {t} |-> @[u]]]
              /\ released' = [released EXCEPT ![t] = @ + 1]
           \/ /\ ~Done(t, P)
              /\ eng' = [eng EXCEPT ![s].transforms[t] = P]
              /\ UNCHANGED released
        /\ UNCHANGED <<data, subs, lis, ntfs, rpcs, put, fail>>
    BY <1>0, <1>2, Zenon DEF PutDone
  <1>b. released' = IF Done(t, P) THEN [released EXCEPT ![t] = @ + 1] ELSE released
    BY <1>3, Zenon
  <1>4. PICK f : f = IF Done(t, P) THEN Without(e, t) ELSE With(e, t, P)
    BY Zenon
  <1>5. eng' = [eng EXCEPT ![s] = f]
    BY <1>0, <1>1, <1>3, <1>4, ZenonT(60) DEF Without, With, Types
  <1>6. /\ Done(t, P) => /\ f \in Engines /\ EngineOK(s, f, NoPut, data)
                         /\ SameButTable(e, f)
                         /\ DOMAIN f.transforms = DOMAIN e.transforms \ {t}
                         /\ t \in Tasks /\ t \in DOMAIN e.transforms
                         /\ InputsClosed(data, t)
        /\ ~Done(t, P) => /\ f \in Engines /\ EngineOK(s, f, NoPut, data)
                          /\ SameButTable(e, f)
                          /\ DOMAIN f.transforms = DOMAIN e.transforms
    <2>1. CASE Done(t, P)
      <3>1. f = Without(e, c.task) /\ Done(c.task, Progress(c.task, e.transforms[c.task]))
        BY <1>0, <1>2, <1>4, <2>1, ZenonT(60)
      <3>2. /\ f \in Engines /\ EngineOK(s, f, NoPut, data) /\ SameButTable(e, f)
            /\ DOMAIN f.transforms = DOMAIN e.transforms \ {c.task}
            /\ c.task \in Tasks /\ c.task \in DOMAIN e.transforms
            /\ InputsClosed(data, c.task)
        BY <1>1, <1>a, <3>1, DoneOK, SMT, SMTT(30)
      <3> QED
        BY <1>0, <2>1, <3>2, ZenonT(60)
    <2>2. CASE ~Done(t, P)
      <3>1. /\ f = With(e, c.task, P) /\ ~Done(c.task, P)
            /\ P = Progress(c.task, e.transforms[c.task])
        BY <1>0, <1>2, <1>4, <2>2, ZenonT(60)
      <3>2. /\ f \in Engines /\ EngineOK(s, f, NoPut, data) /\ SameButTable(e, f)
            /\ DOMAIN f.transforms = DOMAIN e.transforms
        BY <1>1, <1>a, <3>1, WaitOK, SMT, SMTT(30)
      <3> QED
        BY <2>2, <3>2, Zenon
    <2> QED
      BY <2>1, <2>2, Zenon
  <1>7. f \in Engines /\ EngineOK(s, f, NoPut, data) /\ SameButTable(e, f)
    BY <1>6, Zenon
  <1>8. /\ eng' \in [Servers -> Engines] /\ dput' \in [Servers -> Calls]
        /\ eng'[s] = f /\ dput'[s] = NoPut
        /\ \A u \in Servers : u # s => eng'[u] = eng[u] /\ dput'[u] = dput[u]
        /\ \A u \in Servers : EngineOK(u, eng'[u], dput'[u], data')
    BY <1>1, <1>3, <1>5, <1>7, NoPutType, StepOf, ZenonT(60)
  <1>9. Types'
    <2>1. released' \in [Tasks -> Nat]
      <3>1. released \in [Tasks -> Nat]
        BY <1>1, ZenonT(60) DEF Types
      <3>2. CASE Done(t, P)
        <4>1. t \in Tasks /\ released[t] \in Nat
          BY <1>6, <3>1, <3>2, ZenonT(60)
        <4> QED
          BY <1>b, <3>1, <3>2, <4>1, SMT, SMTT(30)
      <3> QED
        BY <1>b, <3>1, <3>2, Zenon
    <2> QED
      BY <1>1, <1>3, <1>8, <2>1, ZenonT(60) DEF Types
  <1>10. TasksOK(eng', released', put', data') /\ GoneOK'
    <2>1. CASE Done(t, P)
      <3>1. /\ \A v \in Tasks : released'[v] = IF v \in {t} THEN released[v] + 1 ELSE released[v]
            /\ released' \in [Tasks -> Nat]
        BY <1>1, <1>b, <1>9, <2>1, ZenonT(60) DEF Types
      <3>2. /\ t \in Tasks /\ t \in DOMAIN e.transforms /\ InputsClosed(data, t)
            /\ DOMAIN f.transforms = DOMAIN e.transforms \ {t} /\ f.ready = e.ready
        BY <1>6, <2>1, ZenonT(60) DEF SameButTable
      <3>3. e.ready[t] = 0
        BY <1>0, <1>1, <3>2, SMT, SMTT(30) DEF TasksOK, Engines
      <3>4. Releasing(eng, eng', released, released', data, s, {t})
        BY <1>0, <1>8, <3>1, <3>2, <3>3, ZenonT(60) DEF Releasing
      <3>5. TasksOK(eng', released', put, data)
        BY <1>1, <1>8, <3>1, <3>4, TasksReleased, ZenonT(60) DEF Types
      <3>6. \A v \in Tasks, j \in Keys : Needs(v, j)' => Needs(v, j)
        BY <1>1, <3>1, SMT, SMTT(30) DEF Needs, Types
      <3> QED
        BY <1>3, <3>5, <3>6, ZenonT(60) DEF EngineInv, GoneOK
    <2>2. CASE ~Done(t, P)
      <3>1. TasksOK(eng', released', put', data')
        BY <1>0, <1>1, <1>3, <1>6, <1>8, <1>9, <2>2, SameTasks, ZenonT(60) DEF SameButTable
      <3> QED
        BY <1>3, <2>2, <3>1, ZenonT(60) DEF EngineInv, GoneOK, Needs
    <2> QED
      BY <2>1, <2>2, Zenon
  <1>11. OneAnswer'
    <2>1. \A u \in Servers, j \in Keys : Owed(eng'[u], dput'[u], j) <=> Owed(eng[u], dput[u], j)
      BY <1>0, <1>a, <1>7, <1>8, NoPutType, ZenonT(60) DEF Owed, SameButTable
    <2> QED
      BY <1>1, <1>3, <2>1, OwedAnswers, OwedAnswersNext, ZenonT(60) DEF Answered
  <1>12. PlacesOK'
    BY <1>1, <1>3, ZenonT(60) DEF PlacesOK
  <1> QED
    BY <1>8, <1>9, <1>10, <1>11, <1>12, ZenonT(60) DEF EngineInv

LEMMA ReadyWorkOK ==
  ASSUME EngineInv, NEW s \in Servers, ReadyWork(s)
  PROVE  EngineInv'
  <1>0. PICK e, c : e = eng[s] /\ c = dput[s]
    OBVIOUS
  <1>a. PICK f : f = [e EXCEPT !.ready = [t \in Tasks |-> 0]]
    BY Zenon
  <1>1. /\ Types /\ OneAnswer /\ PlacesOK /\ TasksOK(eng, released, put, data)
        /\ e \in Engines /\ c \in Calls /\ EngineOK(s, e, c, data)
        /\ \A u \in Servers : EngineOK(u, eng[u], dput[u], data)
    BY <1>0, Zenon DEF EngineInv, Types
  <1>2. /\ f \in Engines /\ f.transforms = e.transforms /\ f.blockers = e.blockers
        /\ f.subscribed = e.subscribed /\ f.cache = e.cache /\ f.subCache = e.subCache
        /\ \A t \in Tasks : f.ready[t] = 0
    BY <1>1, <1>a, Zenon DEF Engines
  <1>3. EngineOK(s, f, c, data)
    <2>1. \A t, T, n : TransformOK(e, data, t, T, n) => TransformOK(f, data, t, T, n)
      BY <1>2, ZenonT(200) DEF TransformOK
    <2>2. \A j, b : BlockedOK(e, c, j, b) => BlockedOK(f, c, j, b)
      BY <1>2, ZenonT(200) DEF BlockedOK
    <2>3. CallOK(s, f, c)
      BY <1>1, <1>2, Zenon DEF EngineOK, CallOK
    <2>4. TransformsOK(f, c, data)
      BY <1>1, <1>2, <2>1, Zenon DEF EngineOK, TransformsOK
    <2>5. BlockersOK(f, c)
      BY <1>1, <1>2, <2>2, Zenon DEF EngineOK, BlockersOK
    <2> QED
      BY <1>1, <1>2, <2>3, <2>4, <2>5, ZenonT(60) DEF EngineOK
  <1>4. /\ eng' = [eng EXCEPT ![s] = f] /\ dput' = [dput EXCEPT ![s] = c]
        /\ released' = [t \in Tasks |-> released[t] + e.ready[t]]
        /\ UNCHANGED <<data, dput, subs, lis, ntfs, rpcs, put, fail>>
    BY <1>0, <1>1, <1>a, Zenon DEF ReadyWork, Types
  <1>5. /\ eng' \in [Servers -> Engines] /\ dput' \in [Servers -> Calls]
        /\ eng'[s] = f /\ dput'[s] = c
        /\ \A u \in Servers : u # s => eng'[u] = eng[u] /\ dput'[u] = dput[u]
        /\ \A u \in Servers : EngineOK(u, eng'[u], dput'[u], data')
    BY <1>1, <1>2, <1>3, <1>4, StepOf, ZenonT(60)
  <1>6. e.ready \in [Tasks -> Nat] /\ released' \in [Tasks -> Nat]
    BY <1>1, <1>4, SMT, SMTT(30) DEF Engines, Types
  <1>7. Types'
    BY <1>1, <1>4, <1>5, <1>6, ZenonT(60) DEF Types
  <1>8. TasksOK(eng', released', put', data')
    <2>1. ASSUME NEW t \in Tasks
          PROVE  IF t \in {v \in Tasks : e.ready[v] > 0}
                 THEN /\ released'[t] = released[t] + 1 /\ InputsClosed(data, t)
                      /\ t \in DOMAIN eng[s].transforms \/ eng[s].ready[t] > 0
                      /\ t \notin DOMAIN eng'[s].transforms /\ eng'[s].ready[t] = 0
                 ELSE /\ released'[t] = released[t] /\ eng'[s].ready[t] = eng[s].ready[t]
                      /\ t \in DOMAIN eng'[s].transforms <=> t \in DOMAIN eng[s].transforms
      <3>1. released'[t] = released[t] + e.ready[t] /\ released[t] \in Nat /\ e.ready[t] \in Nat
        BY <1>1, <1>4, <1>6, Zenon DEF Types
      <3>2. e.ready[t] > 0 => /\ e.ready[t] = 1 /\ InputsClosed(data, t)
                              /\ t \notin DOMAIN e.transforms
        BY <1>0, <1>1, Zenon DEF TasksOK
      <3> QED
        BY <1>0, <1>2, <1>5, <3>1, <3>2, SMT, SMTT(30)
    <2>3. PICK R : R = {v \in Tasks : e.ready[v] > 0}
      BY Zenon
    <2>4. Releasing(eng, eng', released, released', data, s, R)
      BY <1>5, <2>1, <2>3, ZenonT(60) DEF Releasing
    <2>2. TasksOK(eng', released', put, data)
      BY <1>1, <1>5, <1>6, <2>4, TasksReleased, ZenonT(60) DEF Types
    <2> QED
      BY <1>4, <2>2, ZenonT(60)
  <1>9. GoneOK'
    <2>1. \A v \in Tasks, j \in Keys : Needs(v, j)' => Needs(v, j)
      BY <1>1, <1>4, <1>6, SMT, SMTT(30) DEF Needs, Types
    <2> QED
      BY <1>4, <2>1, ZenonT(60) DEF EngineInv, GoneOK
  <1>10. OneAnswer'
    <2>1. \A u \in Servers, j \in Keys : Owed(eng'[u], dput'[u], j) <=> Owed(eng[u], dput[u], j)
      BY <1>0, <1>2, <1>5, SMT, SMTT(30) DEF Owed
    <2> QED
      BY <1>1, <1>4, <2>1, OwedAnswers, OwedAnswersNext, ZenonT(60) DEF Answered
  <1>11. PlacesOK'
    BY <1>1, <1>4, ZenonT(60) DEF PlacesOK
  <1> QED
    BY <1>5, <1>7, <1>8, <1>9, <1>10, <1>11, ZenonT(60) DEF EngineInv

LEMMA CollectOK ==
  ASSUME EngineInv, ~FreeEarly, NEW k \in Keys, Collect(k)
  PROVE  EngineInv'
  <1>1. /\ Types /\ OneAnswer /\ PlacesOK /\ GoneOK /\ TasksOK(eng, released, put, data)
        /\ \A u \in Servers : EngineOK(u, eng[u], dput[u], data) /\ eng[u] \in Engines
    BY Zenon DEF EngineInv, Types
  <1>2. /\ data[k] = "closed" /\ data' = [data EXCEPT ![k] = "gone"]
        /\ UNCHANGED <<eng, dput, subs, lis, ntfs, rpcs, put, released, fail>>
        /\ \A t \in Tasks : ~Needs(t, k)
    BY Zenon DEF Collect
  <1>3. /\ Types' /\ \A j \in Keys : data'[j] = IF j = k THEN "gone" ELSE data[j]
    BY <1>1, <1>2, Zenon DEF Types
  <1>4. Later(data, data')
    BY <1>3, Zenon DEF Later
  <1>5. \A u \in Servers : EngineOK(u, eng'[u], dput'[u], data')
    BY <1>1, <1>2, <1>4, LaterOK, ZenonT(60)
  <1>6. TasksOK(eng', released', put', data')
    <2>1. \A u \in Servers : ReadyMoved(eng[u], eng[u], data')
      BY Zenon DEF ReadyMoved
    <2>2. TasksOK(eng, released, put, data')
      BY <1>1, <1>4, <2>1, TasksMoved, ZenonT(60) DEF Types
    <2> QED
      BY <1>2, <2>2, Zenon
  <1>7. OneAnswer'
    BY <1>1, <1>2, ZenonT(60) DEF OneAnswer, Subscribing
  <1>8. PlacesOK'
    BY <1>1, <1>2, <1>3, SMT, SMTT(30) DEF PlacesOK
  <1>9. GoneOK'
    BY <1>1, <1>2, <1>3, ZenonT(200) DEF GoneOK, Needs
  <1> QED
    BY <1>3, <1>5, <1>6, <1>7, <1>8, <1>9, ZenonT(60) DEF EngineInv

\* A datum that a server subscribes to, or has subscribed to, is not gone.
LEMMA OwedNotGone ==
  ASSUME EngineInv, NEW s \in Servers, NEW k \in Keys, Owed(eng[s], dput[s], k)
  PROVE  data[k] # "gone"
  <1>0. PICK e, c : e = eng[s] /\ c = dput[s]
    BY Zenon
  <1>1. e \in Engines /\ c \in Calls /\ EngineOK(s, e, c, data)
    BY <1>0, Zenon DEF EngineInv, Types
  <1>2. CASE k \in e.subscribed
    <2>1. PICK b : b = e.blockers[k]
      BY Zenon
    <2>2. b \in Seq(Tasks) /\ b # <<>> /\ BlockedOK(e, c, k, b)
      BY <1>1, <1>2, <2>1, ZenonT(60) DEF EngineOK, BlockersOK, Engines
    <2>3. 1 \in 1..Len(b)
      BY <2>2, SMT, SMTT(30)
    <2>4. /\ b[1] \in DOMAIN e.transforms
          /\ \E j \in 1..Len(Inputs[b[1]]) : Inputs[b[1]][j] = k
      BY <2>2, <2>3, ZenonT(60) DEF BlockedOK
    <2>5. b[1] \in Tasks
      BY <1>1, <2>4, TableType, Zenon
    <2> QED
      BY <1>0, <2>4, <2>5, NotGone, ZenonT(60)
  <1>3. CASE c.sync /\ k = Inputs[c.task][c.next]
    <2>1. c.task # NoTask /\ c.next <= Len(Inputs[c.task])
      BY <1>1, <1>3, ZenonT(60) DEF EngineOK, CallOK
    <2>2. /\ c.task \in Tasks /\ c.task \in DOMAIN e.transforms
          /\ c.next \in 1..Len(Inputs[c.task])
      BY <1>1, <2>1, CallInput, ZenonT(60)
    <2> QED
      BY <1>0, <1>3, <2>2, NotGone, ZenonT(60)
  <1> QED
    BY <1>0, <1>2, <1>3, Zenon DEF Owed

LEMMA SubscribeSyncOK ==
  ASSUME EngineInv, NEW s \in Servers, NEW k \in Keys, SubscribeSync(s, k)
  PROVE  EngineInv'
  <1>1. /\ Types /\ OneAnswer /\ PlacesOK /\ GoneOK /\ TasksOK(eng, released, put, data)
        /\ \A u \in Servers : EngineOK(u, eng[u], dput[u], data)
    BY Zenon DEF EngineInv
  <1>2. /\ subs[s][k] > 0 /\ subs' = Less(subs, s, k)
        /\ lis' = IF data[k] = "open" THEN More(lis, s, k) ELSE lis
        /\ ntfs' = IF data[k] = "closed" THEN More(ntfs, s, k) ELSE ntfs
        /\ fail' = IF data[k] = "gone" THEN "NOT_FOUND" ELSE "ok"
        /\ UNCHANGED <<data, eng, dput, rpcs, put, released>>
    BY ZenonT(60) DEF SubscribeSync
  <1>3. Owed(eng[s], dput[s], k)
    BY <1>1, <1>2, OneOfFour, SMT, SMTT(30)
  <1>4. data[k] \in {"open", "closed"}
    BY <1>1, <1>3, OwedNotGone, Zenon DEF Types
  <1>5. /\ Changed(subs, subs', s, k, subs[s][k] - 1)
        /\ data[k] = "open" => Changed(lis, lis', s, k, lis[s][k] + 1) /\ ntfs' = ntfs
        /\ data[k] # "open" => Changed(ntfs, ntfs', s, k, ntfs[s][k] + 1) /\ lis' = lis
    BY <1>1, <1>2, <1>4, LessOK, MoreOK, ZenonT(60) DEF Types
  <1>6. /\ subs[s][k] = 1 /\ lis[s][k] = 0 /\ ntfs[s][k] = 0 /\ rpcs[s][k] = 0
    <2>1. /\ subs[s][k] \in Nat /\ lis[s][k] \in Nat /\ ntfs[s][k] \in Nat /\ rpcs[s][k] \in Nat
          /\ subs[s][k] + lis[s][k] + ntfs[s][k] + rpcs[s][k] = 1
      BY <1>1, <1>3, OneOfFour, ZenonT(60)
    <2> QED
      BY <1>2, <2>1, SMT, SMTT(30)
  <1>7. Types'
    BY <1>1, <1>2, <1>4, <1>5, ZenonT(60) DEF Types, Changed
  <1>8. OneAnswer'
    <2>1. ASSUME NEW u \in Servers, NEW j \in Keys
          PROVE  subs'[u][j] + lis'[u][j] + ntfs'[u][j] + rpcs'[u][j]
                   = subs[u][j] + lis[u][j] + ntfs[u][j] + rpcs[u][j]
      <3>1. CASE u = s /\ j = k
        BY <1>2, <1>5, <1>6, <3>1, SMT, SMTT(30) DEF Changed
      <3>2. CASE u # s \/ j # k
        BY <1>2, <1>5, <3>2, Zenon DEF Changed
      <3> QED
        BY <3>1, <3>2, ZenonT(60)
    <2> QED
      BY <1>1, <1>2, <2>1, SMT, SMTT(30) DEF OneAnswer, Subscribing
  <1>9. PlacesOK'
    <2>1. HomeOf[k] # s
      BY <1>1, <1>2, SMT, SMTT(30) DEF PlacesOK
    <2> SUFFICES ASSUME NEW u \in Servers, NEW j \in Keys
                 PROVE  /\ HomeOf[j] = u => subs'[u][j] = 0 /\ ntfs'[u][j] = 0 /\ rpcs'[u][j] = 0
                        /\ data[j] = "open" => ntfs'[u][j] = 0 /\ rpcs'[u][j] = 0
                        /\ data[j] # "open" => lis'[u][j] = 0
      BY <1>2, Zenon DEF PlacesOK
    <2>2. CASE u = s /\ j = k
      BY <1>2, <1>5, <1>6, <2>1, <2>2, ZenonT(60)
    <2>3. CASE u # s \/ j # k
      BY <1>1, <1>2, <1>5, <2>3, SMT, SMTT(30) DEF Changed, PlacesOK
    <2> QED
      BY <2>2, <2>3, ZenonT(60)
  <1> QED
    BY <1>1, <1>2, <1>7, <1>8, <1>9, ZenonT(60) DEF EngineInv, GoneOK, Needs

\* The engine of server s is told of a key of another server by the counts c or r.
LEMMA NotifiedOK ==
  ASSUME EngineInv, CacheSize > 0, NEW s \in Servers, NEW k \in Keys, Idle(s),
         Notified(s, k), ntfs[s][k] + rpcs[s][k] > 0,
         ntfs' \in Counts, rpcs' \in Counts,
         ntfs'[s][k] + rpcs'[s][k] = ntfs[s][k] + rpcs[s][k] - 1,
         \A u \in Servers, j \in Keys :
           u # s \/ j # k => ntfs'[u][j] = ntfs[u][j] /\ rpcs'[u][j] = rpcs[u][j]
  PROVE  EngineInv'
  <1>0. PICK e, c : e = eng[s] /\ c = dput[s]
    BY Zenon
  <1>1. /\ Types /\ OneAnswer /\ PlacesOK /\ GoneOK /\ TasksOK(eng, released, put, data)
        /\ \A u \in Servers : EngineOK(u, eng[u], dput[u], data)
        /\ e \in Engines /\ c \in Calls /\ EngineOK(s, e, c, data)
    BY <1>0, Zenon DEF EngineInv, Types
  <1>2. c.task = NoTask /\ ~c.sync
    BY <1>0, <1>1, Zenon DEF Idle, EngineOK, CallOK
  <1>3. /\ subs[s][k] \in Nat /\ lis[s][k] \in Nat /\ ntfs[s][k] \in Nat /\ rpcs[s][k] \in Nat
        /\ ~Owed(e, c, k) => ntfs[s][k] = 0 /\ rpcs[s][k] = 0
        /\ Owed(e, c, k) => subs[s][k] + lis[s][k] + ntfs[s][k] + rpcs[s][k] = 1
    BY <1>0, <1>1, OneOfFour, ZenonT(60)
  <1>4. k \in e.subscribed
    BY <1>2, <1>3, SMT, SMTT(30) DEF Owed
  <1>5. HomeOf[k] # s /\ data[k] # "open"
    BY <1>1, <1>3, SMT, SMTT(30) DEF PlacesOK
  <1>6. /\ subs[s][k] = 0 /\ lis[s][k] = 0 /\ ntfs[s][k] + rpcs[s][k] = 1
    <2>1. PICK x \in Nat, y \in Nat, z \in Nat, w \in Nat :
            x = subs[s][k] /\ y = lis[s][k] /\ z = ntfs[s][k] /\ w = rpcs[s][k]
      BY <1>3, Zenon
    <2>2. x + y + z + w = 1 /\ z + w > 0
      BY <1>3, <1>4, <2>1, ZenonT(60) DEF Owed
    <2>3. x = 0 /\ y = 0 /\ z + w = 1
      BY <2>2, SMT, SMTT(30)
    <2> QED
      BY <2>1, <2>3, Zenon
  <1>b. PICK remote \in BOOLEAN : remote = TRUE
    BY Zenon
  <1>7. PICK f : f = EngineClose(e, k, remote)
    BY Zenon
  <1>8. /\ f \in Engines /\ EngineOK(s, f, c, data)
        /\ f.subscribed = e.subscribed \ {k} /\ ReadyMoved(e, f, data)
        /\ CloseError(e, k, remote, c.task) = "ok"
    <2>1. Later(data, data) /\ Interruptible(s, c, k)
      BY <1>2, Zenon DEF Later, Interruptible
    <2> QED
      <3>1. Told(s, e, c, data, k, remote, f)
        BY <1>b, <1>1, <1>4, <1>5, <1>7, <2>1, CloseOK, ZenonT(60)
      <3> QED
        BY <3>1, Zenon DEF Told
  <1>9. /\ eng' = [eng EXCEPT ![s] = f] /\ fail' = "ok"
        /\ UNCHANGED <<data, dput, subs, lis, put, released>>
    BY <1>0, <1>b, <1>7, <1>8, ZenonT(60) DEF Notified
  <1>10. dput' = [dput EXCEPT ![s] = c]
    BY <1>0, <1>1, <1>9, ZenonT(60) DEF Types
  <1>11. /\ eng' \in [Servers -> Engines] /\ dput' \in [Servers -> Calls]
         /\ eng'[s] = f /\ dput'[s] = c
         /\ \A u \in Servers : u # s => eng'[u] = eng[u] /\ dput'[u] = dput[u]
         /\ \A u \in Servers : EngineOK(u, eng'[u], dput'[u], data')
    BY <1>1, <1>8, <1>9, <1>10, StepOf, ZenonT(60)
  <1>12. Types'
    BY <1>1, <1>9, <1>11, ZenonT(60) DEF Types
  <1>13. TasksOK(eng', released', put', data')
    <2>1. \A u \in Servers : ReadyMoved(eng[u], eng'[u], data)
      BY <1>0, <1>8, <1>11, ZenonT(60) DEF ReadyMoved
    <2>2. Later(data, data)
      BY Zenon DEF Later
    <2>3. TasksOK(eng', released, put, data)
      BY <1>1, <1>11, <2>1, <2>2, TasksMoved, ZenonT(60) DEF Types
    <2> QED
      BY <1>9, <2>3, ZenonT(60)
  <1>14. OneAnswer'
    <2>1. ASSUME NEW u \in Servers, NEW j \in Keys
          PROVE  Answered(u, j, eng'[u], dput'[u],
                          subs'[u][j] + lis'[u][j] + ntfs'[u][j] + rpcs'[u][j])
      <3>1. CASE u = s /\ j = k
        <4>1. ~Owed(eng'[u], dput'[u], j)
          BY <1>2, <1>8, <1>11, <3>1, ZenonT(60) DEF Owed
        <4>2. PICK z \in Nat, w \in Nat : z = ntfs'[s][k] /\ w = rpcs'[s][k]
          BY ZenonT(60) DEF Counts
        <4>5. z + w = 1 - 1
          BY <1>3, <1>6, <4>2, SMT, SMTT(30)
        <4>6. z = 0 /\ w = 0
          BY <4>5, SMT, SMTT(30)
        <4>3. subs'[s][k] = 0 /\ lis'[s][k] = 0 /\ ntfs'[s][k] = 0 /\ rpcs'[s][k] = 0
          BY <1>6, <1>9, <4>2, <4>6, ZenonT(60)
        <4> QED
          BY <3>1, <4>1, <4>3, SMT, SMTT(30) DEF Answered
      <3>2. CASE u # s \/ j # k
        <4>1. Owed(eng'[u], dput'[u], j) <=> Owed(eng[u], dput[u], j)
          BY <1>0, <1>2, <1>8, <1>11, <3>2, ZenonT(200) DEF Owed
        <4> QED
          BY <1>1, <1>9, <3>2, <4>1, OwedAnswers, ZenonT(200) DEF Answered
      <3> QED
        BY <3>1, <3>2, ZenonT(60)
    <2> QED
      BY <2>1, OwedAnswersNext, ZenonT(60)
  <1>15. PlacesOK'
    <2> SUFFICES ASSUME NEW u \in Servers, NEW j \in Keys
                 PROVE  /\ HomeOf[j] = u => subs[u][j] = 0 /\ ntfs'[u][j] = 0 /\ rpcs'[u][j] = 0
                        /\ data[j] = "open" => ntfs'[u][j] = 0 /\ rpcs'[u][j] = 0
                        /\ data[j] # "open" => lis[u][j] = 0
      BY <1>9, Zenon DEF PlacesOK
    <2>1. CASE u = s /\ j = k
      BY <1>1, <1>5, <2>1, Zenon DEF PlacesOK
    <2>2. CASE u # s \/ j # k
      BY <1>1, <2>2, ZenonT(200) DEF PlacesOK
    <2> QED
      BY <2>1, <2>2, Zenon
  <1> QED
    BY <1>1, <1>9, <1>11, <1>12, <1>13, <1>14, <1>15, ZenonT(60) DEF EngineInv, GoneOK, Needs

LEMMA NotifySyncOK ==
  ASSUME EngineInv, CacheSize > 0, NEW s \in Servers, NEW k \in Keys, NotifySync(s, k)
  PROVE  EngineInv'
  <1>1. /\ Idle(s) /\ Notified(s, k) /\ ntfs[s][k] > 0
        /\ ntfs' = Less(ntfs, s, k) /\ rpcs' = rpcs
    BY Zenon DEF NotifySync
  <1>2. /\ ntfs \in Counts /\ rpcs \in Counts
        /\ ntfs[s][k] \in Nat /\ rpcs[s][k] \in Nat
    BY ZenonT(60) DEF EngineInv, Types, Counts
  <1>3. Changed(ntfs, ntfs', s, k, ntfs[s][k] - 1)
    BY <1>1, <1>2, LessOK, Zenon
  <1>4. /\ ntfs' \in Counts /\ rpcs' \in Counts
        /\ ntfs[s][k] + rpcs[s][k] > 0
        /\ ntfs'[s][k] + rpcs'[s][k] = ntfs[s][k] + rpcs[s][k] - 1
        /\ \A u \in Servers, j \in Keys :
             u # s \/ j # k => ntfs'[u][j] = ntfs[u][j] /\ rpcs'[u][j] = rpcs[u][j]
    BY <1>1, <1>2, <1>3, SMT, SMTT(30) DEF Changed
  <1> QED
    BY <1>1, <1>4, NotifiedOK, Zenon

LEMMA NotifyRpcOK ==
  ASSUME EngineInv, CacheSize > 0, NEW s \in Servers, NEW k \in Keys, NotifyRpc(s, k)
  PROVE  EngineInv'
  <1>1. /\ Idle(s) /\ Notified(s, k) /\ rpcs[s][k] > 0
        /\ rpcs' = Less(rpcs, s, k) /\ ntfs' = ntfs
    BY Zenon DEF NotifyRpc
  <1>2. /\ ntfs \in Counts /\ rpcs \in Counts
        /\ ntfs[s][k] \in Nat /\ rpcs[s][k] \in Nat
    BY DEF EngineInv, Types, Counts
  <1>3. Changed(rpcs, rpcs', s, k, rpcs[s][k] - 1)
    BY <1>1, <1>2, LessOK, ZenonT(60)
  <1>4. /\ ntfs' \in Counts /\ rpcs' \in Counts
        /\ ntfs[s][k] + rpcs[s][k] > 0
        /\ ntfs'[s][k] + rpcs'[s][k] = ntfs[s][k] + rpcs[s][k] - 1
        /\ \A u \in Servers, j \in Keys :
             u # s \/ j # k => ntfs'[u][j] = ntfs[u][j] /\ rpcs'[u][j] = rpcs[u][j]
    BY <1>1, <1>2, <1>3, SMT, SMTT(30) DEF Changed
  <1> QED
    BY <1>1, <1>4, NotifiedOK, ZenonT(60)

\* A server that closes key k for its own engine: the home of k, which serves
\* others, or one outside xlb_engine_put().
MayTell(s, k) == Idle(s) \/ (s = HomeOf[k] /\ dput[s].sync)

\* It subscribed to the key, and is owed nothing for it by others.
LEMMA ToldShape ==
  ASSUME EngineInv, NEW k \in Keys, NEW s \in Servers, MayTell(s, k)
  PROVE  /\ ~(dput[s].sync /\ k = Inputs[dput[s].task][dput[s].next])
         /\ Interruptible(s, dput[s], k)
         /\ Hears(s, k) => /\ k \in eng[s].subscribed /\ lis[s][k] = 1
                           /\ subs[s][k] = 0 /\ ntfs[s][k] = 0 /\ rpcs[s][k] = 0
         /\ ~Hears(s, k) => lis[s][k] = 0
  <1>1. /\ Types /\ OneAnswer /\ EngineOK(s, eng[s], dput[s], data)
    BY Zenon DEF EngineInv
  <1>2. ~(dput[s].sync /\ k = Inputs[dput[s].task][dput[s].next])
    BY <1>1, Zenon DEF MayTell, Idle, EngineOK, CallOK
  <1>3. Interruptible(s, dput[s], k)
    BY Zenon DEF MayTell, Idle, Interruptible
  <1>4. PICK x \in Nat, y \in Nat, z \in Nat, w \in Nat :
          x = subs[s][k] /\ y = lis[s][k] /\ z = ntfs[s][k] /\ w = rpcs[s][k]
    BY <1>1, OneOfFour, ZenonT(60)
  <1>5. ASSUME Hears(s, k)
        PROVE  /\ k \in eng[s].subscribed /\ lis[s][k] = 1
               /\ subs[s][k] = 0 /\ ntfs[s][k] = 0 /\ rpcs[s][k] = 0
    <2>1. y > 0
      BY <1>4, <1>5, ZenonT(60) DEF Hears
    <2>2. Owed(eng[s], dput[s], k)
      BY <1>1, <1>4, <2>1, OneOfFour, SMT, SMTT(30)
    <2>3. x + y + z + w = 1
      BY <1>1, <1>4, <2>2, OneOfFour, ZenonT(60)
    <2>4. x = 0 /\ y = 1 /\ z = 0 /\ w = 0
      BY <2>1, <2>3, SMT, SMTT(30)
    <2> QED
      BY <1>2, <1>4, <2>2, <2>4, ZenonT(60) DEF Owed
  <1>6. ~Hears(s, k) => lis[s][k] = 0
    BY <1>4, SMT, SMTT(30) DEF Hears
  <1> QED
    BY <1>2, <1>3, <1>5, <1>6, ZenonT(60)

\* Key k is closed, and the servers not told of it get notifications.
LEMMA CloseKeyOK ==
  ASSUME EngineInv, CacheSize > 0, NEW k \in Keys, NEW told, CloseKey(k, told),
         HomeOf[k] \in told, \A s \in Servers : s \in told => MayTell(s, k),
         UNCHANGED <<dput, subs, put, released>>, ntfs' \in Counts, rpcs' \in Counts,
         \A s \in Servers, j \in Keys : j # k \/ s \in told =>
           ntfs'[s][j] = ntfs[s][j] /\ rpcs'[s][j] = rpcs[s][j],
         \A s \in Servers : s \notin told =>
           ntfs'[s][k] + rpcs'[s][k] = ntfs[s][k] + rpcs[s][k] + lis[s][k]
  PROVE  EngineInv'
  <1>1. /\ Types /\ OneAnswer /\ PlacesOK /\ GoneOK /\ TasksOK(eng, released, put, data)
        /\ \A u \in Servers : EngineOK(u, eng[u], dput[u], data)
        /\ \A u \in Servers : eng[u] \in Engines /\ dput[u] \in Calls
    BY Zenon DEF EngineInv, Types
  <1>2. /\ data[k] = "open" /\ data' = [data EXCEPT ![k] = "closed"]
        /\ lis' = [s \in Servers |-> [lis[s] EXCEPT ![k] = 0]]
    BY Zenon DEF CloseKey
  <1>3. /\ \A j \in Keys : data'[j] = IF j = k THEN "closed" ELSE data[j]
        /\ data' \in [Keys -> {"open", "closed", "gone"}]
    BY <1>1, <1>2, Zenon DEF Types
  <1>4. Later(data, data') /\ data'[k] # "open"
    BY <1>3, Zenon DEF Later
  <1>5. /\ lis' \in Counts
        /\ \A s \in Servers, j \in Keys : lis'[s][j] = IF j = k THEN 0 ELSE lis[s][j]
    BY <1>1, <1>2, Zenon DEF Types, Counts
  <1>6. PICK remote \in BOOLEAN : remote = FALSE
    BY Zenon
  <1>7. ASSUME NEW s \in Servers, s \in told, Hears(s, k)
        PROVE  /\ Told(s, eng[s], dput[s], data', k, remote, EngineClose(eng[s], k, remote))
               /\ HearError(s, k) = "ok"
    <2>1. /\ k \in eng[s].subscribed /\ lis[s][k] = 1 /\ Interruptible(s, dput[s], k)
      BY <1>7, ToldShape, Zenon
    <2>2. PICK f : f = EngineClose(eng[s], k, remote)
      BY Zenon
    <2>3. Told(s, eng[s], dput[s], data', k, remote, f)
      BY <1>1, <1>4, <1>6, <2>1, <2>2, CloseOK, ZenonT(60)
    <2>4. CloseError(eng[s], k, FALSE, dput[s].task) = "ok"
      BY <1>6, <2>3, Zenon DEF Told
    <2>5. HearError(s, k) = "ok"
      <3>1. ~(lis[s][k] > 1)
        BY <2>1, SMT, SMTT(30)
      <3> QED
        BY <1>7, <2>4, <3>1, ZenonT(60) DEF HearError
    <2> QED
      BY <2>2, <2>3, <2>5, Zenon
  <1>8. \A s \in Servers : s \in told => HearError(s, k) = "ok"
    BY <1>7, Zenon DEF HearError
  <1>9. /\ eng' = [s \in Servers |-> IF s \in told /\ Hears(s, k)
                                     THEN EngineClose(eng[s], k, remote) ELSE eng[s]]
        /\ fail' = "ok"
    BY <1>6, <1>8, Zenon DEF CloseKey
  <1>10. ASSUME NEW s \in Servers
         PROVE  /\ eng'[s] \in Engines /\ EngineOK(s, eng'[s], dput'[s], data')
                /\ ReadyMoved(eng[s], eng'[s], data')
                /\ IF s \in told /\ Hears(s, k) THEN eng'[s].subscribed = eng[s].subscribed \ {k}
                   ELSE eng'[s].subscribed = eng[s].subscribed
    <2>1. CASE s \in told /\ Hears(s, k)
      BY <1>7, <1>9, <2>1, Zenon DEF Told
    <2>2. CASE ~(s \in told /\ Hears(s, k))
      <3>1. eng'[s] = eng[s]
        BY <1>9, <2>2, Zenon
      <3>2. EngineOK(s, eng[s], dput[s], data')
        BY <1>1, <1>4, LaterOK, Zenon
      <3> QED
        BY <1>1, <2>2, <3>1, <3>2, Zenon DEF ReadyMoved
    <2> QED
      BY <2>1, <2>2, Zenon
  <1>11. eng' \in [Servers -> Engines]
    BY <1>9, <1>10, Zenon
  <1>12. Types'
    BY <1>1, <1>3, <1>5, <1>9, <1>11, ZenonT(60) DEF Types
  <1>13. TasksOK(eng', released', put', data')
    <2>1. TasksOK(eng', released, put, data')
      BY <1>1, <1>4, <1>10, <1>11, TasksMoved, ZenonT(60) DEF Types
    <2> QED
      BY <2>1, Zenon
  <1>14. OneAnswer'
    <2>1. ASSUME NEW u \in Servers, NEW j \in Keys
          PROVE  Answered(u, j, eng'[u], dput'[u],
                          subs'[u][j] + lis'[u][j] + ntfs'[u][j] + rpcs'[u][j])
      <3>1. CASE j = k /\ u \in told /\ Hears(u, k)
        <4>1. ~Owed(eng'[u], dput'[u], k)
          BY <1>10, <3>1, ToldShape, ZenonT(60) DEF Owed
        <4>2. /\ subs'[u][k] = 0 /\ lis'[u][k] = 0 /\ ntfs'[u][k] = 0 /\ rpcs'[u][k] = 0
          BY <1>5, <3>1, ToldShape
        <4> QED
          BY <3>1, <4>1, <4>2, SMT, SMTT(30) DEF Answered
      <3>2. CASE ~(j = k /\ u \in told /\ Hears(u, k))
        <4>1. Owed(eng'[u], dput'[u], j) <=> Owed(eng[u], dput[u], j)
          BY <1>10, <3>2, Zenon DEF Owed
        <4>2. subs'[u][j] + lis'[u][j] + ntfs'[u][j] + rpcs'[u][j]
                = subs[u][j] + lis[u][j] + ntfs[u][j] + rpcs[u][j]
          <5>1. CASE j # k
            BY <1>5, <5>1, Zenon
          <5>2. CASE j = k /\ u \in told
            <6>1. lis[u][k] = 0
              BY <3>2, <5>2, ToldShape, Zenon
            <6> QED
              BY <1>5, <5>2, <6>1, Zenon
          <5>3. CASE j = k /\ u \notin told
            <6>1. PICK x \in Nat, y \in Nat, z \in Nat, w \in Nat :
                    x = subs[u][k] /\ y = lis[u][k] /\ z = ntfs[u][k] /\ w = rpcs[u][k]
              BY <1>1, OneOfFour, ZenonT(60)
            <6>2. PICK z1 \in Nat, w1 \in Nat : z1 = ntfs'[u][k] /\ w1 = rpcs'[u][k]
              BY Zenon DEF Counts
            <6>3. z1 + w1 = z + w + y
              BY <5>3, <6>1, <6>2, ZenonT(60)
            <6>4. x + 0 + z1 + w1 = x + y + z + w
              BY <6>3, SMT, SMTT(30)
            <6>5. subs'[u][k] = x /\ lis'[u][k] = 0
              BY <1>5, <6>1, Zenon
            <6> QED
              BY <5>3, <6>1, <6>2, <6>4, <6>5, ZenonT(60)
          <5> QED
            BY <5>1, <5>2, <5>3, ZenonT(60)
        <4> QED
          BY <1>1, <4>1, <4>2, OwedAnswers, Zenon DEF Answered
      <3> QED
        BY <3>1, <3>2, ZenonT(60)
    <2> QED
      BY <2>1, OwedAnswersNext, Zenon
  <1>15. PlacesOK'
    <2> SUFFICES ASSUME NEW u \in Servers, NEW j \in Keys
                 PROVE  /\ HomeOf[j] = u => subs[u][j] = 0 /\ ntfs'[u][j] = 0 /\ rpcs'[u][j] = 0
                        /\ data'[j] = "open" => ntfs'[u][j] = 0 /\ rpcs'[u][j] = 0
                        /\ data'[j] # "open" => lis'[u][j] = 0
      BY Zenon DEF PlacesOK
    <2>1. CASE j = k
      BY <1>1, <1>3, <1>5, <2>1, ZenonT(200) DEF PlacesOK
    <2>2. CASE j # k
      BY <1>1, <1>3, <1>5, <2>2 DEF PlacesOK
    <2> QED
      BY <2>1, <2>2, ZenonT(60)
  <1>16. GoneOK'
    BY <1>1, <1>3, Zenon DEF GoneOK, Needs
  <1> QED
    BY <1>10, <1>12, <1>13, <1>14, <1>15, <1>16, ZenonT(60) DEF EngineInv

\* The notifications to the servers not told.
LEMMA TellOK ==
  ASSUME NEW c \in Counts, lis \in Counts, NEW k \in Keys, NEW told,
         NEW c1, c1 = Tell(c, k, told)
  PROVE  /\ c1 \in Counts
         /\ \A s \in Servers, j \in Keys : j # k \/ s \in told => c1[s][j] = c[s][j]
         /\ \A s \in Servers : s \notin told => c1[s][k] = c[s][k] + lis[s][k]
  <1>1. ASSUME NEW s \in Servers
        PROVE  /\ c1[s] \in [Keys -> Nat]
               /\ \A j \in Keys : j # k \/ s \in told => c1[s][j] = c[s][j]
               /\ s \notin told => c1[s][k] = c[s][k] + lis[s][k]
    <2>1. c1[s] = [c[s] EXCEPT ![k] = IF s \in told THEN @ ELSE @ + lis[s][k]]
      BY Zenon DEF Tell
    <2>2. c[s] \in [Keys -> Nat] /\ lis[s][k] \in Nat
      BY Zenon DEF Counts
    <2> QED
      BY <2>1, <2>2
  <1> QED
    BY <1>1, Zenon DEF Tell, Counts

LEMMA CloseByClientOK ==
  ASSUME EngineInv, CacheSize > 0, NEW k \in Keys, CloseByClient(k)
  PROVE  EngineInv'
  <1>1. PICK told : told = {HomeOf[k]}
    BY Zenon
  <1>2. /\ Idle(HomeOf[k]) /\ CloseKey(k, told) /\ rpcs' = Tell(rpcs, k, told)
        /\ UNCHANGED <<dput, subs, ntfs, put, released>>
    BY <1>1, Zenon DEF CloseByClient
  <1>3. /\ rpcs \in Counts /\ ntfs \in Counts /\ lis \in Counts
        /\ \A s \in Servers : ntfs[s][k] \in Nat /\ rpcs[s][k] \in Nat /\ lis[s][k] \in Nat
    BY DEF EngineInv, Types, Counts
  <1>4. /\ rpcs' \in Counts
        /\ \A s \in Servers, j \in Keys : j # k \/ s \in told => rpcs'[s][j] = rpcs[s][j]
        /\ \A s \in Servers : s \notin told => rpcs'[s][k] = rpcs[s][k] + lis[s][k]
    BY <1>2, <1>3, TellOK, SMT, SMTT(30)
  <1>5. HomeOf[k] \in told /\ \A s \in Servers : s \in told => MayTell(s, k)
    BY <1>1, <1>2, ZenonT(60) DEF MayTell
  <1>6. \A s \in Servers : s \notin told =>
          ntfs'[s][k] + rpcs'[s][k] = ntfs[s][k] + rpcs[s][k] + lis[s][k]
    BY <1>2, <1>3, <1>4, SMT, SMTT(30)
  <1>7. /\ ntfs' \in Counts
        /\ \A s \in Servers, j \in Keys : j # k \/ s \in told =>
             ntfs'[s][j] = ntfs[s][j] /\ rpcs'[s][j] = rpcs[s][j]
    BY <1>2, <1>3, <1>4, Zenon
  <1> QED
    BY <1>2, <1>4, <1>5, <1>6, <1>7, CloseKeyOK, Zenon

LEMMA CloseByServerOK ==
  ASSUME EngineInv, CacheSize > 0, NEW k \in Keys, NEW p \in Servers, CloseByServer(k, p)
  PROVE  EngineInv'
  <1>1. PICK told : told = {HomeOf[k], p}
    BY Zenon
  <1>2. /\ Idle(p) /\ Serving(HomeOf[k]) /\ CloseKey(k, told)
        /\ ntfs' = Tell(ntfs, k, told) /\ UNCHANGED <<dput, subs, rpcs, put, released>>
    BY <1>1, Zenon DEF CloseByServer
  <1>3. /\ rpcs \in Counts /\ ntfs \in Counts /\ lis \in Counts
        /\ \A s \in Servers : ntfs[s][k] \in Nat /\ rpcs[s][k] \in Nat /\ lis[s][k] \in Nat
    BY ZenonT(60) DEF EngineInv, Types, Counts
  <1>4. /\ ntfs' \in Counts
        /\ \A s \in Servers, j \in Keys : j # k \/ s \in told => ntfs'[s][j] = ntfs[s][j]
        /\ \A s \in Servers : s \notin told => ntfs'[s][k] = ntfs[s][k] + lis[s][k]
    BY <1>2, <1>3, TellOK, SMT, SMTT(30)
  <1>5. HomeOf[k] \in told /\ \A s \in Servers : s \in told => MayTell(s, k)
    BY <1>1, <1>2, ZenonT(60) DEF MayTell, Serving
  <1>6. \A s \in Servers : s \notin told =>
          ntfs'[s][k] + rpcs'[s][k] = ntfs[s][k] + rpcs[s][k] + lis[s][k]
    BY <1>2, <1>3, <1>4, SMT, SMTT(30)
  <1>7. /\ rpcs' \in Counts
        /\ \A s \in Servers, j \in Keys : j # k \/ s \in told =>
             ntfs'[s][j] = ntfs[s][j] /\ rpcs'[s][j] = rpcs[s][j]
    BY <1>2, <1>3, <1>4, Zenon
  <1> QED
    BY <1>2, <1>4, <1>5, <1>6, <1>7, CloseKeyOK, ZenonT(60)

-----------------------------------------------------------------------------
(* The theorems.  Data are not given up before the tasks that need them    *)
(* were put, and the caches of closed data have room for one key.          *)

LEMMA EngineStep ==
  ASSUME EngineInv, CacheSize > 0, ~FreeEarly, [Next]_vars
  PROVE  EngineInv'
  <1>1. ASSUME NEW s \in Servers, NEW t \in Tasks, Dput(s, t) PROVE EngineInv'
    BY <1>1, DputOK, Zenon
  <1>2. ASSUME NEW k \in Keys,
               CloseByClient(k) \/ Collect(k) \/ \E p \in Servers : CloseByServer(k, p)
        PROVE  EngineInv'
    BY <1>2, CloseByClientOK, CollectOK, CloseByServerOK, Zenon
  <1>3. ASSUME NEW s \in Servers, NEW k \in Keys,
               SubscribeSync(s, k) \/ NotifySync(s, k) \/ NotifyRpc(s, k)
        PROVE  EngineInv'
    BY <1>3, SubscribeSyncOK, NotifySyncOK, NotifyRpcOK, Zenon
  <1>4. ASSUME NEW s \in Servers, ReadyWork(s) PROVE EngineInv'
    BY <1>4, ReadyWorkOK, Zenon
  <1>5. ASSUME NEW s \in Servers, Put(s) PROVE EngineInv'
    BY <1>5, InputSubscribedOK, InputHereOK, InputReadyOK, InputThereOK,
       SubscribeSentOK, PutDoneOK, ZenonT(60) DEF Put
  <1>6. CASE UNCHANGED vars
    <2>1. /\ data' = data /\ eng' = eng /\ dput' = dput /\ subs' = subs /\ lis' = lis
          /\ ntfs' = ntfs /\ rpcs' = rpcs /\ put' = put /\ released' = released
          /\ fail' = fail
      BY <1>6, Zenon DEF vars
    <2>2. Types'
      BY <2>1, Zenon DEF EngineInv, Types
    <2>3. OneAnswer'
      BY <2>1, Zenon DEF EngineInv, OneAnswer, Subscribing
    <2>4. PlacesOK' /\ GoneOK'
      BY <2>1, Zenon DEF EngineInv, PlacesOK, GoneOK, Needs
    <2> QED
      BY <2>1, <2>2, <2>3, <2>4, Zenon DEF EngineInv
  <1> QED
    BY <1>1, <1>2, <1>3, <1>4, <1>5, <1>6, ZenonT(60) DEF Next, Serve

\* The inductive invariant: what every engine knows of its transforms, of the
\* keys that block them and of closed keys agrees with the data, and a task and
\* a subscription are at one place.
THEOREM EngineInvariant ==
  ASSUME CacheSize > 0, ~FreeEarly
  PROVE  Spec => []EngineInv
  <1>1. EngineInv /\ [Next]_vars => EngineInv'
    BY EngineStep, Zenon
  <1> QED
    BY <1>1, InitOK, PTL DEF Spec

\* No server stops: no assertion of xlb_engine_close() fails, no transform is
\* used after it was freed, every datum that is subscribed to is found; and the
\* caches hold only closed keys of other servers, within their size.
THEOREM EngineTypes ==
  ASSUME CacheSize > 0, ~FreeEarly
  PROVE  Spec => []TypeOK
  <1>1. EngineInv => TypeOK
    <2> SUFFICES ASSUME EngineInv PROVE TypeOK
      BY Zenon
    <2>1. fail = "ok" /\ data \in [Keys -> {"open", "closed", "gone"}]
      BY DEF EngineInv, Types
    <2>2. ASSUME NEW s \in Servers
          PROVE  /\ Len(eng[s].cache) <= CacheSize
                 /\ Len(eng[s].subCache) <= CacheSize
                 /\ eng[s].subscribed \subseteq Keys
                 /\ DOMAIN eng[s].transforms \subseteq put
                 /\ \A k \in Range(eng[s].cache) \cup Range(eng[s].subCache) :
                      data[k] # "open" /\ HomeOf[k] # s
      <3>1. PICK e : e = eng[s]
        BY Zenon
      <3>2. e \in Engines /\ CacheOK(s, e.cache, data) /\ CacheOK(s, e.subCache, data)
        BY <3>1, Zenon DEF EngineInv, Types, EngineOK
      <3>3. e.cache \in Seq(Keys) /\ e.subCache \in Seq(Keys) /\ e.subscribed \subseteq Keys
        BY <3>2, Zenon DEF Engines
      <3>4. ASSUME NEW q \in Seq(Keys), CacheOK(s, q, data), NEW k \in Range(q)
            PROVE  data[k] # "open" /\ HomeOf[k] # s
        <4>1. PICK i \in 1..Len(q) : q[i] = k
          BY SMT, SMTT(30) DEF Range
        <4> QED
          BY <3>4, <4>1, Zenon DEF CacheOK
      <3>5. DOMAIN e.transforms \subseteq put
        <4>1. ASSUME NEW t \in DOMAIN e.transforms PROVE t \in put
          BY <3>1, <3>2, TableType, ZenonT(60) DEF EngineInv, TasksOK
        <4> QED
          BY <4>1, Zenon
      <3> QED
        BY <3>1, <3>2, <3>3, <3>4, <3>5, Zenon DEF CacheOK
    <2> QED
      BY <2>1, <2>2, Zenon DEF TypeOK
  <1> QED
    BY <1>1, EngineInvariant, PTL

\* A subscription, its entry in a list of listeners or its notification is in
\* one place until xlb_engine_close(): was_subscribed cannot fail.
THEOREM OneAnswerAlways ==
  ASSUME CacheSize > 0, ~FreeEarly
  PROVE  Spec => []OneAnswer
  <1>1. EngineInv => OneAnswer
    BY Zenon DEF EngineInv
  <1> QED
    BY <1>1, EngineInvariant, PTL

\* A task on the list of waiting transforms is blocked by an open input, and by
\* each input that is not marked closed.
THEOREM WaitsAlways ==
  ASSUME CacheSize > 0, ~FreeEarly
  PROVE  Spec => []WaitsForSomething
  <1>1. EngineInv => WaitsForSomething
    <2> SUFFICES ASSUME EngineInv, NEW s \in Servers,
                        NEW t \in DOMAIN eng[s].transforms, t # dput[s].task
                 PROVE  LET T == eng[s].transforms[t]
                        IN  /\ T.blocker \in DOMAIN Inputs[t] \ T.closed
                            /\ \A i \in DOMAIN Inputs[t] :
                                 IF i \in T.closed THEN data[Inputs[t][i]] # "open"
                                 ELSE /\ t \in Range(eng[s].blockers[Inputs[t][i]])
                                      /\ Inputs[t][i] \in eng[s].subscribed
      BY Zenon DEF WaitsForSomething
    <2>1. PICK e, T : e = eng[s] /\ T = e.transforms[t]
      BY Zenon
    <2>2. /\ e \in Engines /\ BlockersOK(e, dput[s])
          /\ TransformOK(e, data, t, T, Len(Inputs[t]) + 1) /\ Waiting(t, T)
      BY <2>1, Zenon DEF EngineInv, Types, EngineOK, TransformsOK
    <2>3. /\ t \in Tasks /\ DOMAIN Inputs[t] = 1..Len(Inputs[t]) /\ Len(Inputs[t]) \in Nat
          /\ \A i \in 1..Len(Inputs[t]) : Inputs[t][i] \in Keys
      BY <2>1, <2>2, TableType, InputsType, Zenon
    <2>4. T.blocker \in 1..Len(Inputs[t]) /\ T.blocker \notin T.closed
      BY <2>2, Zenon DEF Waiting
    <2>5. ASSUME NEW i \in 1..Len(Inputs[t]), i \notin T.closed
          PROVE  /\ t \in Range(e.blockers[Inputs[t][i]])
                 /\ Inputs[t][i] \in e.subscribed
      <3>1. PICK b : b = e.blockers[Inputs[t][i]]
        BY Zenon
      <3>2. PICK j \in 1..Len(b) : b[j] = t
        BY <2>2, <2>3, <2>5, <3>1, SMT, SMTT(30) DEF TransformOK
      <3>3. b \in Seq(Tasks)
        BY <2>2, <2>3, <3>1, Zenon DEF Engines
      <3>4. t \in Range(b) /\ b # <<>>
        BY <3>2, <3>3, SMT, SMTT(30) DEF Range
      <3> QED
        BY <2>2, <2>3, <3>1, <3>4, Zenon DEF BlockersOK
    <2>6. \A i \in 1..Len(Inputs[t]) : i \in T.closed => data[Inputs[t][i]] # "open"
      BY <2>2, Zenon DEF TransformOK
    <2> QED
      BY <2>1, <2>3, <2>4, <2>5, <2>6, Zenon
  <1> QED
    BY <1>1, EngineInvariant, PTL

\* A step that changes neither the data nor what was put, and releases tasks or
\* none: those released now were not before, and all their inputs are closed.
LEMMA ReleaseStep ==
  ASSUME EngineInv, EngineInv', UNCHANGED <<data, put>>,
         \A t \in Tasks : released'[t] >= released[t]
  PROVE  \E S \in SUBSET Tasks : Promise!Release(S)
  <1>1. PICK S : S = {t \in Tasks : released'[t] # released[t]}
    BY Zenon
  <1>2. released \in [Tasks -> Nat] /\ released' \in [Tasks -> Nat]
    BY Zenon DEF EngineInv, Types
  <1>3. ASSUME NEW t \in S
        PROVE  /\ t \in Tasks /\ released[t] = 0 /\ released'[t] = 1
               /\ t \in put /\ InputsClosed(data, t)
    <2>1. t \in Tasks /\ released'[t] > 0 /\ released'[t] > released[t]
      BY <1>1, <1>2, SMT, SMTT(30)
    <2>2. released'[t] = 1 /\ t \in put /\ InputsClosed(data, t)
      BY <2>1, Zenon DEF EngineInv, TasksOK
    <2> QED
      BY <1>2, <2>1, <2>2, SMT, SMTT(30)
  <1>4. ASSUME NEW t \in S PROVE Promise!ReadyFor(t)
    <2>1. /\ t \in Tasks /\ \A i \in 1..Len(Inputs[t]) : data[Inputs[t][i]] # "open"
      BY <1>3, Zenon DEF InputsClosed
    <2>2. Range(Inputs[t]) \subseteq {k \in Keys : data[k] # "open"}
      BY <2>1, InputsType, Zenon DEF Range
    <2> QED
      BY <2>2, Zenon DEF Promise!ReadyFor, Promise!Range, Range
  <1>5. released' = [t \in Tasks |-> IF t \in S THEN 1 ELSE released[t]]
    BY <1>1, <1>2, <1>3, Zenon
  <1> QED
    BY <1>1, <1>3, <1>4, <1>5, Zenon DEF Promise!Release

\* Every step of the engines is one of the abstract specification, or changes
\* nothing of what it speaks about.
LEMMA PromiseStep ==
  ASSUME EngineInv, EngineInv', [Next]_vars
  PROVE  [Promise!Next]_<<{k \in Keys : data[k] # "open"}, put, released>>
  <1>d. data \in [Keys -> {"open", "closed", "gone"}] /\ released \in [Tasks -> Nat]
    BY Zenon DEF EngineInv, Types
  <1>1. ASSUME NEW s \in Servers, NEW t \in Tasks, Dput(s, t) PROVE Promise!PutTask(t)
    BY <1>1, Zenon DEF Dput, Promise!PutTask
  <1>2. ASSUME NEW k \in Keys,
               CloseByClient(k) \/ \E p \in Servers : CloseByServer(k, p)
        PROVE  Promise!CloseKey(k)
    <2>0. PICK told : CloseKey(k, told) /\ put' = put /\ released' = released
      BY <1>2, Zenon DEF CloseByClient, CloseByServer
    <2>1. /\ data' = [data EXCEPT ![k] = "closed"]
          /\ UNCHANGED <<put, released>>
      BY <2>0, Zenon DEF CloseKey
    <2>2. {j \in Keys : data'[j] # "open"} = {j \in Keys : data[j] # "open"} \cup {k}
      BY <1>d, <2>1, Zenon
    <2> QED
      BY <2>1, <2>2, Zenon DEF Promise!CloseKey
  <1>3. ASSUME NEW k \in Keys, Collect(k)
        PROVE  UNCHANGED <<{j \in Keys : data[j] # "open"}, put, released>>
    <2>1. /\ data[k] = "closed" /\ data' = [data EXCEPT ![k] = "gone"]
          /\ UNCHANGED <<put, released>>
      BY <1>3, Zenon DEF Collect
    <2>2. {j \in Keys : data'[j] # "open"} = {j \in Keys : data[j] # "open"}
      BY <1>d, <2>1, Zenon
    <2> QED
      BY <2>1, <2>2, Zenon
  <1>4. ASSUME Serve \/ UNCHANGED vars
        PROVE  \E S \in SUBSET Tasks : Promise!Release(S)
    <2>a. ASSUME NEW s \in Servers, NEW k \in Keys,
                 SubscribeSync(s, k) \/ NotifySync(s, k) \/ NotifyRpc(s, k)
          PROVE  data' = data /\ put' = put /\ released' = released
      BY <2>a, Zenon DEF SubscribeSync, NotifySync, NotifyRpc, Notified
    <2>b. ASSUME NEW s \in Servers, NEW k \in Keys,
                 \/ InputSubscribed(s, k) \/ InputHere(s, k) \/ InputReady(s, k)
                 \/ InputThere(s, k)
          PROVE  data' = data /\ put' = put /\ released' = released
      BY <2>b, Zenon
         DEF InputSubscribed, InputHere, InputReady, InputThere
    <2>c. ASSUME NEW s \in Servers, SubscribeSent(s) \/ PutDone(s) \/ ReadyWork(s)
          PROVE  /\ data' = data /\ put' = put
                 /\ SubscribeSent(s) => released' = released
      BY <2>c, Zenon DEF SubscribeSent, PutDone, ReadyWork
    <2>1. /\ data' = data /\ put' = put
          /\ released' = released \/ \E s \in Servers : PutDone(s) \/ ReadyWork(s)
      <3>1. CASE Serve
        BY <3>1, <2>a, <2>b, <2>c, ZenonT(60) DEF Serve, Put
      <3>2. CASE UNCHANGED vars
        BY <3>2, Zenon DEF vars
      <3> QED
        BY <1>4, <3>1, <3>2, Zenon
    <2>2. ASSUME NEW t \in Tasks PROVE released'[t] >= released[t]
      <3>1. CASE UNCHANGED released
        BY <1>d, <3>1, SMT, SMTT(30)
      <3>2. ASSUME NEW s \in Servers, PutDone(s) PROVE released'[t] >= released[t]
        <4>1. PICK u : UNCHANGED released \/ released' = [released EXCEPT ![u] = @ + 1]
          BY <3>2, Zenon DEF PutDone
        <4> QED
          BY <1>d, <4>1, SMT, SMTT(30)
      <3>3. ASSUME NEW s \in Servers, ReadyWork(s) PROVE released'[t] >= released[t]
        <4>1. released'[t] = released[t] + eng[s].ready[t]
          BY <3>3, Zenon DEF ReadyWork
        <4>2. eng[s].ready[t] \in Nat
          BY ZenonT(200) DEF EngineInv, Types, Engines
        <4> QED
          BY <1>d, <4>1, <4>2, SMT, SMTT(30)
      <3> QED
        BY <2>1, <3>1, <3>2, <3>3, ZenonT(60)
    <2> QED
      BY <2>1, <2>2, ReleaseStep, Zenon
  <1> QED
    BY <1>1, <1>2, <1>3, <1>4, Zenon DEF Next, Promise!Next

\* The engines do what ADLB_Dput promises: a task is released once, and only
\* when all its inputs have closed.
THEOREM EnginesPromise ==
  ASSUME CacheSize > 0, ~FreeEarly
  PROVE  Spec => Promised
  <1>1. Init => Promise!Init
    <2> SUFFICES ASSUME Init PROVE Promise!Init
      OBVIOUS
    <2>1. {k \in Keys : data[k] # "open"} = {}
      BY DEF Init
    <2> QED
      BY <2>1 DEF Init, Promise!Init
  <1>2. EngineInv /\ EngineInv' /\ [Next]_vars
          => [Promise!Next]_<<{k \in Keys : data[k] # "open"}, put, released>>
    BY PromiseStep
  <1> QED
    BY <1>1, <1>2, EngineInvariant, PTL DEF Spec, Promised, Promise!Spec
=============================================================================
