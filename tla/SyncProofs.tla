----------------------------- MODULE SyncProofs -----------------------------
(***************************************************************************)
(* Proofs about the sync protocol, for any number of servers and any       *)
(* bounds: type correctness, what a server at the top of its loop may rely *)
(* on, also during a shutdown, and lemmas on the requests on a channel.    *)
(***************************************************************************)
EXTENDS Sync, TLAPS

-----------------------------------------------------------------------------
(* Type correctness.                                                       *)

\* The master and its neighbour are servers, and no server is None.
LEMMA Ranks == /\ Master \in Servers /\ 2 \in Servers /\ None \notin Servers
               /\ \A s \in Servers : s \in Nat
  BY NAssumption DEF Master, Servers, None

LEMMA NoIndex == 1..Len(<<>>) = {}
  OBVIOUS

\* Taking the first message of a channel leaves a network.
LEMMA TakeType ==
  ASSUME net \in [Pairs -> Seq(Modes)], NEW f \in Servers, NEW s \in Servers,
         net[<<f, s>>] # <<>>
  PROVE  Take(f, s) \in [Pairs -> Seq(Modes)] /\ Head(net[<<f, s>>]) \in Modes
  <1>1. <<f, s>> \in Pairs
    BY DEF Pairs
  <1>2. net[<<f, s>>] \in Seq(Modes) /\ net[<<f, s>>] # <<>>
    BY <1>1
  <1> QED
    BY <1>1, <1>2 DEF Take

\* The entry of xlb_sync2() keeps the types of what it changes.
LEMMA Sync2Type ==
  ASSUME TypeOK, NEW s \in Servers, NEW t \in Servers, NEW m \in Modes,
         NEW net0 \in [Pairs -> Seq(Modes)], Sync2(s, t, m, net0)
  PROVE  /\ net' \in [Pairs -> Seq(Modes)]
         /\ rpcs' \in [Pairs -> Seq(RpcTags)]
         /\ syncing' \in [Servers -> SyncRecords]
         /\ calling' \in [Servers -> Servers \cup {None}]
  <1>1. <<s, t>> \in Pairs
    BY DEF Pairs
  <1>2. CASE s \notin shutting \/ m = "SHUTDOWN"
    <2>1. /\ syncing' = [syncing EXCEPT
                          ![s] = [to |-> t, mode |-> m, accepted |-> FALSE]]
          /\ net' = [net0 EXCEPT ![<<s, t>>] = Append(@, m)]
          /\ UNCHANGED <<rpcs, calling>>
      BY <1>2, Zenon DEF Sync2
    <2>2. net' \in [Pairs -> Seq(Modes)]
      BY <2>1, <1>1
    <2>3. [to |-> t, mode |-> m, accepted |-> FALSE] \in SyncRecords
      BY DEF SyncRecords
    <2> QED
      BY <2>1, <2>2, <2>3, Zenon DEF TypeOK
  <1>3. CASE s \in shutting /\ m # "SHUTDOWN" /\ m = "REQUEST"
    <2>1. /\ net' = net0 /\ UNCHANGED syncing /\ Call(s, t)
      BY <1>3 DEF Sync2
    <2>2. PICK r \in RpcTags : rpcs' = [rpcs EXCEPT ![<<s, t>>] = Append(@, r)]
      BY <2>1, ParamsAssumption, Zenon DEF Call, RpcTags
    <2> QED
      BY <2>1, <2>2, <1>1, SMT, SMTT(30) DEF TypeOK, Call
  <1>4. CASE s \in shutting /\ m # "SHUTDOWN" /\ m # "REQUEST"
    BY <1>4 DEF Sync2, TypeOK
  <1> QED
    BY <1>2, <1>3, <1>4

\* What AcceptSync() changes, with the types it keeps.
HandlerTypes ==
  /\ net' \in [Pairs -> Seq(Modes)]
  /\ rpcs' \in [Pairs -> Seq(RpcTags)]
  /\ syncing' \in [Servers -> SyncRecords]
  /\ serving' \in [Servers -> Servers \cup {None}]
  /\ sending' \in [Servers -> Servers \cup {None}]
  /\ calling' \in [Servers -> Servers \cup {None}]
  /\ phase' \in [Servers -> Phases]
  /\ ready' \in [Servers -> BOOLEAN]
  /\ probes' \in [Servers -> SUBSET Servers]
  /\ shutting' \subseteq Servers

\* xlb_accept_sync() of a REQUEST or STEAL keeps the types.
LEMMA ServeType ==
  ASSUME TypeOK, NEW s \in Servers, NEW f \in Servers, NEW m \in Modes,
         NEW net0 \in [Pairs -> Seq(Modes)], Serve(s, f, m, net0)
  PROVE  /\ net' \in [Pairs -> Seq(Modes)]
         /\ rpcs' \in [Pairs -> Seq(RpcTags)]
         /\ syncing' \in [Servers -> SyncRecords]
         /\ serving' \in [Servers -> Servers \cup {None}]
         /\ sending' \in [Servers -> Servers \cup {None}]
         /\ calling' \in [Servers -> Servers \cup {None}]
  <1>1. syncing[f] \in SyncRecords
    BY DEF TypeOK
  <1>2. [syncing[f] EXCEPT !.accepted = @ \/ syncing[f].to = s] \in SyncRecords
    BY <1>1, Zenon DEF SyncRecords
  <1>3. syncing' \in [Servers -> SyncRecords]
    BY <1>2, Zenon DEF Serve, Respond, TypeOK
  <1> QED
    BY <1>3 DEF Serve, TypeOK

\* The handler of any sync message keeps the types.
LEMMA AcceptSyncType ==
  ASSUME TypeOK, NEW s \in Servers, NEW f \in Servers, NEW m \in Modes,
         NEW net0 \in [Pairs -> Seq(Modes)], AcceptSync(s, f, m, net0)
  PROVE  HandlerTypes
  <1> USE DEF HandlerTypes
  <1>0. {"drain", "refcount"} \subseteq Phases
    BY DEF Phases
  <1>00. {"STEAL_PROBE_RESP", "STEAL", "NOTIFY"} \subseteq Modes
    BY DEF Modes
  <1>1. CASE Serve(s, f, m, net0) /\ To(s, "drain")
             /\ UNCHANGED <<ready, probes, shutting>>
    BY <1>1, <1>0, ServeType DEF To, TypeOK
  <1>2. CASE HandleStealProbe(s, f, net0)
    <2>1. Sync2(s, f, "STEAL_PROBE_RESP", net0)
      BY <1>2 DEF HandleStealProbe
    <2> QED
      BY <1>2, <2>1, <1>0, <1>00, Sync2Type, Zenon DEF HandleStealProbe, To, TypeOK
  <1>3. CASE HandleStealProbeResp(s, f, net0)
    <2>1. /\ net' \in [Pairs -> Seq(Modes)]
          /\ rpcs' \in [Pairs -> Seq(RpcTags)]
          /\ syncing' \in [Servers -> SyncRecords]
          /\ calling' \in [Servers -> Servers \cup {None}]
      <3>1. CASE Sync2(s, f, "STEAL", net0)
        BY <3>1, <1>00, Sync2Type
      <3>2. CASE NoSync2(net0)
        BY <3>2 DEF NoSync2, TypeOK
      <3> QED
        BY <1>3, <3>1, <3>2 DEF HandleStealProbeResp
    <2> QED
      BY <1>3, <2>1, <1>0, Zenon DEF HandleStealProbeResp, To, TypeOK
  <1>4. CASE HandleRefcount(s, net0)
    BY <1>4, <1>0 DEF HandleRefcount, NoSync2, To, TypeOK
  <1>5. CASE SendNotify(s, f, net0)
    <2>1. Sync2(s, f, "NOTIFY", net0)
      BY <1>5 DEF SendNotify
    <2> QED
      BY <1>5, <2>1, <1>0, <1>00, Sync2Type, Zenon DEF SendNotify, To, TypeOK
  <1>6. CASE Subscribed(s, net0)
    BY <1>6, <1>0 DEF Subscribed, NoSync2, To, TypeOK
  <1>7. CASE HandleNotify(s, net0)
    BY <1>7, <1>0, Zenon DEF HandleNotify, NoSync2, To, TypeOK
  <1>8. CASE HandleShutdown(s, net0)
    BY <1>8, <1>0 DEF HandleShutdown, NoSync2, To, TypeOK
  <1> QED
    BY <1>1, <1>2, <1>3, <1>4, <1>5, <1>6, <1>7, <1>8 DEF AcceptSync

\* The handler of an RPC keeps the types.
LEMMA HandleRpcType ==
  ASSUME TypeOK, NEW s \in Servers, NEW f \in Servers, HandleRpc(s, f)
  PROVE  /\ rpcs' \in [Pairs -> Seq(RpcTags)]
         /\ calling' \in [Servers -> Servers \cup {None}]
         /\ replying' \in [Servers -> Servers \cup {None}]
         /\ ready' \in [Servers -> BOOLEAN]
         /\ answer' \in BOOLEAN
  <1>1. <<f, s>> \in Pairs /\ rpcs[<<f, s>>] \in Seq(RpcTags)
    BY DEF Pairs, TypeOK
  <1>2. rpcs' \in [Pairs -> Seq(RpcTags)]
    BY <1>1 DEF HandleRpc, HandleStore, HandlePut, HandleCheckIdle,
         HandleDoNothing, TypeOK
  <1>3. (WorkersIdle(s) /\ ~HavePendingNotifs(s)) \in BOOLEAN
    OBVIOUS
  <1> QED
    BY <1>2, <1>3, ZenonT(30)
       DEF HandleRpc, HandleStore, HandlePut, HandleCheckIdle,
         HandleDoNothing, TypeOK

\* A new entry of the pending list has its type.
LEMMA EnqueueType ==
  ASSUME TypeOK, NEW s \in Servers, NEW f \in Servers, NEW k \in Kinds,
         NEW m \in Modes, Enqueue(s, k, f, m)
  PROVE  pending' \in [Servers -> Seq(PendingRecords)]
  <1>1. [kind |-> k, rank |-> f, mode |-> m] \in PendingRecords
    BY DEF PendingRecords
  <1> QED
    BY <1>1 DEF Enqueue, TypeOK

\* A sync that is interrupted keeps the types.
LEMMA InterruptType ==
  ASSUME TypeOK, NEW s \in Servers, NEW f \in Servers \ {s}, Interrupt(s, f)
  PROVE  TypeOK'
  <1> DEFINE m == Head(net[<<f, s>>])
  <1>1. Take(f, s) \in [Pairs -> Seq(Modes)] /\ m \in Modes
    BY TakeType DEF Interrupt, TypeOK
  <1>2. Kinds = {"DEFERRED_SYNC", "ACCEPTED_REFC", "DEFERRED_NOTIFY",
                 "UNSENT_NOTIFY", "DEFERRED_STEAL_PROBE",
                 "DEFERRED_STEAL_PROBE_RESP"}
    BY DEF Kinds
  <1>0. UNCHANGED <<replying, phase, stealing, ready, checking, answer,
                    clients, sent, aborted>>
    BY DEF Interrupt, bound
  <1> HIDE DEF m
  <1>3. CASE /\ Serve(s, f, m, Take(f, s))
             /\ UNCHANGED <<pending, shutting, probes>>
    BY <1>0, <1>1, <1>3, ServeType, Zenon DEF TypeOK
  <1>4. CASE /\ Defer(s, f, m) /\ NoSync2(Take(f, s))
             /\ UNCHANGED <<serving, sending, shutting, probes>>
    <2>1. pending' \in [Servers -> Seq(PendingRecords)]
      BY <1>1, <1>2, <1>4, EnqueueType DEF Defer, TypeOK
    <2> QED
      BY <1>0, <1>1, <1>4, <2>1, Zenon DEF NoSync2, TypeOK
  <1>5. CASE CancelSync(s, f) /\ UNCHANGED <<pending, serving, sending>>
    <2> DEFINE t == syncing[s].to
    <2>1. t \in Servers /\ <<s, t>> \in Pairs
      BY Zenon DEF Interrupt, InSync, TypeOK, SyncRecords, Pairs
    <2>2. net' \in [Pairs -> Seq(Modes)]
      <3> DEFINE q == Take(f, s)[<<s, t>>]
      <3>1. q \in Seq(Modes)
        BY <1>1, <2>1
      <3>2. q # <<>> => SubSeq(q, 1, Len(q) - 1) \in Seq(Modes)
        BY <3>1
      <3> HIDE DEF q
      <3>3. \/ net' = Take(f, s)
            \/ q # <<>> /\ net' = [Take(f, s) EXCEPT
                   ![<<s, t>>] = SubSeq(q, 1, Len(q) - 1)]
        BY <1>5, <2>1, <1>1, Zenon DEF CancelSync, q
      <3> QED
        BY <3>2, <3>3, <1>1, <2>1, Zenon
    <2>3. rpcs' \in [Pairs -> Seq(RpcTags)]
      <3>1. CASE UNCHANGED rpcs
        BY <3>1 DEF TypeOK
      <3>2. CASE \E r \in Rpcs : rpcs' = [rpcs EXCEPT
                   ![<<s, t>>] = @ \o <<"DO_NOTHING", r>>]
        <4>1. PICK r \in RpcTags : rpcs' = [rpcs EXCEPT
                   ![<<s, t>>] = @ \o <<"DO_NOTHING", r>>]
          BY <3>2, ParamsAssumption, Zenon DEF RpcTags
        <4>2. <<"DO_NOTHING", r>> \in Seq(RpcTags)
          BY DEF RpcTags
        <4>3. rpcs[<<s, t>>] \o <<"DO_NOTHING", r>> \in Seq(RpcTags)
          BY <4>2, <2>1 DEF TypeOK
        <4> QED
          BY <4>1, <4>3, <2>1 DEF TypeOK
      <3> QED
        BY <1>5, <3>1, <3>2, Zenon DEF CancelSync
    <2>4. NoSync \in SyncRecords
      BY DEF NoSync, SyncRecords, Modes
    <2>5. /\ syncing' \in [Servers -> SyncRecords]
          /\ calling' \in [Servers -> Servers \cup {None}]
          /\ probes' \in [Servers -> SUBSET Servers]
          /\ shutting' \subseteq Servers
      BY <1>5, <2>1, <2>4, Zenon DEF CancelSync, EndSync, TypeOK
    <2> QED
      BY <1>0, <1>5, <2>2, <2>3, <2>5 DEF TypeOK
  <1>6. CASE /\ Enqueue(s, "DEFERRED_SYNC", f, m) /\ NoSync2(Take(f, s))
             /\ UNCHANGED <<serving, sending, shutting, probes>>
    <2>1. pending' \in [Servers -> Seq(PendingRecords)]
      BY <1>1, <1>2, <1>6, EnqueueType
    <2> QED
      BY <1>0, <1>1, <1>6, <2>1, Zenon DEF NoSync2, TypeOK
  <1> QED
    BY <1>3, <1>4, <1>5, <1>6 DEF Interrupt, m

\* Every step keeps the types.
LEMMA TypeStep == TypeOK /\ [Next]_vars => TypeOK'
  <1> SUFFICES ASSUME TypeOK, [Next]_vars PROVE TypeOK'
    OBVIOUS
  <1> USE DEF chans, calls, loopv, idlev, bound
  <1>m. /\ {"REQUEST", "STEAL_PROBE", "STEAL_PROBE_RESP", "STEAL", "REFCOUNT",
             "SUBSCRIBE", "NOTIFY", "SHUTDOWN"} \subseteq Modes
        /\ {"loop", "client", "refcount", "drain", "idle_check", "shutdown",
            "down"} \subseteq Phases
        /\ NoSync \in SyncRecords
    BY DEF Modes, Phases, NoSync, SyncRecords
  <1>1. ASSUME NEW s \in Servers, SyncAccepted(s) PROVE TypeOK'
    <2> DEFINE t == syncing[s].to
    <2>1. t \in Servers /\ <<s, t>> \in Pairs
      BY <1>1, Zenon DEF SyncAccepted, InSync, TypeOK, SyncRecords, Pairs
    <2>2. /\ rpcs' \in [Pairs -> Seq(RpcTags)]
          /\ calling' \in [Servers -> Servers \cup {None}]
      <3>1. CASE Call(s, t)
        <4>1. PICK r \in RpcTags : rpcs' = [rpcs EXCEPT ![<<s, t>>] = Append(@, r)]
          BY <3>1, ParamsAssumption, Zenon DEF Call, RpcTags
        <4> QED
          BY <3>1, <4>1, <2>1, SMT, SMTT(30) DEF Call, TypeOK
      <3>2. CASE UNCHANGED <<rpcs, calling>>
        BY <3>2 DEF TypeOK
      <3> QED
        BY <1>1, <3>1, <3>2, Zenon DEF SyncAccepted
    <2>3. /\ syncing' \in [Servers -> SyncRecords]
          /\ sending' \in [Servers -> Servers \cup {None}]
      BY <1>1, <1>m, <2>1, Zenon DEF SyncAccepted, EndSync, TypeOK
    <2> QED
      BY <1>1, <2>2, <2>3, Zenon DEF SyncAccepted, TypeOK
  <1>2. ASSUME NEW s \in Servers, SyncSent(s) PROVE TypeOK'
    <2>1. syncing[s].to \in Servers
      BY <1>2 DEF SyncSent, InSync, TypeOK, SyncRecords
    <2> QED
      BY <1>2, <2>1, <1>m DEF SyncSent, EndSync, TypeOK
  <1>3. ASSUME NEW s \in Servers, NEW f \in Servers \ {s}, TakeSync(s, f)
        PROVE TypeOK'
    <2>1. CASE Interrupt(s, f)
      BY <2>1, InterruptType
    <2>2. CASE NextSyncMsg(s, f)
      <3>1. Take(f, s) \in [Pairs -> Seq(Modes)] /\ Head(net[<<f, s>>]) \in Modes
        BY <2>2, TakeType DEF NextSyncMsg, TypeOK
      <3>2. AcceptSync(s, f, Head(net[<<f, s>>]), Take(f, s))
        BY <2>2 DEF NextSyncMsg
      <3>3. HandlerTypes
        BY <3>1, <3>2, AcceptSyncType, Zenon
      <3> QED
        BY <2>2, <3>3, Zenon DEF NextSyncMsg, HandlerTypes, TypeOK
    <2> QED
      BY <1>3, <2>1, <2>2 DEF TakeSync
  <1>4. ASSUME NEW s \in Servers, ServeRpc(s) PROVE TypeOK'
    <2>1. serving[s] \in Servers
      BY <1>4 DEF ServeRpc, TypeOK
    <2> QED
      BY <1>4, <2>1, HandleRpcType DEF ServeRpc, TypeOK
  <1>5. ASSUME NEW s \in Servers, NestedSync(s) PROVE TypeOK'
    BY <1>5, Zenon DEF NestedSync, TypeOK
  <1>6. ASSUME NEW s \in Servers, NEW f \in Servers \ {s}, PollRpc(s, f)
        PROVE TypeOK'
    BY <1>6, <1>m, HandleRpcType DEF PollRpc, TypeOK
  <1>7. ASSUME NEW s \in Servers, PreacquireSync(s) PROVE TypeOK'
    <2>1. sent' \in 0..MaxSent
      BY <1>7, BoundsAssumption DEF PreacquireSync, TypeOK
    <2>2. PICK t \in Servers : Sync2(s, t, "REFCOUNT", net)
      BY <1>7 DEF PreacquireSync
    <2> QED
      BY <1>7, <1>m, <2>1, <2>2, Sync2Type, Zenon DEF PreacquireSync, TypeOK
  <1>8. ASSUME NEW s \in Servers, Reply(s) PROVE TypeOK'
    BY <1>8, Zenon DEF Reply, TypeOK
  <1>9. ASSUME NEW s \in Servers, StealSent(s) PROVE TypeOK'
    BY <1>9, Zenon DEF StealSent, TypeOK
  <1>10. ASSUME NEW s \in Servers, ClientRequest(s) PROVE TypeOK'
    <2>1. clients' \in [Servers -> 0..MaxClient]
      BY <1>10, BoundsAssumption DEF ClientRequest, TypeOK
    <2> QED
      BY <1>10, <2>1, <1>m, Zenon DEF ClientRequest, To, TypeOK
  <1>11. ASSUME NEW s \in Servers, HandlerSync(s) PROVE TypeOK'
    <2>1. sent' \in 0..MaxSent
      BY <1>11, BoundsAssumption DEF HandlerSync, TypeOK
    <2>2. PICK t \in Servers, m \in Modes : Sync2(s, t, m, net)
      BY <1>11, <1>m, ParamsAssumption, Zenon DEF HandlerSync, HandlerModes
    <2> QED
      BY <1>11, <2>1, <2>2, Sync2Type, Zenon DEF HandlerSync, TypeOK
  <1>12. ASSUME NEW s \in Servers, HandlerDone(s) PROVE TypeOK'
    BY <1>12, <1>m, Zenon DEF HandlerDone, To, TypeOK
  <1>13. ASSUME NEW s \in Servers, DrainOne(s) PROVE TypeOK'
    <2> DEFINE e == Head(pending[s])
    <2>1. e \in PendingRecords /\ pending' \in [Servers -> Seq(PendingRecords)]
      <3>1. pending[s] \in Seq(PendingRecords) /\ pending[s] # <<>>
        BY <1>13 DEF DrainOne, TypeOK
      <3> QED
        BY <1>13, <3>1, SMT, SMTT(30) DEF DrainOne, TypeOK
    <2>2. e.rank \in Servers /\ e.mode \in Modes
      BY <2>1 DEF PendingRecords
    <2>3. net \in [Pairs -> Seq(Modes)]
      BY DEF TypeOK
    <2> HIDE DEF e
    <2>4. HandlerTypes
      <3>1. \/ AcceptSync(s, e.rank, e.mode, net)
            \/ HandleRefcount(s, net)
            \/ HandleNotify(s, net)
            \/ SendNotify(s, e.rank, net)
            \/ HandleStealProbe(s, e.rank, net)
            \/ HandleStealProbeResp(s, e.rank, net)
        BY <1>13, Zenon DEF DrainOne, e
      <3>2. \E m \in Modes : AcceptSync(s, e.rank, m, net)
        BY <3>1, <2>2, <1>m, Zenon DEF AcceptSync
      <3> QED
        BY <3>2, <2>2, <2>3, AcceptSyncType, Zenon
    <2> QED
      BY <1>13, <2>1, <2>4, Zenon DEF DrainOne, HandlerTypes, TypeOK
  <1>14. ASSUME NEW s \in Servers, DrainDone(s) PROVE TypeOK'
    BY <1>14, <1>m DEF DrainDone, To, TypeOK
  <1>15. ASSUME NEW s \in Servers, CheckSteal(s) PROVE TypeOK'
    <2>1. /\ net' \in [Pairs -> Seq(Modes)]
          /\ rpcs' \in [Pairs -> Seq(RpcTags)]
          /\ syncing' \in [Servers -> SyncRecords]
          /\ calling' \in [Servers -> Servers \cup {None}]
          /\ probes' \in [Servers -> SUBSET Servers]
      <3>1. CASE NoSync2(net) /\ UNCHANGED probes
        BY <3>1 DEF NoSync2, TypeOK
      <3>2. ASSUME NEW t \in Servers, Sync2(s, t, "STEAL_PROBE", net),
                   probes' = IF s \in shutting
                             THEN [probes EXCEPT ![s] = @ \cup {t}] ELSE probes
            PROVE  /\ net' \in [Pairs -> Seq(Modes)]
                   /\ rpcs' \in [Pairs -> Seq(RpcTags)]
                   /\ syncing' \in [Servers -> SyncRecords]
                   /\ calling' \in [Servers -> Servers \cup {None}]
                   /\ probes' \in [Servers -> SUBSET Servers]
        <4>1. probes' \in [Servers -> SUBSET Servers]
          BY <3>2 DEF TypeOK
        <4> QED
          BY <3>2, <4>1, <1>m, Sync2Type, Zenon DEF TypeOK
      <3> QED
        BY <1>15, <3>1, <3>2, Zenon DEF CheckSteal
    <2> QED
      BY <1>15, <2>1, <1>m, Zenon DEF CheckSteal, To, TypeOK
  <1>16. ASSUME NEW s \in Servers, Exit(s) PROVE TypeOK'
    BY <1>16, <1>m, Zenon DEF Exit, To, TypeOK
  <1>17. CASE StartIdleCheck
    <2>1. Sync2(Master, 2, "REQUEST", net)
      BY <1>17 DEF StartIdleCheck
    <2> QED
      BY <1>17, <2>1, <1>m, Ranks, Sync2Type, Zenon
         DEF StartIdleCheck, To, TypeOK
  <1>n. checking < N => checking + 1 \in Servers
    BY NAssumption, SMT, SMTT(30) DEF TypeOK, Servers, None
  <1>18. CASE IdleAnswered
    <2>1. CASE /\ checking' = None /\ NoSync2(net)
               /\ \E p \in Phases : To(Master, p)
      <3>1. UNCHANGED <<pending, serving, sending, replying, stealing, ready,
                        probes, shutting, answer, clients, sent, aborted>>
        BY <1>18 DEF IdleAnswered
      <3>2. phase' \in [Servers -> Phases]
        BY <2>1, Zenon DEF To, TypeOK
      <3> QED
        BY <2>1, <3>1, <3>2, Zenon DEF NoSync2, TypeOK
    <2>2. CASE /\ checking < N /\ checking' = checking + 1
               /\ Sync2(Master, checking + 1, "REQUEST", net)
               /\ UNCHANGED phase
      BY <1>18, <2>2, <1>m, <1>n, Ranks, Sync2Type, ZenonT(30), SMTT(30)
         DEF IdleAnswered, TypeOK
    <2> QED
      BY <1>18, <1>m, <2>1, <2>2, Zenon DEF IdleAnswered
  <1>19. CASE AllIdle
    <2>1. CASE /\ NoSync2(net) /\ UNCHANGED shutting
               /\ checking' = None /\ To(Master, "loop")
      BY <1>19, <2>1, <1>m, Zenon DEF AllIdle, NoSync2, To, TypeOK
    <2>2. CASE /\ shutting' = shutting \cup {Master}
               /\ checking' = 2 /\ To(Master, "shutdown")
               /\ Sync2(Master, 2, "SHUTDOWN", net)
      BY <1>19, <2>2, <1>m, Ranks, Sync2Type, Zenon DEF AllIdle, To, TypeOK
    <2> QED
      BY <1>19, <2>1, <2>2, Zenon DEF AllIdle
  <1>20. CASE ShutdownNext
    <2>1. CASE /\ checking' = None /\ NoSync2(net)
               /\ \E p \in Phases : To(Master, p)
      BY <1>20, <2>1, Zenon DEF ShutdownNext, NoSync2, To, TypeOK
    <2>2. CASE /\ checking < N /\ checking' = checking + 1
               /\ Sync2(Master, checking + 1, "SHUTDOWN", net)
               /\ UNCHANGED phase
      BY <1>20, <2>2, <1>m, <1>n, Ranks, Sync2Type, ZenonT(30), SMTT(30)
         DEF ShutdownNext, TypeOK
    <2> QED
      BY <1>20, <1>m, <2>1, <2>2 DEF ShutdownNext
  <1>21. CASE UNCHANGED vars
    BY <1>21 DEF vars, TypeOK
  <1> QED
    BY <1>1, <1>2, <1>3, <1>4, <1>5, <1>6, <1>7, <1>8, <1>9, <1>10, <1>11,
       <1>12, <1>13, <1>14, <1>15, <1>16, <1>17, <1>18, <1>19, <1>20, <1>21, Zenon
       DEF Next, MasterStep, Step

\* The variables keep their types in every reachable state: the call stacks
\* of the servers name servers, the channels hold sync modes and RPC tags.
THEOREM TypeCorrect == Spec => []TypeOK
  <1>1. Init => TypeOK
    <2> SUFFICES ASSUME Init PROVE TypeOK
      OBVIOUS
    <2>1. NoSync \in SyncRecords /\ "loop" \in Phases
      BY DEF NoSync, SyncRecords, Modes, Phases
    <2>2. /\ net \in [Pairs -> Seq(Modes)] /\ rpcs \in [Pairs -> Seq(RpcTags)]
          /\ pending \in [Servers -> Seq(PendingRecords)]
      BY DEF Init
    <2>3. clients \in [Servers -> 0..MaxClient] /\ sent \in 0..MaxSent
      BY BoundsAssumption DEF Init
    <2> QED
      BY <2>1, <2>2, <2>3, Zenon DEF Init, TypeOK
  <1> QED
    BY <1>1, TypeStep, PTL DEF Spec

\* Whoever appears on a call stack is a server.
LEMMA CallTypes ==
  ASSUME TypeOK, NEW u \in Servers
  PROVE  /\ serving[u] # None => serving[u] \in Servers
         /\ sending[u] # None => sending[u] \in Servers
         /\ calling[u] # None => calling[u] \in Servers
         /\ replying[u] # None => replying[u] \in Servers
         /\ syncing[u].to # None => syncing[u].to \in Servers
         /\ syncing[u].mode \in Modes /\ syncing[u].accepted \in BOOLEAN
  BY Zenon DEF TypeOK, SyncRecords

-----------------------------------------------------------------------------
(* The top of the loop, also during a shutdown.                            *)

\* A step of server s changes nothing of another server, except that it may
\* release one from a call.
OthersKept(s) ==
  \A u \in Servers \ {s} :
    /\ phase'[u] = phase[u] /\ pending'[u] = pending[u]
    /\ syncing'[u].to = syncing[u].to
    /\ serving'[u] = serving[u] /\ replying'[u] = replying[u]
    /\ sending'[u] \in {sending[u], None}
    /\ calling'[u] \in {calling[u], None}

LEMMA LoopKept ==
  ASSUME LoopIsRunning, NEW s \in Servers, OthersKept(s),
         phase'[s] = "loop" => Running(s)' /\ ~HavePendingNotifs(s)'
  PROVE  LoopIsRunning'
  <1> SUFFICES ASSUME NEW u \in Servers, phase'[u] = "loop"
               PROVE  Running(u)' /\ ~HavePendingNotifs(u)'
    BY Zenon DEF LoopIsRunning
  <1>1. CASE u # s
    BY <1>1 DEF OthersKept, LoopIsRunning, Running, Free, InSync,
                HavePendingNotifs
  <1> QED
    BY <1>1

\* xlb_sync2() moves only the sync and the call of its own server.
LEMMA Sync2Others ==
  ASSUME TypeOK, NEW s \in Servers, NEW t, NEW m, NEW net0,
         Sync2(s, t, m, net0) \/ NoSync2(net0)
  PROVE  \A u \in Servers \ {s} :
           syncing'[u] = syncing[u] /\ calling'[u] = calling[u]
  <1>1. CASE Sync2(s, t, m, net0)
    BY <1>1, Zenon DEF Sync2, Call, TypeOK
  <1>2. CASE NoSync2(net0)
    BY <1>2 DEF NoSync2
  <1> QED
    BY <1>1, <1>2, Zenon

LEMMA ServeOthers ==
  ASSUME TypeOK, NEW s \in Servers, NEW f \in Servers, NEW m, NEW net0,
         Serve(s, f, m, net0)
  PROVE  /\ \A u \in Servers : syncing'[u].to = syncing[u].to
         /\ \A u \in Servers \ {s} :
              serving'[u] = serving[u] /\ sending'[u] = sending[u]
         /\ calling' = calling
  <1>1. syncing' = [syncing EXCEPT ![f].accepted = @ \/ syncing[f].to = s]
    BY DEF Serve, Respond
  <1>2. syncing'[f] = [syncing[f] EXCEPT !.accepted = @ \/ syncing[f].to = s]
    BY <1>1 DEF TypeOK
  <1>3. syncing'[f].to = syncing[f].to
    BY <1>2 DEF TypeOK, SyncRecords
  <1>4. \A u \in Servers \ {f} : syncing'[u] = syncing[u]
    BY <1>1, Zenon DEF TypeOK
  <1> QED
    BY <1>3, <1>4, Zenon DEF Serve, TypeOK

\* The handler of a sync message.
LEMMA AcceptOthers ==
  ASSUME TypeOK, NEW s \in Servers, NEW f \in Servers, NEW m, NEW net0,
         AcceptSync(s, f, m, net0), UNCHANGED replying,
         \A u \in Servers \ {s} : pending'[u] = pending[u]
  PROVE  OthersKept(s) /\ phase'[s] # "loop"
  <1>1. \E p \in {"drain", "refcount"} : To(s, p)
    BY DEF AcceptSync, HandleStealProbe, HandleStealProbeResp, HandleRefcount,
           SendNotify, Subscribed, HandleNotify, HandleShutdown
  <1>2. phase'[s] # "loop" /\ \A u \in Servers \ {s} : phase'[u] = phase[u]
    BY <1>1 DEF To, TypeOK
  <1>3. CASE Serve(s, f, m, net0)
    BY <1>2, <1>3, ServeOthers, Zenon DEF OthersKept
  <1>4. CASE /\ UNCHANGED <<serving, sending>>
             /\ NoSync2(net0) \/ \E k \in Modes : Sync2(s, f, k, net0)
    <2>1. \A u \in Servers \ {s} :
            syncing'[u] = syncing[u] /\ calling'[u] = calling[u]
      BY <1>4, Sync2Others
    <2> QED
      BY <1>2, <1>4, <2>1, Zenon DEF OthersKept
  <1> QED
    BY <1>2, <1>3, <1>4, Zenon
       DEF AcceptSync, HandleStealProbe, HandleStealProbeResp, HandleRefcount,
           SendNotify, Subscribed, HandleNotify, HandleShutdown, Modes

\* The RPC handlers release only the caller.
LEMMA RpcOthers ==
  ASSUME TypeOK, NEW s \in Servers, NEW f \in Servers, HandleRpc(s, f)
  PROVE  /\ \A u \in Servers : calling'[u] \in {calling[u], None}
         /\ \A u \in Servers \ {s} : replying'[u] = replying[u]
  BY ZenonT(30)
     DEF HandleRpc, HandleStore, HandlePut, HandleCheckIdle, HandleDoNothing,
       TypeOK

\* At the top of its loop, in any state, a server is in no call and has no
\* notification pending.
LEMMA LoopStep ==
  ASSUME TypeOK, LoopIsRunning, [Next]_vars
  PROVE  LoopIsRunning'
  <1> USE DEF chans, calls, loopv, idlev, bound
  <1>f. ASSUME NEW s \in Servers, phase[s] = "loop"
        PROVE  Running(s) /\ Free(s) /\ ~InSync(s) /\ ~HavePendingNotifs(s)
               /\ serving[s] = None /\ sending[s] = None /\ replying[s] = None
    BY <1>f DEF LoopIsRunning, Running, Free
  <1>t. ASSUME NEW s \in Servers, NEW p, To(s, p)
        PROVE  phase'[s] = p /\ \A u \in Servers \ {s} : phase'[u] = phase[u]
    BY <1>t DEF To, TypeOK
  \* Only the phase of s changes.
  <1>p. ASSUME NEW s \in Servers, NEW p, To(s, p), p # "loop",
               UNCHANGED <<pending, syncing, serving, sending, replying, calling>>
        PROVE  LoopIsRunning'
    <2>1. OthersKept(s) /\ phase'[s] # "loop"
      BY <1>p, <1>t DEF OthersKept
    <2> QED
      BY <2>1, LoopKept, Zenon
  \* A sync is started, or none, outside the handlers of sync messages.
  <1>s. ASSUME NEW s \in Servers, NEW t, NEW m,
               Sync2(s, t, m, net) \/ NoSync2(net),
               UNCHANGED <<pending, serving, sending, replying>>,
               phase' = phase \/ \E p \in Phases : To(s, p),
               phase'[s] # "loop"
        PROVE  LoopIsRunning'
    <2>1. \A u \in Servers \ {s} :
            syncing'[u] = syncing[u] /\ calling'[u] = calling[u]
      BY <1>s, Sync2Others
    <2>2. \A u \in Servers \ {s} : phase'[u] = phase[u]
      BY <1>s, <1>t, Zenon
    <2>3. OthersKept(s)
      BY <1>s, <2>1, <2>2 DEF OthersKept
    <2> QED
      BY <1>s, <2>3, LoopKept, Zenon
  <1>1. ASSUME NEW s \in Servers, SyncAccepted(s) PROVE LoopIsRunning'
    <2>1. phase'[s] # "loop"
      BY <1>1, <1>f, Zenon DEF SyncAccepted
    <2>2. syncing[s].to \in Servers
      BY <1>1, CallTypes, Zenon DEF SyncAccepted, InSync
    <2>3. /\ \A u \in Servers \ {s} : syncing'[u] = syncing[u]
          /\ \A u \in Servers \ {s} : calling'[u] = calling[u]
          /\ \A u \in Servers : sending'[u] \in {sending[u], None}
      BY <1>1, <2>2, Zenon DEF SyncAccepted, EndSync, Call, TypeOK
    <2>4. OthersKept(s)
      BY <1>1, <2>3, Zenon DEF SyncAccepted, OthersKept
    <2> QED
      BY <2>1, <2>4, LoopKept
  <1>2. ASSUME NEW s \in Servers, SyncSent(s) PROVE LoopIsRunning'
    <2>1. phase'[s] # "loop"
      BY <1>2, <1>f, Zenon DEF SyncSent
    <2>2. \A u \in Servers \ {s} : syncing'[u] = syncing[u]
      BY <1>2, Zenon DEF SyncSent, EndSync, TypeOK
    <2>3. OthersKept(s)
      BY <1>2, <2>2, Zenon DEF SyncSent, OthersKept
    <2> QED
      BY <2>1, <2>3, LoopKept
  <1>3. ASSUME NEW s \in Servers, NEW f \in Servers \ {s}, Interrupt(s, f)
        PROVE LoopIsRunning'
    <2>1. phase'[s] # "loop"
      BY <1>3, <1>f, ZenonT(30) DEF Interrupt
    <2>2. \A u \in Servers \ {s} : pending'[u] = pending[u]
      BY <1>3, Zenon DEF Interrupt, Defer, Enqueue, TypeOK
    <2>3. \A u \in Servers \ {s} : /\ syncing'[u].to = syncing[u].to
                                   /\ serving'[u] = serving[u]
                                   /\ sending'[u] = sending[u]
                                   /\ calling'[u] = calling[u]
      <3>1. CASE Serve(s, f, Head(net[<<f, s>>]), Take(f, s))
        BY <3>1, ServeOthers, Zenon
      <3>2. CASE NoSync2(Take(f, s)) /\ UNCHANGED <<serving, sending>>
        BY <3>2, Zenon DEF NoSync2
      <3>3. CASE CancelSync(s, f) /\ UNCHANGED <<serving, sending>>
        BY <3>3, Zenon DEF CancelSync, EndSync, TypeOK
      <3> QED
        BY <1>3, <3>1, <3>2, <3>3, ZenonT(30) DEF Interrupt
    <2>4. OthersKept(s)
      BY <1>3, <2>2, <2>3, Zenon DEF Interrupt, OthersKept
    <2> QED
      BY <2>1, <2>4, LoopKept, Zenon
  <1>4. ASSUME NEW s \in Servers, NEW f \in Servers \ {s}, NextSyncMsg(s, f)
        PROVE LoopIsRunning'
    <2>1. OthersKept(s) /\ phase'[s] # "loop"
      BY <1>4, AcceptOthers DEF NextSyncMsg
    <2> QED
      BY <2>1, LoopKept, Zenon
  <1>5. ASSUME NEW s \in Servers, ServeRpc(s) PROVE LoopIsRunning'
    <2>1. phase'[s] # "loop" /\ serving[s] \in Servers
      BY <1>5, <1>f, CallTypes, Zenon DEF ServeRpc
    <2>2. /\ \A u \in Servers : calling'[u] \in {calling[u], None}
          /\ \A u \in Servers \ {s} : replying'[u] = replying[u]
      BY <1>5, <2>1, RpcOthers, Zenon DEF ServeRpc
    <2>3. \A u \in Servers \ {s} : serving'[u] = serving[u]
      BY <1>5, Zenon DEF ServeRpc, TypeOK
    <2>4. OthersKept(s)
      BY <1>5, <2>2, <2>3, Zenon DEF ServeRpc, OthersKept
    <2> QED
      BY <2>1, <2>4, LoopKept, Zenon
  <1>6. ASSUME NEW s \in Servers, NestedSync(s) PROVE LoopIsRunning'
    BY <1>6, Zenon DEF NestedSync, LoopIsRunning, Running, Free, InSync,
                HavePendingNotifs
  <1>7. ASSUME NEW s \in Servers, NEW f \in Servers \ {s}, PollRpc(s, f)
        PROVE LoopIsRunning'
    <2>1. phase'[s] # "loop" /\ \A u \in Servers \ {s} : phase'[u] = phase[u]
      BY <1>7, Zenon DEF PollRpc, TypeOK
    <2>2. /\ \A u \in Servers : calling'[u] \in {calling[u], None}
          /\ \A u \in Servers \ {s} : replying'[u] = replying[u]
      BY <1>7, RpcOthers, Zenon DEF PollRpc
    <2>3. OthersKept(s)
      BY <1>7, <2>1, <2>2, Zenon DEF PollRpc, OthersKept
    <2> QED
      BY <2>1, <2>3, LoopKept, Zenon
  <1>8. ASSUME NEW s \in Servers, PreacquireSync(s) PROVE LoopIsRunning'
    <2>1. PICK t : Sync2(s, t, "REFCOUNT", net)
      BY <1>8, Zenon DEF PreacquireSync
    <2>2. phase'[s] # "loop"
      BY <1>8, <1>f, Zenon DEF PreacquireSync
    <2> QED
      BY <1>8, <1>s, <2>1, <2>2, Zenon DEF PreacquireSync
  <1>9. ASSUME NEW s \in Servers, Reply(s) PROVE LoopIsRunning'
    <2>1. phase'[s] # "loop"
      BY <1>9, <1>f, Zenon DEF Reply
    <2>2. OthersKept(s)
      BY <1>9, Zenon DEF Reply, OthersKept, TypeOK
    <2> QED
      BY <2>1, <2>2, LoopKept
  <1>10. ASSUME NEW s \in Servers, StealSent(s) PROVE LoopIsRunning'
    <2>1. phase'[s] # "loop"
      BY <1>10, <1>f, ZenonT(30) DEF StealSent
    <2>2. OthersKept(s)
      BY <1>10 DEF StealSent, OthersKept, TypeOK
    <2> QED
      BY <2>1, <2>2, LoopKept
  <1>11. ASSUME NEW s \in Servers, ClientRequest(s) PROVE LoopIsRunning'
    <2>1. \E p : To(s, p) /\ p # "loop"
      BY <1>11 DEF ClientRequest
    <2> QED
      BY <1>11, <1>p, <2>1 DEF ClientRequest
  <1>12. ASSUME NEW s \in Servers, HandlerSync(s) PROVE LoopIsRunning'
    <2>1. PICK t, m : Sync2(s, t, m, net) /\ m \in HandlerModes(phase[s])
      BY <1>12 DEF HandlerSync
    <2>2. phase'[s] # "loop"
      BY <1>12, <2>1 DEF HandlerSync, HandlerModes
    <2> QED
      BY <1>12, <1>s, <2>1, <2>2, Zenon DEF HandlerSync
  <1>13. ASSUME NEW s \in Servers, HandlerDone(s) PROVE LoopIsRunning'
    BY <1>13, <1>p, Zenon DEF HandlerDone
  <1>14. ASSUME NEW s \in Servers, DrainOne(s) PROVE LoopIsRunning'
    <2> DEFINE e == Head(pending[s])
    <2>1. e \in PendingRecords
      <3>1. pending[s] \in Seq(PendingRecords) /\ pending[s] # <<>>
        BY <1>14 DEF DrainOne, TypeOK
      <3> QED
        BY <3>1, SMT, SMTT(30)
    <2>2. e.rank \in Servers
      BY <2>1, Zenon DEF PendingRecords
    <2>3. /\ \A u \in Servers \ {s} : pending'[u] = pending[u]
          /\ UNCHANGED replying
      BY <1>14, Zenon DEF DrainOne, TypeOK
    <2>4. \/ AcceptSync(s, e.rank, e.mode, net)
          \/ HandleRefcount(s, net)
          \/ HandleNotify(s, net)
          \/ SendNotify(s, e.rank, net)
          \/ HandleStealProbe(s, e.rank, net)
          \/ HandleStealProbeResp(s, e.rank, net)
      BY <1>14, Zenon DEF DrainOne
    <2> HIDE DEF e
    <2>5. \E m : AcceptSync(s, e.rank, m, net)
      BY <2>4, Zenon DEF AcceptSync
    <2>6. OthersKept(s) /\ phase'[s] # "loop"
      BY <2>2, <2>3, <2>5, AcceptOthers
    <2> QED
      BY <2>6, LoopKept
  <1>15. ASSUME NEW s \in Servers, DrainDone(s) PROVE LoopIsRunning'
    <2>1. OthersKept(s)
      BY <1>15, <1>t, Zenon DEF DrainDone, OthersKept
    <2>2. /\ Running(s) /\ pending'[s] = <<>>
          /\ UNCHANGED <<syncing, serving, sending, replying, calling>>
      BY <1>15 DEF DrainDone
    <2>3. Running(s)'
      BY <2>2, Zenon DEF Running, Free, InSync
    <2>4. ~HavePendingNotifs(s)'
      BY <2>2, SMT, SMTT(30) DEF HavePendingNotifs
    <2> QED
      BY <2>1, <2>3, <2>4, LoopKept, Zenon
  <1>16. ASSUME NEW s \in Servers, CheckSteal(s) PROVE LoopIsRunning'
    <2>1. \E t : Sync2(s, t, "STEAL_PROBE", net) \/ NoSync2(net)
      BY <1>16, Zenon DEF CheckSteal
    <2>2. To(s, "drain") /\ phase'[s] # "loop" /\ "drain" \in Phases
      BY <1>16, <1>t, SMT, SMTT(30) DEF CheckSteal, Phases
    <2> QED
      BY <1>16, <1>s, <2>1, <2>2, Zenon DEF CheckSteal
  <1>17. ASSUME NEW s \in Servers, Exit(s) PROVE LoopIsRunning'
    BY <1>17, <1>p, Zenon DEF Exit
  <1>18. CASE StartIdleCheck
    <2>1. /\ To(Master, "idle_check") /\ phase'[Master] # "loop"
          /\ "idle_check" \in Phases
      BY <1>18, <1>t, Ranks DEF StartIdleCheck, Phases
    <2> QED
      BY <1>18, <1>s, <2>1, Ranks, Zenon DEF StartIdleCheck
  \* The master is back at the top of its loop without a further sync.
  <1>m. ASSUME NoSync2(net), To(Master, "loop"), Running(Master),
               ~HavePendingNotifs(Master),
               UNCHANGED <<pending, serving, sending, replying>>
        PROVE  LoopIsRunning'
    <2>1. OthersKept(Master)
      BY <1>m, <1>t, Ranks, Zenon DEF OthersKept, NoSync2
    <2>2. Running(Master)'
      BY <1>m DEF NoSync2, Running, Free, InSync
    <2>3. ~HavePendingNotifs(Master)'
      BY <1>m, Zenon DEF HavePendingNotifs
    <2> QED
      BY <2>1, <2>2, <2>3, LoopKept, Ranks, Zenon
  <1>19. CASE IdleAnswered
    <2>1. CASE NoSync2(net) /\ To(Master, "drain")
      BY <1>19, <1>p, <2>1, Ranks, Zenon DEF IdleAnswered, NoSync2
    <2>2. CASE /\ NoSync2(net) /\ To(Master, "loop")
               /\ ~HavePendingNotifs(Master)
      BY <1>19, <1>m, <2>2, Zenon DEF IdleAnswered
    <2>3. CASE Sync2(Master, checking + 1, "REQUEST", net) /\ UNCHANGED phase
      <3>1. phase'[Master] # "loop"
        BY <1>19, <2>3, ZenonT(30), SMTT(30) DEF IdleAnswered
      <3> QED
        BY <1>19, <1>s, <2>3, <3>1, Ranks, Zenon DEF IdleAnswered
    <2> QED
      BY <1>19, <2>1, <2>2, <2>3, Zenon DEF IdleAnswered
  <1>20. CASE AllIdle
    <2>1. CASE NoSync2(net) /\ To(Master, "loop")
      BY <1>20, <1>m, <2>1, Zenon DEF AllIdle
    <2>2. CASE Sync2(Master, 2, "SHUTDOWN", net) /\ To(Master, "shutdown")
      <3>1. phase'[Master] # "loop" /\ "shutdown" \in Phases
        BY <2>2, <1>t, Ranks, SMT, SMTT(30) DEF Phases
      <3> QED
        BY <1>20, <1>s, <2>2, <3>1, Ranks, Zenon DEF AllIdle
    <2> QED
      BY <1>20, <2>1, <2>2, Zenon DEF AllIdle
  <1>21. CASE ShutdownNext
    <2>1. CASE NoSync2(net) /\ To(Master, "down")
      BY <1>21, <1>p, <2>1, Ranks, Zenon DEF ShutdownNext, NoSync2
    <2>2. CASE Sync2(Master, checking + 1, "SHUTDOWN", net) /\ UNCHANGED phase
      <3>1. phase'[Master] # "loop"
        BY <1>21, <2>2, Zenon DEF ShutdownNext
      <3> QED
        BY <1>21, <1>s, <2>2, <3>1, Ranks DEF ShutdownNext
    <2> QED
      BY <1>21, <2>1, <2>2 DEF ShutdownNext
  <1>22. CASE UNCHANGED vars
    BY <1>22 DEF vars, LoopIsRunning, Running, Free, InSync, HavePendingNotifs
  <1> QED
    BY <1>1, <1>2, <1>3, <1>4, <1>5, <1>6, <1>7, <1>8, <1>9, <1>10, <1>11,
       <1>12, <1>13, <1>14, <1>15, <1>16, <1>17, <1>18, <1>19, <1>20, <1>21,
       <1>22, Zenon
       DEF Next, MasterStep, Step, TakeSync

LEMMA LoopInit == Init => LoopIsRunning
  <1> SUFFICES ASSUME Init, NEW s \in Servers
               PROVE  Running(s) /\ ~HavePendingNotifs(s)
    BY Zenon DEF LoopIsRunning
  <1>1. /\ syncing[s].to = None /\ serving[s] = None /\ sending[s] = None
        /\ calling[s] = None /\ replying[s] = None
        /\ pending[s] = <<>> /\ phase[s] = "loop"
    BY DEF Init, NoSync
  <1>2. 1..Len(<<>>) = {}
    BY NoIndex
  <1>3. Running(s)
    BY <1>1, ZenonT(30) DEF Running, Free, InSync
  <1>4. ~HavePendingNotifs(s)
    BY <1>1, <1>2, Zenon DEF HavePendingNotifs
  <1> QED
    BY <1>3, <1>4

\* A server at the top of its loop is in no call, also during a shutdown.
THEOREM LoopRuns == Spec => []LoopIsRunning
  <1>1. TypeOK /\ LoopIsRunning /\ [Next]_vars => LoopIsRunning'
    BY LoopStep
  <1> QED
    BY <1>1, LoopInit, TypeCorrect, PTL DEF Spec

-----------------------------------------------------------------------------
(* The requests on one channel and on one pending list.                    *)

\* Sending on a channel: a request is the only one if there was none.
LEMMA ReqAppend ==
  ASSUME NEW q \in Seq(Modes), NEW m \in Modes
  PROVE  /\ NoReq(q) /\ ~AcceptRequired(m) => NoReq(Append(q, m))
         /\ NoReq(q) /\ AcceptRequired(m) => OneReq(Append(q, m), m)
         /\ \A k \in Modes : OneReq(q, k) /\ ~AcceptRequired(m) =>
              OneReq(Append(q, m), k)
  <1>1. /\ Len(Append(q, m)) = Len(q) + 1 /\ Len(q) \in Nat
        /\ \A i \in 1..Len(q) : Append(q, m)[i] = q[i]
        /\ Append(q, m)[Len(q) + 1] = m
    OBVIOUS
  <1> DEFINE r == Append(q, m)
  <1> HIDE DEF r
  <1>2. NoReq(q) /\ ~AcceptRequired(m) => NoReq(r)
    BY <1>1 DEF NoReq, r
  <1>3. NoReq(q) /\ AcceptRequired(m) => OneReq(r, m)
    BY <1>1 DEF NoReq, OneReq, r
  <1>4. ASSUME NEW k \in Modes, OneReq(q, k), ~AcceptRequired(m)
        PROVE  OneReq(r, k)
    BY <1>1, <1>4 DEF OneReq, r
  <1> QED
    BY <1>2, <1>3, <1>4 DEF r

\* Receiving from a channel.
LEMMA ReqTail ==
  ASSUME NEW q \in Seq(Modes), q # <<>>
  PROVE  /\ NoReq(q) => NoReq(Tail(q)) /\ ~AcceptRequired(Head(q))
         /\ \A k \in Modes : OneReq(q, k) /\ AcceptRequired(Head(q)) =>
              NoReq(Tail(q)) /\ (AcceptRequired(k) => Head(q) = k)
         /\ \A k \in Modes :
              OneReq(q, k) /\ AcceptRequired(k) /\ ~AcceptRequired(Head(q)) =>
                OneReq(Tail(q), k)
  <1> DEFINE r == Tail(q)
  <1>1. /\ Len(q) \in Nat /\ Len(q) >= 1 /\ Len(r) = Len(q) - 1
        /\ \A i \in 1..Len(r) : r[i] = q[i + 1]
        /\ Head(q) = q[1]
    OBVIOUS
  <1> HIDE DEF r
  <1>2. NoReq(q) => NoReq(r) /\ ~AcceptRequired(Head(q))
    BY <1>1 DEF NoReq
  <1>3. ASSUME NEW k \in Modes, OneReq(q, k), AcceptRequired(Head(q))
        PROVE  NoReq(r) /\ (AcceptRequired(k) => Head(q) = k)
    <2>1. PICK i \in 1..Len(q) :
            q[i] = k /\ \A j \in 1..Len(q) : AcceptRequired(q[j]) => j = i
      BY <1>3 DEF OneReq
    <2>2. i = 1
      BY <2>1, <1>1, <1>3
    <2> QED
      BY <2>1, <2>2, <1>1 DEF NoReq
  <1>4. ASSUME NEW k \in Modes, OneReq(q, k), ~AcceptRequired(Head(q)),
               AcceptRequired(k)
        PROVE  OneReq(r, k)
    <2>1. PICK i \in 1..Len(q) :
            q[i] = k /\ \A j \in 1..Len(q) : AcceptRequired(q[j]) => j = i
      BY <1>4 DEF OneReq
    <2>2. i # 1 /\ i - 1 \in 1..Len(r) /\ r[i - 1] = k
      BY <2>1, <1>1, <1>4
    <2>3. \A j \in 1..Len(r) : AcceptRequired(r[j]) => j = i - 1
      BY <2>1, <1>1
    <2> QED
      BY <2>2, <2>3 DEF OneReq
  <1> QED
    BY <1>2, <1>3, <1>4 DEF r

-----------------------------------------------------------------------------
(* RequestHeldOnce, for any network n, pending lists p and syncs y.        *)

Waits(y, f, t) ==
  y[f].to = t /\ AcceptRequired(y[f].mode) /\ ~y[f].accepted

HeldPair(n, p, y, f, t) ==
  IF Waits(y, f, t)
  THEN \/ OneReq(n[<<f, t>>], y[f].mode) /\ NoDeferred(p[t], f)
       \/ NoReq(n[<<f, t>>]) /\ OneDeferred(p[t], f, y[f].mode)
  ELSE NoReq(n[<<f, t>>]) /\ NoDeferred(p[t], f)

Held(n, p, y) == \A f, t \in Servers : f # t => HeldPair(n, p, y, f, t)

Nets == [Pairs -> Seq(Modes)]

Pends == [Servers -> Seq(PendingRecords)]

Syncs == [Servers -> SyncRecords]
=============================================================================
