---------------------------- MODULE SyncTheorems ----------------------------
(***************************************************************************)
(* The safety theorems of module Sync: until a shutdown starts every step  *)
(* keeps SyncInv, which implies that requests are neither lost nor doubled *)
(* that every RPC between servers is announced, and that no set of servers *)
(* waits in a circle.                                                      *)
(***************************************************************************)
EXTENDS SyncProofs, WellFoundedInduction

-----------------------------------------------------------------------------
(* The call stacks: one lemma per way in which they change.                *)

\* RpcAnnounced without its condition.
Announced ==
  \A f, t \in Servers :
    rpcs[<<f, t>>] # <<>> =>
      Len(rpcs[<<f, t>>]) = 1 /\ serving[t] = f /\ calling[f] = t

CallsOK == Stacks /\ Announced

\* Nothing of the call stacks changes.
LEMMA CallsSame ==
  ASSUME CallsOK, UNCHANGED <<rpcs, syncing, calls>>
  PROVE  CallsOK'
  BY DEF CallsOK, Stacks, AcceptedIsServed, ServedIsAccepted,
         LowerRanksServed, CallIsHandled, ReplyIsAwaited, NoDoNothing,
         Announced, Accepted, InSync, calls

\* A server that is in no call starts a sync; in the handler of an RPC this
\* is a refcount.
LEMMA CallsStart ==
  ASSUME TypeOK, CallsOK, NEW s \in Servers, NEW t \in Servers, s # t,
         NEW m \in Modes, Free(s), replying[s] = None \/ m = "REFCOUNT",
         syncing' = [syncing EXCEPT
                       ![s] = [to |-> t, mode |-> m, accepted |-> FALSE]],
         UNCHANGED <<rpcs, serving, sending, replying, calling>>
  PROVE  CallsOK'
  <1>0. /\ syncing'[s] = [to |-> t, mode |-> m, accepted |-> FALSE]
        /\ \A u \in Servers \ {s} : syncing'[u] = syncing[u]
        /\ serving[s] = None /\ sending[s] = None /\ calling[s] = None
        /\ ~syncing[s].accepted /\ syncing[s].to = None
    <2>1. syncing[s].to = None
      BY DEF Free, InSync
    <2>2. ~syncing[s].accepted
      BY <2>1, Zenon DEF CallsOK, Stacks, AcceptedIsServed, InSync
    <2> QED
      BY <2>1, <2>2, Zenon DEF Free, TypeOK
  <1>1. AcceptedIsServed'
    BY <1>0, Ranks, CallTypes, SMT, SMTT(30)
       DEF CallsOK, Stacks, InSync, AcceptedIsServed
  <1>2. ServedIsAccepted'
    <2>1. ASSUME NEW u \in Servers
          PROVE  serving[u] # s /\ sending[u] # s
      <3>1. syncing[s].to # u /\ calling[s] # u /\ s # None
        BY <1>0, Ranks
      <3>2. serving[u] # s
        BY <3>1, Zenon DEF CallsOK, Stacks, ServedIsAccepted, Accepted
      <3>3. sending[u] # s
        BY <3>1, Zenon DEF CallsOK, Stacks, ServedIsAccepted, Accepted
      <3> QED
        BY <3>2, <3>3, Zenon
    <2> QED
      BY <1>0, <2>1, CallTypes, SMT, SMTT(30)
         DEF CallsOK, Stacks, ServedIsAccepted, Accepted
  <1>3. LowerRanksServed'
    BY <1>0, Ranks, CallTypes, SMT, SMTT(30)
       DEF CallsOK, Stacks, InSync, LowerRanksServed
  <1>4. CallIsHandled'
    BY <1>0, Ranks, CallTypes, SMT, SMTT(30) DEF CallsOK, Stacks, InSync, CallIsHandled
  <1>5. ReplyIsAwaited'
    BY <1>0, Ranks, CallTypes, SMT, SMTT(30) DEF CallsOK, Stacks, InSync, ReplyIsAwaited
  <1>6. NoDoNothing'
    BY <1>0, Ranks, CallTypes, Zenon DEF CallsOK, Stacks, NoDoNothing
  <1>7. Announced'
    BY <1>0, Ranks, CallTypes, SMT, SMTT(30) DEF CallsOK, Announced
  <1> QED
    BY <1>1, <1>2, <1>3, <1>4, <1>5, <1>6, <1>7, Zenon DEF CallsOK, Stacks

\* A server accepts the request of another one: outside a sync of its own,
\* or of a lower rank.
LEMMA CallsServe ==
  ASSUME TypeOK, CallsOK, NEW s \in Servers, NEW f \in Servers, s # f,
         NEW m \in {"REQUEST", "STEAL"},
         syncing[f].to = s, syncing[f].mode = m,
         serving[s] = None, sending[s] = None, calling[s] = None,
         InSync(s) => f < s, ~InSync(s) => replying[s] = None,
         syncing' = Respond(s, f),
         serving' = IF m = "REQUEST" THEN [serving EXCEPT ![s] = f] ELSE serving,
         sending' = IF m = "STEAL" THEN [sending EXCEPT ![s] = f] ELSE sending,
         UNCHANGED <<rpcs, replying, calling>>
  PROVE  CallsOK'
  <1>a. \A u \in Servers : u # None
    BY Ranks
  <1>b. /\ syncing'[f].to = s /\ syncing'[f].mode = m /\ syncing'[f].accepted
        /\ \A u \in Servers \ {f} : syncing'[u] = syncing[u]
    <2>1. syncing'[f] = [syncing[f] EXCEPT !.accepted = @ \/ syncing[f].to = s]
      BY DEF Respond, TypeOK
    <2>2. \A u \in Servers \ {f} : syncing'[u] = syncing[u]
      BY Zenon DEF Respond, TypeOK
    <2>3. syncing[f] \in SyncRecords
      BY Zenon DEF TypeOK
    <2> QED
      BY <2>1, <2>2, <2>3, Zenon DEF SyncRecords
  <1>c. \A u \in Servers :
          syncing'[u].to = syncing[u].to /\ syncing'[u].mode = syncing[u].mode
    BY <1>b, Zenon
  <1>d. /\ \A u \in Servers \ {s} :
             serving'[u] = serving[u] /\ sending'[u] = sending[u]
        /\ m = "REQUEST" => serving'[s] = f /\ sending'[s] = None
        /\ m = "STEAL" => sending'[s] = f /\ serving'[s] = None
    BY DEF TypeOK
  <1>0. calling[f] = None
    BY <1>a, Zenon DEF CallsOK, Stacks, CallIsHandled, InSync
  <1>1. AcceptedIsServed'
    BY <1>0, <1>a, <1>b, <1>c, <1>d, CallTypes, SMT, SMTT(30)
       DEF CallsOK, Stacks, InSync, AcceptedIsServed
  <1>2. ServedIsAccepted'
    BY <1>0, <1>a, <1>b, <1>c, <1>d, CallTypes, SMT, SMTT(30)
       DEF CallsOK, Stacks, InSync, ServedIsAccepted,
       Accepted
  <1>3. LowerRanksServed'
    BY <1>0, <1>a, <1>b, <1>c, <1>d, CallTypes, SMT, SMTT(30)
       DEF CallsOK, Stacks, InSync, LowerRanksServed
  <1>4. CallIsHandled'
    BY <1>0, <1>a, <1>b, <1>c, <1>d, CallTypes, SMT, SMTT(30)
       DEF CallsOK, Stacks, InSync, CallIsHandled
  <1>5. ReplyIsAwaited'
    BY <1>0, <1>a, <1>b, <1>c, <1>d, CallTypes, SMT, SMTT(30)
       DEF CallsOK, Stacks, InSync, ReplyIsAwaited
  <1>6. NoDoNothing'
    BY <1>0, <1>a, <1>b, <1>c, <1>d, CallTypes, SMT, SMTT(30)
       DEF CallsOK, Stacks, InSync, NoDoNothing
  <1>7. Announced'
    BY <1>0, <1>a, <1>b, <1>c, <1>d, CallTypes, SMT, SMTT(30)
       DEF CallsOK, Stacks, InSync, Announced
  <1> QED
    BY <1>1, <1>2, <1>3, <1>4, <1>5, <1>6, <1>7, Zenon DEF CallsOK, Stacks

\* The send of a message that needs no acceptance completed.
LEMMA CallsSent ==
  ASSUME TypeOK, CallsOK, NEW s \in Servers, InSync(s),
         ~AcceptRequired(syncing[s].mode), serving[s] = None,
         sending[s] = None, syncing' = EndSync(s),
         UNCHANGED <<rpcs, serving, sending, replying, calling>>
  PROVE  CallsOK'
  <1>0. /\ syncing'[s].to = None /\ ~syncing'[s].accepted
        /\ \A u \in Servers \ {s} : syncing'[u] = syncing[u]
        /\ s # None /\ ~syncing[s].accepted
    BY Ranks, ZenonT(60) DEF EndSync, NoSync, TypeOK, CallsOK, Stacks, AcceptedIsServed,
                 AcceptRequired
  <1>1. AcceptedIsServed'
    BY <1>0, CallTypes DEF CallsOK, Stacks, InSync, AcceptedIsServed
  <1>2. ServedIsAccepted'
    BY <1>0, CallTypes, SMT, SMTT(30) DEF CallsOK, Stacks, InSync, ServedIsAccepted,
       Accepted
  <1>3. LowerRanksServed'
    BY <1>0, CallTypes, Zenon DEF CallsOK, Stacks, InSync, LowerRanksServed
  <1>4. CallIsHandled'
    BY <1>0, CallTypes, ZenonT(60) DEF CallsOK, Stacks, InSync, CallIsHandled
  <1>5. ReplyIsAwaited'
    BY <1>0, CallTypes, ZenonT(200) DEF CallsOK, Stacks, InSync, ReplyIsAwaited
  <1>6. NoDoNothing'
    BY <1>0, CallTypes, Zenon DEF CallsOK, Stacks, InSync, NoDoNothing
  <1>7. Announced'
    BY <1>0, CallTypes, ZenonT(60) DEF CallsOK, Stacks, InSync, Announced
  <1> QED
    BY <1>1, <1>2, <1>3, <1>4, <1>5, <1>6, <1>7, Zenon DEF CallsOK, Stacks

\* The caller of an accepted REQUEST issues its RPC.
LEMMA CallsRequest ==
  ASSUME TypeOK, CallsOK, NEW s \in Servers, InSync(s), syncing[s].accepted,
         syncing[s].mode = "REQUEST", serving[s] = None, sending[s] = None,
         syncing' = EndSync(s), Call(s, syncing[s].to),
         UNCHANGED <<serving, sending, replying>>
  PROVE  CallsOK'
  <1> DEFINE t == syncing[s].to
  <1>a. /\ \A u \in Servers : u # None
        /\ t \in Servers /\ <<s, t>> \in Pairs /\ serving[t] = s /\ t # s
    BY Ranks, ZenonT(60)
       DEF CallsOK, Stacks, AcceptedIsServed, LowerRanksServed, InSync,
                 TypeOK, SyncRecords, Pairs
  <1>b. /\ syncing'[s].to = None /\ ~syncing'[s].accepted
        /\ \A u \in Servers \ {s} : syncing'[u] = syncing[u]
    BY DEF EndSync, NoSync, TypeOK
  <1>c. /\ calling[s] = None /\ replying[s] = None /\ rpcs[<<s, t>>] = <<>>
    <2>1. calling[s] = None
      BY Zenon DEF CallsOK, Stacks, CallIsHandled
    <2>2. replying[s] = None
      BY Zenon DEF CallsOK, Stacks, ReplyIsAwaited
    <2>3. rpcs[<<s, t>>] = <<>>
      BY <1>a, <2>1 DEF CallsOK, Announced
    <2> QED
      BY <2>1, <2>2, <2>3, Zenon
  <1>d. PICK r \in RpcTags :
          r # "DO_NOTHING" /\ rpcs' = [rpcs EXCEPT ![<<s, t>>] = Append(@, r)]
    BY ParamsAssumption, ZenonT(30) DEF Call, RpcTags
  <1>e. /\ rpcs'[<<s, t>>] = <<r>>
        /\ \A p \in Pairs \ {<<s, t>>} : rpcs'[p] = rpcs[p]
    BY <1>a, <1>c, <1>d, SMT, SMTT(30) DEF TypeOK
  <1>f. /\ calling'[s] = t
        /\ \A u \in Servers \ {s} : calling'[u] = calling[u]
    BY DEF Call, TypeOK
  <1>g. \A u, v \in Servers :
          <<u, v>> \in Pairs /\ (<<u, v>> = <<s, t>> <=> u = s /\ v = t)
    BY Zenon DEF Pairs
  <1> HIDE DEF t
  <1>1. AcceptedIsServed'
    BY <1>a, <1>b, <1>c, <1>e, <1>f, <1>g, CallTypes, SMT, SMTT(30)
       DEF CallsOK, Stacks,
       InSync, AcceptedIsServed
  <1>2. ServedIsAccepted'
    BY <1>a, <1>b, <1>c, <1>e, <1>f, <1>g, CallTypes, SMT, SMTT(30)
       DEF CallsOK, Stacks,
       InSync, ServedIsAccepted, Accepted
  <1>3. LowerRanksServed'
    BY <1>a, <1>b, <1>c, <1>e, <1>f, <1>g, CallTypes, SMT, SMTT(30)
       DEF CallsOK, Stacks,
       InSync, LowerRanksServed
  <1>4. CallIsHandled'
    <2> SUFFICES ASSUME NEW f \in Servers, calling'[f] # None
                 PROVE  /\ ~InSync(f)' /\ serving'[f] = None
                        /\ sending'[f] = None /\ replying'[f] = None
                        /\ \/ /\ serving'[calling'[f]] = f
                              /\ rpcs'[<<f, calling'[f]>>] # <<>>
                           \/ replying'[calling'[f]] = f
      BY Zenon DEF CallIsHandled
    <2>1. CASE f = s
      BY <2>1, <1>a, <1>b, <1>c, <1>e, <1>f, SMT, SMTT(30) DEF InSync
    <2>2. CASE f # s
      <3>1. calling'[f] = calling[f] /\ calling[f] \in Servers
        BY <2>2, <1>f, CallTypes, Zenon
      <3>2. rpcs'[<<f, calling[f]>>] = rpcs[<<f, calling[f]>>]
        BY <2>2, <3>1, <1>e, <1>g, ZenonT(60)
      <3> QED
        BY <2>2, <3>1, <3>2, <1>b, SMT, SMTT(30)
           DEF CallsOK, Stacks, CallIsHandled, InSync
    <2> QED
      BY <2>1, <2>2, Zenon
  <1>5. ReplyIsAwaited'
    BY <1>a, <1>b, <1>c, <1>e, <1>f, <1>g, CallTypes, SMT, SMTT(30)
       DEF CallsOK, Stacks,
       InSync, ReplyIsAwaited
  <1>6. NoDoNothing'
    BY <1>d, <1>a, <1>b, <1>c, <1>e, <1>f, <1>g, CallTypes, SMT, SMTT(30)
       DEF CallsOK, Stacks,
       InSync, NoDoNothing
  <1>7. Announced'
    <2> SUFFICES ASSUME NEW f \in Servers, NEW u \in Servers,
                        rpcs'[<<f, u>>] # <<>>
                 PROVE  /\ Len(rpcs'[<<f, u>>]) = 1
                        /\ serving'[u] = f /\ calling'[f] = u
      BY ZenonT(60) DEF Announced
    <2>1. CASE f = s /\ u = t
      BY <2>1, <1>a, <1>e, <1>f, SMT, SMTT(30)
    <2>2. CASE ~(f = s /\ u = t)
      <3>1. rpcs'[<<f, u>>] = rpcs[<<f, u>>]
        BY <2>2, <1>e, <1>g, Zenon
      <3>2. Len(rpcs[<<f, u>>]) = 1 /\ serving[u] = f /\ calling[f] = u
        BY <3>1, Zenon DEF CallsOK, Announced
      <3>3. f # s
        BY <3>2, <1>a, <1>c, Zenon
      <3> QED
        BY <3>1, <3>2, <3>3, <1>f, ZenonT(60)
    <2> QED
      BY <2>1, <2>2, Zenon
  <1> QED
    BY <1>1, <1>2, <1>3, <1>4, <1>5, <1>6, <1>7, ZenonT(60) DEF CallsOK, Stacks

\* The thief has received the stolen work.
LEMMA CallsStolen ==
  ASSUME TypeOK, CallsOK, NEW s \in Servers, InSync(s), syncing[s].accepted,
         syncing[s].mode = "STEAL", serving[s] = None, sending[s] = None,
         syncing' = EndSync(s),
         sending' = [sending EXCEPT ![syncing[s].to] = None],
         UNCHANGED <<rpcs, serving, replying, calling>>
  PROVE  CallsOK'
  <1> DEFINE t == syncing[s].to
  <1>a. /\ \A u \in Servers : u # None
        /\ t \in Servers /\ sending[t] = s /\ t # s
    BY Ranks, ZenonT(60) DEF CallsOK, Stacks, AcceptedIsServed, LowerRanksServed, InSync,
                 TypeOK, SyncRecords
  <1>b. /\ syncing'[s].to = None /\ ~syncing'[s].accepted
        /\ \A u \in Servers \ {s} : syncing'[u] = syncing[u]
    BY DEF EndSync, NoSync, TypeOK
  <1>c. sending'[t] = None /\ \A u \in Servers \ {t} : sending'[u] = sending[u]
    BY <1>a, ZenonT(60) DEF TypeOK
  <1> HIDE DEF t
  <1>1. AcceptedIsServed'
    <2>1. AcceptedIsServed
      BY Zenon DEF CallsOK, Stacks
    <2>2. ASSUME NEW u \in Servers, syncing'[u].accepted
          PROVE  /\ u # s /\ syncing'[u] = syncing[u] /\ syncing[u].accepted
                 /\ sending[syncing[u].to] = u => syncing[u].to # t
      BY <1>a, <1>b, <2>2, Zenon
    <2>3. ASSUME NEW u \in Servers, syncing'[u].accepted
          PROVE  syncing[u].to \in Servers
      BY <2>1, <2>2, <2>3, CallTypes, ZenonT(60) DEF AcceptedIsServed, InSync
    <2> QED
      BY <1>c, <2>1, <2>2, <2>3, SMT, SMTT(30) DEF AcceptedIsServed, InSync
  <1>2. ServedIsAccepted'
    BY <1>a, <1>b, <1>c, CallTypes, SMT, SMTT(30) DEF CallsOK, Stacks, InSync,
       ServedIsAccepted, Accepted
  <1>3. LowerRanksServed'
    BY <1>a, <1>b, <1>c, CallTypes, SMT, SMTT(30) DEF CallsOK, Stacks, InSync,
       LowerRanksServed
  <1>4. CallIsHandled'
    BY <1>a, <1>b, <1>c, CallTypes, SMT, SMTT(30) DEF CallsOK, Stacks, InSync,
       CallIsHandled
  <1>5. ReplyIsAwaited'
    BY <1>a, <1>b, <1>c, CallTypes, SMT, SMTT(30) DEF CallsOK, Stacks, InSync,
       ReplyIsAwaited
  <1>6. NoDoNothing'
    BY <1>a, <1>b, <1>c, CallTypes, ZenonT(200) DEF CallsOK, Stacks, InSync,
       NoDoNothing
  <1>7. Announced'
    BY <1>a, <1>b, <1>c, CallTypes DEF CallsOK, Stacks, InSync, Announced
  <1> QED
    BY <1>1, <1>2, <1>3, <1>4, <1>5, <1>6, <1>7, Zenon DEF CallsOK, Stacks

-----------------------------------------------------------------------------
(* The RPC and its response.                                               *)

\* A server serves the announced RPC: it responds, or, outside a sync of its
\* own, goes on in the handler.
LEMMA CallsRpc ==
  ASSUME TypeOK, CallsOK, NEW s \in Servers, ServeRpc(s)
  PROVE  CallsOK'
  <1> DEFINE f == serving[s]
  <1>a. /\ \A u \in Servers : u # None
        /\ f \in Servers /\ f = serving[s] /\ <<f, s>> \in Pairs
        /\ rpcs[<<f, s>>] \in Seq(RpcTags) /\ rpcs[<<f, s>>] # <<>>
    BY Ranks, Zenon DEF ServeRpc, HandleRpc, HandleStore, HandlePut,
         HandleCheckIdle, HandleDoNothing, TypeOK, Pairs
  <1>b. Len(rpcs[<<f, s>>]) = 1 /\ calling[f] = s
    BY <1>a DEF CallsOK, Announced
  <1>c. /\ rpcs'[<<f, s>>] = <<>>
        /\ \A p \in Pairs \ {<<f, s>>} : rpcs'[p] = rpcs[p]
    <2>1. rpcs' = [rpcs EXCEPT ![<<f, s>>] = Tail(@)]
      BY Zenon DEF ServeRpc, HandleRpc, HandleStore, HandlePut, HandleCheckIdle,
           HandleDoNothing
    <2>2. Tail(rpcs[<<f, s>>]) = <<>>
      <3>1. ASSUME NEW q \in Seq(RpcTags), Len(q) = 1 PROVE Tail(q) = <<>>
        <4>1. Tail(q) \in Seq(RpcTags) /\ Len(Tail(q)) = 0
          BY <3>1
        <4>2. \A x \in Seq(RpcTags) : Len(x) = 0 => x = <<>>
          BY SMT, SMTT(30)
        <4> QED
          BY <4>1, <4>2, Zenon
      <3> QED
        BY <1>a, <1>b, <3>1, Zenon
    <2> QED
      BY <1>a, <2>1, <2>2, Zenon DEF TypeOK
  <1>d. Head(rpcs[<<f, s>>]) # "DO_NOTHING"
    BY <1>a, <1>b, SMT, SMTT(30) DEF CallsOK, Stacks, NoDoNothing
  <1>e. /\ serving'[s] = None /\ \A u \in Servers \ {s} : serving'[u] = serving[u]
        /\ UNCHANGED <<syncing, sending>>
    BY DEF ServeRpc, TypeOK
  <1>f. \/ calling' = [calling EXCEPT ![f] = None] /\ UNCHANGED replying
        \/ /\ replying' = [replying EXCEPT ![s] = f] /\ UNCHANGED calling
           /\ ~InSync(s)
    BY <1>d, Zenon
       DEF ServeRpc, HandleRpc, HandleStore, HandlePut, HandleCheckIdle,
         HandleDoNothing
  <1>g. \A u, v \in Servers : /\ <<u, v>> \in Pairs
                              /\ <<u, v>> = <<f, s>> <=> u = f /\ v = s
    BY <1>a, Zenon DEF Pairs
  <1>h. /\ ~InSync(f) /\ serving[f] = None /\ sending[f] = None
        /\ replying[f] = None /\ f # s
    BY <1>a, <1>b, ZenonT(60) DEF CallsOK, Stacks, CallIsHandled
  <1>i. ~InSync(s) => replying[s] = None
    BY <1>a, Zenon DEF CallsOK, Stacks, ReplyIsAwaited
  <1>j. \A u \in Servers : replying[u] # f
    <2> SUFFICES ASSUME NEW u \in Servers, replying[u] = f PROVE FALSE
      BY Zenon
    <2>1. calling[f] = u /\ rpcs[<<f, u>>] = <<>>
      BY <1>a, Zenon DEF CallsOK, Stacks, ReplyIsAwaited
    <2> QED
      BY <1>a, <1>b, <2>1, Zenon
  <1>k. \A u \in Servers \ {s} : serving[u] # f
    <2> SUFFICES ASSUME NEW u \in Servers, u # s, serving[u] = f PROVE FALSE
      OBVIOUS
    <2>1. Accepted(f, u, "REQUEST") \/ calling[f] = u
      BY <1>a, Zenon DEF CallsOK, Stacks, ServedIsAccepted
    <2> QED
      BY <1>a, <1>b, <1>h, <2>1, Zenon DEF Accepted, InSync
  <1>l. \A u \in Servers : serving'[u] = serving[u] \/ (u = s /\ serving'[u] = None)
    BY <1>e
  <1>m. /\ \A u \in Servers \ {f} : calling'[u] = calling[u]
        /\ \A u \in Servers \ {s} : replying'[u] = replying[u]
        /\ \/ calling'[f] = None /\ replying'[s] = replying[s]
           \/ calling'[f] = s /\ replying'[s] = f /\ ~InSync(s)
    BY <1>a, <1>b, <1>f, ZenonT(60) DEF TypeOK
  <1> HIDE DEF f
  <1>1. AcceptedIsServed'
    <2>1. \A g \in Servers : syncing[g].accepted => InSync(g) /\ g # f
      BY <1>h, Zenon DEF CallsOK, Stacks, AcceptedIsServed
    <2>2. \A g \in Servers : syncing[g].accepted => syncing[g].to \in Servers
      BY <2>1, CallTypes, Zenon DEF InSync
    <2> QED
      BY <1>a, <1>e, <2>1, <2>2, ZenonT(60) DEF CallsOK, Stacks, AcceptedIsServed, InSync
  <1>2. ServedIsAccepted'
    <2> SUFFICES ASSUME NEW u \in Servers
                 PROVE  /\ serving'[u] # None =>
                             \/ Accepted(serving[u], u, "REQUEST")'
                             \/ /\ calling'[serving'[u]] = u
                                /\ rpcs'[<<serving'[u], u>>] # <<>>
                        /\ sending'[u] # None =>
                             Accepted(sending[u], u, "STEAL")'
      BY Zenon DEF ServedIsAccepted
    <2>1. sending'[u] # None => Accepted(sending[u], u, "STEAL")'
      BY <1>e, ZenonT(30) DEF CallsOK, Stacks, ServedIsAccepted, Accepted
    <2>2. ASSUME serving'[u] # None
          PROVE  \/ Accepted(serving[u], u, "REQUEST")'
                 \/ /\ calling'[serving'[u]] = u
                    /\ rpcs'[<<serving'[u], u>>] # <<>>
      <3>1. u # s /\ serving'[u] = serving[u] /\ serving[u] \in Servers
        BY <2>2, <1>e, CallTypes, Zenon
      <3>2. /\ calling'[serving[u]] = calling[serving[u]]
            /\ rpcs'[<<serving[u], u>>] = rpcs[<<serving[u], u>>]
        BY <3>1, <1>c, <1>g, <1>k, <1>m, ZenonT(60), SMTT(30)
      <3> QED
        BY <2>2, <3>1, <3>2, <1>e, SMT, SMTT(30)
           DEF CallsOK, Stacks, ServedIsAccepted, Accepted
    <2> QED
      BY <2>1, <2>2, Zenon
  <1>3. LowerRanksServed'
    BY <1>a, <1>b, <1>c, <1>e, <1>g, <1>h, <1>i, <1>j, <1>k, <1>l, <1>m,
       CallTypes, SMT, SMTT(30) DEF CallsOK, Stacks, InSync, LowerRanksServed
  <1>4. CallIsHandled'
    BY <1>a, <1>b, <1>c, <1>e, <1>g, <1>h, <1>i, <1>j, <1>k, <1>l, <1>m,
       CallTypes, SMT, SMTT(30) DEF CallsOK, Stacks, InSync, CallIsHandled
  <1>5. ReplyIsAwaited'
    <2> SUFFICES ASSUME NEW u \in Servers, replying'[u] # None
                 PROVE  /\ calling'[replying'[u]] = u
                        /\ rpcs'[<<replying'[u], u>>] = <<>>
                        /\ InSync(u)' => syncing'[u].mode = "REFCOUNT"
                        /\ serving'[u] # None \/ sending'[u] # None => InSync(u)'
      BY DEF ReplyIsAwaited
    <2>1. CASE replying'[u] = replying[u]
      <3>1. replying[u] \in Servers /\ replying[u] # f
        BY <2>1, <1>j, CallTypes, Zenon
      <3>2. /\ calling'[replying[u]] = calling[replying[u]]
            /\ rpcs'[<<replying[u], u>>] = rpcs[<<replying[u], u>>]
        BY <3>1, <1>c, <1>g, <1>m, Zenon
      <3> QED
        BY <2>1, <3>2, <1>e, <1>l, Zenon
           DEF CallsOK, Stacks, ReplyIsAwaited, InSync
    <2>2. CASE replying'[u] # replying[u]
      <3>1. u = s /\ replying'[u] = f /\ calling'[f] = s /\ ~InSync(s)
        BY <2>2, <1>m
      <3>2. sending[s] = None
        BY <3>1, <1>a, ZenonT(60) DEF CallsOK, Stacks, LowerRanksServed
      <3> QED
        BY <3>1, <3>2, <1>c, <1>e, ZenonT(60) DEF InSync
    <2> QED
      BY <2>1, <2>2, Zenon
  <1>6. NoDoNothing'
    BY <1>a, <1>b, <1>c, <1>e, <1>g, <1>h, <1>i, <1>j, <1>k, <1>l, <1>m,
       CallTypes, SMT, SMTT(30) DEF CallsOK, Stacks, InSync, NoDoNothing
  <1>7. Announced'
    BY <1>a, <1>b, <1>c, <1>e, <1>g, <1>h, <1>i, <1>j, <1>k, <1>l, <1>m,
       CallTypes, SMT, SMTT(30) DEF CallsOK, Stacks, InSync, Announced
  <1> QED
    BY <1>1, <1>2, <1>3, <1>4, <1>5, <1>6, <1>7, Zenon DEF CallsOK, Stacks

\* The handler responds, which ends the call.
LEMMA CallsReply ==
  ASSUME TypeOK, CallsOK, NEW s \in Servers, Reply(s)
  PROVE  CallsOK'
  <1> DEFINE f == replying[s]
  <1>a. /\ \A u \in Servers : u # None
        /\ f \in Servers /\ calling[f] = s /\ rpcs[<<f, s>>] = <<>>
        /\ serving[s] = None /\ sending[s] = None /\ ~InSync(s)
    BY Ranks, CallTypes, Zenon DEF Reply, Free, CallsOK, Stacks, ReplyIsAwaited
  <1>b. /\ calling'[f] = None /\ \A u \in Servers \ {f} : calling'[u] = calling[u]
        /\ replying'[s] = None
        /\ \A u \in Servers \ {s} : replying'[u] = replying[u]
        /\ UNCHANGED <<rpcs, syncing, serving, sending>>
    BY <1>a, ZenonT(60) DEF Reply, TypeOK, chans
  <1>c. \A u \in Servers : rpcs[<<f, u>>] = <<>>
    BY <1>a, SMT, SMTT(30) DEF CallsOK, Announced
  <1>d. \A u \in Servers \ {s} : replying[u] # f
    BY <1>a, ZenonT(30) DEF CallsOK, Stacks, ReplyIsAwaited
  <1> HIDE DEF f
  <1>1. AcceptedIsServed'
    BY <1>a, <1>b, <1>c, <1>d, CallTypes, ZenonT(60) DEF CallsOK, Stacks, InSync,
       AcceptedIsServed
  <1>2. ServedIsAccepted'
    BY <1>a, <1>b, <1>c, <1>d, CallTypes, SMT, SMTT(30) DEF CallsOK, Stacks, InSync,
       ServedIsAccepted, Accepted
  <1>3. LowerRanksServed'
    BY <1>a, <1>b, <1>c, <1>d, CallTypes, ZenonT(60), SMTT(30) DEF CallsOK, Stacks, InSync,
       LowerRanksServed
  <1>4. CallIsHandled'
    BY <1>a, <1>b, <1>c, <1>d, CallTypes, SMT, SMTT(30) DEF CallsOK, Stacks, InSync,
       CallIsHandled
  <1>5. ReplyIsAwaited'
    BY <1>a, <1>b, <1>c, <1>d, CallTypes, SMT, SMTT(30) DEF CallsOK, Stacks, InSync,
       ReplyIsAwaited
  <1>6. NoDoNothing'
    BY <1>a, <1>b, <1>c, <1>d, CallTypes, ZenonT(200)
       DEF CallsOK, Stacks, InSync,
       NoDoNothing
  <1>7. Announced'
    BY <1>a, <1>b, <1>c, <1>d, CallTypes, SMT, SMTT(30) DEF CallsOK, Stacks, InSync,
       Announced
  <1> QED
    BY <1>1, <1>2, <1>3, <1>4, <1>5, <1>6, <1>7, Zenon DEF CallsOK, Stacks

-----------------------------------------------------------------------------
(* Requests on a pending list; Held is RequestHeldOnce for any network,     *)
(* pending lists and syncs.                                                *)

\* Deferring: the new entry e is a request of at most one server.
LEMMA DeferAppend ==
  ASSUME NEW q \in Seq(PendingRecords), NEW e \in PendingRecords, NEW f
  PROVE  /\ NoDeferred(q, f) /\ ~DeferredOf(e, f) => NoDeferred(Append(q, e), f)
         /\ NoDeferred(q, f) /\ DeferredOf(e, f) =>
              OneDeferred(Append(q, e), f, e.mode)
         /\ \A k : OneDeferred(q, f, k) /\ ~DeferredOf(e, f) =>
              OneDeferred(Append(q, e), f, k)
  <1>1. /\ Len(Append(q, e)) = Len(q) + 1 /\ Len(q) \in Nat
        /\ \A i \in 1..Len(q) : Append(q, e)[i] = q[i]
        /\ Append(q, e)[Len(q) + 1] = e
    BY SMT, SMTT(30)
  <1> DEFINE r == Append(q, e)
  <1> HIDE DEF r
  <1>2. NoDeferred(q, f) /\ ~DeferredOf(e, f) => NoDeferred(r, f)
    BY <1>1, SMT, SMTT(30) DEF NoDeferred, r
  <1>3. NoDeferred(q, f) /\ DeferredOf(e, f) => OneDeferred(r, f, e.mode)
    BY <1>1, SMT, SMTT(30) DEF NoDeferred, OneDeferred, r
  <1>4. ASSUME NEW k, OneDeferred(q, f, k), ~DeferredOf(e, f)
        PROVE  OneDeferred(r, f, k)
    BY <1>1, <1>4, SMT, SMTT(30) DEF OneDeferred, r
  <1> QED
    BY <1>2, <1>3, <1>4, Zenon DEF r

\* Taking the head of a pending list.
LEMMA DeferTail ==
  ASSUME NEW q \in Seq(PendingRecords), q # <<>>, NEW f
  PROVE  /\ NoDeferred(q, f) =>
              NoDeferred(Tail(q), f) /\ ~DeferredOf(Head(q), f)
         /\ \A k : OneDeferred(q, f, k) /\ DeferredOf(Head(q), f) =>
              NoDeferred(Tail(q), f) /\ Head(q).mode = k
         /\ \A k : OneDeferred(q, f, k) /\ ~DeferredOf(Head(q), f) =>
              OneDeferred(Tail(q), f, k)
  <1> DEFINE r == Tail(q)
  <1>1. /\ Len(q) \in Nat /\ Len(q) >= 1 /\ Len(r) = Len(q) - 1
        /\ \A i \in 1..Len(r) : r[i] = q[i + 1]
        /\ Head(q) = q[1]
    BY SMT, SMTT(30)
  <1> HIDE DEF r
  <1>2. NoDeferred(q, f) => NoDeferred(r, f) /\ ~DeferredOf(Head(q), f)
    BY <1>1, SMT, SMTT(30) DEF NoDeferred
  <1>3. ASSUME NEW k, OneDeferred(q, f, k)
        PROVE  /\ DeferredOf(Head(q), f) => NoDeferred(r, f) /\ Head(q).mode = k
               /\ ~DeferredOf(Head(q), f) => OneDeferred(r, f, k)
    <2>1. PICK i \in 1..Len(q) :
            /\ q[i].mode = k /\ DeferredOf(q[i], f)
            /\ \A j \in 1..Len(q) : DeferredOf(q[j], f) => j = i
      BY <1>3, Zenon DEF OneDeferred
    <2>2. ASSUME DeferredOf(Head(q), f)
          PROVE  NoDeferred(r, f) /\ Head(q).mode = k
      <3>1. i = 1
        BY <2>1, <2>2, <1>1, SMT, SMTT(30)
      <3> QED
        BY <2>1, <3>1, <1>1, SMT, SMTT(30) DEF NoDeferred
    <2>3. ASSUME ~DeferredOf(Head(q), f)
          PROVE  OneDeferred(r, f, k)
      <3>1. i # 1 /\ i - 1 \in 1..Len(r) /\ r[i - 1] = q[i]
        BY <2>1, <1>1, <2>3, SMT, SMTT(30)
      <3>2. \A j \in 1..Len(r) : DeferredOf(r[j], f) => j = i - 1
        BY <2>1, <1>1, SMT, SMTT(30)
      <3> QED
        BY <2>1, <3>1, <3>2, ZenonT(60) DEF OneDeferred
    <2> QED
      BY <2>2, <2>3, Zenon
  <1> QED
    BY <1>2, <1>3, Zenon DEF r

\* Held is RequestHeldOnce without its condition.
LEMMA HeldIsRequestHeldOnce ==
  TypeOK => (RequestHeldOnce <=> (shutting = {} => Held(net, pending, syncing)))
  <1> SUFFICES ASSUME TypeOK
               PROVE  RequestHeldOnce
                        <=> (shutting = {} => Held(net, pending, syncing))
    BY Zenon
  <1>1. ASSUME NEW f \in Servers, NEW t \in Servers
        PROVE  Unaccepted(f) /\ syncing[f].to = t <=> Waits(syncing, f, t)
    BY Ranks, Zenon DEF Unaccepted, InSync, Waits
  <1> QED
    BY <1>1, ZenonT(60) DEF RequestHeldOnce, Held, HeldPair, HeldOnce

\* Starting a sync puts its message on the channel.
LEMMA HeldStart ==
  ASSUME NEW n \in Nets, NEW p \in Pends, NEW y \in Syncs, Held(n, p, y),
         NEW s \in Servers, NEW t \in Servers, s # t, NEW m \in Modes,
         y[s].to = None
  PROVE  Held([n EXCEPT ![<<s, t>>] = Append(@, m)], p,
              [y EXCEPT ![s] = [to |-> t, mode |-> m, accepted |-> FALSE]])
  <1> DEFINE n1 == [n EXCEPT ![<<s, t>>] = Append(@, m)]
             y1 == [y EXCEPT ![s] = [to |-> t, mode |-> m, accepted |-> FALSE]]
  <1> SUFFICES ASSUME NEW f \in Servers, NEW u \in Servers, f # u
               PROVE  HeldPair(n1, p, y1, f, u)
    BY Zenon DEF Held
  <1>0. HeldPair(n, p, y, f, u)
    BY Zenon DEF Held
  <1>1. CASE f # s
    <2>1. n1[<<f, u>>] = n[<<f, u>>] /\ y1[f] = y[f]
      BY <1>1, Zenon DEF Nets, Pairs, Syncs
    <2> QED
      BY <1>0, <2>1, Zenon DEF HeldPair, Waits
  <1>2. CASE f = s /\ u # t
    <2>1. n1[<<f, u>>] = n[<<f, u>>] /\ y1[f].to = t
      BY <1>2, ZenonT(60) DEF Nets, Pairs, Syncs
    <2> QED
      BY <1>0, <1>2, <2>1, Ranks, Zenon DEF HeldPair, Waits
  <1>3. CASE f = s /\ u = t
    <2>1. /\ n1[<<f, u>>] = Append(n[<<f, u>>], m) /\ n[<<f, u>>] \in Seq(Modes)
          /\ y1[f] = [to |-> t, mode |-> m, accepted |-> FALSE]
      BY <1>3, Zenon DEF Nets, Pairs, Syncs
    <2>2. NoReq(n[<<f, u>>]) /\ NoDeferred(p[u], f)
      BY <1>0, <1>3, Ranks, Zenon DEF HeldPair, Waits
    <2> QED
      BY <1>3, <2>1, <2>2, ReqAppend, SMT, SMTT(30) DEF HeldPair, Waits
  <1> QED
    BY <1>1, <1>2, <1>3, Zenon

\* Ending a sync that was accepted, or that needs no acceptance.
LEMMA HeldEnd ==
  ASSUME NEW n \in Nets, NEW p \in Pends, NEW y \in Syncs, Held(n, p, y),
         NEW s \in Servers, y[s].accepted \/ ~AcceptRequired(y[s].mode)
  PROVE  Held(n, p, [y EXCEPT ![s] = NoSync])
  <1> DEFINE y1 == [y EXCEPT ![s] = NoSync]
  <1> SUFFICES ASSUME NEW f \in Servers, NEW u \in Servers, f # u
               PROVE  HeldPair(n, p, y1, f, u)
    BY Zenon DEF Held
  <1>0. HeldPair(n, p, y, f, u)
    BY Zenon DEF Held
  <1>1. CASE f # s
    BY <1>0, <1>1, Zenon DEF HeldPair, Waits, Syncs
  <1>2. CASE f = s
    <2>1. y1[f].to = None
      BY <1>2, Zenon DEF Syncs, NoSync
    <2> QED
      BY <1>0, <1>2, <2>1, Ranks, Zenon DEF HeldPair, Waits
  <1> QED
    BY <1>1, <1>2, Zenon

\* Taking a message that is no request.
LEMMA HeldTake ==
  ASSUME NEW n \in Nets, NEW p \in Pends, NEW y \in Syncs, Held(n, p, y),
         NEW s \in Servers, NEW f \in Servers, n[<<f, s>>] # <<>>,
         ~AcceptRequired(Head(n[<<f, s>>]))
  PROVE  Held([n EXCEPT ![<<f, s>>] = Tail(@)], p, y)
  <1> DEFINE n1 == [n EXCEPT ![<<f, s>>] = Tail(@)]
  <1> SUFFICES ASSUME NEW g \in Servers, NEW u \in Servers, g # u
               PROVE  HeldPair(n1, p, y, g, u)
    BY Zenon DEF Held
  <1>0. HeldPair(n, p, y, g, u)
    BY Zenon DEF Held
  <1>1. CASE <<g, u>> # <<f, s>>
    <2>1. n1[<<g, u>>] = n[<<g, u>>]
      BY <1>1, Zenon DEF Nets, Pairs
    <2> QED
      BY <1>0, <2>1, Zenon DEF HeldPair
  <1>2. CASE g = f /\ u = s
    <2>1. n1[<<g, u>>] = Tail(n[<<g, u>>]) /\ n[<<g, u>>] \in Seq(Modes)
      BY <1>2, Zenon DEF Nets, Pairs
    <2>2. y[g].mode \in Modes
      BY Zenon DEF Syncs, SyncRecords
    <2> QED
      BY <1>0, <1>2, <2>1, <2>2, ReqTail, ZenonT(60) DEF HeldPair, Waits
  <1> QED
    BY <1>1, <1>2, Zenon

\* Adding an entry that is no request to a pending list.
LEMMA HeldEnqueue ==
  ASSUME NEW n \in Nets, NEW p \in Pends, NEW y \in Syncs, Held(n, p, y),
         NEW s \in Servers, NEW e \in PendingRecords,
         \A g \in Servers : ~DeferredOf(e, g)
  PROVE  Held(n, [p EXCEPT ![s] = Append(@, e)], y)
  <1> DEFINE p1 == [p EXCEPT ![s] = Append(@, e)]
  <1> SUFFICES ASSUME NEW g \in Servers, NEW u \in Servers, g # u
               PROVE  HeldPair(n, p1, y, g, u)
    BY Zenon DEF Held
  <1>0. HeldPair(n, p, y, g, u) /\ p[u] \in Seq(PendingRecords)
    BY Zenon DEF Held, Pends
  <1>1. CASE u # s
    BY <1>0, <1>1, ZenonT(30), SMTT(30) DEF HeldPair, Pends
  <1>2. CASE u = s
    <2>1. p1[u] = Append(p[u], e)
      BY <1>2, Zenon DEF Pends
    <2> QED
      BY <1>0, <2>1, DeferAppend, Zenon DEF HeldPair
  <1> QED
    BY <1>1, <1>2, Zenon

\* Dequeuing an entry that is no request.
LEMMA HeldPop ==
  ASSUME NEW n \in Nets, NEW p \in Pends, NEW y \in Syncs, Held(n, p, y),
         NEW s \in Servers, p[s] # <<>>,
         \A g \in Servers : ~DeferredOf(Head(p[s]), g)
  PROVE  Held(n, [p EXCEPT ![s] = Tail(@)], y)
  <1> DEFINE p1 == [p EXCEPT ![s] = Tail(@)]
  <1> SUFFICES ASSUME NEW g \in Servers, NEW u \in Servers, g # u
               PROVE  HeldPair(n, p1, y, g, u)
    BY Zenon DEF Held
  <1>0. HeldPair(n, p, y, g, u) /\ p[u] \in Seq(PendingRecords)
    BY Zenon DEF Held, Pends
  <1>1. CASE u # s
    BY <1>0, <1>1, Zenon DEF HeldPair, Pends
  <1>2. CASE u = s
    <2>1. p1[u] = Tail(p[u])
      BY <1>2, Zenon DEF Pends
    <2> QED
      BY <1>0, <1>2, <2>1, DeferTail, Zenon DEF HeldPair
  <1> QED
    BY <1>1, <1>2, Zenon

-----------------------------------------------------------------------------
(* A request that is deferred or served.                                   *)

\* msg_from_other_server() moves a request to the pending list.
LEMMA HeldDefer ==
  ASSUME NEW n \in Nets, NEW p \in Pends, NEW y \in Syncs, Held(n, p, y),
         NEW s \in Servers, NEW f \in Servers, f # s, n[<<f, s>>] # <<>>,
         NEW e \in PendingRecords, e.kind = "DEFERRED_SYNC", e.rank = f,
         e.mode = Head(n[<<f, s>>])
  PROVE  Held([n EXCEPT ![<<f, s>>] = Tail(@)],
              [p EXCEPT ![s] = Append(@, e)], y)
  <1>1. CASE ~AcceptRequired(e.mode)
    <2>1. [n EXCEPT ![<<f, s>>] = Tail(@)] \in Nets
      BY DEF Nets, Pairs
    <2>2. Held([n EXCEPT ![<<f, s>>] = Tail(@)], p, y)
      BY <1>1, HeldTake, Zenon
    <2> QED
      BY <1>1, <2>1, <2>2, HeldEnqueue, ZenonT(60) DEF DeferredOf
  <1>2. CASE AcceptRequired(e.mode)
    <2> DEFINE n1 == [n EXCEPT ![<<f, s>>] = Tail(@)]
               p1 == [p EXCEPT ![s] = Append(@, e)]
    <2> SUFFICES ASSUME NEW g \in Servers, NEW u \in Servers, g # u
                 PROVE  HeldPair(n1, p1, y, g, u)
      BY Zenon DEF Held
    <2>0. HeldPair(n, p, y, g, u) /\ p[u] \in Seq(PendingRecords)
      BY ZenonT(60) DEF Held, Pends
    <2>1. CASE u # s
      <3>1. n1[<<g, u>>] = n[<<g, u>>] /\ p1[u] = p[u]
        BY <2>1, Zenon DEF Nets, Pairs, Pends
      <3> QED
        BY <2>0, <3>1 DEF HeldPair
    <2>2. CASE u = s /\ g # f
      <3>1. n1[<<g, u>>] = n[<<g, u>>] /\ p1[u] = Append(p[u], e)
        BY <2>2, Zenon DEF Nets, Pairs, Pends
      <3>2. ~DeferredOf(e, g)
        BY <2>2, ZenonT(60) DEF DeferredOf
      <3> QED
        BY <2>0, <3>1, <3>2, DeferAppend, ZenonT(60) DEF HeldPair
    <2>3. CASE u = s /\ g = f
      <3>1. /\ n1[<<g, u>>] = Tail(n[<<g, u>>]) /\ n[<<g, u>>] \in Seq(Modes)
            /\ p1[u] = Append(p[u], e)
        BY <2>3, Zenon DEF Nets, Pairs, Pends
      <3>2. y[g].mode \in Modes /\ DeferredOf(e, g)
        BY <2>3, <1>2, Zenon DEF Syncs, SyncRecords, DeferredOf
      <3>3. Waits(y, g, u) /\ OneReq(n[<<g, u>>], y[g].mode) /\ NoDeferred(p[u], g)
        BY <2>0, <2>3, <1>2, <3>1, ReqTail, ZenonT(60) DEF HeldPair
      <3>4. NoReq(n1[<<g, u>>]) /\ e.mode = y[g].mode
        BY <2>3, <1>2, <3>1, <3>2, <3>3, ReqTail, ZenonT(60) DEF Waits
      <3>5. OneDeferred(p1[u], g, e.mode)
        BY <2>0, <3>1, <3>2, <3>3, DeferAppend, ZenonT(60)
      <3> QED
        BY <3>3, <3>4, <3>5, Zenon DEF HeldPair
    <2> QED
      BY <2>1, <2>2, <2>3, ZenonT(60)
  <1> QED
    BY <1>1, <1>2, Zenon

\* Accepting a request taken from the channel: it was the only one.
LEMMA HeldServeTake ==
  ASSUME NEW n \in Nets, NEW p \in Pends, NEW y \in Syncs, Held(n, p, y),
         NEW s \in Servers, NEW f \in Servers, f # s, n[<<f, s>>] # <<>>,
         AcceptRequired(Head(n[<<f, s>>]))
  PROVE  /\ y[f] = [to |-> s, mode |-> Head(n[<<f, s>>]), accepted |-> FALSE]
         /\ Held([n EXCEPT ![<<f, s>>] = Tail(@)], p,
                 [y EXCEPT ![f].accepted = @ \/ y[f].to = s])
  <1> DEFINE n1 == [n EXCEPT ![<<f, s>>] = Tail(@)]
             y1 == [y EXCEPT ![f].accepted = @ \/ y[f].to = s]
  <1>1. HeldPair(n, p, y, f, s) /\ n[<<f, s>>] \in Seq(Modes)
    BY Zenon DEF Held, Nets, Pairs
  <1>2. Waits(y, f, s) /\ OneReq(n[<<f, s>>], y[f].mode) /\ NoDeferred(p[s], f)
    BY <1>1, ReqTail, Zenon DEF HeldPair
  <1>3. y[f] \in SyncRecords /\ y[f].mode \in Modes
    BY Zenon DEF Syncs, SyncRecords
  <1>4. NoReq(Tail(n[<<f, s>>])) /\ Head(n[<<f, s>>]) = y[f].mode
    BY <1>1, <1>2, <1>3, ReqTail, Zenon DEF Waits
  <1>5. y[f] = [to |-> s, mode |-> Head(n[<<f, s>>]), accepted |-> FALSE]
    BY <1>2, <1>3, <1>4, Zenon DEF Waits, SyncRecords
  <1>6. ASSUME NEW g \in Servers, NEW u \in Servers, g # u
        PROVE  HeldPair(n1, p, y1, g, u)
    <2>0. HeldPair(n, p, y, g, u)
      BY <1>6, Zenon DEF Held
    <2>1. CASE g # f
      <3>1. n1[<<g, u>>] = n[<<g, u>>] /\ y1[g] = y[g]
        BY <2>1, Zenon DEF Nets, Pairs, Syncs
      <3> QED
        BY <2>0, <3>1, Zenon DEF HeldPair, Waits
    <2>2. CASE g = f
      <3>0. y1[f].accepted
        <4>1. y1[f] = [y[f] EXCEPT !.accepted = @ \/ y[f].to = s]
          BY ZenonT(60) DEF Syncs
        <4>2. y[f].to = s
          BY <1>5, SMT, SMTT(30)
        <4> QED
          BY <1>3, <4>1, <4>2, Zenon DEF SyncRecords
      <3>1. ~Waits(y1, f, u)
        BY <3>0, Zenon DEF Waits
      <3>2. CASE u # s
        <4>1. n1[<<g, u>>] = n[<<g, u>>] /\ ~Waits(y, f, u)
          BY <3>2, <2>2, <1>2, Zenon DEF Nets, Pairs, Waits
        <4> QED
          BY <2>0, <2>2, <3>1, <4>1, Zenon DEF HeldPair
      <3>3. CASE u = s
        <4>1. n1[<<g, u>>] = Tail(n[<<f, s>>])
          BY <3>3, <2>2, Zenon DEF Nets, Pairs
        <4> QED
          BY <2>2, <3>1, <3>3, <4>1, <1>2, <1>4, ZenonT(60) DEF HeldPair
      <3> QED
        BY <3>2, <3>3, Zenon
    <2> QED
      BY <2>1, <2>2, Zenon
  <1> QED
    BY <1>5, <1>6, Zenon DEF Held

\* Accepting a deferred request: it was the only one.
LEMMA HeldServePop ==
  ASSUME NEW n \in Nets, NEW p \in Pends, NEW y \in Syncs, Held(n, p, y),
         NEW s \in Servers, NEW f \in Servers, f # s, p[s] # <<>>,
         DeferredOf(Head(p[s]), f)
  PROVE  /\ y[f] = [to |-> s, mode |-> Head(p[s]).mode, accepted |-> FALSE]
         /\ Held(n, [p EXCEPT ![s] = Tail(@)],
                 [y EXCEPT ![f].accepted = @ \/ y[f].to = s])
  <1> DEFINE p1 == [p EXCEPT ![s] = Tail(@)]
             y1 == [y EXCEPT ![f].accepted = @ \/ y[f].to = s]
  <1>1. HeldPair(n, p, y, f, s) /\ p[s] \in Seq(PendingRecords)
    BY ZenonT(60) DEF Held, Pends
  <1>2. Waits(y, f, s) /\ NoReq(n[<<f, s>>]) /\ OneDeferred(p[s], f, y[f].mode)
    BY <1>1, DeferTail, Zenon DEF HeldPair
  <1>3. y[f] \in SyncRecords
    BY Zenon DEF Syncs
  <1>4. NoDeferred(Tail(p[s]), f) /\ Head(p[s]).mode = y[f].mode
    BY <1>1, <1>2, DeferTail, Zenon
  <1>5. y[f] = [to |-> s, mode |-> Head(p[s]).mode, accepted |-> FALSE]
    BY <1>2, <1>3, <1>4, Zenon DEF Waits, SyncRecords
  <1>6. ASSUME NEW g \in Servers, NEW u \in Servers, g # u
        PROVE  HeldPair(n, p1, y1, g, u)
    <2>0. HeldPair(n, p, y, g, u)
      BY <1>6, Zenon DEF Held
    <2>1. CASE u # s /\ g # f
      <3>1. p1[u] = p[u] /\ y1[g] = y[g]
        BY <2>1, Zenon DEF Pends, Syncs
      <3> QED
        BY <2>0, <3>1, Zenon DEF HeldPair, Waits
    <2>2. CASE u # s /\ g = f
      <3>1. p1[u] = p[u] /\ ~Waits(y, f, u) /\ ~Waits(y1, f, u)
        BY <2>2, <1>5, SMT, SMTT(30) DEF Pends, Waits, Syncs, SyncRecords
      <3> QED
        BY <2>0, <2>2, <3>1, Zenon DEF HeldPair
    <2>3. CASE u = s /\ g = f
      <3>1. p1[u] = Tail(p[s]) /\ ~Waits(y1, f, u)
        BY <2>3, <1>5, Zenon DEF Pends, Waits, Syncs, SyncRecords
      <3> QED
        BY <2>3, <3>1, <1>2, <1>4, Zenon DEF HeldPair
    <2>4. CASE u = s /\ g # f
      <3>1. p1[u] = Tail(p[s]) /\ y1[g] = y[g] /\ ~DeferredOf(Head(p[s]), g)
        BY <2>4, Zenon DEF Pends, Syncs, DeferredOf
      <3> QED
        BY <2>0, <2>4, <3>1, <1>1, DeferTail, ZenonT(60) DEF HeldPair, Waits
    <2> QED
      BY <2>1, <2>2, <2>3, <2>4, ZenonT(60)
  <1> QED
    BY <1>5, <1>6, Zenon DEF Held

-----------------------------------------------------------------------------
(* Every step keeps the invariant.                                         *)

\* What SyncInv says while no shutdown is going on.
Core ==
  /\ CallsOK /\ Held(net, pending, syncing)
  /\ HigherRanksDeferred /\ ChecksOthers

\* A new sync of a server that is in no call.
LEMMA Sync2Core ==
  ASSUME TypeOK, CallsOK, shutting = {}, NEW s \in Servers, NEW t \in Servers,
         s # t, NEW m \in Modes, NEW net0 \in Nets, NEW p1 \in Pends,
         Free(s), replying[s] = None \/ m = "REFCOUNT",
         Held(net0, p1, syncing), Sync2(s, t, m, net0),
         UNCHANGED <<serving, sending, replying>>
  PROVE  CallsOK' /\ Held(net', p1, syncing')
  <1>1. /\ syncing' = [syncing EXCEPT
                         ![s] = [to |-> t, mode |-> m, accepted |-> FALSE]]
        /\ net' = [net0 EXCEPT ![<<s, t>>] = Append(@, m)]
        /\ UNCHANGED <<rpcs, calling>>
    BY Zenon DEF Sync2
  <1>2. syncing \in Syncs /\ syncing[s].to = None
    BY DEF TypeOK, Syncs, Free, InSync
  <1>3. CallsOK'
    BY <1>1, CallsStart, Zenon
  <1>4. Held(net', p1, syncing')
    BY <1>1, <1>2, HeldStart, ZenonT(30)
  <1> QED
    BY <1>3, <1>4, Zenon

\* The handler of a sync message, once the message (or the deferred entry)
\* is taken: net0 and p1 are the network and the pending lists without it.
LEMMA AcceptSyncCore ==
  ASSUME TypeOK, CallsOK, shutting = {}, shutting' = {}, NEW s \in Servers,
         NEW f \in Servers, f # s, NEW m \in Modes, NEW net0 \in Nets,
         NEW p1 \in Pends, Running(s), AcceptSync(s, f, m, net0),
         UNCHANGED replying,
         ~AcceptRequired(m) => Held(net0, p1, syncing),
         AcceptRequired(m) => /\ syncing[f].to = s /\ syncing[f].mode = m
                              /\ Held(net0, p1, Respond(s, f))
  PROVE  CallsOK' /\ Held(net', p1, syncing')
  <1>1. {"STEAL_PROBE_RESP", "STEAL", "NOTIFY"} \subseteq Modes
    BY Zenon DEF Modes
  <1>2. Free(s) /\ replying[s] = None
    BY ZenonT(30) DEF Running
  <1>3. CASE Serve(s, f, m, net0)
    <2>1. /\ AcceptRequired(m) /\ m \in {"REQUEST", "STEAL"}
          /\ ~InSync(s) /\ serving[s] = None /\ sending[s] = None
          /\ calling[s] = None
      BY <1>2, <1>3, ZenonT(30) DEF Serve, AcceptRequired, Free
    <2>2. /\ syncing' = Respond(s, f) /\ net' = net0
          /\ serving' = IF m = "REQUEST" THEN [serving EXCEPT ![s] = f] ELSE serving
          /\ sending' = IF m = "STEAL" THEN [sending EXCEPT ![s] = f] ELSE sending
          /\ UNCHANGED <<rpcs, calling, replying>>
      BY <1>3, ZenonT(30) DEF Serve
    <2>3. CallsOK'
      BY <1>2, <2>1, <2>2, CallsServe, ZenonT(60)
    <2> QED
      BY <2>1, <2>2, <2>3, ZenonT(30)
  <1>4. ASSUME NEW k \in Modes, Sync2(s, f, k, net0), ~AcceptRequired(m),
               UNCHANGED <<serving, sending>>
        PROVE  CallsOK' /\ Held(net', p1, syncing')
    BY <1>2, <1>4, Sync2Core, ZenonT(30)
  <1>5. ASSUME NoSync2(net0), ~AcceptRequired(m), UNCHANGED <<serving, sending>>
        PROVE  CallsOK' /\ Held(net', p1, syncing')
    <2>1. net' = net0 /\ UNCHANGED <<syncing, rpcs, calling>>
      BY <1>5, ZenonT(30) DEF NoSync2
    <2>2. CallsOK'
      BY <1>5, <2>1, CallsSame, Zenon DEF calls
    <2> QED
      BY <1>5, <2>1, <2>2, Zenon
  <1> QED
    BY <1>1, <1>3, <1>4, <1>5, ZenonT(60)
       DEF AcceptSync, AcceptRequired, HandleStealProbe, HandleStealProbeResp,
           HandleRefcount, SendNotify, Subscribed, HandleNotify, HandleShutdown

\* Adding an entry of another rank to a pending list.
LEMMA HigherAppend ==
  ASSUME TypeOK, HigherRanksDeferred, NEW s \in Servers, NEW k, NEW m,
         NEW f \in Servers, f # s, k = "DEFERRED_SYNC" => f > s,
         Enqueue(s, k, f, m)
  PROVE  HigherRanksDeferred'
  <1> DEFINE e == [kind |-> k, rank |-> f, mode |-> m]
             q == pending[s]
  <1>1. /\ pending'[s] = Append(q, e) /\ q \in Seq(PendingRecords)
        /\ \A u \in Servers \ {s} : pending'[u] = pending[u]
    BY Zenon DEF Enqueue, TypeOK
  <1>2. /\ Len(Append(q, e)) = Len(q) + 1 /\ Len(q) \in Nat
        /\ \A i \in 1..Len(q) : Append(q, e)[i] = q[i]
        /\ Append(q, e)[Len(q) + 1] = e
    BY <1>1, SMT, SMTT(30)
  <1>3. e.kind = k /\ e.rank = f
    BY ZenonT(60)
  <1>4. ASSUME NEW i \in 1..Len(pending'[s])
        PROVE  /\ pending'[s][i].rank # s
               /\ pending'[s][i].kind = "DEFERRED_SYNC" => pending'[s][i].rank > s
    <2>1. CASE i \in 1..Len(q)
      BY <2>1, <1>1, <1>2, ZenonT(60) DEF HigherRanksDeferred
    <2>2. CASE i = Len(q) + 1
      BY <2>2, <1>1, <1>2, <1>3, ZenonT(60)
    <2> QED
      BY <1>1, <1>2, <2>1, <2>2, SMT, SMTT(30)
  <1> QED
    BY <1>1, <1>4, ZenonT(60) DEF HigherRanksDeferred

\* Taking the head of a pending list.
LEMMA HigherTail ==
  ASSUME TypeOK, HigherRanksDeferred, NEW s \in Servers, pending[s] # <<>>,
         pending' = [pending EXCEPT ![s] = Tail(@)]
  PROVE  HigherRanksDeferred'
  <1> DEFINE q == pending[s]
  <1>1. /\ pending'[s] = Tail(q) /\ q \in Seq(PendingRecords)
        /\ \A u \in Servers \ {s} : pending'[u] = pending[u]
    BY DEF TypeOK
  <1>2. /\ Len(q) \in Nat /\ Len(q) >= 1 /\ Len(Tail(q)) = Len(q) - 1
        /\ \A i \in 1..Len(Tail(q)) : Tail(q)[i] = q[i + 1]
    BY <1>1
  <1>3. ASSUME NEW i \in 1..Len(pending'[s])
        PROVE  /\ pending'[s][i].rank # s
               /\ pending'[s][i].kind = "DEFERRED_SYNC" => pending'[s][i].rank > s
    <2>0. i \in 1..Len(Tail(q))
      BY <1>1, Zenon
    <2>1. i \in 1..Len(Tail(q)) /\ i + 1 \in 1..Len(q)
      <3> HIDE DEF q
      <3> QED
        BY <1>2, <2>0, SMT, SMTT(30)
    <2>2. pending'[s][i] = q[i + 1]
      BY <1>1, <1>2, <2>1, ZenonT(60)
    <2> QED
      BY <2>1, <2>2 DEF HigherRanksDeferred
  <1> QED
    BY <1>1, <1>3, ZenonT(200) DEF HigherRanksDeferred

\* Only the master's own idle check moves checking.
LEMMA ChecksKept ==
  ASSUME TypeOK, ChecksOthers, NEW s \in Servers, checking' = checking,
         \/ phase' = phase
         \/ \E p \in {"loop", "client", "refcount", "drain", "down"} : To(s, p)
  PROVE  ChecksOthers'
  BY Ranks, ZenonT(60) DEF ChecksOthers, To, TypeOK

\* The handler of a sync message moves its server to "drain" or "refcount".
LEMMA AcceptSyncPhase ==
  ASSUME NEW s, NEW f, NEW m, NEW net0, AcceptSync(s, f, m, net0)
  PROVE  \E p \in {"loop", "client", "refcount", "drain", "down"} : To(s, p)
  BY Zenon
     DEF AcceptSync, HandleStealProbe, HandleStealProbeResp, HandleRefcount,
         SendNotify, Subscribed, HandleNotify, HandleShutdown

\* A sync message taken outside a sync.
LEMMA NextSyncMsgCore ==
  ASSUME TypeOK, Core, shutting = {}, shutting' = {}, NEW s \in Servers,
         NEW f \in Servers, f # s, NextSyncMsg(s, f)
  PROVE  Core'
  <1> DEFINE m == Head(net[<<f, s>>])
             n == Take(f, s)
  <1>1. /\ n \in Nets /\ m \in Modes /\ net \in Nets /\ pending \in Pends
        /\ syncing \in Syncs
    BY TakeType, Zenon DEF NextSyncMsg, TypeOK, Nets, Pends, Syncs
  <1>2. /\ AcceptSync(s, f, m, n) /\ Running(s) /\ net[<<f, s>>] # <<>>
        /\ UNCHANGED <<pending, replying, checking>>
    BY Zenon DEF NextSyncMsg
  <1>3. ~AcceptRequired(m) => Held(n, pending, syncing)
    BY <1>1, <1>2, HeldTake, ZenonT(60) DEF Core, Take
  <1>4. ASSUME AcceptRequired(m)
        PROVE  /\ syncing[f].to = s /\ syncing[f].mode = m
               /\ Held(n, pending, Respond(s, f))
    <2>1. /\ syncing[f] = [to |-> s, mode |-> m, accepted |-> FALSE]
          /\ Held(n, pending, [syncing EXCEPT
                                 ![f].accepted = @ \/ syncing[f].to = s])
      BY <1>1, <1>2, <1>4, HeldServeTake, ZenonT(60) DEF Core, Take
    <2> QED
      BY <2>1, SMT, SMTT(30) DEF Respond
  <1> HIDE DEF m, n
  <1>5. CallsOK' /\ Held(net', pending, syncing')
    BY <1>1, <1>2, <1>3, <1>4, AcceptSyncCore, ZenonT(60) DEF Core
  <1>6. HigherRanksDeferred'
    BY <1>2, ZenonT(30) DEF Core, HigherRanksDeferred
  <1>7. ChecksOthers'
    BY <1>2, AcceptSyncPhase, ChecksKept, Zenon DEF Core
  <1> QED
    BY <1>2, <1>5, <1>6, <1>7, Zenon DEF Core

\* A deferred entry.
LEMMA DrainOneCore ==
  ASSUME TypeOK, Core, shutting = {}, shutting' = {}, NEW s \in Servers,
         DrainOne(s)
  PROVE  Core'
  <1> DEFINE e == Head(pending[s])
             p1 == [pending EXCEPT ![s] = Tail(@)]
  <1>1. pending[s] \in Seq(PendingRecords) /\ pending[s] # <<>>
    BY ZenonT(60) DEF DrainOne, TypeOK
  <1>2. /\ e \in PendingRecords /\ p1 \in Pends /\ net \in Nets
        /\ pending \in Pends /\ syncing \in Syncs
    BY <1>1, SMT, SMTT(30) DEF TypeOK, Nets, Pends, Syncs
  <1>3. /\ Running(s) /\ pending' = p1
        /\ UNCHANGED <<replying, checking>>
    BY ZenonT(60) DEF DrainOne
  <1>4. /\ e.rank \in Servers /\ e.mode \in Modes
        /\ e = pending[s][1] /\ 1 \in 1..Len(pending[s])
    BY <1>1, <1>2, SMT, SMTT(30) DEF PendingRecords
  <1>5. e.rank # s
    BY <1>4, ZenonT(60) DEF Core, HigherRanksDeferred
  <1>6. (\A g \in Servers : ~DeferredOf(e, g)) => Held(net, p1, syncing)
    BY <1>1, <1>2, HeldPop, ZenonT(60) DEF Core
  <1>7. ASSUME DeferredOf(e, e.rank)
        PROVE  /\ syncing[e.rank].to = s /\ syncing[e.rank].mode = e.mode
               /\ Held(net, p1, Respond(s, e.rank))
    <2>1. /\ syncing[e.rank] = [to |-> s, mode |-> e.mode, accepted |-> FALSE]
          /\ Held(net, p1, [syncing EXCEPT
                              ![e.rank].accepted = @ \/ syncing[e.rank].to = s])
      BY <1>1, <1>2, <1>4, <1>5, <1>7, HeldServePop, ZenonT(60) DEF Core
    <2> QED
      BY <2>1, SMT, SMTT(30) DEF Respond
  <1>8. HigherRanksDeferred'
    BY <1>1, <1>3, HigherTail, ZenonT(60) DEF Core
  <1>9. \/ e.kind = "DEFERRED_SYNC" /\ AcceptSync(s, e.rank, e.mode, net)
        \/ /\ e.kind # "DEFERRED_SYNC"
           /\ \E m \in Modes : ~AcceptRequired(m) /\ AcceptSync(s, e.rank, m, net)
    <2>1. {"REFCOUNT", "NOTIFY", "SUBSCRIBE", "STEAL_PROBE", "STEAL_PROBE_RESP"}
             \subseteq {m \in Modes : ~AcceptRequired(m)}
      BY Zenon DEF Modes, AcceptRequired
    <2>2. \/ e.kind = "DEFERRED_SYNC" /\ AcceptSync(s, e.rank, e.mode, net)
          \/ /\ e.kind # "DEFERRED_SYNC"
             /\ \/ HandleRefcount(s, net)
                \/ HandleNotify(s, net)
                \/ SendNotify(s, e.rank, net)
                \/ HandleStealProbe(s, e.rank, net)
                \/ HandleStealProbeResp(s, e.rank, net)
      BY ZenonT(30) DEF DrainOne
    <2> HIDE DEF e
    <2> QED
      BY <2>1, <2>2, ZenonT(60) DEF AcceptSync
  <1> HIDE DEF e, p1
  <1>10. PICK m \in Modes :
           /\ AcceptSync(s, e.rank, m, net)
           /\ ~AcceptRequired(m) => Held(net, p1, syncing)
           /\ AcceptRequired(m) => /\ syncing[e.rank].to = s
                                   /\ syncing[e.rank].mode = m
                                   /\ Held(net, p1, Respond(s, e.rank))
    BY <1>4, <1>6, <1>7, <1>9, ZenonT(60) DEF DeferredOf
  <1>11. CallsOK' /\ Held(net', p1, syncing')
    BY <1>2, <1>3, <1>4, <1>5, <1>10, AcceptSyncCore, ZenonT(60) DEF Core
  <1>12. ChecksOthers'
    BY <1>3, <1>10, AcceptSyncPhase, ChecksKept, ZenonT(60) DEF Core
  <1> QED
    BY <1>3, <1>8, <1>11, <1>12, ZenonT(60) DEF Core

\* A sync message that arrives during a sync.
LEMMA InterruptCore ==
  ASSUME TypeOK, Core, shutting = {}, shutting' = {}, NEW s \in Servers,
         NEW f \in Servers, f # s, Interrupt(s, f)
  PROVE  Core'
  <1> DEFINE m == Head(net[<<f, s>>])
             n == Take(f, s)
  <1>1. /\ n \in Nets /\ m \in Modes /\ net \in Nets /\ pending \in Pends
        /\ syncing \in Syncs
    BY TakeType, Zenon DEF Interrupt, TypeOK, Nets, Pends, Syncs
  <1>2. /\ InSync(s) /\ serving[s] = None /\ sending[s] = None
        /\ net[<<f, s>>] # <<>>
        /\ UNCHANGED <<replying, phase, checking>>
    BY Zenon DEF Interrupt
  <1>3. calling[s] = None
    BY <1>2, ZenonT(60) DEF Core, CallsOK, Stacks, CallIsHandled
  <1>4. ChecksOthers'
    BY <1>2, ChecksKept, Zenon DEF Core
  <1>5. CASE ServedDuringSync(s, f) /\ Serve(s, f, m, n) /\ UNCHANGED pending
    <2>1. /\ syncing[f] = [to |-> s, mode |-> m, accepted |-> FALSE]
          /\ Held(n, pending, [syncing EXCEPT
                                 ![f].accepted = @ \/ syncing[f].to = s])
      BY <1>1, <1>2, <1>5, HeldServeTake, ZenonT(60) DEF Core, Take, Serve
    <2>2. /\ syncing[f].to = s /\ syncing[f].mode = m
          /\ Held(net', pending', syncing')
      BY <1>5, <2>1, SMT, SMTT(30) DEF Serve, Respond
    <2>3. m \in {"REQUEST", "STEAL"} /\ f < s
      BY <1>5, Zenon DEF Serve, AcceptRequired, ServedDuringSync
    <2>4. /\ syncing' = Respond(s, f)
          /\ serving' = IF m = "REQUEST" THEN [serving EXCEPT ![s] = f] ELSE serving
          /\ sending' = IF m = "STEAL" THEN [sending EXCEPT ![s] = f] ELSE sending
          /\ UNCHANGED <<rpcs, replying, calling>>
      BY <1>2, <1>5, Zenon DEF Serve
    <2> HIDE DEF m, n
    <2>5. CallsOK'
      BY <1>2, <1>3, <2>2, <2>3, <2>4, CallsServe, ZenonT(60) DEF Core
    <2>6. HigherRanksDeferred'
      BY <1>5, Zenon DEF Core, HigherRanksDeferred
    <2> QED
      BY <1>4, <2>2, <2>5, <2>6, Zenon DEF Core
  <1>6. ASSUME NEW k \in Kinds, Enqueue(s, k, f, m), NoSync2(n),
               UNCHANGED <<serving, sending>>,
               k = "DEFERRED_SYNC" => f > s,
               k # "DEFERRED_SYNC" => ~AcceptRequired(m)
        PROVE  Core'
    <2> DEFINE e == [kind |-> k, rank |-> f, mode |-> m]
    <2>1. /\ e \in PendingRecords /\ e.kind = k /\ e.rank = f /\ e.mode = m
      BY <1>1, Zenon DEF PendingRecords
    <2>2. /\ pending' = [pending EXCEPT ![s] = Append(@, e)]
          /\ net' = n /\ UNCHANGED <<syncing, rpcs, calling>>
      BY <1>6, Zenon DEF Enqueue, NoSync2
    <2>3. Held(net', pending', syncing')
      <3> HIDE DEF e
      <3>1. CASE k = "DEFERRED_SYNC"
        BY <1>1, <1>2, <2>1, <2>2, <3>1, HeldDefer, ZenonT(60) DEF Core, Take
      <3>2. CASE k # "DEFERRED_SYNC"
        <4>1. Held(n, pending, syncing)
          BY <1>1, <1>2, <1>6, <3>2, HeldTake, ZenonT(60) DEF Core, Take
        <4>2. \A g \in Servers : ~DeferredOf(e, g)
          BY <2>1, <3>2, Zenon DEF DeferredOf
        <4> HIDE DEF n
        <4> QED
          BY <1>1, <2>1, <2>2, <4>1, <4>2, HeldEnqueue, ZenonT(60)
      <3> QED
        BY <3>1, <3>2, Zenon
    <2>4. CallsOK'
      BY <1>2, <1>6, <2>2, CallsSame, Zenon DEF Core, calls
    <2>5. HigherRanksDeferred'
      BY <1>6, HigherAppend, Zenon DEF Core
    <2> QED
      BY <1>4, <2>3, <2>4, <2>5, ZenonT(60) DEF Core
  <1>7. CASE /\ Defer(s, f, m) /\ NoSync2(n) /\ UNCHANGED <<serving, sending>>
    <2>1. \/ /\ \E k \in Kinds \ {"DEFERRED_SYNC"} : Enqueue(s, k, f, m)
             /\ ~AcceptRequired(m)
          \/ m = "SUBSCRIBE" /\ UNCHANGED pending
      BY <1>7, Zenon DEF Defer, Kinds, AcceptRequired
    <2>2. CASE m = "SUBSCRIBE" /\ UNCHANGED pending
      <3>1. Held(n, pending, syncing)
        BY <1>1, <1>2, <2>2, HeldTake, ZenonT(60) DEF Core, Take, AcceptRequired
      <3>2. Held(net', pending', syncing')
        BY <1>7, <2>2, <3>1, Zenon DEF NoSync2
      <3>3. CallsOK'
        BY <1>2, <1>7, CallsSame, ZenonT(60) DEF Core, calls, NoSync2
      <3>4. HigherRanksDeferred'
        BY <2>2, Zenon DEF Core, HigherRanksDeferred
      <3> QED
        BY <1>4, <3>2, <3>3, <3>4, Zenon DEF Core
    <2> QED
      BY <1>6, <1>7, <2>1, <2>2, ZenonT(60)
  <1>8. CASE /\ ~ServedDuringSync(s, f) /\ Enqueue(s, "DEFERRED_SYNC", f, m)
             /\ NoSync2(n) /\ UNCHANGED <<serving, sending>>
    <2>1. f > s
      BY <1>8, SMT, SMTT(30) DEF ServedDuringSync, Servers
    <2> QED
      BY <1>6, <1>8, <2>1, ZenonT(60) DEF Kinds
  <1>9. ~CancelSync(s, f)
    BY Zenon DEF CancelSync
  <1> QED
    BY <1>5, <1>7, <1>8, <1>9, ZenonT(60) DEF Interrupt

\* While no shutdown is going on, every step keeps the invariant.
LEMMA CoreStep ==
  ASSUME TypeOK, Core, shutting = {}, shutting' = {}, [Next]_vars
  PROVE  Core'
  <1> USE DEF chans, calls, loopv, idlev, bound
  <1>t. /\ net \in Nets /\ pending \in Pends /\ syncing \in Syncs
        /\ {"REQUEST", "STEAL_PROBE", "REFCOUNT"} \subseteq Modes
    BY Zenon DEF TypeOK, Nets, Pends, Syncs, Modes
  <1>u. Core => CallsOK /\ Held(net, pending, syncing)
    BY Zenon DEF Core
  \* A sync started outside the handlers of sync messages.
  <1>s. ASSUME NEW s \in Servers, NEW t \in Servers, s # t, NEW m \in Modes,
               Free(s), replying[s] = None \/ m = "REFCOUNT",
               Sync2(s, t, m, net), UNCHANGED <<pending, serving, sending, replying>>
        PROVE  CallsOK' /\ Held(net', pending', syncing') /\ HigherRanksDeferred'
    <2>1. CallsOK' /\ Held(net', pending, syncing')
      BY <1>s, <1>t, <1>u, Sync2Core, ZenonT(60)
    <2>2. HigherRanksDeferred'
      BY <1>s, Zenon DEF Core, HigherRanksDeferred
    <2> QED
      BY <1>s, <2>1, <2>2, ZenonT(60)
  \* Nothing of calls, channels and pending lists changes.
  <1>e. ASSUME UNCHANGED <<net, rpcs, pending, syncing, serving, sending,
                           replying, calling>>
        PROVE  CallsOK' /\ Held(net', pending', syncing') /\ HigherRanksDeferred'
    <2>1. CallsOK'
      BY <1>e, <1>u, CallsSame, ZenonT(60)
    <2>2. HigherRanksDeferred'
      BY <1>e, Zenon DEF Core, HigherRanksDeferred
    <2> QED
      BY <1>e, <1>u, <2>1, <2>2, Zenon
  <1>h. ASSUME UNCHANGED pending PROVE HigherRanksDeferred'
    BY <1>h, Zenon DEF Core, HigherRanksDeferred
  <1>1. ASSUME NEW s \in Servers, SyncAccepted(s) PROVE Core'
    <2>1. ChecksOthers' /\ HigherRanksDeferred'
      BY <1>1, <1>h, ChecksKept, ZenonT(60) DEF SyncAccepted, Core
    <2>2. Held(net', pending', syncing')
      BY <1>1, <1>t, <1>u, HeldEnd, ZenonT(60) DEF SyncAccepted, EndSync
    <2>3. CallsOK'
      BY <1>1, <1>u, CallsRequest, CallsStolen, ZenonT(60) DEF SyncAccepted
    <2> QED
      BY <2>1, <2>2, <2>3, ZenonT(60) DEF Core
  <1>2. ASSUME NEW s \in Servers, SyncSent(s) PROVE Core'
    <2>1. ChecksOthers' /\ HigherRanksDeferred'
      BY <1>2, <1>h, ChecksKept, Zenon DEF SyncSent, Core
    <2>2. Held(net', pending', syncing')
      BY <1>2, <1>t, <1>u, HeldEnd, ZenonT(60) DEF SyncSent, EndSync
    <2>3. CallsOK'
      BY <1>2, <1>u, CallsSent, Zenon DEF SyncSent
    <2> QED
      BY <2>1, <2>2, <2>3, Zenon DEF Core
  <1>3. ASSUME NEW s \in Servers, NEW f \in Servers \ {s}, TakeSync(s, f)
        PROVE  Core'
    BY <1>3, InterruptCore, NextSyncMsgCore, ZenonT(60) DEF TakeSync
  <1>4. ASSUME NEW s \in Servers, ServeRpc(s) PROVE Core'
    <2>1. ChecksOthers' /\ HigherRanksDeferred'
      BY <1>4, <1>h, ChecksKept, Zenon DEF ServeRpc, Core
    <2>2. Held(net', pending', syncing')
      BY <1>4, <1>u, Zenon DEF ServeRpc
    <2>3. CallsOK'
      BY <1>4, <1>u, CallsRpc, Zenon
    <2> QED
      BY <2>1, <2>2, <2>3, Zenon DEF Core
  <1>5. ASSUME NEW s \in Servers, NestedSync(s) PROVE Core'
    <2>1. ChecksOthers'
      BY <1>5, ChecksKept, Zenon DEF NestedSync, Core
    <2> QED
      BY <1>5, <1>e, <2>1, ZenonT(60) DEF NestedSync, Core
  <1>6. ASSUME NEW s \in Servers, NEW f \in Servers \ {s} PROVE ~PollRpc(s, f)
    <2>1. rpcs[<<f, s>>] # <<>> => serving[s] = f
      BY <1>u, Zenon DEF CallsOK, Announced, Core
    <2>2. f # None
      BY Ranks, Zenon
    <2> QED
      BY <2>1, <2>2, ZenonT(60) DEF PollRpc, HandleRpc, HandleStore, HandlePut,
           HandleCheckIdle, HandleDoNothing, Free
  <1>7. ASSUME NEW s \in Servers, PreacquireSync(s) PROVE Core'
    <2>1. ChecksOthers'
      BY <1>7, ChecksKept, ZenonT(60) DEF PreacquireSync, Core
    <2>2. CallsOK' /\ Held(net', pending', syncing') /\ HigherRanksDeferred'
      BY <1>7, <1>s, <1>t, ZenonT(60) DEF PreacquireSync
    <2> QED
      BY <2>1, <2>2, Zenon DEF Core
  <1>8. ASSUME NEW s \in Servers, Reply(s) PROVE Core'
    <2>1. ChecksOthers' /\ HigherRanksDeferred'
      BY <1>8, <1>h, ChecksKept, Zenon DEF Reply, Core
    <2>2. Held(net', pending', syncing')
      BY <1>8, <1>u, ZenonT(60) DEF Reply
    <2>3. CallsOK'
      BY <1>8, <1>u, CallsReply
    <2> QED
      BY <2>1, <2>2, <2>3 DEF Core
  <1>9. ASSUME NEW s \in Servers PROVE ~StealSent(s)
    BY Zenon DEF StealSent, Core, CallsOK, Stacks, ServedIsAccepted, Accepted
  <1>10. ASSUME NEW s \in Servers, ClientRequest(s) PROVE Core'
    <2>1. ChecksOthers'
      BY <1>10, ChecksKept, Zenon DEF ClientRequest, Core
    <2> QED
      BY <1>10, <1>e, <2>1, ZenonT(60) DEF ClientRequest, Core
  <1>11. ASSUME NEW s \in Servers, HandlerSync(s) PROVE Core'
    <2>1. ChecksOthers'
      BY <1>11, ChecksKept, Zenon DEF HandlerSync, Core
    <2>2. PICK t \in Servers \ {s}, m \in Modes : Sync2(s, t, m, net)
      BY <1>11, ParamsAssumption, Zenon DEF HandlerSync, HandlerModes, Modes
    <2>3. CallsOK' /\ Held(net', pending', syncing') /\ HigherRanksDeferred'
      BY <1>11, <1>s, <2>2, ZenonT(60) DEF HandlerSync, Running
    <2> QED
      BY <2>1, <2>3, Zenon DEF Core
  <1>12. ASSUME NEW s \in Servers, HandlerDone(s) PROVE Core'
    <2>1. ChecksOthers'
      BY <1>12, ChecksKept, ZenonT(60) DEF HandlerDone, Core
    <2> QED
      BY <1>12, <1>e, <2>1, ZenonT(60) DEF HandlerDone, Core
  <1>13. ASSUME NEW s \in Servers, DrainOne(s) PROVE Core'
    BY <1>13, DrainOneCore, Zenon
  <1>14. ASSUME NEW s \in Servers, DrainDone(s) PROVE Core'
    <2>1. ChecksOthers'
      BY <1>14, ChecksKept, Zenon DEF DrainDone, Core
    <2> QED
      BY <1>14, <1>e, <2>1, ZenonT(60) DEF DrainDone, Core
  <1>15. ASSUME NEW s \in Servers, CheckSteal(s) PROVE Core'
    <2>1. ChecksOthers'
      BY <1>15, ChecksKept, Zenon DEF CheckSteal, Core
    <2>2. CASE NoSync2(net)
      BY <1>15, <1>e, <2>1, <2>2, ZenonT(60), SMTT(30) DEF CheckSteal, NoSync2, Core
    <2>3. CASE \E t \in Servers \ {s} : Sync2(s, t, "STEAL_PROBE", net)
      BY <1>15, <1>s, <1>t, <2>1, <2>3, ZenonT(60), SMTT(30) DEF CheckSteal, Running, Core
    <2> QED
      BY <1>15, <2>2, <2>3, ZenonT(60) DEF CheckSteal
  <1>16. ASSUME NEW s \in Servers, Exit(s) PROVE Core'
    BY <1>16, Zenon DEF Exit
  <1>17. CASE StartIdleCheck
    <2>1. ChecksOthers'
      BY <1>17, NAssumption, SMT, SMTT(30) DEF StartIdleCheck, ChecksOthers
    <2>2. CallsOK' /\ Held(net', pending', syncing') /\ HigherRanksDeferred'
      BY <1>17, <1>s, <1>t, Ranks, SMT, SMTT(30) DEF StartIdleCheck, Running, Master
    <2> QED
      BY <2>1, <2>2, ZenonT(60) DEF Core
  <1>18. CASE IdleAnswered
    <2>1. CASE NoSync2(net) /\ (To(Master, "drain") \/ To(Master, "loop"))
      <3>1. ChecksOthers'
        BY <2>1, Ranks, ZenonT(60), SMTT(30) DEF To, TypeOK, ChecksOthers
      <3> QED
        BY <1>18, <2>1, <1>e, <3>1, ZenonT(60), SMTT(30) DEF IdleAnswered, NoSync2, Core
    <2>2. CASE /\ checking < N /\ checking' = checking + 1
               /\ Sync2(Master, checking + 1, "REQUEST", net)
               /\ UNCHANGED phase
      <3>1. checking \in 2..N
        BY <1>18, ZenonT(60) DEF IdleAnswered, Core, ChecksOthers
      <3>2. checking + 1 \in 2..N /\ checking + 1 \in Servers /\ Master # checking + 1
        BY <2>2, <3>1, NAssumption, SMT, SMTT(30) DEF Servers, Master
      <3>3. ChecksOthers'
        BY <2>2, <3>2, ZenonT(60) DEF ChecksOthers
      <3>4. CallsOK' /\ Held(net', pending', syncing') /\ HigherRanksDeferred'
        BY <1>18, <1>s, <1>t, <2>2, <3>2, Ranks, ZenonT(60)
           DEF IdleAnswered, Running
      <3> QED
        BY <3>3, <3>4, Zenon DEF Core
    <2> QED
      BY <1>18, <2>1, <2>2, ZenonT(60) DEF IdleAnswered
  <1>19. CASE AllIdle
    <2>1. NoSync2(net) /\ To(Master, "loop")
      BY <1>19, Zenon DEF AllIdle
    <2>2. ChecksOthers'
      BY <2>1, Ranks, ZenonT(60) DEF To, TypeOK, ChecksOthers
    <2> QED
      BY <1>19, <2>1, <2>2, <1>e, ZenonT(60), SMTT(30) DEF AllIdle, NoSync2, Core
  <1>20. CASE ShutdownNext
    <2>1. CASE NoSync2(net) /\ To(Master, "down")
      <3>1. ChecksOthers'
        BY <2>1, Ranks, ZenonT(60) DEF To, TypeOK, ChecksOthers
      <3> QED
        BY <1>20, <2>1, <1>e, <3>1, ZenonT(60) DEF ShutdownNext, NoSync2, Core
    <2>2. CASE /\ checking < N /\ checking' = checking + 1
               /\ Sync2(Master, checking + 1, "SHUTDOWN", net)
               /\ UNCHANGED phase
      <3>1. checking \in 2..N /\ "SHUTDOWN" \in Modes
        BY <1>20, ZenonT(60) DEF ShutdownNext, Core, ChecksOthers, Modes
      <3>2. checking + 1 \in 2..N /\ checking + 1 \in Servers /\ Master # checking + 1
        BY <2>2, <3>1, NAssumption, SMT, SMTT(30) DEF Servers, Master
      <3>3. ChecksOthers'
        BY <2>2, <3>2, Zenon DEF ChecksOthers
      <3>4. CallsOK' /\ Held(net', pending', syncing') /\ HigherRanksDeferred'
        BY <1>20, <1>s, <2>2, <3>1, <3>2, Ranks, ZenonT(60)
           DEF ShutdownNext, Running
      <3> QED
        BY <3>3, <3>4, Zenon DEF Core
    <2> QED
      BY <1>20, <2>1, <2>2, ZenonT(60) DEF ShutdownNext
  <1>21. CASE UNCHANGED vars
    <2>1. ChecksOthers'
      BY <1>21, Zenon DEF vars, Core, ChecksOthers
    <2> QED
      BY <1>21, <1>e, <2>1, Zenon DEF vars, Core
  <1> QED
    BY <1>1, <1>2, <1>3, <1>4, <1>5, <1>6, <1>7, <1>8, <1>9, <1>10, <1>11,
       <1>12, <1>13, <1>14, <1>15, <1>16, <1>17, <1>18, <1>19, <1>20, <1>21, ZenonT(60)
       DEF Next, MasterStep, Step

-----------------------------------------------------------------------------
(* The theorems.                                                           *)

\* No server leaves the shutdown.
LEMMA ShuttingGrows ==
  ASSUME [Next]_vars
  PROVE  shutting \subseteq shutting'
  <1> USE DEF idlev
  <1>1. ASSUME NEW s, NEW f, NEW m, NEW net0, AcceptSync(s, f, m, net0)
        PROVE  shutting \subseteq shutting'
    BY <1>1, Zenon DEF AcceptSync, HandleStealProbe, HandleStealProbeResp,
                HandleRefcount, SendNotify, Subscribed, HandleNotify,
                HandleShutdown
  <1>2. ASSUME NEW s, NEW f, TakeSync(s, f) PROVE shutting \subseteq shutting'
    BY <1>1, <1>2, Zenon DEF TakeSync, Interrupt, CancelSync, NextSyncMsg
  <1>3. ASSUME NEW s, DrainOne(s) PROVE shutting \subseteq shutting'
    BY <1>1, <1>3, Zenon
       DEF DrainOne, HandleStealProbe, HandleStealProbeResp,
                      HandleRefcount, SendNotify, HandleNotify
  <1>4. ASSUME NEW s, \/ SyncAccepted(s) \/ SyncSent(s) \/ ServeRpc(s)
                      \/ NestedSync(s) \/ (\E f : PollRpc(s, f))
                      \/ PreacquireSync(s) \/ Reply(s) \/ StealSent(s)
                      \/ ClientRequest(s) \/ HandlerSync(s) \/ HandlerDone(s)
                      \/ DrainDone(s) \/ CheckSteal(s) \/ Exit(s)
        PROVE  shutting' = shutting
    BY <1>4, ZenonT(30)
       DEF SyncAccepted, SyncSent, ServeRpc, NestedSync, PollRpc,
                PreacquireSync, Reply, StealSent, ClientRequest, HandlerSync,
                HandlerDone, DrainDone, CheckSteal, Exit
  <1>5. ASSUME MasterStep PROVE shutting \subseteq shutting'
    BY <1>5, Zenon
       DEF MasterStep, StartIdleCheck, IdleAnswered, AllIdle, ShutdownNext
  <1>6. CASE UNCHANGED vars
    BY <1>6, ZenonT(60) DEF vars
  <1> QED
    BY <1>2, <1>3, <1>4, <1>5, <1>6, ZenonT(60) DEF Next, Step

\* SyncInv in the form of the lemmas above.
LEMMA SyncInvIsCore ==
  TypeOK => (SyncInv <=> LoopIsRunning /\ (shutting = {} => Core))
  BY HeldIsRequestHeldOnce, Zenon
     DEF SyncInv, Core, CallsOK, Announced, RpcAnnounced

LEMMA SyncInvStep == TypeOK /\ SyncInv /\ [Next]_vars => SyncInv'
  <1> SUFFICES ASSUME TypeOK, SyncInv, [Next]_vars PROVE SyncInv'
    OBVIOUS
  <1>1. LoopIsRunning /\ (shutting = {} => Core)
    BY SyncInvIsCore, Zenon
  <1>2. TypeOK'
    BY TypeStep, Zenon
  <1>3. LoopIsRunning'
    BY <1>1, LoopStep, Zenon
  <1>4. shutting' = {} => Core'
    <2>1. shutting' = {} => shutting = {}
      BY ShuttingGrows, Zenon
    <2> QED
      BY <1>1, <2>1, CoreStep, ZenonT(60)
  <1>5. (TypeOK => (SyncInv <=> LoopIsRunning /\ (shutting = {} => Core)))'
    BY SyncInvIsCore, PTL
  <1> QED
    BY <1>2, <1>3, <1>4, <1>5, Zenon

LEMMA SyncInvInit == Init => SyncInv
  <1> SUFFICES ASSUME Init PROVE SyncInv
    BY Zenon
  <1>1. /\ \A s \in Servers : /\ syncing[s].to = None /\ ~syncing[s].accepted
                              /\ serving[s] = None /\ sending[s] = None
                              /\ calling[s] = None /\ replying[s] = None
                              /\ pending[s] = <<>> /\ phase[s] = "loop"
        /\ \A p \in Pairs : net[p] = <<>> /\ rpcs[p] = <<>>
    BY Zenon DEF Init, NoSync
  <1>e. 1..Len(<<>>) = {}
    BY NoIndex, Zenon
  <1>f. NoReq(<<>>) /\ \A f : NoDeferred(<<>>, f)
    BY <1>e, Zenon DEF NoReq, NoDeferred
  <1>2. LoopIsRunning
    BY LoopInit, Zenon
  <1>3. RequestHeldOnce
    <2> SUFFICES ASSUME NEW f \in Servers, NEW t \in Servers
                 PROVE  /\ ~Unaccepted(f)
                        /\ NoReq(net[<<f, t>>]) /\ NoDeferred(pending[t], f)
      BY Zenon DEF RequestHeldOnce
    <2>1. ~Unaccepted(f)
      BY <1>1, Zenon DEF Unaccepted, InSync
    <2>2. net[<<f, t>>] = <<>> /\ pending[t] = <<>>
      BY <1>1, Zenon DEF Pairs
    <2> QED
      BY <1>f, <2>1, <2>2, Zenon
  <1>4. RpcAnnounced
    BY <1>1, Zenon DEF RpcAnnounced, Pairs
  <1>5. Stacks
    <2>1. AcceptedIsServed /\ ServedIsAccepted
      BY <1>1, Zenon DEF AcceptedIsServed, ServedIsAccepted
    <2>2. LowerRanksServed
      BY <1>1, Ranks, Zenon DEF LowerRanksServed, InSync
    <2>3. CallIsHandled /\ ReplyIsAwaited
      BY <1>1, Zenon DEF CallIsHandled, ReplyIsAwaited
    <2>4. NoDoNothing
      BY <1>1, <1>e, ZenonT(60) DEF NoDoNothing
    <2> QED
      BY <2>1, <2>2, <2>3, <2>4, Zenon DEF Stacks
  <1>6. HigherRanksDeferred /\ ChecksOthers
    <2>1. HigherRanksDeferred
      BY <1>1, <1>e, Zenon DEF HigherRanksDeferred
    <2> QED
      BY <1>1, <2>1, Ranks, Zenon DEF ChecksOthers
  <1> QED
    BY <1>2, <1>3, <1>4, <1>5, <1>6, ZenonT(60) DEF SyncInv

\* For any number of servers, the call stacks of two servers always fit
\* together while no shutdown is going on: whoever is accepted by
\* xlb_accept_sync() is the one being served, whoever waits for an RPC
\* response has its RPC at a server that spins for it or runs its handler.
THEOREM SyncInvariant == Spec => []SyncInv
  <1>1. SyncInv /\ TypeOK /\ [Next]_vars => SyncInv'
    BY SyncInvStep
  <1> QED
    BY <1>1, SyncInvInit, TypeCorrect, PTL DEF Spec

\* Deferring a REQUEST or STEAL (enqueue_pending) never loses or doubles it.
THEOREM RequestsHeldOnce == Spec => []RequestHeldOnce
  <1>1. SyncInv => RequestHeldOnce
    BY Zenon DEF SyncInv
  <1> QED
    BY <1>1, SyncInvariant, PTL

\* An RPC between servers always meets xlb_serve_server() at its target.
THEOREM RpcsAnnounced == Spec => []RpcAnnounced
  <1>1. SyncInv => RpcAnnounced
    BY Zenon DEF SyncInv
  <1> QED
    BY <1>1, SyncInvariant, PTL

-----------------------------------------------------------------------------
(* Freedom from circular waits.                                            *)

\* A server that waits for another one has a larger depth than that one.
Depth(s) ==
  IF syncing[s].accepted THEN s
  ELSE IF serving[s] # None \/ sending[s] # None \/ replying[s] # None THEN N + s
  ELSE IF calling[s] # None THEN 2 * N + s
  ELSE 3 * N + s

LEMMA DepthDecreases ==
  ASSUME TypeOK, Core, NEW s \in Servers, NEW t \in Servers, WaitsFor(s, t)
  PROVE  Depth(t) < Depth(s)
  <1>0. /\ N \in Nat /\ s \in 1..N /\ t \in 1..N
        /\ s # None /\ t # None
    BY NAssumption, Ranks, Zenon DEF Servers
  <1>i. /\ AcceptedIsServed /\ ServedIsAccepted /\ LowerRanksServed
        /\ CallIsHandled /\ ReplyIsAwaited
    BY Zenon DEF Core, CallsOK, Stacks
  \* The one that s serves or sends stolen work to is accepted.
  <1>1. ASSUME syncing[t].accepted, serving[s] = t \/ sending[s] = t
        PROVE  Depth(t) < Depth(s)
    <2>1. Depth(t) = t
      BY <1>1, Zenon DEF Depth
    <2>2. CASE syncing[s].accepted
      <3>1. t < s
        BY <1>0, <1>1, <1>i, <2>2, ZenonT(60) DEF AcceptedIsServed, LowerRanksServed
      <3> QED
        BY <2>1, <2>2, <3>1, Zenon DEF Depth
    <2>3. CASE ~syncing[s].accepted
      <3>1. Depth(s) = N + s
        BY <1>0, <1>1, <2>3, Zenon DEF Depth
      <3> QED
        BY <1>0, <2>1, <3>1, SMT, SMTT(30)
    <2> QED
      BY <2>2, <2>3, Zenon
  <1>2. CASE serving[s] = t /\ rpcs[<<t, s>>] = <<>>
    <2>1. syncing[t].accepted
      BY <1>0, <1>2, <1>i, Zenon DEF ServedIsAccepted, Accepted
    <2> QED
      BY <1>1, <1>2, <2>1, Zenon
  <1>3. CASE sending[s] = t
    <2>1. syncing[t].accepted
      BY <1>0, <1>3, <1>i, Zenon DEF ServedIsAccepted, Accepted
    <2> QED
      BY <1>1, <1>3, <2>1, Zenon
  <1>4. CASE calling[s] = t /\ serving[t] # s
    <2>1. replying[t] = s
      BY <1>0, <1>4, <1>i, Zenon DEF CallIsHandled
    <2>2. /\ ~syncing[s].accepted /\ serving[s] = None /\ sending[s] = None
          /\ replying[s] = None
      BY <1>0, <1>4, <1>i, Zenon DEF CallIsHandled, AcceptedIsServed
    <2>3. Depth(s) = 2 * N + s
      BY <1>0, <1>4, <2>2, Zenon DEF Depth
    <2>4. Depth(t) = t \/ Depth(t) = N + t
      BY <1>0, <2>1, Zenon DEF Depth
    <2> QED
      BY <1>0, <2>3, <2>4, SMT, SMTT(30)
  <1>5. CASE /\ serving[s] = None /\ sending[s] = None
             /\ Unaccepted(s) /\ syncing[s].to = t
             /\ \/ InCall(t)
                \/ InSync(t) /\ (IsDeferred(t, s) \/ ~ServedDuringSync(t, s))
    <2>1. InSync(s) /\ ~syncing[s].accepted /\ AcceptRequired(syncing[s].mode)
      BY <1>5, Zenon DEF Unaccepted
    <2>2. replying[s] = None /\ calling[s] = None
      BY <1>i, <2>1, ZenonT(30)
         DEF CallIsHandled, ReplyIsAwaited, AcceptRequired
    <2>3. Depth(s) = 3 * N + s
      BY <1>5, <2>1, <2>2, Zenon DEF Depth
    <2>4. CASE InCall(t)
      <3>1. Depth(t) = t \/ Depth(t) = N + t \/ Depth(t) = 2 * N + t
        BY <2>4, Zenon DEF InCall, Depth
      <3> QED
        BY <1>0, <2>3, <3>1, SMT, SMTT(30)
    <2>5. CASE IsDeferred(t, s) \/ ~ServedDuringSync(t, s)
      <3>1. t < s
        <4>1. CASE IsDeferred(t, s)
          <5>1. PICK i \in 1..Len(pending[t]) : DeferredOf(pending[t][i], s)
            BY <4>1, Zenon DEF IsDeferred
          <5> QED
            BY <1>0, <5>1, Zenon DEF DeferredOf, Core, HigherRanksDeferred
        <4>2. CASE ~ServedDuringSync(t, s)
          <5>1. s # t
            BY <1>5, <1>i, Zenon DEF LowerRanksServed
          <5> QED
            BY <1>0, <4>2, <5>1, SMT, SMTT(30) DEF ServedDuringSync
        <4> QED
          BY <2>5, <4>1, <4>2, Zenon
      <3>2. Depth(t) \in {t, N + t, 2 * N + t, 3 * N + t}
        BY Zenon DEF Depth
      <3> QED
        BY <1>0, <2>3, <3>1, <3>2, SMT, SMTT(30)
    <2> QED
      BY <1>5, <2>4, <2>5, Zenon
  <1> QED
    BY <1>2, <1>3, <1>4, <1>5, Zenon DEF WaitsFor

LEMMA MinimumOf ==
  ASSUME NEW T, T \subseteq Nat, T # {}, NEW R, IsWellFoundedOn(R, Nat),
         \A x, y \in Nat : y < x => <<y, x>> \in R
  PROVE  \E x \in T : \A y \in T : x <= y
  <1>1. PICK x \in T : \A y \in T : ~(<<y, x>> \in R)
    BY WFMin, Zenon
  <1>2. \A y \in T : x <= y
    <2> TAKE y \in T
    <2>1. x \in Nat /\ y \in Nat /\ ~(y < x)
      BY <1>1, Zenon
    <2> QED
      BY <2>1, SMT, SMTT(30)
  <1> QED
    BY <1>2, Zenon

LEMMA NatMinimum ==
  ASSUME NEW T, T \subseteq Nat, T # {}
  PROVE  \E x \in T : \A y \in T : x <= y
  <1>1. \A x, y \in Nat : y < x => <<y, x>> \in OpToRel(<, Nat)
    BY DEF OpToRel
  <1> QED
    BY <1>1, NatLessThanWellFounded, MinimumOf, Zenon

\* For any number of servers, and until a shutdown starts, the tie-break of
\* msg_from_other_server() leaves no set of servers waiting for each other.
THEOREM NoDeadlock == Spec => []NoCircularWait
  <1>1. ASSUME TypeOK, Core, NEW S \in SUBSET Servers, S # {}
        PROVE  \E s \in S : \A t \in S : ~WaitsFor(s, t)
    <2> DEFINE T == {Depth(s) : s \in S}
    <2>1. \A s \in S : Depth(s) \in Nat
      BY NAssumption, SMT, SMTT(30) DEF Depth, Servers
    <2>2. T \subseteq Nat /\ T # {}
      BY <1>1, <2>1, Zenon
    <2>3. PICK x \in T : \A y \in T : x <= y
      <3> HIDE DEF T
      <3> QED
        BY <2>2, NatMinimum, Zenon
    <2>4. PICK s \in S : Depth(s) = x
      BY <2>3, Zenon
    <2>5. \A t \in S : Depth(s) <= Depth(t)
      BY <2>3, <2>4, ZenonT(60)
    <2>6. ASSUME NEW t \in S PROVE ~WaitsFor(s, t)
      <3>1. Depth(s) <= Depth(t) /\ Depth(s) \in Nat /\ Depth(t) \in Nat
        BY <2>1, <2>5, Zenon
      <3>2. WaitsFor(s, t) => Depth(t) < Depth(s)
        BY <1>1, DepthDecreases, Zenon
      <3> QED
        BY <3>1, <3>2, SMT, SMTT(30)
    <2> QED
      BY <2>6, Zenon
  <1>2. TypeOK /\ SyncInv => NoCircularWait
    BY <1>1, SyncInvIsCore, Zenon DEF NoCircularWait
  <1> QED
    BY <1>2, TypeCorrect, SyncInvariant, PTL
=============================================================================
