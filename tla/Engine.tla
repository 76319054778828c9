------------------------------- MODULE Engine -------------------------------
(***************************************************************************)
(* The data-dependent task engine of every server (engine.c), the data     *)
(* they subscribe to, and the notifications between them (sync.c,          *)
(* notifications.c, handlers.c).                                           *)
(*                                                                         *)
(* A key is what a task may wait for: a datum, or a subscript of one.  For *)
(* the engine a key is open or closed, and closed for good; a datum that   *)
(* is closed may also be gone.                                             *)
(*                                                                         *)
(* xlb_engine_put() subscribes to one input after the other.  While it     *)
(* waits for a subscription to be sent, its server handles what other      *)
(* servers ask for: their subscriptions, and stores that close data of its *)
(* own, for which its engine is told at once.  Notifications from other    *)
(* servers are deferred then, so messages overtake each other; only how    *)
(* many of each are under way is modelled.                                 *)
(***************************************************************************)
EXTENDS Naturals, Sequences, Functions

CONSTANTS Servers, Keys, Tasks, NoTask,
          SubKeys,       \* the keys that are subscripts
          HomeOf,        \* [Keys -> Servers], ADLB_Locate
          Inputs,        \* [Tasks -> the keys the task waits for, data first]
          CacheSize,     \* ADLB_CLOSED_CACHE_SIZE
          FreeEarly      \* data may be gone before a task that needs it is put

ASSUME EngineAssumption ==
  /\ SubKeys \subseteq Keys
  /\ HomeOf \in [Keys -> Servers]
  /\ Inputs \in [Tasks -> Seq(Keys)] /\ NoTask \notin Tasks
  /\ CacheSize \in Nat /\ FreeEarly \in BOOLEAN

VARIABLES data,     \* [Keys -> "open", "closed" or "gone"]
          eng,      \* [Servers -> engine]
          dput,     \* [Servers -> the call of xlb_engine_put() it is in]
          subs,     \* SUBSCRIBE syncs under way, by server and key
          lis,      \* entries of a server in the list of listeners of a key
          ntfs,     \* NOTIFY syncs to a server, under way or deferred
          rpcs,     \* notifications of a server that were handed to a client
          put,      \* tasks put
          released, \* how often a task was put into a work queue
          fail      \* the error that stopped a server, or "ok"

vars == <<data, eng, dput, subs, lis, ntfs, rpcs, put, released, fail>>

(***************************************************************************)
(* An engine: the transforms that are waiting or being created, by task;   *)
(* for every key the tasks it blocks, with repetitions; the keys           *)
(* subscribed to; the LRU caches of closed keys, least recently used       *)
(* first; the work made ready, by task.                                    *)
(***************************************************************************)
EngineInit == [transforms |-> << >>, blockers |-> [k \in Keys |-> << >>],
               subscribed |-> {}, cache |-> << >>, subCache |-> << >>,
               ready |-> [t \in Tasks |-> 0]]

(* A transform: the inputs known to be closed, and the first one to look at *)
Transforms == [closed : SUBSET Nat, blocker : Nat]
TransformCreate == [closed |-> {}, blocker |-> 1]

CacheOf(e, k) == IF k \in SubKeys THEN e.subCache ELSE e.cache
SetCache(e, k, c) == IF k \in SubKeys THEN [e EXCEPT !.subCache = c]
                     ELSE [e EXCEPT !.cache = c]

(* id_closed_cache_check, id_closed_update_lru: a hit becomes the most recent *)
CacheCheck(e, k) == k \in Range(CacheOf(e, k))
MoveLast(c, i) == [j \in DOMAIN c |-> IF j < i THEN c[j]
                                      ELSE IF j < Len(c) THEN c[j + 1] ELSE c[i]]
UpdateLru(e, k) ==
  LET c == CacheOf(e, k)
  IN  SetCache(e, k, MoveLast(c, CHOOSE i \in DOMAIN c : c[i] = k))

(* id_closed_cache_add: evicts the head when full; there must be one *)
NoVictim(e, k) == Len(CacheOf(e, k)) >= CacheSize /\ CacheOf(e, k) = << >>
CacheAdd(e, k) ==
  LET c == CacheOf(e, k)
  IN  SetCache(e, k, Append(IF Len(c) < CacheSize THEN c ELSE Tail(c), k))

(* progress: the first input not closed, from the blocker on *)
Progress(t, T) ==
  LET open == {i \in T.blocker..Len(Inputs[t]) : i \notin T.closed}
  IN  [T EXCEPT !.blocker = IF open = {} THEN Len(Inputs[t]) + 1
                            ELSE CHOOSE i \in open : \A j \in open : i <= j]

\* Mutant of Done: the last input is not waited for
DoneEarly(t, T) == T.blocker >= Len(Inputs[t])

Done(t, T) == T.blocker > Len(Inputs[t])

(***************************************************************************)
(* xlb_engine_close_update: the transforms that key k blocked.  Inputs     *)
(* before the blocker are closed already and are not looked at.            *)
(***************************************************************************)
Marked(t, T, k) ==
  [T EXCEPT !.closed = @ \cup {i \in T.blocker..Len(Inputs[t]) : Inputs[t][i] = k}]
Updated(e, t, k) == Progress(t, Marked(t, e.transforms[t], k))

(* A repetition of a transform is skipped only next to the one before; one *)
(* that was done is freed.                                                 *)
UsesFreed(e, k) ==
  LET b == e.blockers[k]
  IN  \/ ~(Range(b) \subseteq DOMAIN e.transforms)
      \/ \E i, j \in DOMAIN b : /\ i < j /\ b[i] = b[j] /\ b[j - 1] # b[j]
                                /\ Done(b[i], Updated(e, b[i], k))

(* With move_to_ready for those that are done *)
CloseUpdate(e, k) ==
  LET b == Range(e.blockers[k])
      done == {t \in b : Done(t, Updated(e, t, k))}
  IN  [e EXCEPT !.blockers[k] = << >>,
                !.transforms = [t \in DOMAIN @ \ done |->
                                  IF t \in b THEN Updated(e, t, k) ELSE @[t]],
                !.ready = [t \in Tasks |-> IF t \in done THEN @[t] + 1 ELSE @[t]]]

\* Mutant of EngineClose: the transforms blocked by the key are kept in the table
EngineCloseKeep(e, k, remote) ==
  LET e1 == [e EXCEPT !.subscribed = @ \ {k}]
  IN  IF remote THEN CacheAdd(e1, k) ELSE e1

(* xlb_engine_close, xlb_engine_sub_close *)
EngineClose(e, k, remote) ==
  LET e1 == [e EXCEPT !.subscribed = @ \ {k}]
  IN  CloseUpdate(IF remote THEN CacheAdd(e1, k) ELSE e1, k)

(* What stops it: its assertions, a cache of size 0, a transform that was *)
(* freed, or move_to_ready for one (of task cur) that is not on the list  *)
CloseError(e, k, remote, cur) ==
  IF k \notin e.subscribed THEN "was_subscribed"
  ELSE IF remote /\ NoVictim(e, k) THEN "victim"
  ELSE IF UsesFreed(e, k) THEN "freed"
  ELSE IF cur \in Range(e.blockers[k]) /\ Done(cur, Updated(e, cur, k)) THEN "list_entry"
  ELSE "ok"

-----------------------------------------------------------------------------
None == [s \in Servers |-> [k \in Keys |-> 0]]
NoPut == [task |-> NoTask, next |-> 0, sync |-> FALSE]

Init ==
  /\ data = [k \in Keys |-> "open"]
  /\ eng = [s \in Servers |-> EngineInit]
  /\ dput = [s \in Servers |-> NoPut]
  /\ subs = None /\ lis = None /\ ntfs = None /\ rpcs = None
  /\ put = {}
  /\ released = [t \in Tasks |-> 0]
  /\ fail = "ok"

(* A server outside xlb_engine_put() serves everyone; while it sends a *)
(* subscription it serves servers                                      *)
Idle(s) == dput[s].task = NoTask
Serving(s) == Idle(s) \/ dput[s].sync

More(c, s, k) == [c EXCEPT ![s][k] = @ + 1]
Less(c, s, k) == [c EXCEPT ![s][k] = @ - 1]

(* handle_dput, xlb_engine_put, transform_create *)
Dput(s, t) ==
  /\ fail = "ok" /\ Idle(s) /\ t \notin put
  /\ put' = put \cup {t}
  /\ dput' = [dput EXCEPT ![s] = [task |-> t, next |-> 1, sync |-> FALSE]]
  /\ eng' = [eng EXCEPT ![s].transforms =
               [u \in DOMAIN @ \cup {t} |-> IF u = t THEN TransformCreate ELSE @[u]]]
  /\ UNCHANGED <<data, subs, lis, ntfs, rpcs, released, fail>>

(***************************************************************************)
(* init_inputs: the next input k of server s.  subscribe_td and            *)
(* subscribe_id_sub find it subscribed to already, open or closed on this  *)
(* server, known to be closed on another one, or must ask that one.        *)
(***************************************************************************)
\* Mutant of Subscribe: what this server subscribed to before is forgotten
SubscribeAgain(s, k) ==
  IF HomeOf[k] = s THEN (IF data[k] = "open" THEN "here" ELSE "ready")
  ELSE IF CacheCheck(eng[s], k) THEN "ready" ELSE "there"

Subscribe(s, k) ==
  IF k \in eng[s].subscribed THEN "subscribed"
  ELSE IF HomeOf[k] = s THEN (IF data[k] = "open" THEN "here" ELSE "ready")
  ELSE IF CacheCheck(eng[s], k) THEN "ready" ELSE "there"

InputIs(s, k) ==
  /\ fail = "ok" /\ ~Idle(s) /\ ~dput[s].sync
  /\ dput[s].next <= Len(Inputs[dput[s].task])
  /\ k = Inputs[dput[s].task][dput[s].next]

NextInput(s) ==
  dput' = [dput EXCEPT ![s].next = @ + 1, ![s].sync = FALSE]

(* table_lp_add to id_subscribed, add_blocker, add_blocker_sub *)
AddBlocker(s, k) ==
  eng' = [eng EXCEPT ![s].subscribed = @ \cup {k},
                     ![s].blockers[k] = Append(@, dput[s].task)]

InputSubscribed(s, k) ==
  /\ InputIs(s, k) /\ Subscribe(s, k) = "subscribed"
  /\ AddBlocker(s, k) /\ NextInput(s)
  /\ UNCHANGED <<data, subs, lis, ntfs, rpcs, put, released, fail>>

InputHere(s, k) ==
  /\ InputIs(s, k) /\ Subscribe(s, k) = "here"
  /\ AddBlocker(s, k) /\ NextInput(s)
  /\ lis' = More(lis, s, k)
  /\ UNCHANGED <<data, subs, ntfs, rpcs, put, released, fail>>

(* A datum of this server that is gone is an error (ENGINE_CHECK_DATA) *)
InputReady(s, k) ==
  LET e == IF HomeOf[k] = s THEN eng[s] ELSE UpdateLru(eng[s], k)
  IN  /\ InputIs(s, k) /\ Subscribe(s, k) = "ready"
      /\ eng' = [eng EXCEPT ![s] = [e EXCEPT !.transforms[dput[s].task].closed =
                                                @ \cup {dput[s].next}]]
      /\ NextInput(s)
      /\ fail' = IF HomeOf[k] = s /\ data[k] = "gone" THEN "UNKNOWN" ELSE "ok"
      /\ UNCHANGED <<data, subs, lis, ntfs, rpcs, put, released>>

(* xlb_sync_subscribe, until it is sent: SubscribeSent *)
InputThere(s, k) ==
  /\ InputIs(s, k) /\ Subscribe(s, k) = "there"
  /\ subs' = More(subs, s, k)
  /\ dput' = [dput EXCEPT ![s].sync = TRUE]
  /\ UNCHANGED <<data, eng, lis, ntfs, rpcs, put, released, fail>>

SubscribeSent(s) ==
  /\ fail = "ok" /\ dput[s].sync
  /\ AddBlocker(s, Inputs[dput[s].task][dput[s].next]) /\ NextInput(s)
  /\ UNCHANGED <<data, subs, lis, ntfs, rpcs, put, released, fail>>

(* progress and the end of xlb_engine_put: the task waits, or is released *)
PutDone(s) ==
  LET t == dput[s].task
      T == Progress(t, eng[s].transforms[t])
  IN  /\ fail = "ok" /\ ~Idle(s) /\ ~dput[s].sync
      /\ dput[s].next > Len(Inputs[t])
      /\ dput' = [dput EXCEPT ![s] = NoPut]
      /\ \/ /\ Done(t, T)
            /\ eng' = [eng EXCEPT ![s].transforms = [u \in DOMAIN @ \ {t} |-> @[u]]]
            /\ released' = [released EXCEPT ![t] = @ + 1]
         \/ /\ ~Done(t, T)
            /\ eng' = [eng EXCEPT ![s].transforms[t] = T]
            /\ UNCHANGED released
      /\ UNCHANGED <<data, subs, lis, ntfs, rpcs, put, fail>>

(***************************************************************************)
(* Key k closes, in a call of a client or in one of server p: a store to   *)
(* another server, or a change of a refcount on its own.  The home of k    *)
(* tells its own engine.  The other listeners are left to the client, or   *)
(* are sent NOTIFY syncs by p, which tells its own engine directly         *)
(* (xlb_process_local_notif, xlb_close_notify).                            *)
(***************************************************************************)
Hears(s, k) == lis[s][k] > 0
HearError(s, k) ==
  IF ~Hears(s, k) THEN "ok"
  ELSE IF lis[s][k] > 1 THEN "was_subscribed"
  ELSE CloseError(eng[s], k, FALSE, dput[s].task)

CloseKey(k, told) ==
  LET e == [s \in Servers |-> IF s \in told THEN HearError(s, k) ELSE "ok"]
      failed == {s \in Servers : e[s] # "ok"}
  IN  /\ fail = "ok" /\ data[k] = "open"
      /\ data' = [data EXCEPT ![k] = "closed"]
      /\ lis' = [s \in Servers |-> [lis[s] EXCEPT ![k] = 0]]
      /\ IF failed = {}
         THEN /\ eng' = [s \in Servers |-> IF s \in told /\ Hears(s, k)
                                           THEN EngineClose(eng[s], k, FALSE) ELSE eng[s]]
              /\ fail' = "ok"
         ELSE /\ fail' = e[CHOOSE s \in failed : TRUE]
              /\ UNCHANGED eng

Tell(c, k, told) ==
  [s \in Servers |-> [c[s] EXCEPT ![k] = IF s \in told THEN @ ELSE @ + lis[s][k]]]

CloseByClient(k) ==
  /\ Idle(HomeOf[k])
  /\ CloseKey(k, {HomeOf[k]})
  /\ rpcs' = Tell(rpcs, k, {HomeOf[k]})
  /\ UNCHANGED <<dput, subs, ntfs, put, released>>

CloseByServer(k, p) ==
  /\ Idle(p) /\ Serving(HomeOf[k])
  /\ CloseKey(k, {HomeOf[k], p})
  /\ ntfs' = Tell(ntfs, k, {HomeOf[k], p})
  /\ UNCHANGED <<dput, subs, rpcs, put, released>>

(* The last count of a closed datum is given up, by those who own it: the *)
(* tasks that wait for it still do                                        *)
Needs(t, k) == k \in Range(Inputs[t]) /\ released[t] = 0
Collect(k) ==
  /\ fail = "ok" /\ data[k] = "closed" /\ Serving(HomeOf[k])
  /\ \A t \in Tasks : Needs(t, k) => FreeEarly /\ t \notin put
  /\ data' = [data EXCEPT ![k] = "gone"]
  /\ UNCHANGED <<eng, dput, subs, lis, ntfs, rpcs, put, released, fail>>

(* xlb_handle_subscribe_sync for a subscription of server s; the          *)
(* notification of a closed key is sent at once or later (UNSENT_NOTIFY)  *)
SubscribeSync(s, k) ==
  /\ fail = "ok" /\ Serving(HomeOf[k]) /\ subs[s][k] > 0
  /\ subs' = Less(subs, s, k)
  /\ lis' = IF data[k] = "open" THEN More(lis, s, k) ELSE lis
  /\ ntfs' = IF data[k] = "closed" THEN More(ntfs, s, k) ELSE ntfs
  /\ fail' = IF data[k] = "gone" THEN "NOT_FOUND" ELSE "ok"
  /\ UNCHANGED <<data, eng, dput, rpcs, put, released>>

(* The engine of server s is told of a key of another server *)
Notified(s, k) ==
  LET err == CloseError(eng[s], k, TRUE, dput[s].task)
  IN  /\ fail = "ok"
      /\ eng' = IF err = "ok" THEN [eng EXCEPT ![s] = EngineClose(@, k, TRUE)] ELSE eng
      /\ fail' = err
      /\ UNCHANGED <<data, dput, subs, lis, put, released>>

\* Mutant of NotifySync: a notification is not deferred
NotifySyncNow(s, k) ==
  /\ Serving(s) /\ ntfs[s][k] > 0
  /\ ntfs' = Less(ntfs, s, k)
  /\ Notified(s, k)
  /\ UNCHANGED rpcs

(* xlb_handle_notify_sync *)
NotifySync(s, k) ==
  /\ Idle(s) /\ ntfs[s][k] > 0
  /\ ntfs' = Less(ntfs, s, k)
  /\ Notified(s, k)
  /\ UNCHANGED rpcs

(* handle_notify, for a client *)
NotifyRpc(s, k) ==
  /\ Idle(s) /\ rpcs[s][k] > 0
  /\ rpcs' = Less(rpcs, s, k)
  /\ Notified(s, k)
  /\ UNCHANGED ntfs

(* xlb_handle_ready_work *)
ReadyWork(s) ==
  /\ fail = "ok" /\ Idle(s) /\ \E t \in Tasks : eng[s].ready[t] > 0
  /\ released' = [t \in Tasks |-> released[t] + eng[s].ready[t]]
  /\ eng' = [eng EXCEPT ![s].ready = [t \in Tasks |-> 0]]
  /\ UNCHANGED <<data, dput, subs, lis, ntfs, rpcs, put, fail>>

Put(s) == \/ \E k \in Keys : \/ InputSubscribed(s, k) \/ InputHere(s, k)
                             \/ InputReady(s, k) \/ InputThere(s, k)
          \/ SubscribeSent(s) \/ PutDone(s)

Serve == \E s \in Servers :
           \/ \E k \in Keys : SubscribeSync(s, k) \/ NotifySync(s, k) \/ NotifyRpc(s, k)
           \/ ReadyWork(s)
           \/ Put(s)

Next == \/ \E s \in Servers, t \in Tasks : Dput(s, t)
        \/ \E k \in Keys : \/ CloseByClient(k) \/ Collect(k)
                           \/ \E p \in Servers : CloseByServer(k, p)
        \/ Serve

Spec == Init /\ [][Next]_vars

(* Servers serve what has arrived, clients finish their calls: the weak    *)
(* fairness of Serve, with the condition under which it is enabled         *)
Pending == /\ fail = "ok"
           /\ \E s \in Servers :
                \/ ~Idle(s)
                \/ \E k \in Keys : subs[s][k] + ntfs[s][k] + rpcs[s][k] > 0
                \/ \E t \in Tasks : eng[s].ready[t] > 0
FairSpec == Spec /\ ([]<>~Pending \/ []<><<Serve>>_vars)

-----------------------------------------------------------------------------
\* No server stops (was_subscribed holds, a datum that is subscribed to is found,
\* no transform is used after it was freed or before it is on the list), and the
\* caches respect ADLB_CLOSED_CACHE_SIZE and hold only keys of other servers that
\* are closed for good.
TypeOK ==
  /\ fail = "ok"
  /\ data \in [Keys -> {"open", "closed", "gone"}]
  /\ \A s \in Servers : /\ Len(eng[s].cache) <= CacheSize
                        /\ Len(eng[s].subCache) <= CacheSize
                        /\ eng[s].subscribed \subseteq Keys
                        /\ DOMAIN eng[s].transforms \subseteq put
                        /\ \A k \in Range(eng[s].cache) \cup Range(eng[s].subCache) :
                             data[k] # "open" /\ HomeOf[k] # s

Promise == INSTANCE TaskSpec WITH
             closed <- {k \in Keys : data[k] # "open"}

\* The engines, the data and the messages between them do what ADLB_Dput
\* promises (adlb.h): a task is released once, and only when all its inputs
\* have closed, although an engine knows only what it was told.
Promised == Promise!Spec

\* The key whose subscription server s is sending.
Subscribing(s, k) ==
  dput[s].sync /\ k = Inputs[dput[s].task][dput[s].next]

\* A subscription is in one place until the engine hears of the close: on its
\* way, with the datum, or as a notification on its way back; so the engine's
\* assertion was_subscribed cannot fail and no waiting task is forgotten.
OneAnswer ==
  \A s \in Servers, k \in Keys :
    subs[s][k] + lis[s][k] + ntfs[s][k] + rpcs[s][k]
      = (IF k \in eng[s].subscribed \/ Subscribing(s, k) THEN 1 ELSE 0)

\* A waiting task is blocked by an open input that the engine is subscribed
\* to, and is listed with every input not marked closed; what is marked is
\* closed.
WaitsForSomething ==
  \A s \in Servers : \A t \in DOMAIN eng[s].transforms \ {dput[s].task} :
    LET T == eng[s].transforms[t]
    IN  /\ T.blocker \in DOMAIN Inputs[t] \ T.closed
        /\ \A i \in DOMAIN Inputs[t] :
             IF i \in T.closed THEN data[Inputs[t][i]] # "open"
             ELSE /\ t \in Range(eng[s].blockers[Inputs[t][i]])
                  /\ Inputs[t][i] \in eng[s].subscribed

\* A task all of whose inputs are closed is released in the end.
Releases ==
  \A t \in Tasks :
    (t \in put /\ \A k \in Range(Inputs[t]) : data[k] # "open")
      ~> released[t] > 0
=============================================================================
