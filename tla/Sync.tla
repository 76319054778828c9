-------------------------------- MODULE Sync --------------------------------
(***************************************************************************)
(* The server-to-server synchronization protocol of XLB: sync.c and        *)
(* sync.h, with the part of server.c that drives it (the server loop, the  *)
(* draining of deferred syncs, xlb_serve_server, the steal attempt, the    *)
(* idle check of the master and the shutdown it decides).                  *)
(*                                                                         *)
(* Every server is one single-threaded process.  What it is doing is its   *)
(* call stack, which is kept here as                                       *)
(*   phase     the frame of the server loop it is in,                      *)
(*   replying  the server whose RPC it handles while it runs a sync,       *)
(*   syncing   the xlb_sync2 call it is in,                                *)
(*   serving   the server whose RPC it spins for in xlb_serve_server,      *)
(*   sending   the thief it streams stolen work to in xlb_handle_steal,    *)
(*   calling   the server whose RPC reply it blocks on (MPI_Wait).         *)
(* Messages between two servers with one tag keep their order; messages of *)
(* different pairs, or of different tags, do not (MPI non-overtaking).     *)
(* Data (ids, refcounts, work units) is abstracted to what the handlers    *)
(* may do next.                                                            *)
(***************************************************************************)
EXTENDS Naturals, Sequences, FiniteSets

CONSTANTS
  N,             \* number of servers
  MaxClient,     \* bound: client requests each server receives
  MaxSent,       \* bound: syncs that request handlers start, in all
  ClientModes,   \* sync modes the handlers of client requests may use
  Rpcs,          \* RPCs that handlers issue on other servers
  Preacquire,    \* may a stored reference need a remote refcount first?
  Requesters,    \* servers whose request queue is not empty when idle
  StealLimit,    \* xlb_steal_concurrency_limit
  IdleChecks     \* does the master check for idleness (and shut down)?

\* Server ranks, counted from the master server (lowest rank).
Servers == 1..N

Master == 1

\* "no server"
None == 0

\* adlb_sync_mode
Modes == {"REQUEST", "STEAL_PROBE", "STEAL_PROBE_RESP", "STEAL",
          "REFCOUNT", "SUBSCRIBE", "NOTIFY", "SHUTDOWN"}

\* xlb_pending_kind
Kinds == {"DEFERRED_SYNC", "ACCEPTED_REFC", "DEFERRED_NOTIFY",
          "UNSENT_NOTIFY", "DEFERRED_STEAL_PROBE",
          "DEFERRED_STEAL_PROBE_RESP"}

RpcTags == {"PUT", "STORE", "CHECK_IDLE", "DO_NOTHING"}

Phases == {"loop", "client", "refcount", "drain", "idle_check",
           "shutdown", "down"}

ASSUME NAssumption == N \in Nat /\ N >= 2

ASSUME BoundsAssumption == MaxClient \in Nat /\ MaxSent \in Nat

ASSUME ParamsAssumption ==
  /\ ClientModes \subseteq {"REQUEST", "REFCOUNT", "SUBSCRIBE", "NOTIFY"}
  /\ Rpcs \subseteq {"PUT", "STORE"} /\ Rpcs # {}
  /\ Preacquire \in BOOLEAN
  /\ Requesters \subseteq Servers
  /\ StealLimit \in Nat
  /\ IdleChecks \in BOOLEAN

VARIABLES
  net,        \* sync messages sent and not taken, per <<source, target>>
  rpcs,       \* RPC messages sent and not taken, per <<source, target>>
  pending,    \* xlb_pending_syncs: the FIFO of deferred work
  syncing,    \* the xlb_sync2 call in progress
  serving,    \* the source of xlb_serve_server, or None
  sending,    \* the caller of xlb_handle_steal, or None
  replying,   \* the caller of an RPC whose handler runs a sync, or None
  calling,    \* the server whose RPC response is awaited, or None
  phase,      \* where the server is in its loop
  stealing,   \* inside xlb_try_steal
  ready,      \* xlb_server_ready_work is not empty
  probes,     \* sent_steal_probes
  shutting,   \* servers with xlb_server_shutting_down set
  checking,   \* the rank servers_idle / shutdown_all_servers has reached
  answer,     \* the answer to the last ADLB_Server_idle
  clients,    \* client requests still to come, per server
  sent,       \* syncs started by request handlers
  aborted     \* an assertion failed

chans == <<net, rpcs>>
calls == <<serving, sending, replying, calling>>
loopv == <<stealing, ready, probes>>
idlev == <<shutting, checking, answer>>
bound == <<clients, sent>>

vars == <<net, rpcs, pending, syncing, serving, sending, replying, calling,
          phase, stealing, ready, probes, shutting, checking, answer,
          clients, sent, aborted>>

-----------------------------------------------------------------------------

Pairs == Servers \X Servers

NoSync == [to |-> None, mode |-> "REQUEST", accepted |-> FALSE]

SyncRecords == [to : Servers \cup {None}, mode : Modes, accepted : BOOLEAN]

PendingRecords == [kind : Kinds, rank : Servers, mode : Modes]

Init ==
  /\ net = [p \in Pairs |-> <<>>]
  /\ rpcs = [p \in Pairs |-> <<>>]
  /\ pending = [s \in Servers |-> <<>>]
  /\ syncing = [s \in Servers |-> NoSync]
  /\ serving = [s \in Servers |-> None]
  /\ sending = [s \in Servers |-> None]
  /\ replying = [s \in Servers |-> None]
  /\ calling = [s \in Servers |-> None]
  /\ phase = [s \in Servers |-> "loop"]
  /\ stealing = [s \in Servers |-> FALSE]
  /\ ready = [s \in Servers |-> FALSE]
  /\ probes = [s \in Servers |-> {}]
  /\ shutting = {}
  /\ checking = None
  /\ answer = FALSE
  /\ clients = [s \in Servers |-> MaxClient]
  /\ sent = 0
  /\ aborted = FALSE

-----------------------------------------------------------------------------
(* What a server is doing.                                                 *)

InSync(s) == syncing[s].to # None

\* Mutant of Free: a server handles messages while it waits for a response.
FreeInCall(s) == ~InSync(s) /\ serving[s] = None /\ sending[s] = None

\* Not blocked inside a sync, a served RPC, a steal or an RPC of its own.
Free(s) == /\ ~InSync(s)
           /\ serving[s] = None
           /\ sending[s] = None
           /\ calling[s] = None

\* sync_accept_required()
AcceptRequired(m) == m \in {"REQUEST", "STEAL"}

\* xlb_is_pending_notif()
IsPendingNotif(e) ==
  \/ e.kind \in {"DEFERRED_NOTIFY", "UNSENT_NOTIFY", "ACCEPTED_REFC"}
  \/ /\ e.kind = "DEFERRED_SYNC"
     /\ e.mode \in {"NOTIFY", "SUBSCRIBE", "REFCOUNT"}

\* xlb_have_pending_notifs()
HavePendingNotifs(s) ==
  \E i \in 1..Len(pending[s]) : IsPendingNotif(pending[s][i])

\* Mutant of ServedDuringSync: every sync of another server is deferred.
ServeNone(s, other) == FALSE

\* The tie-break of msg_from_other_server(): during its own sync, server s
\* accepts the sync of another server only if that one has a lower rank.
ServedDuringSync(s, other) == other < s

-----------------------------------------------------------------------------
(* Starting and finishing syncs.                                           *)

\* The RPC that follows an accepted REQUEST: the caller sends it and blocks
\* until the response (xlb_store, ADLB_Put, ADLB_Server_idle).
Call(s, t) ==
  /\ \E r \in IF phase[s] = "idle_check" THEN {"CHECK_IDLE"} ELSE Rpcs :
       rpcs' = [rpcs EXCEPT ![<<s, t>>] = Append(@, r)]
  /\ calling' = [calling EXCEPT ![s] = t]

\* Entry of xlb_sync2(): send the header, or, when this server already got
\* the shutdown message, return ADLB_SHUTDOWN at once.  ADLB_CHECK lets
\* that code pass, so the caller of xlb_sync() issues its RPC all the same.
\* net0 is the network once the message being handled is removed.
Sync2(s, t, m, net0) ==
  \/ /\ s \notin shutting \/ m = "SHUTDOWN"
     /\ syncing' = [syncing EXCEPT
                      ![s] = [to |-> t, mode |-> m, accepted |-> FALSE]]
     /\ net' = [net0 EXCEPT ![<<s, t>>] = Append(@, m)]
     /\ UNCHANGED <<rpcs, calling>>
  \/ /\ s \in shutting /\ m # "SHUTDOWN"
     /\ net' = net0
     /\ IF m = "REQUEST" THEN Call(s, t) ELSE UNCHANGED <<rpcs, calling>>
     /\ UNCHANGED syncing

NoSync2(net0) == net' = net0 /\ UNCHANGED <<syncing, rpcs, calling>>

\* The response that xlb_accept_sync() sends to the caller of a REQUEST or
\* STEAL; a caller that cancelled its sync no longer receives it.
Respond(s, f) ==
  [syncing EXCEPT ![f].accepted = @ \/ syncing[f].to = s]

\* xlb_accept_sync() of the two modes that are served on the spot, whether
\* or not this server is in a sync of its own: the response, and then
\* xlb_serve_server() or xlb_handle_steal().
Serve(s, f, m, net0) ==
  /\ AcceptRequired(m)
  /\ syncing' = Respond(s, f)
  /\ serving' = IF m = "REQUEST" THEN [serving EXCEPT ![s] = f] ELSE serving
  /\ sending' = IF m = "STEAL" THEN [sending EXCEPT ![s] = f] ELSE sending
  /\ net' = net0
  /\ UNCHANGED <<rpcs, calling>>

\* The sync is over for its initiator.
EndSync(s) == [syncing EXCEPT ![s] = NoSync]

\* Response from the target: an RPC follows a REQUEST; the stolen work
\* follows a STEAL, and receiving it releases the victim.
SyncAccepted(s) ==
  LET t == syncing[s].to IN
  /\ InSync(s) /\ syncing[s].accepted
  /\ serving[s] = None /\ sending[s] = None
  /\ syncing' = EndSync(s)
  /\ \/ /\ syncing[s].mode = "REQUEST"
        /\ Call(s, t)
        /\ UNCHANGED sending
     \/ /\ syncing[s].mode = "STEAL"
        /\ sending' = [sending EXCEPT ![t] = None]
        /\ UNCHANGED <<rpcs, calling>>
  /\ UNCHANGED <<net, pending, serving, replying, phase, loopv, idlev,
                 bound, aborted>>

\* Mutant of SyncSent: the probe is not recorded.
SyncSentUnrecorded(s) ==
  /\ InSync(s) /\ ~AcceptRequired(syncing[s].mode)
  /\ serving[s] = None /\ sending[s] = None
  /\ syncing' = EndSync(s)
  /\ UNCHANGED <<chans, pending, calls, phase, loopv, idlev, bound, aborted>>

\* The send of a message that needs no acceptance completed.
SyncSent(s) ==
  /\ InSync(s) /\ ~AcceptRequired(syncing[s].mode)
  /\ serving[s] = None /\ sending[s] = None
  /\ syncing' = EndSync(s)
  /\ probes' = IF syncing[s].mode = "STEAL_PROBE"
               THEN [probes EXCEPT ![s] = @ \cup {syncing[s].to}]
               ELSE probes
  /\ UNCHANGED <<chans, pending, calls, phase, stealing, ready, idlev,
                 bound, aborted>>

-----------------------------------------------------------------------------
(* Sync messages that arrive during a sync: msg_from_other_server().       *)

Take(f, s) == [net EXCEPT ![<<f, s>>] = Tail(@)]

\* Mutants of Enqueue: an entry is dropped when the list is not empty, and
\* the list is a stack.
EnqueueIfEmpty(s, k, f, m) ==
  pending' = IF pending[s] # <<>> THEN pending
             ELSE [pending EXCEPT ![s] = <<[kind |-> k, rank |-> f, mode |-> m]>>]

EnqueueFirst(s, k, f, m) ==
  pending' = [pending EXCEPT ![s] = <<[kind |-> k, rank |-> f,
                                       mode |-> m]>> \o @]

\* enqueue_pending()
Enqueue(s, k, f, m) ==
  pending' = [pending EXCEPT ![s] = Append(@, [kind |-> k, rank |-> f,
                                               mode |-> m])]

\* xlb_accept_sync() with defer_svr_ops: whatever might start another sync
\* is put on the pending list.  A SUBSCRIBE is entered in the data store at
\* once; only the notification for a datum already closed waits.
Defer(s, f, m) ==
  \/ m = "STEAL_PROBE" /\ Enqueue(s, "DEFERRED_STEAL_PROBE", f, m)
  \/ m = "STEAL_PROBE_RESP" /\ Enqueue(s, "DEFERRED_STEAL_PROBE_RESP", f, m)
  \/ m = "REFCOUNT" /\ Enqueue(s, "ACCEPTED_REFC", f, m)
  \/ m = "NOTIFY" /\ Enqueue(s, "DEFERRED_NOTIFY", f, m)
  \/ m = "SUBSCRIBE" /\ Enqueue(s, "UNSENT_NOTIFY", f, m)
  \/ m = "SUBSCRIBE" /\ UNCHANGED pending

\* Mutant of CancelSync: the sync ends, but the shutdown is forgotten.
CancelSyncForgets(s, f) ==
  LET t == syncing[s].to
      m == syncing[s].mode
      n0 == Take(f, s)
  IN
  /\ UNCHANGED shutting
  /\ syncing' = EndSync(s)
  /\ \/ net' = n0
     \/ /\ n0[<<s, t>>] # <<>>
        /\ net' = [n0 EXCEPT ![<<s, t>>] = SubSeq(@, 1, Len(@) - 1)]
  /\ IF m = "REQUEST"
     THEN /\ \E r \in Rpcs : rpcs' = [rpcs EXCEPT
               ![<<s, t>>] = @ \o <<"DO_NOTHING", r>>]
          /\ calling' = [calling EXCEPT ![s] = t]
     ELSE UNCHANGED <<rpcs, calling>>
  /\ probes' = IF m = "STEAL_PROBE"
               THEN [probes EXCEPT ![s] = @ \cup {t}] ELSE probes

\* The shutdown message: leave the sync loop.  cancel_sync() sends a
\* DO_NOTHING after a REQUEST; MPI_Cancel may take back a header that the
\* target has not received.  The caller then goes on as after Sync2.
CancelSync(s, f) ==
  LET t == syncing[s].to
      m == syncing[s].mode
      n0 == Take(f, s)
  IN
  /\ shutting' = shutting \cup {s}
  /\ syncing' = EndSync(s)
  /\ \/ net' = n0
     \/ /\ n0[<<s, t>>] # <<>>
        /\ net' = [n0 EXCEPT ![<<s, t>>] = SubSeq(@, 1, Len(@) - 1)]
  /\ IF m = "REQUEST"
     THEN /\ \E r \in Rpcs : rpcs' = [rpcs EXCEPT
               ![<<s, t>>] = @ \o <<"DO_NOTHING", r>>]
          /\ calling' = [calling EXCEPT ![s] = t]
     ELSE UNCHANGED <<rpcs, calling>>
  /\ probes' = IF m = "STEAL_PROBE"
               THEN [probes EXCEPT ![s] = @ \cup {t}] ELSE probes

Interrupt(s, f) ==
  /\ InSync(s) /\ serving[s] = None /\ sending[s] = None
  /\ net[<<f, s>>] # <<>>
  /\ LET m == Head(net[<<f, s>>]) IN
     \/ /\ ServedDuringSync(s, f)
        /\ \/ /\ Serve(s, f, m, Take(f, s))
              /\ UNCHANGED <<pending, shutting, probes>>
           \/ /\ Defer(s, f, m)
              /\ NoSync2(Take(f, s))
              /\ UNCHANGED <<serving, sending, shutting, probes>>
           \/ /\ m = "SHUTDOWN"
              /\ CancelSync(s, f)
              /\ UNCHANGED <<pending, serving, sending>>
     \/ /\ ~ServedDuringSync(s, f)
        /\ Enqueue(s, "DEFERRED_SYNC", f, m)
        /\ NoSync2(Take(f, s))
        /\ UNCHANGED <<serving, sending, shutting, probes>>
  /\ UNCHANGED <<replying, phase, stealing, ready, checking, answer, bound,
                 aborted>>

-----------------------------------------------------------------------------
(* RPCs from other servers: xlb_serve_server(), and the top-level poll.    *)

\* workers_idle(): every request that will come has come; the last one of a
\* worker is the ADLB_Get that blocks it.
WorkersIdle(s) == clients[s] = 0

\* The handlers of server-to-server RPCs.
HandleDoNothing == UNCHANGED <<calling, replying, ready, answer>>

\* xlb_server_check_idle_local() may also answer no because of its timer, or
\* of an attempt number it has already seen.
HandleCheckIdle(s, f) ==
  /\ answer' \in {FALSE, WorkersIdle(s) /\ ~HavePendingNotifs(s)}
  /\ calling' = [calling EXCEPT ![f] = None]
  /\ UNCHANGED <<replying, ready>>

HandlePut(f) ==
  /\ calling' = [calling EXCEPT ![f] = None]
  /\ UNCHANGED <<replying, ready, answer>>

\* Local notifications are applied (which may release work) before the
\* response; a refcount that must be acquired first takes a sync of its own
\* (see also NestedSync).
HandleStore(s, f) ==
  \/ /\ \E b \in {ready[s], TRUE} : ready' = [ready EXCEPT ![s] = b]
     /\ calling' = [calling EXCEPT ![f] = None]
     /\ UNCHANGED <<replying, answer>>
  \/ /\ Preacquire
     /\ ~InSync(s)
     /\ replying' = [replying EXCEPT ![s] = f]
     /\ UNCHANGED <<calling, ready, answer>>

HandleRpc(s, f) ==
  LET r == Head(rpcs[<<f, s>>]) IN
  /\ rpcs[<<f, s>>] # <<>>
  /\ rpcs' = [rpcs EXCEPT ![<<f, s>>] = Tail(@)]
  /\ \/ r = "DO_NOTHING" /\ HandleDoNothing
     \/ r = "CHECK_IDLE" /\ HandleCheckIdle(s, f)
     \/ r = "PUT" /\ HandlePut(f)
     \/ r = "STORE" /\ HandleStore(s, f)

ServeRpc(s) ==
  /\ serving[s] # None
  /\ HandleRpc(s, serving[s])
  /\ serving' = [serving EXCEPT ![s] = None]
  /\ UNCHANGED <<net, pending, syncing, sending, phase, stealing, probes,
                 shutting, checking, bound, aborted>>

\* The same refcount, when this server is already in a sync: the assertion
\* at the top of xlb_sync2() fails.
NestedSync(s) ==
  /\ InSync(s) /\ serving[s] # None
  /\ rpcs[<<serving[s], s>>] # <<>>
  /\ Head(rpcs[<<serving[s], s>>]) = "STORE" /\ Preacquire
  /\ aborted' = TRUE
  /\ UNCHANGED <<chans, pending, syncing, calls, phase, loopv, idlev, bound>>

\* A message of another server that no sync announced, or a DO_NOTHING.
PollRpc(s, f) ==
  /\ phase[s] = "loop" /\ Free(s)
  /\ HandleRpc(s, f)
  /\ phase' = [phase EXCEPT ![s] = "drain"]
  /\ UNCHANGED <<net, pending, syncing, serving, sending, stealing, probes,
                 shutting, checking, bound, aborted>>

\* xlb_process_local_notif(): one more refcount to acquire ...
PreacquireSync(s) ==
  /\ replying[s] # None /\ Free(s)
  /\ sent < MaxSent
  /\ sent' = sent + 1
  /\ \E t \in Servers \ {s} : Sync2(s, t, "REFCOUNT", net)
  /\ UNCHANGED <<pending, serving, sending, replying, phase, loopv, idlev,
                 clients, aborted>>

\* ... and the response of the handler.
Reply(s) ==
  /\ replying[s] # None /\ Free(s)
  /\ calling' = [calling EXCEPT ![replying[s]] = None]
  /\ replying' = [replying EXCEPT ![s] = None]
  /\ UNCHANGED <<chans, pending, syncing, serving, sending, phase, loopv,
                 idlev, bound, aborted>>

\* The victim's sends complete although the thief gave up.
StealSent(s) ==
  /\ sending[s] # None
  /\ syncing[sending[s]].to # s
  /\ sending' = [sending EXCEPT ![s] = None]
  /\ UNCHANGED <<chans, pending, syncing, serving, replying, calling, phase,
                 loopv, idlev, bound, aborted>>

-----------------------------------------------------------------------------
(* Sync messages outside a sync: xlb_accept_sync() without deferral, from  *)
(* xlb_handle_next_sync_msg() or xlb_handle_pending_sync().                *)

\* The server runs its own code: no call in progress at all.
Running(s) == Free(s) /\ replying[s] = None

To(s, p) == phase' = [phase EXCEPT ![s] = p]

\* xlb_handle_steal_probe()
HandleStealProbe(s, f, net0) ==
  /\ Sync2(s, f, "STEAL_PROBE_RESP", net0)
  /\ To(s, "drain")
  /\ UNCHANGED <<serving, sending, ready, probes, shutting>>

\* xlb_handle_steal_probe_resp(): steal if the counts match.
HandleStealProbeResp(s, f, net0) ==
  /\ probes' = [probes EXCEPT ![s] = @ \ {f}]
  /\ Sync2(s, f, "STEAL", net0) \/ NoSync2(net0)
  /\ To(s, "drain")
  /\ UNCHANGED <<serving, sending, ready, shutting>>

\* xlb_incr_refc_local() and the notifications that follow from it.
HandleRefcount(s, net0) ==
  /\ NoSync2(net0)
  /\ To(s, "refcount")
  /\ UNCHANGED <<serving, sending, ready, probes, shutting>>

\* xlb_handle_notify_sync(): may release work.
HandleNotify(s, net0) ==
  /\ NoSync2(net0)
  /\ \E b \in {ready[s], TRUE} : ready' = [ready EXCEPT ![s] = b]
  /\ To(s, "drain")
  /\ UNCHANGED <<serving, sending, probes, shutting>>

\* xlb_sync_notify() for a datum that is already closed.
SendNotify(s, f, net0) ==
  /\ Sync2(s, f, "NOTIFY", net0)
  /\ To(s, "drain")
  /\ UNCHANGED <<serving, sending, ready, probes, shutting>>

\* xlb_handle_subscribe_sync() of an open datum: nothing to send.
Subscribed(s, net0) ==
  /\ NoSync2(net0)
  /\ To(s, "drain")
  /\ UNCHANGED <<serving, sending, ready, probes, shutting>>

\* xlb_server_shutting_down is set; the loop ends after the drain.
HandleShutdown(s, net0) ==
  /\ shutting' = shutting \cup {s}
  /\ NoSync2(net0)
  /\ To(s, "drain")
  /\ UNCHANGED <<serving, sending, ready, probes>>

AcceptSync(s, f, m, net0) ==
  \/ /\ Serve(s, f, m, net0)
     /\ To(s, "drain")
     /\ UNCHANGED <<ready, probes, shutting>>
  \/ m = "STEAL_PROBE" /\ HandleStealProbe(s, f, net0)
  \/ m = "STEAL_PROBE_RESP" /\ HandleStealProbeResp(s, f, net0)
  \/ m = "REFCOUNT" /\ HandleRefcount(s, net0)
  \/ m = "SUBSCRIBE" /\ (SendNotify(s, f, net0) \/ Subscribed(s, net0))
  \/ m = "NOTIFY" /\ HandleNotify(s, net0)
  \/ m = "SHUTDOWN" /\ HandleShutdown(s, net0)

-----------------------------------------------------------------------------
(* The server loop.                                                        *)

\* serve_several(): the next sync message.
NextSyncMsg(s, f) ==
  /\ phase[s] = "loop" /\ Running(s)
  /\ net[<<f, s>>] # <<>>
  /\ AcceptSync(s, f, Head(net[<<f, s>>]), Take(f, s))
  /\ UNCHANGED <<pending, replying, stealing, checking, answer, bound,
                 aborted>>

\* serve_several(): a request of a worker.  Its handler may start syncs,
\* except the last one, the ADLB_Get that leaves the worker blocked.
ClientRequest(s) ==
  /\ phase[s] = "loop" /\ Running(s)
  /\ clients[s] > 0
  /\ clients' = [clients EXCEPT ![s] = @ - 1]
  /\ To(s, IF clients[s] > 1 THEN "client" ELSE "drain")
  /\ UNCHANGED <<chans, pending, syncing, calls, loopv, idlev, sent,
                 aborted>>

\* What a handler may start: a data-dependent task subscribes (engine.c);
\* a closed or freed datum decrements, notifies and stores references
\* (xlb_notify_all).
HandlerModes(p) ==
  CASE p = "client" -> ClientModes
    [] p = "refcount" -> ClientModes \ {"SUBSCRIBE"}
    [] OTHER -> {}

HandlerSync(s) ==
  /\ Running(s)
  /\ sent < MaxSent
  /\ sent' = sent + 1
  /\ \E t \in Servers \ {s}, m \in HandlerModes(phase[s]) :
       Sync2(s, t, m, net)
  /\ UNCHANGED <<pending, serving, sending, replying, phase, loopv, idlev,
                 clients, aborted>>

HandlerDone(s) ==
  /\ Running(s)
  /\ phase[s] \in {"client", "refcount"}
  /\ To(s, "drain")
  /\ UNCHANGED <<chans, pending, syncing, calls, loopv, idlev, bound,
                 aborted>>

\* xlb_handle_pending_syncs(): the next deferred entry.
DrainOne(s) ==
  LET e == Head(pending[s]) IN
  /\ phase[s] = "drain" /\ Running(s)
  /\ pending[s] # <<>>
  /\ pending' = [pending EXCEPT ![s] = Tail(@)]
  /\ \/ e.kind = "DEFERRED_SYNC" /\ AcceptSync(s, e.rank, e.mode, net)
     \/ e.kind = "ACCEPTED_REFC" /\ HandleRefcount(s, net)
     \/ e.kind = "DEFERRED_NOTIFY" /\ HandleNotify(s, net)
     \/ e.kind = "UNSENT_NOTIFY" /\ SendNotify(s, e.rank, net)
     \/ e.kind = "DEFERRED_STEAL_PROBE" /\ HandleStealProbe(s, e.rank, net)
     \/ /\ e.kind = "DEFERRED_STEAL_PROBE_RESP"
        /\ HandleStealProbeResp(s, e.rank, net)
  /\ UNCHANGED <<replying, stealing, checking, answer, bound, aborted>>

\* The list is empty.  serve_several() and servers_idle() go on with
\* xlb_handle_ready_work(); xlb_try_steal() does not.
DrainDone(s) ==
  /\ phase[s] = "drain" /\ Running(s)
  /\ pending[s] = <<>>
  /\ To(s, "loop")
  /\ ready' = [ready EXCEPT ![s] = stealing[s] /\ @]
  /\ stealing' = [stealing EXCEPT ![s] = FALSE]
  /\ UNCHANGED <<chans, pending, syncing, calls, probes, idlev, bound,
                 aborted>>

\* check_steal() and xlb_try_steal(): probe a server, unless the limit is
\* reached or the one picked was already probed; then drain.
CheckSteal(s) ==
  /\ phase[s] = "loop" /\ Running(s)
  /\ s \in Requesters
  /\ \/ \E t \in Servers \ {s} :
          /\ Cardinality(probes[s]) < StealLimit
          /\ t \notin probes[s]
          /\ Sync2(s, t, "STEAL_PROBE", net)
          /\ probes' = IF s \in shutting
                       THEN [probes EXCEPT ![s] = @ \cup {t}] ELSE probes
     \/ /\ probes[s] # {}
        /\ NoSync2(net)
        /\ UNCHANGED probes
  /\ To(s, "drain")
  /\ stealing' = [stealing EXCEPT ![s] = TRUE]
  /\ UNCHANGED <<pending, serving, sending, replying, ready, idlev, bound,
                 aborted>>

\* check_idle(): the master is idle, and asks the first of the others.
StartIdleCheck ==
  /\ IdleChecks
  /\ phase[Master] = "loop" /\ Running(Master)
  /\ Master \notin shutting
  /\ WorkersIdle(Master) /\ ~HavePendingNotifs(Master)
  /\ checking' = 2
  /\ Sync2(Master, 2, "REQUEST", net)
  /\ To(Master, "idle_check")
  /\ UNCHANGED <<pending, serving, sending, replying, loopv, shutting,
                 answer, bound, aborted>>

\* servers_idle(), once a server has answered: drain if notifications came
\* in meanwhile, give up if it is not idle, else ask the next one.
IdleAnswered ==
  /\ phase[Master] = "idle_check" /\ Running(Master)
  /\ \/ /\ HavePendingNotifs(Master) \/ ready[Master]
        /\ To(Master, "drain")
        /\ checking' = None
        /\ NoSync2(net)
     \/ /\ ~HavePendingNotifs(Master) /\ ~ready[Master]
        /\ ~answer
        /\ To(Master, "loop")
        /\ checking' = None
        /\ NoSync2(net)
     \/ /\ ~HavePendingNotifs(Master) /\ ~ready[Master]
        /\ answer /\ checking < N
        /\ checking' = checking + 1
        /\ Sync2(Master, checking + 1, "REQUEST", net)
        /\ UNCHANGED phase
  /\ UNCHANGED <<pending, serving, sending, replying, loopv, shutting,
                 answer, bound, aborted>>

\* All servers are idle.  Work and requests of one type on two servers
\* still cancel the decision; otherwise shutdown_all_servers().
AllIdle ==
  /\ phase[Master] = "idle_check" /\ Running(Master)
  /\ ~HavePendingNotifs(Master) /\ ~ready[Master]
  /\ answer /\ checking = N
  /\ \/ /\ To(Master, "loop")
        /\ checking' = None
        /\ NoSync2(net)
        /\ UNCHANGED shutting
     \/ /\ To(Master, "shutdown")
        /\ shutting' = shutting \cup {Master}
        /\ checking' = 2
        /\ Sync2(Master, 2, "SHUTDOWN", net)
  /\ UNCHANGED <<pending, serving, sending, replying, loopv, answer, bound,
                 aborted>>

\* Mutant of ShutdownNext: one server too many.
ShutdownOneMore ==
  /\ phase[Master] = "shutdown" /\ Running(Master)
  /\ \/ /\ checking <= N
        /\ checking' = checking + 1
        /\ Sync2(Master, checking + 1, "SHUTDOWN", net)
        /\ UNCHANGED phase
     \/ /\ checking > N
        /\ checking' = None
        /\ To(Master, "down")
        /\ NoSync2(net)
  /\ UNCHANGED <<pending, serving, sending, replying, loopv, shutting,
                 answer, bound, aborted>>

\* The next shutdown message; after the last one the master leaves its loop.
ShutdownNext ==
  /\ phase[Master] = "shutdown" /\ Running(Master)
  /\ \/ /\ checking < N
        /\ checking' = checking + 1
        /\ Sync2(Master, checking + 1, "SHUTDOWN", net)
        /\ UNCHANGED phase
     \/ /\ checking = N
        /\ checking' = None
        /\ To(Master, "down")
        /\ NoSync2(net)
  /\ UNCHANGED <<pending, serving, sending, replying, loopv, shutting,
                 answer, bound, aborted>>

\* ADLB_Server() leaves its loop.
Exit(s) ==
  /\ phase[s] = "loop" /\ Running(s)
  /\ s \in shutting
  /\ To(s, "down")
  /\ UNCHANGED <<chans, pending, syncing, calls, loopv, idlev, bound,
                 aborted>>

-----------------------------------------------------------------------------

\* A server takes the next sync message of another one.
TakeSync(s, f) == Interrupt(s, f) \/ NextSyncMsg(s, f)

Step(s) ==
  \/ SyncAccepted(s)
  \/ SyncSent(s)
  \/ \E f \in Servers \ {s} : TakeSync(s, f)
  \/ ServeRpc(s)
  \/ NestedSync(s)
  \/ \E f \in Servers \ {s} : PollRpc(s, f)
  \/ PreacquireSync(s)
  \/ Reply(s)
  \/ StealSent(s)
  \/ ClientRequest(s)
  \/ HandlerSync(s)
  \/ HandlerDone(s)
  \/ DrainOne(s)
  \/ DrainDone(s)
  \/ CheckSteal(s)
  \/ Exit(s)

MasterStep == StartIdleCheck \/ IdleAnswered \/ AllIdle \/ ShutdownNext

\* A failed assertion aborts the MPI job.
Next == ~aborted /\ (MasterStep \/ \E s \in Servers : Step(s))

Spec == Init /\ [][Next]_vars

\* The server runs on by itself: a handler, a drain or a served RPC whose
\* message is there.
Proceed(s) ==
  ServeRpc(s) \/ Reply(s) \/ HandlerDone(s) \/ DrainOne(s) \/ DrainDone(s)

\* The sync loop tests its own requests first, in every turn.
FinishSync(s) == SyncAccepted(s) \/ SyncSent(s)

\* Every server keeps running its loop; MPI delivers what was sent and
\* completes sends; sync messages match the posted receives in order, so each
\* is taken in the end; the timer of the steal expires.  Only a server that
\* is not the master can be interrupted again and again in a sync, and leaves
\* by the test of its loop.  Nothing is assumed of clients, for a worker may
\* compute for ever, nor of the idle check.
Fairness ==
  /\ \A s \in Servers :
       /\ WF_vars(~aborted /\ Proceed(s))
       /\ WF_vars(~aborted /\ FinishSync(s))
       /\ \A f \in Servers \ {s} :
            SF_vars(~aborted /\ (TakeSync(s, f) \/ PollRpc(s, f)))
       /\ SF_vars(~aborted /\ CheckSteal(s))
  /\ \A s \in Servers \ {Master} :
       /\ SF_vars(~aborted /\ FinishSync(s))
       /\ SF_vars(~aborted /\ Exit(s))
  /\ WF_vars(~aborted /\ (IdleAnswered \/ AllIdle \/ ShutdownNext))

FairSpec == Spec /\ Fairness

-----------------------------------------------------------------------------
(* Properties.                                                             *)

\* The type invariant; the master's rank counter of servers_idle() and
\* shutdown_all_servers() in particular stays within the servers.
TypeOK ==
  /\ net \in [Pairs -> Seq(Modes)]
  /\ rpcs \in [Pairs -> Seq(RpcTags)]
  /\ pending \in [Servers -> Seq(PendingRecords)]
  /\ syncing \in [Servers -> SyncRecords]
  /\ serving \in [Servers -> Servers \cup {None}]
  /\ sending \in [Servers -> Servers \cup {None}]
  /\ replying \in [Servers -> Servers \cup {None}]
  /\ calling \in [Servers -> Servers \cup {None}]
  /\ phase \in [Servers -> Phases]
  /\ stealing \in [Servers -> BOOLEAN]
  /\ ready \in [Servers -> BOOLEAN]
  /\ probes \in [Servers -> SUBSET Servers]
  /\ shutting \subseteq Servers
  /\ checking \in Servers \cup {None}
  /\ answer \in BOOLEAN
  /\ clients \in [Servers -> 0..MaxClient]
  /\ sent \in 0..MaxSent
  /\ aborted \in BOOLEAN

\* Server s waits in xlb_sync2() for an acceptance it has not got.
Unaccepted(s) == /\ InSync(s)
                 /\ AcceptRequired(syncing[s].mode)
                 /\ ~syncing[s].accepted

\* A deferred REQUEST or STEAL of server f.
DeferredOf(e, f) ==
  e.kind = "DEFERRED_SYNC" /\ e.rank = f /\ AcceptRequired(e.mode)

\* A REQUEST or STEAL of server s lies on the pending list of server t.
IsDeferred(t, s) == \E i \in 1..Len(pending[t]) : DeferredOf(pending[t][i], s)

\* Blocked inside a call that only another server can end.
InCall(t) == serving[t] # None \/ sending[t] # None \/ calling[t] # None

\* Server s cannot go on before server t has: the innermost call s is in
\* waits for t, and t is not about to answer it.
WaitsFor(s, t) ==
  \/ /\ serving[s] = None /\ sending[s] = None
     /\ Unaccepted(s) /\ syncing[s].to = t
     /\ \/ InCall(t)
        \/ InSync(t) /\ (IsDeferred(t, s) \/ ~ServedDuringSync(t, s))
  \/ serving[s] = t /\ rpcs[<<t, s>>] = <<>>
  \/ sending[s] = t
  \/ calling[s] = t /\ serving[t] # s

\* sync.h lines 25-27: "avoid deadlocks where a cycle of servers is waiting
\* on each other".  Until a shutdown starts, no set of servers has each of
\* its members waiting for another member.
NoCircularWait ==
  shutting = {} =>
    \A S \in SUBSET Servers :
      S # {} => \E s \in S : \A t \in S : ~WaitsFor(s, t)

\* No REQUEST or STEAL among the messages q; exactly one, of mode m.
NoReq(q) == \A i \in 1..Len(q) : ~AcceptRequired(q[i])

OneReq(q, m) ==
  \E i \in 1..Len(q) :
    q[i] = m /\ \A j \in 1..Len(q) : AcceptRequired(q[j]) => j = i

NoDeferred(q, f) == \A i \in 1..Len(q) : ~DeferredOf(q[i], f)

OneDeferred(q, f, m) ==
  \E i \in 1..Len(q) :
    /\ q[i].mode = m /\ DeferredOf(q[i], f)
    /\ \A j \in 1..Len(q) : DeferredOf(q[j], f) => j = i

\* Server f waits for t, and its request is at t once: in a receive buffer or
\* on the pending list.
HeldOnce(f, t) ==
  \/ OneReq(net[<<f, t>>], syncing[f].mode) /\ NoDeferred(pending[t], f)
  \/ NoReq(net[<<f, t>>]) /\ OneDeferred(pending[t], f, syncing[f].mode)

\* A server that waits in xlb_sync2() has its request at the target exactly
\* once; no other REQUEST or STEAL is anywhere.  Deferring a request neither
\* loses it nor serves it twice.
RequestHeldOnce ==
  shutting = {} =>
    \A f, t \in Servers :
      f # t => IF Unaccepted(f) /\ syncing[f].to = t
               THEN HeldOnce(f, t)
               ELSE NoReq(net[<<f, t>>]) /\ NoDeferred(pending[t], f)

\* sync.h lines 67-68: after xlb_sync() "this calling process may issue one
\* RPC on the target process".  An RPC between servers always meets a target
\* that spins for it in xlb_serve_server(), and comes alone.
RpcAnnounced ==
  shutting = {} =>
    \A f, t \in Servers :
      rpcs[<<f, t>>] # <<>> =>
        Len(rpcs[<<f, t>>]) = 1 /\ serving[t] = f /\ calling[f] = t

\* Outside a sync loop, a server that serves an RPC of server f has applied
\* every refcount change that f sent before it (sync.c line 815: "need to
\* apply increment before processing any operation that could decrement").
RefcountsInOrder ==
  \A s \in Servers :
    LET f == serving[s] IN
    f # None /\ ~InSync(s) =>
      \A i \in 1..Len(pending[s]) :
        ~(pending[s][i].rank = f /\ pending[s][i].mode = "REFCOUNT")

\* The check "probe not found" of xlb_handle_steal_probe_resp(): a response
\* only ever meets a probe that is registered, or whose send is finishing.
ProbeExpected ==
  \A s, f \in Servers :
    (\/ \E i \in 1..Len(net[<<f, s>>]) : net[<<f, s>>][i] = "STEAL_PROBE_RESP"
     \/ \E i \in 1..Len(pending[s]) :
          pending[s][i].rank = f /\ pending[s][i].mode = "STEAL_PROBE_RESP")
    => \/ f \in probes[s]
       \/ syncing[s].to = f /\ syncing[s].mode = "STEAL_PROBE"

\* Every sync ends: accepted, sent, or cancelled by the shutdown.
SyncEnds == \A s \in Servers : []<>~InSync(s)

\* Server s waits for the response of a server that has left its loop: the
\* shutdown cancelled its REQUEST and it issued the RPC all the same.
Stranded(s) == calling[s] # None /\ phase[calling[s]] = "down"

\* Once the master has decided to shut down, every server leaves its loop,
\* whatever it was doing then, but for one that is stranded (cancel_sync,
\* shutdown_all_servers; shutting never becomes empty again).
AllGoDown ==
  []<>(shutting = {} \/ \A s \in Servers : phase[s] = "down" \/ Stranded(s))

-----------------------------------------------------------------------------
(* The inductive invariant behind the safety properties: what the call     *)
(* stacks of two servers know of each other while no shutdown is going on. *)

\* Server t accepted the sync of server f, which has not noticed yet.
Accepted(f, t, m) ==
  syncing[f].to = t /\ syncing[f].mode = m /\ syncing[f].accepted

\* An accepted caller has its target's attention.
AcceptedIsServed ==
  \A f \in Servers :
    syncing[f].accepted =>
      /\ InSync(f)
      /\ \/ syncing[f].mode = "REQUEST" /\ serving[syncing[f].to] = f
         \/ syncing[f].mode = "STEAL" /\ sending[syncing[f].to] = f

\* Whoever is served is on its way to send the RPC, or has sent it.
ServedIsAccepted ==
  \A t \in Servers :
    /\ serving[t] # None =>
         \/ Accepted(serving[t], t, "REQUEST")
         \/ calling[serving[t]] = t /\ rpcs[<<serving[t], t>>] # <<>>
    /\ sending[t] # None => Accepted(sending[t], t, "STEAL")

\* A server serves one other at a time, and during its own sync only lower
\* ranks ...
LowerRanksServed ==
  \A s \in Servers :
    /\ syncing[s].to # s
    /\ serving[s] = None \/ sending[s] = None
    /\ InSync(s) /\ serving[s] # None => serving[s] < s
    /\ InSync(s) /\ sending[s] # None => sending[s] < s

\* ... and only defers the requests of higher ones.
HigherRanksDeferred ==
  \A s \in Servers : \A i \in 1..Len(pending[s]) :
    /\ pending[s][i].rank # s
    /\ pending[s][i].kind = "DEFERRED_SYNC" => pending[s][i].rank > s

\* A server that blocks on an RPC does nothing else, and its target either
\* spins for that RPC or runs its handler.
CallIsHandled ==
  \A f \in Servers :
    calling[f] # None =>
      /\ ~InSync(f) /\ serving[f] = None /\ sending[f] = None
      /\ replying[f] = None
      /\ \/ serving[calling[f]] = f /\ rpcs[<<f, calling[f]>>] # <<>>
         \/ replying[calling[f]] = f

\* A handler that syncs only sends refcounts, and its caller still waits.
ReplyIsAwaited ==
  \A t \in Servers :
    replying[t] # None =>
      /\ calling[replying[t]] = t /\ rpcs[<<replying[t], t>>] = <<>>
      /\ InSync(t) => syncing[t].mode = "REFCOUNT"
      /\ serving[t] # None \/ sending[t] # None => InSync(t)

\* DO_NOTHING is only sent at shutdown.
NoDoNothing ==
  \A p \in Pairs : \A i \in 1..Len(rpcs[p]) : rpcs[p][i] # "DO_NOTHING"

\* The master never checks itself.
ChecksOthers ==
  phase[Master] \in {"idle_check", "shutdown"} => checking \in 2..N

\* At the top of its loop a server is in no call.
LoopIsRunning ==
  \A s \in Servers : phase[s] = "loop" => Running(s) /\ ~HavePendingNotifs(s)

Stacks ==
  /\ AcceptedIsServed /\ ServedIsAccepted /\ LowerRanksServed
  /\ CallIsHandled /\ ReplyIsAwaited /\ NoDoNothing

\* The call stacks of the servers fit together: inductive, with TypeOK.
SyncInv ==
  /\ LoopIsRunning /\ RequestHeldOnce /\ RpcAnnounced
  /\ shutting = {} => Stacks /\ HigherRanksDeferred /\ ChecksOthers

-----------------------------------------------------------------------------
(* What comments and assertions of the code say, and the code does not do. *)

\* sync.c line 321: assert(!xlb_server_sync_in_progress).
NoNestedSync == ~aborted

\* sync.h lines 61-62: "breaking ties to allow the higher rank process to
\* always win".  Of two servers that sync with each other, the one that gets
\* served first has the higher rank.
HigherRankWins ==
  \A s \in Servers :
    serving[s] # None /\ Unaccepted(s) /\ syncing[s].to = serving[s] =>
      serving[s] > s

\* server.c lines 480-481: "Should not get here if we have ready work".
NoReadyWorkAtSteal ==
  \A s \in Servers : ENABLED CheckSteal(s) => ~ready[s]

\* sync.c lines 815-816: "need to apply increment before processing any
\* operation that could decrement refcount".
RefcountBeforeRpc ==
  \A s \in Servers :
    LET f == serving[s] IN
    f # None =>
      \A i \in 1..Len(pending[s]) :
        ~(pending[s][i].rank = f /\ pending[s][i].kind = "ACCEPTED_REFC")

=============================================================================
