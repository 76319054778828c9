---------------------------- MODULE DataService -----------------------------
(***************************************************************************)
(* Clients calling the data servers: the RPC handlers for data             *)
(* (handlers.c), the calls behind them (adlb.c), and the notification work *)
(* a server hands back for the client to finish (notifications.c).         *)
(*                                                                         *)
(* A handler runs in one step: serve_several handles the syncs that a      *)
(* handler deferred before it takes the next request.  A sync is under way *)
(* for any time: a REFCOUNT is not answered (sync_accept_required), so the *)
(* calls of clients may be served before a change that was sent earlier.   *)
(* Between two RPCs of one client, others run.                             *)
(*                                                                         *)
(* Clients are programs that own reference counts (held) and only use data *)
(* they own counts of: held is what such a program knows, not state of the *)
(* servers.  A program is the data there are (ids, data0), the counts that *)
(* clients own at the start (held0), the calls they may make (ops) and a   *)
(* bound on how many (calls).                                              *)
(***************************************************************************)
EXTENDS Notify

CONSTANT Programs   \* by name

VARIABLES prog,    \* the name of the program, constant
          store,   \* [Servers -> tables of DataStore]
          syncs,   \* [Servers -> [Servers -> refcount changes under way]]
          work,    \* [Clients -> notification work being done, and its phase]
          held,    \* [Clients -> [Ids -> counts the program owns]]
          subs,    \* subscriptions accepted: [rank, id, sub, type]
          inbox,   \* notifications delivered, as tasks or to an engine
          won,     \* subscripts whose insertion a client was told it created
          calls,   \* calls made
          fail,    \* the error that stopped the program, or "ok"
          raced    \* history: a count fell to zero ahead of an increment

vars == <<prog, store, syncs, work, held, subs, inbox, won, calls, fail, raced>>

Ids == Programs[prog].ids

Idle == [n |-> NoNotifs, ph |-> "refcs"]
Busy(c) == work[c] # Idle

(* Codes a program is prepared to get *)
Expected == {"ok", "UNSET", "SUBSCRIPT_NOT_FOUND", "DOUBLE_WRITE"}

Add(h, c) == [r |-> h.r + c.r, w |-> h.w + c.w]
Sub(h, c) == [r |-> h.r - c.r, w |-> h.w - c.w]
Covers(h, c) == h.r >= c.r /\ h.w >= c.w
Owns(c, id) == held[c][id] # NoRefc

(* How many references to id are inside a value *)
RECURSIVE RefsIn(_, _)
RefsIn(v, id) ==
  CASE v.k = "ref" -> IF v.id = id THEN 1 ELSE 0
    [] v.k \in {"container", "multiset"} ->
         FoldFunction(LAMBDA x, a : RefsIn(x, id) + a, 0, v.m)
    [] v.k = "struct" -> FoldFunction(LAMBDA x, a : RefsIn(x.val, id) + a, 0, v.m)
    [] OTHER -> 0

Times(k, c) == [r |-> k * c.r, w |-> k * c.w]

Init ==
  /\ prog \in DOMAIN Programs
  /\ store = Programs[prog].data0
  /\ syncs = [s \in Servers |-> [t \in Servers |-> << >>]]
  /\ work = [c \in Clients |-> Idle]
  /\ held = Programs[prog].held0
  /\ subs = << >>
  /\ inbox = << >>
  /\ won = << >>
  /\ calls = 0
  /\ fail = "ok"
  /\ raced = FALSE

(* With its new tables st, a count of a datum at server s falls to zero   *)
(* while an increment of it that another server sent is under way         *)
Overtakes(s, st) ==
  \E t \in Servers : \E i \in DOMAIN syncs[t][s] :
    LET m == syncs[t][s][i]
    IN  /\ Exists(store[s], m.id)
        /\ \/ /\ m.r > 0 /\ store[s].tds[m.id].r > 0
              /\ Exists(st, m.id) => st.tds[m.id].r = 0
           \/ /\ m.w > 0 /\ store[s].tds[m.id].w > 0
              /\ Exists(st, m.id) => st.tds[m.id].w = 0

(***************************************************************************)
(* The end of a handler: tables, syncs sent, notifications delivered.      *)
(***************************************************************************)
SendAll(s, q, out) ==
  FoldLeft(LAMBDA acc, m : [acc EXCEPT ![s][m.to] = Append(@, m)], q, out)

Finish(s, R) ==
  /\ store' = [store EXCEPT ![s] = R.st]
  /\ syncs' = SendAll(s, syncs, R.out)
  /\ inbox' = inbox \o R.del
  /\ fail' = IF R.code \in Expected THEN "ok" ELSE R.code
  /\ raced' = (raced \/ Overtakes(s, R.st))
  /\ UNCHANGED prog

(* xlb_prepare_notif_work when the operation succeeded *)
Prepared(s, R) ==
  IF R.code = "ok" THEN ProcessLocalNotif(s, Result("ok", R.st, R.n))
  ELSE Result(R.code, R.st, NoNotifs)

(* refcount_decr_helper, notify_helper: an error is not reported *)
DecrHelper(s, st, id, decr) ==
  LET Helped(R) == IF R.code = "ok" THEN NotifyAll(s, Result("ok", R.st, R.n))
                   ELSE Result("ok", R.st, NoNotifs)
  IN  IF decr = NoRefc THEN Result("ok", st, NoNotifs)
      ELSE Helped(ReferenceCount(st, NoNotifs, id, Neg(decr), NoRefc, NoSub))

(* The client takes the work that is left: refcounts, references, closes *)
Norm(w) ==
  CASE w.ph = "refcs" /\ w.n.refcs = << >> /\ w.n.refs # << >> -> [w EXCEPT !.ph = "refs"]
    [] w.ph = "refs" /\ w.n.refs = << >> -> [w EXCEPT !.ph = "refcs"]
    [] OTHER -> w

Join(n, m) == [notify |-> n.notify \o m.notify, refs |-> n.refs \o m.refs,
               refcs |-> n.refcs \o m.refcs]

(* xlb_recv_notif_work: the work type of a notification is not packed *)
Received(n) == [n EXCEPT !.notify =
                  [i \in DOMAIN @ |-> [@[i] EXCEPT !.type = "uninitialised"]]]

Takes(c, n) == work' = [work EXCEPT ![c] = Norm([@ EXCEPT !.n = Join(@, Received(n))])]

(* The handler of server s ends with the result D, and c takes the rest *)
Answers(s, c, D) == \E R \in {Prepared(s, D)} : Finish(s, R) /\ Takes(c, R.n)

(* A call of client c on the server of o.id *)
Calls(c, o) ==
  /\ fail = "ok" /\ calls < Programs[prog].calls
  /\ ~Busy(c)
  /\ calls' = calls + 1

Of(kind) == {o \in Programs[prog].ops : o.op = kind}

(* ADLBP_Create_impl, handle_create *)
CreateCall(c, o) ==
  LET s == Home(o.id)
  IN  /\ Calls(c, o)
      /\ \A d \in Clients : held[d][o.id] = NoRefc
      /\ ~Exists(store[s], o.id)
      /\ \E R \in {Create(store[s], o.id, o.type, o)} :
            Finish(s, Result(R.code, R.st, NoNotifs))
      /\ held' = [held EXCEPT ![c][o.id] = [r |-> o.r, w |-> o.w]]
      /\ UNCHANGED <<work, subs, won>>

(* ADLBP_Store, handle_store *)
StoreCall(c, o) ==
  LET s == Home(o.id)
      given(id) == Add(Times(RefsIn(o.val, id), o.refs),
                       IF id = o.id THEN o.decr ELSE NoRefc)
  IN  /\ Calls(c, o)
      /\ held[c][o.id].w > 0
      /\ \A id \in Ids : Covers(held[c][id], given(id))
      /\ \E R \in {Prepared(s, Store(store[s], NoNotifs, o.id, o.sub, o.val,
                                     o.decr, o.refs))} :
           /\ Finish(s, R) /\ Takes(c, R.n)
           /\ held' = IF R.code # "ok" THEN held
                      ELSE [held EXCEPT ![c] = [id \in Ids |-> Sub(@[id], given(id))]]
      /\ UNCHANGED <<subs, won>>

(* The counts of a program after it read val: decr given up, acq acquired *)
Read(h, o, val) ==
  [id \in Ids |-> Add(Sub(h[id], IF id = o.id THEN o.decr ELSE NoRefc),
                      Times(RefsIn(val, id), o.acq))]

(* ADLBP_Retrieve, handle_retrieve *)
RetrieveCall(c, o) ==
  LET s == Home(o.id)
  IN  /\ Calls(c, o)
      /\ Owns(c, o.id) /\ Covers(held[c][o.id], o.decr)
      /\ \E D \in {Retrieve(store[s], NoNotifs, o.id, o.sub, o.decr, o.acq)} :
           /\ Answers(s, c, D)
           /\ held' = IF D.code # "ok" THEN held
                      ELSE [held EXCEPT ![c] = Read(@, o, D.val)]
      /\ UNCHANGED <<subs, won>>

(* ADLBP_Refcount_incr, handle_refcount_incr *)
RefcCall(c, o) ==
  LET s == Home(o.id)
      ch == [r |-> o.r, w |-> o.w]
  IN  /\ Calls(c, o)
      /\ Owns(c, o.id) /\ Covers(held[c][o.id], Neg(ch))
      /\ o.w > 0 => held[c][o.id].w > 0
      /\ Answers(s, c, ReferenceCount(store[s], NoNotifs, o.id, ch, NoRefc, NoSub))
      /\ held' = [held EXCEPT ![c][o.id] = Add(@, ch)]
      /\ UNCHANGED <<subs, won>>

(* ADLBP_Container_reference, handle_container_reference *)
CRefCall(c, o) ==
  LET s == Home(o.id)
  IN  /\ Calls(c, o)
      /\ held[c][o.id].r > 0 /\ held[c][o.ref.id].w >= o.ref.wdecr
      /\ Exists(store[s], o.id)
      /\ store[s].tds[o.id].w > 0 \/ LookupSubscript(store[s].tds[o.id].val, o.sub).val # NoVal
      /\ Answers(s, c, ContainerReference(store[s], NoNotifs, o.id, o.sub, o.ref, o.type))
      /\ held' = [held EXCEPT ![c][o.id].r = @ - 1,
                              ![c][o.ref.id].w = @ - o.ref.wdecr]
      /\ UNCHANGED <<subs, won>>

(* Server s subscribes rank to o.id *)
Subscribes(s, o, rank, type) ==
  \E R \in {Subscribe(store[s], o.id, o.sub, rank, type)} :
    /\ Finish(s, Result(R.code, R.st, NoNotifs))
    /\ subs' = IF R.subscribed THEN Append(subs, [rank |-> rank, id |-> o.id,
                         sub |-> o.sub, type |-> type]) ELSE subs

(* ADLBP_Subscribe, handle_subscribe *)
SubscribeCall(c, o) ==
  /\ Calls(c, o) /\ Owns(c, o.id)
  /\ Subscribes(Home(o.id), o, c, o.type)
  /\ UNCHANGED <<work, held, won>>

(* The engine of a server subscribes, directly or by a sync, for the client *)
(* whose task waits for the datum (subscribe_td, subscribe_id_sub)          *)
EngineSubscribe(c, o) ==
  /\ Calls(c, o) /\ Owns(c, o.id)
  /\ Subscribes(Home(o.id), o, o.rank, "none")
  /\ UNCHANGED <<work, held, won>>

(* ADLBP_Insert_atomic, handle_insert_atomic *)
AtomicCall(c, o) ==
  LET s == Home(o.id)
      Rest(A) ==   \* what follows the insertion
        IF ~A.present THEN [code |-> A.code, st |-> A.st, n |-> NoNotifs, val |-> NoVal]
        ELSE IF o.ret THEN Retrieve(A.st, NoNotifs, o.id, o.sub, o.decr, o.acq)
        ELSE ReferenceCount(A.st, NoNotifs, o.id, Neg(o.decr), o.acq, o.sub)
               @@ [val |-> LookupSubscript(A.st.tds[o.id].val, o.sub).val]
  IN  /\ Calls(c, o)
      /\ Owns(c, o.id) /\ Covers(held[c][o.id], o.decr)
      /\ \E A \in {InsertAtomic(store[s], o.id, o.sub)} : \E D \in {Rest(A)} :
           /\ Answers(s, c, D)
           /\ held' = IF ~A.present \/ D.code # "ok" THEN held
                      ELSE [held EXCEPT ![c] = Read(@, o, D.val)]
           /\ won' = IF A.created THEN Append(won, <<o.id, o.sub>>) ELSE won
      /\ UNCHANGED subs

(***************************************************************************)
(* handle_exists, handle_get_refcounts, handle_enumerate and               *)
(* handle_container_size: a read, then the decrement the caller asked for, *)
(* whose notifications the server handles itself.                          *)
(***************************************************************************)
ReadCall(c, o) ==
  LET s == Home(o.id)
      Decremented(E) == IF E.code = "ok" THEN DecrHelper(s, E.st, o.id, o.decr)
                        ELSE Result(E.code, E.st, NoNotifs)
  IN  /\ Calls(c, o)
      /\ Owns(c, o.id) /\ Covers(held[c][o.id], o.decr)
      /\ \E R \in {Decremented(DataExists(store[s], o.id, o.sub))} : Finish(s, R)
      /\ held' = [held EXCEPT ![c][o.id] = Sub(@, o.decr)]
      /\ UNCHANGED <<work, subs, won>>

(* ADLBP_Lock, ADLBP_Unlock, handle_lock, handle_unlock *)
LockCall(c, o) ==
  LET s == Home(o.id)
      L == Lock(store[s], o.id, c)
  IN  /\ Calls(c, o) /\ Owns(c, o.id)
      /\ Finish(s, Result(L.code, L.st, NoNotifs))
      /\ UNCHANGED <<work, held, subs, won>>

UnlockCall(c, o) ==
  LET s == Home(o.id)
      L == Unlock(store[s], o.id)
  IN  /\ Calls(c, o)
      /\ o.id \in DOMAIN store[s].locked /\ store[s].locked[o.id] = c
      /\ Finish(s, Result(L.code, L.st, NoNotifs))
      /\ UNCHANGED <<work, held, subs, won>>

(***************************************************************************)
(* xlb_notify_all by client c, one RPC at a time: the first of its changes *)
(* of a refcount (xlb_refcount_incr), or the first of its references       *)
(* (xlb_set_ref, xlb_store: always one write count given up), each         *)
(* possibly bringing more work; when none is left, the closes.             *)
(***************************************************************************)
Pop(c, field, n) ==
  work' = [work EXCEPT ![c] =
             Norm([@ EXCEPT !.n = Join([@ EXCEPT ![field] = Tail(@)], Received(n))])]

ApplyRefcWork(c) ==
  LET x == work[c].n.refcs[1]
      s == Home(x.id)
  IN  /\ fail = "ok" /\ work[c].ph = "refcs" /\ work[c].n.refcs # << >>
      /\ \E R \in {Prepared(s, ReferenceCount(store[s], NoNotifs, x.id,
                                 [r |-> x.r, w |-> x.w], NoRefc, NoSub))} :
           Finish(s, R) /\ Pop(c, "refcs", R.n)
      /\ UNCHANGED <<held, subs, won, calls>>

SetRefWork(c) ==
  LET x == work[c].n.refs[1]
      s == Home(x.id)
  IN  /\ fail = "ok" /\ work[c].ph = "refs" /\ work[c].n.refs # << >>
      /\ \E R \in {Prepared(s, Store(store[s], NoNotifs, x.id, x.sub, x.val,
                                     [r |-> 0, w |-> 1], x.acq))} :
           Finish(s, R) /\ Pop(c, "refs", R.n)
      /\ UNCHANGED <<held, subs, won, calls>>

CloseWork(c) ==
  LET n == work[c].n
  IN  /\ fail = "ok" /\ n.refs = << >> /\ n.refcs = << >> /\ n.notify # << >>
      /\ inbox' = inbox \o CloseNotify(n.notify)
      /\ work' = [work EXCEPT ![c] = Idle]
      /\ UNCHANGED <<prog, store, syncs, held, subs, won, calls, fail, raced>>

(* xlb_incr_refc_local on server s for a change server t sent *)
ApplySync(s, t) ==
  LET m == syncs[t][s][1]
      Notified(D) == IF D.code = "ok" THEN NotifyAll(s, Result("ok", D.st, D.n))
                     ELSE Result(D.code, D.st, NoNotifs)
  IN  /\ fail = "ok" /\ syncs[t][s] # << >>
      /\ \E R \in {Notified(ReferenceCount(store[s], NoNotifs, m.id,
                              [r |-> m.r, w |-> m.w], NoRefc, NoSub))} :
           /\ store' = [store EXCEPT ![s] = R.st]
           /\ syncs' = SendAll(s, [syncs EXCEPT ![t][s] = Tail(@)], R.out)
           /\ inbox' = inbox \o R.del
           /\ fail' = R.code
           /\ raced' = (raced \/ Overtakes(s, R.st))
      /\ UNCHANGED <<prog, work, held, subs, won, calls>>

Call(c) ==
  \/ \E o \in Of("create") : CreateCall(c, o)
  \/ \E o \in Of("store") : StoreCall(c, o)
  \/ \E o \in Of("retrieve") : RetrieveCall(c, o)
  \/ \E o \in Of("refc") : RefcCall(c, o)
  \/ \E o \in Of("cref") : CRefCall(c, o)
  \/ \E o \in Of("subscribe") : SubscribeCall(c, o)
  \/ \E o \in Of("engine") : EngineSubscribe(c, o)
  \/ \E o \in Of("atomic") : AtomicCall(c, o)
  \/ \E o \in Of("read") : ReadCall(c, o)
  \/ \E o \in Of("lock") : LockCall(c, o)
  \/ \E o \in Of("unlock") : UnlockCall(c, o)

Work(c) == ApplyRefcWork(c) \/ SetRefWork(c) \/ CloseWork(c)
Syncs == \E s, t \in Servers : ApplySync(s, t)

Handle == (\E c \in Clients : Work(c)) \/ Syncs

Next == (\E c \in Clients : Call(c)) \/ Handle

Spec == Init /\ [][Next]_vars

(* Clients in a call finish it and servers apply what they accepted: the   *)
(* weak fairness of Handle, with the condition under which it is enabled.  *)
(* Programs need not go on calling.                                        *)
Unfinished == /\ fail = "ok"
              /\ \/ \E c \in Clients : Busy(c)
                 \/ \E s, t \in Servers : syncs[s][t] # << >>
FairSpec == Spec /\ ([]<>~Unfinished \/ []<><<Handle>>_vars)

-----------------------------------------------------------------------------
(* Who owns counts of a datum, and what is on its way to it *)

SumOver(S, f(_)) == FoldFunction(LAMBDA x, a : Add(x, a), NoRefc, [x \in S |-> f(x)])
SumSeq(q, f(_)) == FoldLeft(LAMBDA a, x : Add(a, f(x)), NoRefc, q)

RECURSIVE Inside(_, _)
Inside(v, id) ==   \* counts the references inside v own
  CASE v.k = "ref" -> IF v.id = id THEN [r |-> v.r, w |-> v.w] ELSE NoRefc
    [] v.k \in {"container", "multiset"} -> SumOver(DOMAIN v.m, LAMBDA i : Inside(v.m[i], id))
    [] v.k = "struct" -> SumOver(DOMAIN v.m, LAMBDA i : Inside(v.m[i].val, id))
    [] OTHER -> NoRefc

Waiting(st, id) ==   \* lists of references waiting for id, and waiting to set id
  Add([r |-> Cardinality({k \in DOMAIN st.crefs : k[1] = id}), w |-> 0],
      SumOver(DOMAIN st.crefs, LAMBDA k : SumSeq(st.crefs[k], LAMBDA x :
         IF x.id = id THEN [r |-> 0, w |-> x.wdecr] ELSE NoRefc)))

RefWork(n, id) ==    \* references a client is about to set
  SumSeq(n.refs, LAMBDA x : Add(Times(RefsIn(x.val, id), x.acq),
     IF x.id = id THEN [r |-> 0, w |-> x.wdecr] ELSE NoRefc))

Owned(id) ==
  Add(SumOver(Clients, LAMBDA c : Add(held[c][id], RefWork(work[c].n, id))),
      SumOver(Servers, LAMBDA s : Add(Waiting(store[s], id),
         SumOver(DOMAIN store[s].tds, LAMBDA d : Inside(store[s].tds[d].val, id)))))

Coming(id) ==
  LET of(q) == SumSeq(q, LAMBDA x : IF x.id = id THEN [r |-> x.r, w |-> x.w] ELSE NoRefc)
  IN  Add(SumOver(Clients, LAMBDA c : of(work[c].n.refcs)),
          SumOver(Servers \X Servers, LAMBDA p : of(syncs[p[1]][p[2]])))

Td(id) == store[Home(id)].tds[id]
Lives(id) == Exists(store[Home(id)], id)

-----------------------------------------------------------------------------
(* What must hold of a program that only uses data it owns counts of *)

Count(q, test(_)) == Cardinality({i \in DOMAIN q : test(q[i])})
Same(x, k) == x.rank = k.rank /\ x.id = k.id /\ x.sub = k.sub
Keys == {[rank |-> x.rank, id |-> x.id, sub |-> x.sub] :
            x \in ToSet(subs) \cup {t.for : t \in ToSet(inbox)}}

Listening(k) ==
  LET st == store[Home(k.id)]
      of(q) == Count(q, LAMBDA x : x.rank = k.rank)
  IN  IF HasSub(k.sub) THEN of(ListAt(st.ixl, <<k.id, k.sub>>))
      ELSE IF Lives(k.id) THEN of(Td(k.id).lis) ELSE 0

Forwarding(k) ==
  FoldFunction(LAMBDA x, a : x + a, 0,
    [c \in Clients |-> Count(work[c].n.notify, LAMBDA x : Same(x, k))])

Delivered(k) == Count(inbox, LAMBDA t : Same(t.for, k))

Closed(k) == \/ ~Lives(k.id)
             \/ ~HasSub(k.sub) /\ Td(k.id).w = 0
             \/ HasSub(k.sub) /\ LookupSubscript(Td(k.id).val, k.sub).val # NoVal

\* No operation of such a program meets a datum that is not there, a count
\* that would go negative or a failed assertion (data.c, refcount.c), unless
\* a count fell to zero ahead of an increment, and no datum is left without
\* counts.
TypeOK ==
  /\ raced \in BOOLEAN /\ (fail = "ok" \/ raced)
  /\ \A s \in Servers : \A id \in DOMAIN store[s].tds :
       LET d == store[s].tds[id]
       IN  /\ id \in Ids /\ Home(id) = s
           /\ d.r \in Nat /\ d.w \in Nat /\ d.r + d.w > 0
           /\ d.set = (d.val # NoVal)
  /\ \A c \in Clients, id \in Ids : held[c][id].r \in Nat /\ held[c][id].w \in Nat
  /\ calls \in 0..Programs[prog].calls

\* Counts are conserved: the counts of a datum and the changes on their way
\* to it (handed to clients, sent to its server) are together what its owners
\* own: programs, references inside other data, references waiting to be set.
\* A datum that is gone has no owner left, so xlb_refc_incr() never frees a
\* datum early and never forgets one.  It holds as long as no count falls to
\* zero ahead of an increment that is under way: increments are one-way, and
\* nothing in the code makes a client wait for them.
Conserved ==
  ~raced => \A id \in Ids :
    IF Lives(id)
    THEN Td(id).perm \/ Add([r |-> Td(id).r, w |-> Td(id).w], Coming(id)) = Owned(id)
    ELSE Owned(id) = NoRefc /\ Coming(id) = NoRefc

\* A datum somebody owns counts of is never collected (datum_gc) while no
\* count falls to zero ahead of an increment.
Survives == ~raced => \A id \in Ids : ~Lives(id) => Owned(id) = NoRefc

\* Refcount increments are applied before any operation that could decrement
\* the count to nothing (xlb_handle_next_sync_msg).
IncrementsFirst == ~raced

\* Every subscription that was accepted is in one place: with the datum, with
\* a client that was asked to forward it, or delivered, once; and it is
\* delivered only once the datum has closed or the subscript was set
\* (append_notifs, xlb_process_local_notif_ranks, xlb_close_notify).
NotifiedOnce ==
  \A k \in Keys :
    /\ Count(subs, LAMBDA x : Same(x, k)) = Listening(k) + Forwarding(k) + Delivered(k)
    /\ Delivered(k) > 0 => Closed(k)

\* One client creates a subscript: of all the atomic insertions of it, one is
\* told so (xlb_data_insert_atomic).
OneCreates == IsInjective(won)

\* A notification task says what was closed (fill_notif_payload).
PayloadRight ==
  \A i \in DOMAIN inbox :
    inbox[i].payload = [id |-> inbox[i].for.id, sub |-> inbox[i].for.sub]

\* A notification task has the work type its subscriber asked for.
TypeRight ==
  \A i \in DOMAIN inbox : inbox[i].rank \in Clients =>
    \E j \in DOMAIN subs : Same(subs[j], inbox[i].for) /\ subs[j].type = inbox[i].type

\* A subscriber hears of a close however the work is passed around: again and
\* again there is nobody left who waits for what has happened, although the
\* notification of one close may set references and close more data
\* (xlb_notify_all).  A member that a collected container never got is not
\* something that happens.
Told ==
  []<>(\A k \in Keys :
         Closed(k) /\ (HasSub(k.sub) => Lives(k.id)) =>
           Delivered(k) = Count(subs, LAMBDA x : Same(x, k)))
=============================================================================
