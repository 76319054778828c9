------------------------------- MODULE Notify -------------------------------
(***************************************************************************)
(* What a server does with the notifications an operation gathered         *)
(* (notifications.c): it handles what is local to it and leaves the rest   *)
(* to the client that called.                                              *)
(*                                                                         *)
(* A result carries, besides [code, st, n] of DataStore, what leaves the   *)
(* server: out, the syncs it sends to other servers, and del, the          *)
(* notification tasks and engine notifications it delivers.                *)
(***************************************************************************)
EXTENDS DataStore

CONSTANTS Servers, Clients,
          Home(_),      \* ADLB_Locate: the server of a datum
          MyServer(_)   \* xlb_map_to_server of a client

ServerOf(rank) == IF rank \in Servers THEN rank ELSE MyServer(rank)

Result(code, st, n) == [code |-> code, st |-> st, n |-> n, out |-> << >>,
                        del |-> << >>]
Keep(R, S) == [R EXCEPT !.code = S.code, !.st = S.st, !.n = S.n]

(***************************************************************************)
(* xlb_set_refs with local_only, on server s: the references whose datum   *)
(* is here are stored, and a filled one is replaced by the last of the     *)
(* list.  Storing one may append notifications of every kind.              *)
(***************************************************************************)
SwapOut(seq, i) ==
  IF i = Len(seq) THEN Front(seq) ELSE [Front(seq) EXCEPT ![i] = Last(seq)]

SetRef(st, n, ref) ==
  Store(st, n, ref.id, ref.sub, ref.val, [r |-> 0, w |-> ref.wdecr], ref.acq)

RECURSIVE SetRefsLocal(_, _, _)
SetRefsLocal(s, R, i) ==
  IF R.code # "ok" \/ i > Len(R.n.refs) THEN R
  ELSE IF Home(R.n.refs[i].id) # s THEN SetRefsLocal(s, R, i + 1)
  ELSE LET S == Keep(R, SetRef(R.st, R.n, R.n.refs[i]))
       IN  SetRefsLocal(s, [S EXCEPT !.n.refs = SwapOut(@, i)], i)

(***************************************************************************)
(* xlb_refc_changes_apply on server s.  A change for a datum of another    *)
(* server goes there by a sync (xlb_incr_refc_svr) when all are applied or *)
(* when it must be applied ahead; applied changes are removed at the end.  *)
(***************************************************************************)
NoChange(c) == c.r = 0 /\ c.w = 0
Cleared(R, i) == [R EXCEPT !.n.refcs[i] = [@ EXCEPT !.r = 0, !.w = 0]]

IncrRefcSvr(s, R, c) ==
  IF Home(c.id) = s
  THEN Keep(R, ReferenceCount(R.st, R.n, c.id, [r |-> c.r, w |-> c.w], NoRefc, NoSub))
  ELSE [R EXCEPT !.out = Append(@, [to |-> Home(c.id), mode |-> "REFCOUNT",
                                    id |-> c.id, r |-> c.r, w |-> c.w])]

RECURSIVE ApplyRefcs(_, _, _, _)
ApplyRefcs(s, R, i, all) ==
  IF R.code # "ok" THEN R
  ELSE IF i > Len(R.n.refcs)
  THEN [R EXCEPT !.n.refcs = SelectSeq(@, LAMBDA c : ~NoChange(c))]
  ELSE LET c == R.n.refcs[i]
       IN  IF ~NoChange(c) /\ (all \/ c.pre \/ Home(c.id) = s)
           THEN ApplyRefcs(s, Cleared(IncrRefcSvr(s, R, c), i), i + 1, all)
           ELSE ApplyRefcs(s, R, i + 1, all)

(***************************************************************************)
(* The payload of a notification task.  Both loops mean to skip refilling  *)
(* it when the subscript repeats, but the subscript they compare with is   *)
(* never updated: past the first position, a notification without          *)
(* subscript goes out with whatever the buffer holds.                      *)
(***************************************************************************)
Unfilled == [id |-> 0, sub |-> NoSub]

Payload(i, x, last) ==
  IF i = 1 \/ HasSub(x.sub) THEN [id |-> x.id, sub |-> x.sub] ELSE last

Task(x, payload) == [rank |-> x.rank, type |-> x.type, payload |-> payload, for |-> x]

(* xlb_process_local_notif_ranks, xlb_notify_server_self *)
RECURSIVE LocalRanks(_, _, _, _)
LocalRanks(s, R, i, last) ==
  IF R.code # "ok" \/ i > Len(R.n.notify) THEN R
  ELSE LET x == R.n.notify[i]
           p == IF x.rank = s THEN last ELSE Payload(i, x, last)
           e == IF x.rank = s THEN [id |-> x.id, sub |-> x.sub] ELSE p
       IN  IF ServerOf(x.rank) # s THEN LocalRanks(s, R, i + 1, last)
           ELSE LocalRanks(s, [R EXCEPT !.del = Append(@, Task(x, e)),
                                        !.n.notify = SwapOut(@, i)], i, p)

(***************************************************************************)
(* xlb_process_local_notif, then xlb_prepare_notif_work: what is left in n *)
(* goes to the client.                                                     *)
(***************************************************************************)
RECURSIVE LocalRounds(_, _)
LocalRounds(s, R) ==
  LET Round(S, T) == IF T.code # "ok" \/ Len(T.n.refs) = Len(S.n.refs) THEN T
                     ELSE LocalRounds(s, T)
      Apply(S) == Round(S, ApplyRefcs(s, S, 1, FALSE))
  IN  Apply(SetRefsLocal(s, R, 1))

ProcessLocalNotif(s, R) ==
  LET S == LocalRounds(s, R)
  IN  LocalRanks(s, S, 1, Unfilled)

(***************************************************************************)
(* xlb_close_notify: report every close, to engines and to workers.  Run   *)
(* by a server, or by a client for the notifications it was handed.        *)
(***************************************************************************)
RECURSIVE CloseFrom(_, _, _)
CloseFrom(notify, i, last) ==
  IF i > Len(notify) THEN << >>
  ELSE LET x == notify[i]
           p == IF x.rank \in Servers THEN last ELSE Payload(i, x, last)
       IN  <<Task(x, IF x.rank \in Servers THEN [id |-> x.id, sub |-> x.sub] ELSE p)>>
             \o CloseFrom(notify, i + 1, p)

CloseNotify(notify) == CloseFrom(notify, 1, Unfilled)

(***************************************************************************)
(* xlb_notify_all by a server, after counts went down: no references to    *)
(* set, the changes applied here or sent on, the closes reported.          *)
(***************************************************************************)
NotifyAll(s, R) ==
  LET Reported(S) ==
        IF S.code # "ok" THEN S
        ELSE IF S.n.refs # << >> THEN [S EXCEPT !.code = "ASSERT"]
        ELSE [S EXCEPT !.del = @ \o CloseNotify(S.n.notify), !.n = NoNotifs]
  IN  Reported(ApplyRefcs(s, R, 1, TRUE))
=============================================================================
