----------------------------- MODULE DataStore ------------------------------
(***************************************************************************)
(* The data store of one server (data.c) as operators on its tables.       *)
(*                                                                         *)
(* st.tds    id -> datum [type, set, val, r, w, perm, relw, subn, lis]     *)
(* st.crefs  <<id, sub>> -> references to fill when the subscript is set   *)
(* st.ixl    <<id, sub>> -> listeners of the subscript                     *)
(* st.locked id -> rank that locked it                                     *)
(*                                                                         *)
(* An operation also takes the notifications gathered so far, n, and       *)
(* returns [code, st, n] and what the caller gets:                         *)
(* n.notify  closes to report        [rank, id, sub, type]                 *)
(* n.refs    references to set       [id, sub, val, acq, wdecr]            *)
(* n.refcs   reference counts to change [id, r, w, pre]                    *)
(***************************************************************************)
EXTENDS Datum

NoNotifs == [notify |-> << >>, refs |-> << >>, refcs |-> << >>]
EmptyStore == [tds |-> << >>, crefs |-> << >>, ixl |-> << >>, locked |-> << >>]

Exists(st, id) == id \in DOMAIN st.tds
Drop(f, x) == [y \in DOMAIN f \ {x} |-> f[y]]
ListAt(f, x) == IF x \in DOMAIN f THEN f[x] ELSE << >>
Neg(c) == [r |-> -c.r, w |-> -c.w]
Failed(code, st, n) == [code |-> code, st |-> st, n |-> n]

(* xlb_data_create: without any reference count nothing is created *)
Create(st, id, type, props) ==
  CASE Exists(st, id) -> [code |-> "DOUBLE_DECLARE", st |-> st]
    [] ~Exists(st, id) /\ props.r <= 0 /\ props.w <= 0 -> [code |-> "ok", st |-> st]
    [] OTHER ->
         [code |-> "ok",
          st |-> [st EXCEPT !.tds = Put(@, id,
             [type |-> type, set |-> IsCompound(type),
              val  |-> IF IsCompound(type) THEN InitCompound(type) ELSE NoVal,
              r |-> props.r, w |-> props.w, perm |-> props.perm,
              relw |-> props.relw, subn |-> FALSE, lis |-> << >>])]]

(* append_notifs *)
NotifyOf(listeners, id, sub) ==
  [i \in DOMAIN listeners |-> [rank |-> listeners[i].rank, id |-> id, sub |-> sub,
                               type |-> listeners[i].type]]

(***************************************************************************)
(* datum_gc: the datum's references are released, it leaves the table.     *)
(***************************************************************************)
\* Mutant of DatumGc: the datum is not taken out of the table
DatumGcKeep(st, n, id, d, acq, sub) ==
  [code |-> "ok", st |-> [st EXCEPT !.tds[id] = d], n |-> n]

DatumGc(st, n, id, d, acq, sub) ==
  LET Collected(c) ==
        CASE d.perm -> Failed("UNKNOWN", [st EXCEPT !.tds[id] = d], n)
          [] ~d.perm /\ c.code # "ok" -> Failed(c.code, [st EXCEPT !.tds[id] = d], n)
          [] ~d.perm /\ c.code = "ok" /\ d.lis # << >> ->
               Failed("TYPE", [st EXCEPT !.tds[id] = d], n)
          [] OTHER -> [code |-> "ok", st |-> [st EXCEPT !.tds = Drop(@, id)],
                       n |-> [n EXCEPT !.refcs = c.refcs]]
  IN  Collected(IF d.set THEN Cleanup(d.val, TRUE, TRUE, acq, sub, n.refcs)
                ELSE [code |-> "ok", refcs |-> n.refcs])

(***************************************************************************)
(* xlb_refc_incr: change the counts of a datum that exists.  Closing it    *)
(* reports to the listeners; at zero and zero it is collected; otherwise   *)
(* the write references inside it are released on closing, if it was       *)
(* created so, and the caller acquires what it asked for.                  *)
(***************************************************************************)
\* Mutant of RefcIncr: the listeners are not told of the close
RefcIncrSilent(st, n, id, change, acq, sub) ==
  LET d == st.tds[id]
      d2 == [d EXCEPT !.r = @ + change.r, !.w = @ + change.w, !.lis = << >>]
  IN  IF d2.r < 0 \/ d2.w < 0 THEN Failed("REFCOUNT_NEGATIVE", st, n)
      ELSE IF d2.r = 0 /\ d2.w = 0 THEN DatumGc(st, n, id, d2, acq, sub)
      ELSE [code |-> "ok", n |-> n, st |-> [st EXCEPT !.tds[id] = d2]]

RefcIncr(st, n, id, change, acq, sub) ==
  LET d   == st.tds[id]
      dr  == IF ReadRefc /\ ~d.perm THEN change.r ELSE 0
      d1  == [d EXCEPT !.r = @ + dr]
      closed == change.w # 0 /\ d.w + change.w = 0
      relw == closed /\ d.relw
      Kept(st2, n2, c) == [code |-> c.code, st |-> [st2 EXCEPT !.tds[id].val = c.val],
                           n |-> [n2 EXCEPT !.refcs = c.refcs]]
      Changed(d2, n2, st2) ==
        IF d2.r = 0 /\ d2.w = 0 THEN DatumGc(st, n2, id, d2, acq, sub)
        ELSE IF ~relw /\ acq = NoRefc THEN [code |-> "ok", st |-> st2, n |-> n2]
        ELSE IF d.type = RefType /\ ~d.set THEN Failed("UNDEFINED", st2, n2)
        ELSE Kept(st2, n2, Cleanup(d2.val, FALSE, relw, acq, sub, n2.refcs))
      Closing(d2, n2) == Changed(d2, n2, [st EXCEPT !.tds[id] = d2])
  IN  IF dr # 0 /\ d1.r < 0 THEN Failed("REFCOUNT_NEGATIVE", st, n)
      ELSE IF change.w # 0 /\ (d.w <= 0 \/ d.w + change.w < 0)
      THEN Failed("REFCOUNT_NEGATIVE", [st EXCEPT !.tds[id] = d1], n)
      ELSE Closing([d1 EXCEPT !.w = @ + change.w, !.lis = IF closed THEN << >> ELSE @],
                   IF closed THEN [n EXCEPT !.notify = @ \o NotifyOf(d.lis, id, NoSub)]
                   ELSE n)

(* xlb_data_reference_count *)
ReferenceCount(st, n, id, change, acq, sub) ==
  IF Exists(st, id) THEN RefcIncr(st, n, id, change, acq, sub)
  ELSE Failed("NOT_FOUND", st, n)

(***************************************************************************)
(* insert_notifications2: sub of datum id now holds val.  The references   *)
(* waiting for it are handed over, with the one read count their list held *)
(* and the counts they acquire; the listeners are notified.                *)
(***************************************************************************)
(* process_ref_list *)
RECURSIVE SumAcquire(_)
SumAcquire(refs) ==
  IF refs = << >> THEN NoRefc
  ELSE LET sum == SumAcquire(Tail(refs))
       IN  [r |-> refs[1].acq.r + sum.r, w |-> refs[1].acq.w + sum.w]

RefsToSet(refs, val) ==
  [i \in DOMAIN refs |-> [id |-> refs[i].id, sub |-> refs[i].sub, val |-> val,
                          acq |-> refs[i].acq, wdecr |-> refs[i].wdecr]]

InsertNotifs2(st, n, id, sub, val, refs, lis) ==
  LET acq == SumAcquire(refs)
      Told(R) == IF R.code # "ok" THEN R
                 ELSE [R EXCEPT !.n.notify = @ \o NotifyOf(lis, id, sub)]
  IN  Told(IF refs = << >> THEN [code |-> "ok", st |-> st, n |-> n]
           ELSE RefcIncr(st, [n EXCEPT !.refs = @ \o RefsToSet(refs, val)], id,
                  [r |-> -1, w |-> 0],
                  [acq EXCEPT !.r = IF ReadRefc THEN @ ELSE 0], sub))

(***************************************************************************)
(* check_subscript_notifications takes the lists out of the tables, and    *)
(* all_notifs_step packs the value: a reserved entry has none.  R is the   *)
(* result so far.                                                          *)
(***************************************************************************)
InsertStep(R, id, sub, val) ==
  LET key  == <<id, sub>>
      refs == ListAt(R.st.crefs, key)
      st1  == [R.st EXCEPT !.crefs = Drop(@, key), !.ixl = Drop(@, key)]
  IN  IF R.code # "ok" THEN R
      ELSE IF refs # << >> /\ val = NoVal THEN Failed("UNDEFINED", st1, R.n)
      ELSE InsertNotifs2(st1, R.n, id, sub, val, refs, ListAt(R.st.ixl, key))

(* insert_notifications, add_recursive_notifs *)
RECURSIVE InsertAll(_, _, _)
InsertAll(R, id, members) ==
  IF members = << >> THEN R
  ELSE InsertAll(InsertStep(R, id, members[1].sub, members[1].val), id, Tail(members))

(***************************************************************************)
(* xlb_data_store, data_store_root, data_store_subscript: decr counts of   *)
(* the datum are given up, refs is what each stored reference owns.        *)
(***************************************************************************)
StoreRoot(st, n, id, val, refs) ==
  LET d == st.tds[id]
      v == Unpack(IF d.set THEN d.val ELSE NoVal, val, refs)
      R == [code |-> "ok", n |-> n,
            st |-> [st EXCEPT !.tds[id].val = v, !.tds[id].set = TRUE]]
  IN  IF TypeOf(val) # d.type THEN Failed("TYPE", st, n)
      ELSE IF d.subn THEN InsertAll(R, id, Members(v, NoSub)) ELSE R

StoreSub(st, n, id, sub, val, refs) ==
  LET d  == st.tds[id]
      Notified(R, at) ==
        IF R.code = "ok" /\ val # NoVal /\ d.subn /\ at.code = "ok"
        THEN InsertAll(R, id, <<[sub |-> sub, val |-> at.val]>> \o Members(at.val, sub))
        ELSE R
      Set(s) == Notified([code |-> s.code, n |-> n,
                          st |-> [st EXCEPT !.tds[id].val = s.val]],
                         LookupSubscript(s.val, sub))
  IN  IF ~d.set THEN Failed("INVALID", st, n)
      ELSE Set(StoreSubscript(InitNested(d.val, sub), sub, val, refs))

Store(st, n, id, sub, val, decr, refs) ==
  IF ~Exists(st, id) THEN Failed("NOT_FOUND", st, n)
  ELSE IF st.tds[id].w <= 0 THEN Failed("DOUBLE_WRITE", st, n)
  ELSE LET Given(R) == IF R.code = "ok" /\ (decr.w > 0 \/ decr.r > 0)
                       THEN RefcIncr(R.st, R.n, id, Neg(decr), NoRefc, NoSub) ELSE R
       IN  Given(IF HasSub(sub) THEN StoreSub(st, n, id, sub, val, refs)
                 ELSE StoreRoot(st, n, id, val, refs))

(* Lookups leave the structs nested on their path initialised *)
Touch(st, id, sub) == [st EXCEPT !.tds[id].val = InitNested(@, sub)]

(***************************************************************************)
(* xlb_data_retrieve: the value at sub; decr counts of the datum are given *)
(* up and acq counts of each reference read are acquired.                  *)
(***************************************************************************)
Retrieve(st, n, id, sub, decr, acq) ==
  IF ~Exists(st, id) THEN Failed("NOT_FOUND", st, n) @@ [val |-> NoVal]
  ELSE LET d  == st.tds[id]
           s1 == IF HasSub(sub) THEN Touch(st, id, sub) ELSE st
           at == IF HasSub(sub) THEN LookupSubscript(s1.tds[id].val, sub)
                 ELSE [code |-> IF d.set THEN "ok" ELSE "UNSET", val |-> d.val]
       IN  IF at.code # "ok" THEN Failed(at.code, s1, n) @@ [val |-> NoVal]
           ELSE IF at.val = NoVal
           THEN Failed("SUBSCRIPT_NOT_FOUND", s1, n) @@ [val |-> NoVal]
           ELSE (IF decr = NoRefc /\ acq = NoRefc
                 THEN [code |-> "ok", st |-> s1, n |-> n]
                 ELSE RefcIncr(s1, n, id, Neg(decr), acq, sub)) @@ [val |-> at.val]

(* xlb_data_exists *)
DataExists(st, id, sub) ==
  IF ~HasSub(sub)
  THEN [code |-> "ok", st |-> st, res |-> Exists(st, id) /\ st.tds[id].set]
  ELSE IF ~Exists(st, id) THEN [code |-> "INVALID", st |-> st, res |-> FALSE]
  ELSE LET s1 == Touch(st, id, sub)
           at == LookupSubscript(s1.tds[id].val, sub)
       IN  [code |-> at.code, st |-> s1, res |-> at.val # NoVal]

(***************************************************************************)
(* xlb_data_container_reference: set ref to what sub holds, now or when it *)
(* is stored.  The caller's read count is given up, except that the first  *)
(* reference waiting for a subscript leaves it with the list.              *)
(***************************************************************************)
ContainerReference(st, n, id, sub, ref, type) ==
  IF ~Exists(st, id) THEN Failed("NOT_FOUND", st, n)
  ELSE LET s1  == Touch(st, id, sub)
           d   == s1.tds[id]
           at  == LookupSubscript(d.val, sub)
           key == <<id, sub>>
           first == key \notin DOMAIN s1.crefs
           n1  == [n EXCEPT !.refs = Append(@,
                     [id |-> ref.id, sub |-> ref.sub, val |-> at.val,
                      acq |-> ref.acq, wdecr |-> ref.wdecr])]
       IN  IF at.code # "ok" THEN Failed(at.code, s1, n)
           ELSE IF at.type # type THEN Failed("TYPE", s1, n)
           ELSE IF at.val # NoVal
           THEN RefcIncr(s1, n1, id, [r |-> -1, w |-> 0], ref.acq, sub)
           ELSE IF d.w <= 0 \/ d.r <= 0 THEN Failed("INVALID", s1, n)
           ELSE IF ~first /\ ReadRefc /\ d.r < 2 THEN Failed("ASSERT", s1, n)
           ELSE [code |-> "ok", n |-> n,
                 st |-> [s1 EXCEPT
                    !.crefs = Put(@, key, Append(ListAt(@, key), ref)),
                    !.tds[id].subn = IF first THEN TRUE ELSE @,
                    !.tds[id].r = IF ~first /\ ReadRefc THEN @ - 1 ELSE @]]

(***************************************************************************)
(* xlb_data_subscribe, xlb_struct_subscript_init: to the close of a datum, *)
(* or to the first value of a subscript, whether or not the datum can      *)
(* still be written.                                                       *)
(***************************************************************************)
StructParent(v, sub) ==
  IF Len(sub) = 1 THEN v ELSE LookupSubscript(v, Front(sub)).val

Subscribe(st, id, sub, rank, type) ==
  LET no(code, s) == [code |-> code, st |-> s, subscribed |-> FALSE]
      me  == [rank |-> rank, type |-> type]
      d   == st.tds[id]
      s1  == IF d.type.k = "struct" THEN Touch(st, id, sub) ELSE st
      v   == s1.tds[id].val
      at  == LookupSubscript(v, sub)
      key == <<id, sub>>
  IN  IF ~Exists(st, id) THEN no("NOT_FOUND", st)
      ELSE IF ~HasSub(sub)
      THEN IF d.w = 0 THEN no("ok", st)
           ELSE [code |-> "ok", subscribed |-> TRUE,
                 st |-> [st EXCEPT !.tds[id].lis = Append(@, me)]]
      ELSE IF d.type.k \notin {"container", "struct"} THEN no("INVALID", st)
      ELSE IF at.code # "ok" THEN no(at.code, s1)
      ELSE IF d.type.k = "struct" /\ StructParent(v, sub).k # "struct"
      THEN no("SUBSCRIPT_NOT_FOUND", s1)
      ELSE IF at.val # NoVal THEN no("ok", s1)
      ELSE [code |-> "ok", subscribed |-> TRUE,
            st |-> [s1 EXCEPT !.ixl = Put(@, key, Append(ListAt(@, key), me)),
                              !.tds[id].subn = TRUE]]

(* xlb_data_insert_atomic: reserve sub unless somebody did *)
InsertAtomic(st, id, sub) ==
  IF ~Exists(st, id)
  THEN [code |-> "NOT_FOUND", st |-> st, created |-> FALSE, present |-> FALSE]
  ELSE LET s1 == Touch(st, id, sub)
           s  == StoreSubscript(s1.tds[id].val, sub, NoVal, NoRefc)
           at == LookupSubscript(s1.tds[id].val, sub)
       IN  IF ~s1.tds[id].set
           THEN [code |-> "INVALID", st |-> st, created |-> FALSE, present |-> FALSE]
           ELSE IF s.code = "DOUBLE_WRITE"
           THEN [code |-> at.code, st |-> s1, created |-> FALSE,
                 present |-> at.val # NoVal]
           ELSE [code |-> s.code, created |-> s.code = "ok", present |-> FALSE,
                 st |-> [s1 EXCEPT !.tds[id].val = s.val]]

(* xlb_data_lock, xlb_data_unlock *)
Lock(st, id, rank) ==
  IF ~Exists(st, id) THEN [code |-> "NOT_FOUND", st |-> st, res |-> FALSE]
  ELSE IF id \in DOMAIN st.locked THEN [code |-> "ok", st |-> st, res |-> FALSE]
  ELSE [code |-> "ok", res |-> TRUE, st |-> [st EXCEPT !.locked = Put(@, id, rank)]]

Unlock(st, id) ==
  IF id \notin DOMAIN st.locked THEN [code |-> "NOT_FOUND", st |-> st]
  ELSE [code |-> "ok", st |-> [st EXCEPT !.locked = Drop(@, id)]]
=============================================================================
