--------------------------- MODULE MCDataService ----------------------------
(***************************************************************************)
(* Small programs for DataService: two servers, two clients, a few data.   *)
(***************************************************************************)
EXTENDS DataService

S2 == {"s1", "s2"}
C2 == {"c1", "c2"}
MCMyServer(c) == IF c = "c1" THEN "s1" ELSE "s2"
MCHome(id) == IF id % 2 = 1 THEN "s1" ELSE "s2"

Rc(r, w) == [r |-> r, w |-> w]
Props(r, w) == [r |-> r, w |-> w, perm |-> FALSE, relw |-> FALSE]

(* Tables holding data d: id -> [type, r, w, perm, relw] *)
Tables(d) ==
  [s \in S2 |-> FoldLeft(LAMBDA st, id : Create(st, id, d[id].type, d[id]).st,
                         EmptyStore, SetToSeq({id \in DOMAIN d : MCHome(id) = s}))]
Datum0(t, r, w) == Props(r, w) @@ [type |-> t]

StoreOp(id, sub, val, refs, decr) ==
  [op |-> "store", id |-> id, sub |-> sub, val |-> val, refs |-> refs, decr |-> decr]
RetrieveOp(id, sub, decr, acq) ==
  [op |-> "retrieve", id |-> id, sub |-> sub, decr |-> decr, acq |-> acq]
RefcOp(id, r, w) == [op |-> "refc", id |-> id, r |-> r, w |-> w]
CRefOp(id, sub, rid, acq, wdecr) ==
  [op |-> "cref", id |-> id, sub |-> sub, type |-> RefType,
   ref |-> [id |-> rid, sub |-> NoSub, acq |-> acq, wdecr |-> wdecr]]
SubOp(id, sub, t) == [op |-> "subscribe", id |-> id, sub |-> sub, type |-> t]
EngOp(id, sub, s) == [op |-> "engine", id |-> id, sub |-> sub, rank |-> s]
AtomicOp(id, sub, ret, decr, acq) ==
  [op |-> "atomic", id |-> id, sub |-> sub, ret |-> ret, decr |-> decr, acq |-> acq]
ReadOp(id, sub, decr) == [op |-> "read", id |-> id, sub |-> sub, decr |-> decr]
CreateOp(id, t, r, w) == [op |-> "create", id |-> id, type |-> t] @@ Props(r, w)
LockOp(id) == [op |-> "lock", id |-> id]
UnlockOp(id) == [op |-> "unlock", id |-> id]

Zero(ids) == [id \in ids |-> NoRefc]

(***************************************************************************)
(* References: a container 1 whose member "a" refers to 2, a reference 3   *)
(* to fill from it, the integer 2 itself on the other server.              *)
(***************************************************************************)
RefIds == {1, 2, 3}
RefData0 == Tables((1 :> Datum0(ContType(RefType), 2, 1)) @@
                   (2 :> Datum0(IntType, 1, 1)) @@
                   (3 :> Datum0(RefType, 1, 1)))
RefHeld0 == [c \in C2 |-> IF c = "c1"
              THEN (1 :> Rc(1, 1)) @@ (2 :> Rc(1, 1)) @@ (3 :> Rc(0, 0))
              ELSE (1 :> Rc(1, 0)) @@ (2 :> Rc(0, 0)) @@ (3 :> Rc(1, 1))]
RefOps ==
  {StoreOp(1, <<"a">>, RefVal(2, 0, 0), Rc(1, 0), Rc(0, 1)),
   StoreOp(2, NoSub, IntVal, NoRefc, Rc(0, 1)),
   RetrieveOp(1, <<"a">>, Rc(1, 0), Rc(1, 0)),
   RetrieveOp(1, <<"a">>, Rc(0, 0), Rc(1, 0)),
   RetrieveOp(3, NoSub, Rc(1, 0), Rc(1, 0)),
   RetrieveOp(2, NoSub, Rc(1, 0), NoRefc),
   CRefOp(1, <<"a">>, 3, Rc(1, 0), 1),
   RefcOp(1, -1, 0), RefcOp(2, 1, 0)}

(***************************************************************************)
(* Remote: the reference to fill, 4, is on the other server, so that the   *)
(* client fills it.                                                        *)
(***************************************************************************)
RemoteIds == {1, 2, 4}
RemoteData0 == Tables((1 :> Datum0(ContType(RefType), 2, 1)) @@
                      (2 :> Datum0(IntType, 1, 1)) @@ (4 :> Datum0(RefType, 1, 1)))
RemoteHeld0 == [c \in C2 |-> IF c = "c1"
                 THEN (1 :> Rc(1, 1)) @@ (2 :> Rc(1, 1)) @@ (4 :> Rc(0, 0))
                 ELSE (1 :> Rc(1, 0)) @@ (2 :> Rc(0, 0)) @@ (4 :> Rc(1, 1))]
RemoteOps ==
  {StoreOp(1, <<"a">>, RefVal(2, 0, 0), Rc(1, 0), Rc(0, 1)),
   StoreOp(2, NoSub, IntVal, NoRefc, Rc(0, 1)),
   CRefOp(1, <<"a">>, 4, Rc(1, 0), 1), SubOp(4, NoSub, "w"),
   RetrieveOp(4, NoSub, Rc(1, 0), Rc(1, 0)), RefcOp(1, -1, 0), RefcOp(2, -1, 0)}

(***************************************************************************)
(* Early: member "a" is stored with two counts of 2, which two references  *)
(* of the same server take before the third count reaches 2.               *)
(***************************************************************************)
EarlyIds == {1, 2, 3, 5}
EarlyData0 == Tables((1 :> Datum0(ContType(RefType), 3, 1)) @@
                     (2 :> Datum0(IntType, 2, 0)) @@
                     (3 :> Datum0(RefType, 1, 1)) @@ (5 :> Datum0(RefType, 1, 1)))
EarlyHeld0 == [c \in C2 |-> IF c = "c1"
                THEN (1 :> Rc(1, 1)) @@ (2 :> Rc(2, 0)) @@ (3 :> Rc(0, 0)) @@ (5 :> Rc(0, 0))
                ELSE (1 :> Rc(2, 0)) @@ (2 :> Rc(0, 0)) @@ (3 :> Rc(1, 1)) @@ (5 :> Rc(1, 1))]
EarlyOps ==
  {CRefOp(1, <<"a">>, 3, Rc(1, 0), 1), CRefOp(1, <<"a">>, 5, Rc(1, 0), 1),
   StoreOp(1, <<"a">>, RefVal(2, 0, 0), Rc(2, 0), NoRefc),
   RetrieveOp(3, NoSub, Rc(1, 0), Rc(1, 0)), RetrieveOp(5, NoSub, Rc(1, 0), Rc(1, 0)),
   RefcOp(2, -2, 0)}

(***************************************************************************)
(* Listen: both clients and an engine listen to the integers 1 and 2, and  *)
(* to a member of the container 3 whose collection closes 2.               *)
(***************************************************************************)
ListenIds == {1, 2, 3}
ListenData0 == Tables((1 :> Datum0(IntType, 2, 2)) @@ (2 :> Datum0(RefType, 2, 1)) @@
                      (3 :> Datum0(ContType(RefType), 2, 1)))
ListenHeld0 == [c \in C2 |-> IF c = "c1"
                 THEN (1 :> Rc(1, 1)) @@ (2 :> Rc(1, 1)) @@ (3 :> Rc(1, 1))
                 ELSE (1 :> Rc(1, 1)) @@ (2 :> Rc(1, 0)) @@ (3 :> Rc(1, 0))]
ListenOps ==
  {SubOp(1, NoSub, "w"), SubOp(2, NoSub, "w"), SubOp(3, <<"a">>, "w"),
   EngOp(2, NoSub, "s1"), EngOp(3, <<"a">>, "s2"),
   StoreOp(1, NoSub, IntVal, NoRefc, Rc(0, 1)),
   StoreOp(2, NoSub, RefVal(1, 0, 0), Rc(1, 0), Rc(0, 1)),
   StoreOp(3, <<"a">>, RefVal(2, 0, 0), Rc(0, 1), NoRefc),
   ReadOp(3, <<"a">>, Rc(0, 1)), RefcOp(3, -1, 0)}

(***************************************************************************)
(* Reserved: clients insert and listen to member "a" of the container 1    *)
(* and create the integer 2.                                               *)
(***************************************************************************)
ReservedIds == {1, 2}
ReservedData0 == Tables(1 :> Datum0(ContType(IntType), 2, 2))
ReservedHeld0 == [c \in C2 |-> (1 :> Rc(1, 1)) @@ (2 :> Rc(0, 0))]
ReservedOps ==
  {AtomicOp(1, <<"a">>, FALSE, NoRefc, NoRefc), AtomicOp(1, <<"a">>, TRUE, Rc(1, 0), NoRefc),
   StoreOp(1, <<"a">>, IntVal, NoRefc, NoRefc),
   SubOp(1, <<"a">>, "w"), RetrieveOp(1, <<"a">>, NoRefc, NoRefc), LockOp(1), UnlockOp(1),
   CreateOp(2, IntType, 1, 1), StoreOp(2, NoSub, IntVal, NoRefc, Rc(1, 1))}

(***************************************************************************)
(* Nested: a struct 1 of a reference, a container of references and a      *)
(* struct of references, whose write references are released when it       *)
(* closes, and a multiset 3 of references, all to 2 and 4.                 *)
(***************************************************************************)
Inner == StructType(<<RefType, RefType>>)
Outer == StructType(<<RefType, ContType(RefType), Inner>>)
NestedIds == {1, 2, 3, 4}
NestedData0 == Tables((1 :> [Datum0(Outer, 2, 1) EXCEPT !.relw = TRUE]) @@
                      (2 :> Datum0(IntType, 2, 2)) @@
                      (3 :> Datum0(MsetType(RefType), 1, 1)) @@
                      (4 :> Datum0(IntType, 2, 0)))
NestedHeld0 == [c \in C2 |-> IF c = "c1"
                 THEN (1 :> Rc(1, 1)) @@ (2 :> Rc(2, 2)) @@ (3 :> Rc(0, 1)) @@ (4 :> Rc(2, 0))
                 ELSE (1 :> Rc(1, 0)) @@ (2 :> Rc(0, 0)) @@ (3 :> Rc(1, 0)) @@ (4 :> Rc(0, 0))]
Pair == [InitCompound(ContType(RefType)) EXCEPT !.m =
           ("a" :> RefVal(4, 0, 0)) @@ ("b" :> RefVal(4, 0, 0))]
NestedOps ==
  {StoreOp(1, <<1>>, RefVal(2, 0, 0), Rc(0, 1), NoRefc),
   StoreOp(1, <<3, 2>>, RefVal(2, 0, 0), Rc(1, 1), NoRefc),
   StoreOp(1, <<2>>, Pair, Rc(1, 0), Rc(0, 1)),
   StoreOp(3, <<"x">>, RefVal(4, 0, 0), Rc(1, 0), NoRefc),
   RetrieveOp(1, <<2>>, Rc(1, 0), Rc(1, 0)),
   RetrieveOp(1, <<3>>, NoRefc, Rc(1, 0)),
   RetrieveOp(3, NoSub, Rc(1, 0), Rc(1, 0)),
   ReadOp(1, <<3, 1>>, NoRefc), ReadOp(3, NoSub, Rc(0, 1)),
   RefcOp(1, 0, -1), RefcOp(2, -1, 0), RefcOp(4, -1, 0)}

Program(ids, ops, data0, held0, bound) ==
  [ids |-> ids, ops |-> ops, data0 |-> data0, held0 |-> held0, calls |-> bound]

MCPrograms ==
  ("references" :> Program(RefIds, RefOps, RefData0, RefHeld0, 8)) @@
  ("remote" :> Program(RemoteIds, RemoteOps, RemoteData0, RemoteHeld0, 6)) @@
  ("nested" :> Program(NestedIds, NestedOps, NestedData0, NestedHeld0, 7)) @@
  ("listen" :> Program(ListenIds, ListenOps, ListenData0, ListenHeld0, 5)) @@
  ("reserved" :> Program(ReservedIds, ReservedOps, ReservedData0, ReservedHeld0, 6))

EarlyProgram == "early" :> Program(EarlyIds, EarlyOps, EarlyData0, EarlyHeld0, 6)
=============================================================================
