------------------------------- MODULE Datum --------------------------------
(***************************************************************************)
(* The values a datum can hold and what a server does inside one of them:  *)
(* subscripts (data.c, data_structs.c), multisets (multiset.c), and the    *)
(* walk that gives reference counts away (data_cleanup.c, refcount.c).     *)
(*                                                                         *)
(* A value is a record tagged by k.  Scalars all behave alike and are one  *)
(* kind, "int".  A subscript is the sequence of its components; the empty  *)
(* sequence is ADLB_NO_SUB.  NoVal is a reserved container entry and an    *)
(* unset field, datum or subscript.                                        *)
(***************************************************************************)
EXTENDS Refcount, FiniteSets, SequencesExt, Functions

NoVal == [k |-> "none"]
IntVal == [k |-> "int"]
RefVal(id, r, w) == [k |-> "ref", id |-> id, r |-> r, w |-> w]

(* Types: int, ref, container of one type, multiset of one, struct of several *)
IntType == [k |-> "int"]
RefType == [k |-> "ref"]
ContType(t) == [k |-> "container", of |-> t]
MsetType(t) == [k |-> "multiset", of |-> t]
StructType(ts) == [k |-> "struct", of |-> ts]

IsCompound(t) == t.k \in {"container", "multiset", "struct"}

TypeOf(v) == IF IsCompound(v) THEN [k |-> v.k, of |-> v.of] ELSE [k |-> v.k]

(* ADLB_Init_compound *)
InitCompound(t) ==
  CASE t.k = "container" -> [k |-> t.k, of |-> t.of, m |-> << >>]
    [] t.k = "multiset"  -> [k |-> t.k, of |-> t.of, m |-> << >>]
    [] t.k = "struct"    -> [k |-> t.k, of |-> t.of,
          m |-> [i \in 1..Len(t.of) |-> [resv |-> FALSE, val |-> NoVal]]]

NoSub == << >>
HasSub(sub) == sub # NoSub
Holds(cont, sub) == Len(sub) = 1 /\ sub[1] \in DOMAIN cont.m
InRange(s, i) == i \in 1..Len(s.of)
Put(f, x, y) == (x :> y) @@ f

(***************************************************************************)
(* xlb_struct_lookup with init_nested: every lookup creates the structs    *)
(* nested on its path, reads included.                                     *)
(***************************************************************************)
RECURSIVE InitNested(_, _)
InitNested(v, sub) ==
  IF v.k # "struct" \/ Len(sub) <= 1 \/ ~InRange(v, sub[1]) THEN v
  ELSE LET t   == v.of[sub[1]]
           old == v.m[sub[1]].val
           new == IF old = NoVal /\ t.k = "struct" THEN InitCompound(t) ELSE old
       IN  IF new = NoVal THEN v
           ELSE [v EXCEPT !.m[sub[1]].val = InitNested(new, Tail(sub))]

(***************************************************************************)
(* lookup_subscript: val is NoVal for a subscript that is absent or only   *)
(* reserved, exists tells the two apart, type is the type found.           *)
(***************************************************************************)
RECURSIVE LookupSubscript(_, _)
LookupSubscript(v, sub) ==
  CASE v.k = "container" ->
         [code |-> "ok", exists |-> Holds(v, sub), type |-> v.of,
          val |-> IF Holds(v, sub) THEN v.m[sub[1]] ELSE NoVal]
    [] v.k = "struct" /\ ~InRange(v, sub[1]) ->
         [code |-> "SUBSCRIPT_NOT_FOUND", exists |-> FALSE, val |-> NoVal,
          type |-> IntType]
    [] v.k = "struct" /\ InRange(v, sub[1]) ->
         LET f == v.m[sub[1]]
         IN  IF f.val = NoVal \/ Len(sub) = 1
             THEN [code |-> "ok", exists |-> f.val # NoVal \/ f.resv,
                   val |-> f.val, type |-> v.of[sub[1]]]
             ELSE LookupSubscript(f.val, Tail(sub))
    [] OTHER -> [code |-> "TYPE", exists |-> FALSE, val |-> NoVal,
                 type |-> IntType]

(***************************************************************************)
(* ADLB_Unpack2: the stored bytes become a value whose references own refs *)
(* counts each; a compound one is merged into what is there already.       *)
(***************************************************************************)
RECURSIVE WithRefs(_, _)
WithRefs(v, refs) ==
  CASE v.k = "ref" -> [v EXCEPT !.r = refs.r, !.w = refs.w]
    [] v.k \in {"container", "multiset"} ->
         [v EXCEPT !.m = [i \in DOMAIN v.m |-> WithRefs(v.m[i], refs)]]
    [] v.k = "struct" ->
         [v EXCEPT !.m = [i \in DOMAIN v.m |->
             [v.m[i] EXCEPT !.val = WithRefs(v.m[i].val, refs)]]]
    [] OTHER -> v

UnpackContainer(old, v) == [v EXCEPT !.m = v.m @@ old.m]
UnpackMultiset(old, v) == [v EXCEPT !.m = old.m \o v.m]

(* ADLB_Unpack_struct: fields that were not packed are left as they are *)
UnpackStruct(old, v) ==
  [v EXCEPT !.m = [i \in DOMAIN v.m |->
      IF v.m[i].val = NoVal THEN old.m[i]
      ELSE [old.m[i] EXCEPT !.val = v.m[i].val]]]

Unpack(old, new, refs) ==
  LET v == WithRefs(new, refs)
  IN  CASE old # NoVal /\ v.k = "container" -> UnpackContainer(old, v)
        [] old # NoVal /\ v.k = "multiset" -> UnpackMultiset(old, v)
        [] old # NoVal /\ v.k = "struct" -> UnpackStruct(old, v)
        [] OTHER -> v

(***************************************************************************)
(* data_store_subscript on the value alone: new is stored at sub, or sub   *)
(* is reserved when new is NoVal.  A container or multiset field that is   *)
(* not there yet is meant to be created on the way, but the code creates   *)
(* it over the whole datum and walks on into the uninitialised field.      *)
(***************************************************************************)
StoreMultiset(v, new, refs) ==
  CASE new = NoVal -> [code |-> "INVALID", val |-> v]
    [] new # NoVal /\ TypeOf(new) # v.of -> [code |-> "TYPE", val |-> v]
    [] OTHER -> [code |-> "ok",
                 val |-> [v EXCEPT !.m = Append(@, WithRefs(new, refs))]]

\* Mutant of StoreContainer: a linked entry is overwritten
StoreContainerTwice(v, sub, new, refs) ==
  IF new # NoVal /\ TypeOf(new) # v.of THEN [code |-> "TYPE", val |-> v]
  ELSE [code |-> "ok", val |-> [v EXCEPT !.m = Put(@, sub[1], WithRefs(new, refs))]]

StoreContainer(v, sub, new, refs) ==
  CASE Holds(v, sub) /\ (new = NoVal \/ v.m[sub[1]] # NoVal) ->
         [code |-> "DOUBLE_WRITE", val |-> v]
    [] new # NoVal /\ TypeOf(new) # v.of -> [code |-> "TYPE", val |-> v]
    [] OTHER -> [code |-> "ok",
                 val |-> [v EXCEPT !.m = Put(@, sub[1], WithRefs(new, refs))]]

(* xlb_struct_assign_field, and the reservation of a field *)
AssignField(v, i, new, refs) ==
  LET f == v.m[i]
  IN  CASE new = NoVal /\ (f.resv \/ f.val # NoVal) ->
             [code |-> "DOUBLE_WRITE", val |-> v]
        [] new = NoVal /\ ~(f.resv \/ f.val # NoVal) ->
             [code |-> "ok", val |-> [v EXCEPT !.m[i].resv = TRUE]]
        [] new # NoVal /\ ~IsCompound(v.of[i]) /\ f.val # NoVal ->
             [code |-> "DOUBLE_WRITE", val |-> v]
        [] new # NoVal /\ TypeOf(new) # v.of[i] -> [code |-> "TYPE", val |-> v]
        [] OTHER -> [code |-> "ok",
             val |-> [v EXCEPT !.m[i].val = Unpack(f.val, new, refs)]]

RECURSIVE StoreSubscript(_, _, _, _)
StoreSubscript(v, sub, new, refs) ==
  CASE v.k = "multiset" -> StoreMultiset(v, new, refs)
    [] v.k = "container" -> StoreContainer(v, sub, new, refs)
    [] v.k = "struct" /\ ~InRange(v, sub[1]) ->
         [code |-> "SUBSCRIPT_NOT_FOUND", val |-> v]
    [] v.k = "struct" /\ InRange(v, sub[1]) /\ Len(sub) = 1 ->
         AssignField(v, sub[1], new, refs)
    [] v.k = "struct" /\ InRange(v, sub[1]) /\ Len(sub) > 1 ->
         IF v.m[sub[1]].val # NoVal
         THEN LET Within(r) == [code |-> r.code, val |-> [v EXCEPT !.m[sub[1]].val = r.val]]
              IN  Within(StoreSubscript(v.m[sub[1]].val, Tail(sub), new, refs))
         ELSE [code |-> IF IsCompound(v.of[sub[1]]) THEN "UNDEFINED"
                        ELSE "SUBSCRIPT_NOT_FOUND", val |-> v]
    [] OTHER -> [code |-> "TYPE", val |-> v]

(***************************************************************************)
(* container_notifs_rec and struct_notifs_rec: every subscript inside a    *)
(* value with what it holds, reserved container entries included.          *)
(***************************************************************************)
RECURSIVE Members(_, _)

(* A subscript, extended by c, and all below it (concat_subscripts) *)
Below(path, c, x) ==
  <<[sub |-> Append(path, c), val |-> x]>> \o Members(x, Append(path, c))

ContainerMembers(v, path) ==
  FlattenSeq([i \in 1..Cardinality(DOMAIN v.m) |->
     LET c == SetToSeq(DOMAIN v.m)[i] IN Below(path, c, v.m[c])])

StructMembers(v, path) ==
  FlattenSeq([i \in DOMAIN v.m |->
     IF v.m[i].val = NoVal THEN << >> ELSE Below(path, i, v.m[i].val)])

Members(v, path) ==
  CASE v.k = "container" -> ContainerMembers(v, path)
    [] v.k = "struct" -> StructMembers(v, path)
    [] OTHER -> << >>

(***************************************************************************)
(* xlb_datum_cleanup: release what the references inside v own, and let    *)
(* the caller acquire counts of those under sub (all of them when sub is   *)
(* empty).  The walk goes through the members in turn; the first error     *)
(* stops it.                                                               *)
(***************************************************************************)
RECURSIVE Cleanup(_, _, _, _, _, _)

(* xlb_incr_referand for a reference *)
IncrReferand(v, relR, relW, acq, refcs) ==
  LET Coded(u) == [code |-> IF u.ok THEN "ok" ELSE "REFCOUNT_NEGATIVE",
                   val |-> u.val, refcs |-> u.refcs]
  IN  Coded(UpdateRefcId(v, relR, relW, acq, refcs))

(* The members of v in their order, with what each is asked for *)
Member(v, i) == IF v.k = "struct" THEN v.m[i].val ELSE v.m[i]

Cleaned(v, i, c) ==
  [c EXCEPT !.val = IF v.k = "struct" THEN [v EXCEPT !.m[i].val = c.val]
                    ELSE [v EXCEPT !.m[i] = c.val]]

RECURSIVE CleanupEach(_, _, _, _, _, _)
CleanupEach(R, order, relR, relW, acqs, subs) ==
  IF R.code # "ok" \/ order = << >> THEN R
  ELSE LET i == Head(order)
           x == Member(R.val, i)
       IN  CleanupEach(IF x = NoVal THEN R
                       ELSE Cleaned(R.val, i, Cleanup(x, relR, relW, acqs[i], subs[i], R.refcs)),
                       Tail(order), relR, relW, acqs, subs)

OfMember(v, sub, acq) ==
  [i \in DOMAIN v.m |-> IF sub = NoSub \/ sub[1] = i THEN acq ELSE NoRefc]

(* xlb_members_cleanup: only the member named by sub is acquired from *)
MembersCleanup(v, relR, relW, acq, sub, refcs) ==
  CleanupEach([code |-> "ok", val |-> v, refcs |-> refcs], SetToSeq(DOMAIN v.m),
              relR, relW, OfMember(v, sub, acq), [i \in DOMAIN v.m |-> NoSub])

MultisetCleanup(v, relR, relW, acq, sub, refcs) ==
  CleanupEach([code |-> "ok", val |-> v, refcs |-> refcs], [i \in DOMAIN v.m |-> i],
              relR, relW, [i \in DOMAIN v.m |-> acq], [i \in DOMAIN v.m |-> sub])

StructCleanup(v, relR, relW, acq, sub, refcs) ==
  CASE HasSub(sub) /\ ~InRange(v, sub[1]) ->
         [code |-> "INVALID", val |-> v, refcs |-> refcs]
    [] HasSub(sub) /\ InRange(v, sub[1]) /\ v.m[sub[1]].val = NoVal ->
         [code |-> "SUBSCRIPT_NOT_FOUND", val |-> v, refcs |-> refcs]
    [] OTHER ->
         CleanupEach([code |-> "ok", val |-> v, refcs |-> refcs],
           [i \in DOMAIN v.m |-> i], relR, relW, OfMember(v, sub, acq),
           [i \in DOMAIN v.m |-> IF HasSub(sub) /\ sub[1] = i THEN Tail(sub) ELSE NoSub])

Cleanup(v, relR, relW, acq, sub, refcs) ==
  CASE v.k = "ref" -> IncrReferand(v, relR, relW, acq, refcs)
    [] v.k = "container" -> MembersCleanup(v, relR, relW, acq, sub, refcs)
    [] v.k = "multiset" -> MultisetCleanup(v, relR, relW, acq, sub, refcs)
    [] v.k = "struct" -> StructCleanup(v, relR, relW, acq, sub, refcs)
    [] OTHER -> [code |-> "ok", val |-> v, refcs |-> refcs]
=============================================================================
