------------------------------ MODULE Refcount ------------------------------
(***************************************************************************)
(* Reference counts held inside values (refcount.c).  A value of type REF  *)
(* owns some read and write counts of the datum it names, its referand.    *)
(* Whoever reads the value may acquire counts from it; what the value      *)
(* cannot give is left as a change to apply to the referand itself, which  *)
(* usually lives on another server.                                        *)
(***************************************************************************)
EXTENDS Integers, Sequences

CONSTANT ReadRefc   \* xlb_s.read_refc_enabled

ASSUME ReadRefcAssumption == ReadRefc \in BOOLEAN

NoRefc == [r |-> 0, w |-> 0]

(* A change of the referand's counts still to be applied (xlb_refc_change) *)
RefcChange(id, r, w, pre) == [id |-> id, r |-> r, w |-> w, pre |-> pre]

(***************************************************************************)
(* apply_refc: a value that owns curr counts gives acquire of them away.   *)
(* Releasing, it also gives up all it owned; otherwise it keeps one.       *)
(***************************************************************************)
ApplyRefc(releasing, curr, acquire) ==
  LET rem == acquire - curr
      got == IF acquire <= curr - 1 THEN acquire ELSE curr - 1
  IN  IF acquire # 0 /\ curr <= 0
      THEN [ok |-> FALSE, curr |-> curr, acquired |-> 0, remainder |-> 0]
      ELSE IF releasing
      THEN [ok |-> TRUE, curr |-> 0, remainder |-> rem,
            acquired |-> IF rem <= 0 THEN acquire ELSE acquire - rem]
      ELSE IF acquire = 0
      THEN [ok |-> TRUE, curr |-> curr, acquired |-> 0, remainder |-> 0]
      ELSE [ok |-> TRUE, curr |-> curr - got, acquired |-> got,
            remainder |-> acquire - got]

(* The change has to reach the referand before anyone may give counts back *)
\* Mutant of MustPreacquire: no change is ever applied ahead of the reply
NeverPreacquire(rd, wr) == FALSE

MustPreacquire(rd, wr) ==
  \/ rd.remainder > 0 /\ rd.acquired = 0
  \/ wr.remainder > 0 /\ wr.acquired = 0

(***************************************************************************)
(* xlb_update_refc_id: both counts of the REF value ref; changes is the    *)
(* list of changes gathered so far.                                        *)
(***************************************************************************)
UpdateRefcId(ref, releaseRead, releaseWrite, acquire, changes) ==
  LET Both(rd, wr) ==
        [ok  |-> rd.ok /\ wr.ok,
         val |-> IF rd.ok /\ wr.ok
                 THEN [ref EXCEPT !.r = rd.curr, !.w = wr.curr]
                 ELSE [ref EXCEPT !.r = rd.curr],
         refcs |-> IF rd.ok /\ wr.ok /\ (rd.remainder # 0 \/ wr.remainder # 0)
                   THEN Append(changes, RefcChange(ref.id, rd.remainder,
                               wr.remainder, MustPreacquire(rd, wr)))
                   ELSE changes]
  IN  Both(IF ReadRefc THEN ApplyRefc(releaseRead, ref.r, acquire.r)
           ELSE [ok |-> TRUE, curr |-> ref.r, acquired |-> 0, remainder |-> 0],
           ApplyRefc(releaseWrite, ref.w, acquire.w))
=============================================================================
