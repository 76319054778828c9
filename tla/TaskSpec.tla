------------------------------ MODULE TaskSpec ------------------------------
(***************************************************************************)
(* What ADLB_Dput promises (adlb.h): a task put with inputs is released    *)
(* once, after all its inputs have closed.  Engine implements it.          *)
(***************************************************************************)
EXTENDS Naturals, Functions

CONSTANTS Keys, Tasks, Inputs

VARIABLES closed, put,
          released   \* [Tasks -> how often the task was released]

ReadyFor(t) == Range(Inputs[t]) \subseteq closed

Init == closed = {} /\ put = {} /\ released = [t \in Tasks |-> 0]

CloseKey(k) == /\ closed' = closed \cup {k}
               /\ UNCHANGED <<put, released>>

PutTask(t) == /\ t \notin put /\ put' = put \cup {t}
              /\ UNCHANGED <<closed, released>>

(* The tasks of S; none of them was released before *)
Release(S) == /\ \A t \in S : t \in put /\ released[t] = 0 /\ ReadyFor(t)
              /\ released' = [t \in Tasks |-> IF t \in S THEN 1 ELSE released[t]]
              /\ UNCHANGED <<closed, put>>

Next == \/ \E k \in Keys : CloseKey(k)
        \/ \E t \in Tasks : PutTask(t)
        \/ \E S \in SUBSET Tasks : Release(S)

Spec == Init /\ [][Next]_<<closed, put, released>>
=============================================================================
