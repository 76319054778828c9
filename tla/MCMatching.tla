----------------------------- MODULE MCMatching -----------------------------
(* Module Matching for TLC: three workers on two hosts, and sets of units  *)
(* that share their priorities where entries could be mistaken.            *)
EXTENDS Matching

MCHost == [w \in Workers |-> IF w = 3 THEN "h2" ELSE "h1"]

MCUnit(id, target, strict, accry, pri, par) ==
  [id |-> id, type |-> "t", target |-> target, strict |-> strict,
   accry |-> accry, pri |-> pri, par |-> par]

Untargeted(id, pri) == MCUnit(id, -1, "HARD", "RANK", pri, 1)
AnySoft(id, pri) == MCUnit(id, -1, "SOFT", "RANK", pri, 1)
Hard(id, target, accry, pri) == MCUnit(id, target, "HARD", accry, pri, 1)
Soft(id, target, accry, pri) == MCUnit(id, target, "SOFT", accry, pri, 1)
Par(id, pri, par) == MCUnit(id, -1, "HARD", "RANK", pri, par)

IdxSymmetry == Permutations(Idx)

MCIntMin == -4

Plan(puts, ready, local, foreign, calls, callers) ==
  [puts |-> puts, ready |-> ready, local |-> local, foreign |-> foreign,
   calls |-> calls, callers |-> callers, count |-> 1, due |-> 1, steals |-> 0]

\* One unit of each kind of target, for three workers on two hosts.
Targets == Plan({Untargeted("a", 1), Hard("b", 1, "RANK", 0), Hard("c", 1, "NODE", 0),
                 Soft("d", 3, "RANK", 2)}, {}, {Hard("l", 2, "RANK", 0)}, {}, {"GET"}, 1..3)

\* Units that can stand in for each other in a heap.
Reuse == Plan({Soft("a", 1, "RANK", 1), Soft("b", 2, "NODE", 1), Hard("c", 1, "RANK", -1),
               Untargeted("d", -1)}, {Hard("e", 1, "RANK", 1)}, {}, {}, {"IGET", "GET"}, 1..2)

\* Parallel units, here and on other servers.
Parallel == [Plan({Untargeted("a", 0), Par("p", 0, 2), Par("q", 1, 3)}, {}, {},
                  {Par("r", 1, 2)}, {"GET"}, 1..3) EXCEPT !.steals = 2]

\* Steals of soft and untargeted units, with a hard target to keep.
Steals == [Plan({Untargeted("a", 0), Soft("b", 1, "RANK", 1), Hard("c", 1, "RANK", -1)},
                {}, {}, {Soft("f", 5, "RANK", 1), Untargeted("g", 1)}, {"GET"}, 1..2)
             EXCEPT !.steals = 2]

\* Requests for several units, and notes that cross the answers.
Async == [Plan({Untargeted("a", 0), Untargeted("b", 1), Hard("c", 1, "RANK", 0)}, {}, {}, {},
               {"AGET", "AMGET", "WAIT"}, 1..2) EXCEPT !.count = 2, !.due = 2]

SafePlans == {Targets, Reuse, Parallel, Steals, Async}

\* A put that needs two workers, one with a soft target, and a released unit.
LivePlans == {Plan({Untargeted("a", 0), Par("p", 0, 2), Soft("d", 2, "NODE", 1)},
                   {Hard("e", 1, "RANK", 1)}, {}, {}, {"GET"}, 1..2)}
=============================================================================
