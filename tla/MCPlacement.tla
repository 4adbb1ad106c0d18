---- MODULE MCPlacement ----
(* The solver and the evaluator, in one run that does not interleave them. *)
(*                                                                         *)
(* Solver: four logic clusters and two block RAMs, one of each fixed, on a *)
(* row of three logic sites of two slices and three block RAM sites.       *)
(*                                                                         *)
(* Evaluator: three clusters on a grid of three by two, three nets: a net  *)
(* of two clusters and a port, one between the same two clusters, one      *)
(* without a driver; a chain of neighbours.                                *)
EXTENDS Placement, PlacementEvaluator

CONSTANTS c1, c2, c3, n1, n2, n3, Width

VARIABLE part

(* A solver that has not begun and an evaluator that is not used. *)
SolverIdle == request = (CHOOSE r \in Requests : TRUE) /\ Init
EvaluatorIdle ==
  EvaluatorInit /\ evaluator.placements = [c \in GridClusters |-> CHOOSE p \in Points : TRUE]

PartsInit ==
  \/ part = "solver" /\ Init /\ EvaluatorIdle
  \/ part = "evaluator" /\ SolverIdle /\ EvaluatorInit

SolverNext == part = "solver" /\ Next /\ UNCHANGED <<part, evaluatorVars>>
EvaluatorStep == part = "evaluator" /\ EvaluatorNext /\ UNCHANGED <<part, vars>>

parts_vars == <<part, vars, evaluatorVars>>

PartsSpec ==
  PartsInit /\ [][SolverNext \/ EvaluatorStep]_parts_vars

MCLogicClusters == {1, 2, 3, 4}
MCBramClusters == {5, 6}
MCFixed == {3, 6}
MCLogicSites == {"l1", "l2", "l3"}
MCBramSites == {"b1", "b2", "b3"}
MCFocusOrder == <<5, 2, 1, 4>>

(* Requests of both kinds of site, slots out of range included. *)
MCRequests == [MCFixed -> [site : {"l1", "b1", "b2"}, slot : {0, 2}]]

(* Sites on a line and five two-point nets: there are placements no single *)
(* move improves although others cost less.                                *)
X == [s \in Sites |-> CASE s = "l1" -> 0 [] s = "b1" -> 1 [] s = "l2" -> 2
                       [] s = "b2" -> 3 [] s = "l3" -> 4 [] s = "b3" -> 5]
Distance(m, n) == IF m > n THEN m - n ELSE n - m
MCCost(p) ==
  LET apart(c, d) == Distance(X[p[c]], X[p[d]])
  IN 2 * apart(1, 5) + apart(2, 3) + 2 * apart(4, 2) + apart(1, 6) + Distance(X[p[4]], 4)

MCClusters == {c1, c2, c3}
MCNets == {n1, n2, n3}
MCPoints == (0 .. Width - 1) \X (0 .. 1)
MCDriver == [n \in MCNets |-> CASE n = n1 -> c1 [] n = n2 -> c2 [] OTHER -> Absent]
MCSinks == [n \in MCNets |-> CASE n = n1 -> {c2, <<0, 0>>} [] n = n2 -> {c1} [] OTHER -> {c3}]
MCNeighbors == [c \in MCClusters |-> CASE c = c1 -> {c2} [] c = c2 -> {c1, c3} [] OTHER -> {c2}]

Gap(p, q) == Distance(p[1], q[1]) + Distance(p[2], q[2])
Weight(n) == IF n = n1 THEN 2 ELSE 1
MCWireCost(n, m) == Weight(n) * Gap(m.max, m.min)
MCTimingCost(n, m) == Weight(n) * (Gap(m.max, m.src) + Gap(m.min, m.src))
MCCellLoad(n, m) ==
  (Weight(n) * 12) \div ((m.max[1] - m.min[1] + 1) * (m.max[2] - m.min[2] + 1))
MCOverflowScore(load) == IF load > 8 THEN (load - 8) * (load - 8) ELSE 0
MCLocalityCost(p, around) == MapThenSumSet(LAMBDA d : Gap(p, d[2]), around)
====
