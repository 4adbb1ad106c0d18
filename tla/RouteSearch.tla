---------------------------- MODULE RouteSearch ----------------------------
(***************************************************************************)
(* The search for a path from the routed tree of a net to one of its sinks *)
(* (route_sink and run_search of route/router.rs): a best-first search     *)
(* with lazy deletion, tried with one guide restriction after the other.   *)
(*                                                                         *)
(* The same loop searches over wires and, following an ordered guide, over *)
(* pairs of a wire and a guide position; SearchNode stands for either.     *)
(* The order among frontier entries of equal priority is that of the heap  *)
(* (FrontierHeap); here it is any.                                         *)
(***************************************************************************)
EXTENDS Integers, Sequences

CONSTANTS
    SearchNode,
    RouteNode,     \* wires
    RouteNodeOf,   \* the wire of a search node
    TreeNodes,     \* wires of the net's tree
    Roots,         \* those its driver starts from
    Problems,      \* sequences of attempts
    NoNode         \* a parent step without a previous node

\* What one search is given: the steps its policy and its guide allow and that
\* are not blocked, their costs, the start nodes with cost and priority, what
\* is added to the cost of a node for its priority, and the goals.
Attempt ==
    [steps : SUBSET (SearchNode \X SearchNode),
     cost : [SearchNode \X SearchNode -> Nat],
     starts : SUBSET SearchNode,
     start_cost : [SearchNode -> Nat],
     start_priority : [SearchNode -> Nat],
     estimate : [SearchNode -> Nat],
     goals : SUBSET SearchNode]

ASSUME NodesAssumption ==
    /\ RouteNodeOf \in [SearchNode -> RouteNode]
    /\ Roots \subseteq TreeNodes /\ TreeNodes \subseteq RouteNode
    /\ NoNode \notin SearchNode

\* A search starts on the tree, and on every root it could come by, at no cost.
ASSUME ProblemsAssumption ==
    \A problem \in Problems :
        /\ problem \in Seq(Attempt) /\ Len(problem) > 0
        /\ \A i \in 1 .. Len(problem) :
              LET A == problem[i]
              IN  /\ \A x \in A.starts : RouteNodeOf[x] \in TreeNodes
                  /\ \A x, y \in SearchNode :
                        <<x, y>> \in A.steps /\ RouteNodeOf[y] \in Roots
                            => y \in A.starts /\ A.start_cost[y] = 0

VARIABLES
    problem, attempt,   \* the attempts of this sink, and the current one
    frontier,           \* entries of the heap
    best_cost, parent,  \* partial functions of the search nodes reached
    result, path        \* "searching", "none" or "found", and the wires of the path

vars == <<problem, attempt, frontier, best_cost, parent, result, path>>

Current == problem[attempt]

Entry == [node : SearchNode, cost : Nat, priority : Nat]

\* seed_search
Seeds(A) ==
    {[node |-> x, cost |-> A.start_cost[x], priority |-> A.start_priority[x]] : x \in A.starts}

SeedCosts(A) == [x \in A.starts |-> A.start_cost[x]]

Init ==
    /\ problem \in Problems
    /\ attempt = 1
    /\ frontier = Seeds(problem[1])
    /\ best_cost = SeedCosts(problem[1])
    /\ parent = <<>>
    /\ result = "searching"
    /\ path = <<>>

\* frontier_heap_pop
Popped(e) == e \in frontier /\ \A f \in frontier : e.priority <= f.priority

HasPrevious(x) == x \in DOMAIN parent /\ parent[x] # NoNode

\* reconstruct_search_path
SearchPath[x \in SearchNode] ==
    IF HasPrevious(x) THEN Append(SearchPath[parent[x]], RouteNodeOf[x])
    ELSE <<RouteNodeOf[x]>>

PopGoal ==
    /\ result = "searching"
    /\ \E e \in frontier :
          /\ Popped(e)
          /\ e.node \in Current.goals
          /\ frontier' = frontier \ {e}
          /\ result' = "found"
          /\ path' = SearchPath[e.node]
    /\ UNCHANGED <<problem, attempt, best_cost, parent>>

\* Mutant: the entry that set the cost counts as stale as well.
Stale_Always(e) == e.node \in DOMAIN best_cost => e.cost >= best_cost[e.node]

Stale(e) == e.node \in DOMAIN best_cost => e.cost > best_cost[e.node]

PopStale ==
    /\ result = "searching"
    /\ \E e \in frontier :
          /\ Popped(e)
          /\ e.node \notin Current.goals
          /\ Stale(e)
          /\ frontier' = frontier \ {e}
    /\ UNCHANGED <<problem, attempt, best_cost, parent, result, path>>

\* Mutant: a step of equal cost replaces the one before.
Improves_OrEqual(y, cost) == y \notin DOMAIN best_cost \/ cost <= best_cost[y]

Improves(y, cost) == y \notin DOMAIN best_cost \/ cost < best_cost[y]

\* Mutant: a path runs on through the tree it meets.
JoinsTree_Never(y) == FALSE

\* joins_existing_tree: a path that meets the tree starts there.
JoinsTree(y) == RouteNodeOf[y] \in TreeNodes \ Roots

CostVia(e, y) == e.cost + Current.cost[<<e.node, y>>]

Improved(e) ==
    {y \in SearchNode : <<e.node, y>> \in Current.steps /\ Improves(y, CostVia(e, y))}

Expand ==
    /\ result = "searching"
    /\ \E e \in frontier :
          /\ Popped(e)
          /\ e.node \notin Current.goals
          /\ ~Stale(e)
          /\ best_cost' = [y \in DOMAIN best_cost \cup Improved(e) |->
               IF y \in Improved(e) THEN CostVia(e, y) ELSE best_cost[y]]
          /\ parent' = [y \in DOMAIN parent \cup Improved(e) |->
               IF y \notin Improved(e) THEN parent[y]
               ELSE IF JoinsTree(y) THEN NoNode ELSE e.node]
          /\ frontier' = (frontier \ {e}) \cup
               {[node |-> y, cost |-> CostVia(e, y),
                 priority |-> CostVia(e, y) + Current.estimate[y]] : y \in Improved(e)}
    /\ UNCHANGED <<problem, attempt, result, path>>

\* Mutant: the search is repeated with the guide it failed with.
NextAttempt_SameGuide ==
    /\ result = "searching" /\ frontier = {}
    /\ attempt < Len(problem)
    /\ frontier' = Seeds(problem[attempt])
    /\ best_cost' = SeedCosts(problem[attempt])
    /\ parent' = <<>>
    /\ UNCHANGED <<problem, attempt, result, path>>

\* Nothing is left: relax the guide, or give the sink up.
NextAttempt ==
    /\ result = "searching" /\ frontier = {}
    /\ attempt < Len(problem)
    /\ attempt' = attempt + 1
    /\ frontier' = Seeds(problem[attempt + 1])
    /\ best_cost' = SeedCosts(problem[attempt + 1])
    /\ parent' = <<>>
    /\ UNCHANGED <<problem, result, path>>

GiveUp ==
    /\ result = "searching" /\ frontier = {}
    /\ attempt = Len(problem)
    /\ result' = "none"
    /\ UNCHANGED <<problem, attempt, frontier, best_cost, parent, path>>

Returned == result # "searching" /\ UNCHANGED vars

Next ==
    \/ PopGoal
    \/ PopStale
    \/ Expand
    \/ NextAttempt
    \/ GiveUp
    \/ Returned

Spec == Init /\ [][Next]_vars /\ WF_vars(Next)

-----------------------------------------------------------------------------

TypeOK ==
    /\ problem \in Problems
    /\ attempt \in 1 .. Len(problem)
    /\ frontier \subseteq Entry
    /\ DOMAIN best_cost \subseteq SearchNode
    /\ \A x \in DOMAIN best_cost : best_cost[x] \in Nat
    /\ DOMAIN parent \subseteq DOMAIN best_cost
    /\ \A x \in DOMAIN parent : parent[x] \in DOMAIN best_cost \cup {NoNode}

\* The loop that reconstructs a path follows parents until there is none, with
\* no bound of its own.  It ends because no set of nodes is closed under
\* `parent`, although parents are replaced while they are in use and stitches
\* cost nothing in either direction.
ParentsAcyclic ==
    \A S \in SUBSET DOMAIN parent : S # {} => \E x \in S : parent[x] \notin S

\* No two search nodes of an attempt are the same wire: so it is when wires are
\* searched, and along a guide that comes to no tile twice.
Reachable(A) == A.starts \cup {step[2] : step \in A.steps}

OverWires(A) ==
    \A x, y \in Reachable(A) \cup A.goals : RouteNodeOf[x] = RouteNodeOf[y] => x = y

\* A path that is returned starts at the tree and does not meet it again,
\* takes allowed steps and ends at a goal.  It passes no wire twice and stops at
\* the first goal, as RouteNegotiation takes any search to do, unless its guide
\* leads over a tile again: then it is only a place of the guide that cannot be
\* passed twice.
FoundPathLegal ==
    result = "found" =>
        /\ path[1] \in TreeNodes
        /\ \A i \in 2 .. Len(path) : path[i] \notin TreeNodes
        /\ \A i \in 2 .. Len(path) : \E step \in Current.steps :
              RouteNodeOf[step[1]] = path[i - 1] /\ RouteNodeOf[step[2]] = path[i]
        /\ \E goal \in Current.goals : RouteNodeOf[goal] = path[Len(path)]
        /\ OverWires(Current) =>
              /\ \A i, j \in 1 .. Len(path) : path[i] = path[j] => i = j
              /\ \A i \in 1 .. Len(path) - 1 : \A goal \in Current.goals :
                    RouteNodeOf[goal] # path[i]

\* Some set that holds the starts and is closed under steps has no goal.
Unreachable(A) ==
    \E X \in SUBSET SearchNode :
        /\ A.starts \subseteq X
        /\ \A step \in A.steps : step[1] \in X => step[2] \in X
        /\ X \cap A.goals = {}

\* A sink is given up, or the guide relaxed, only when no path exists: lazy
\* deletion, entries that are stale and costs that a guide penalizes lose none.
NothingMissed ==
    \A i \in 1 .. Len(problem) :
        i < attempt \/ result = "none" => Unreachable(problem[i])

\* Every search returns.
Returns == <>(result # "searching")
=============================================================================
