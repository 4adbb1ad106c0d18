------------------------- MODULE RouteSearch_proofs -------------------------
(***************************************************************************)
(* Proofs about the search for a sink, its heap and its guides.  Whatever  *)
(* the fabric, the costs and the guide, parents never form a cycle and no  *)
(* reachable sink is missed; following a guide in order allows no wire     *)
(* that the attempts after it forbid.  A guide is a shortest way over the  *)
(* old route of its net, the distances from it are true ones, what follows *)
(* it in order keeps to it, and the route it was made from is allowed.     *)
(* Popping and pushing keep the heap of search states a heap, whatever has *)
(* been pushed, no entry is lost or duplicated, and what is popped is a    *)
(* least entry.                                                            *)
(***************************************************************************)
EXTENDS RouteSearch, RouteGuide, FrontierHeap, LeastElements, FunctionTheorems

\* The cost of a node never falls below that of its parent, and no entry of the
\* frontier is cheaper than its node.
CostsOrdered ==
    /\ \A x \in DOMAIN parent :
          parent[x] # NoNode => best_cost[parent[x]] <= best_cost[x]
    /\ \A e \in frontier : e.node \in DOMAIN best_cost /\ best_cost[e.node] <= e.cost

\* A node that was reached is waiting in the frontier at its best cost, or it
\* is no goal and all its successors were reached.
Explored ==
    /\ Current.starts \subseteq DOMAIN best_cost
    /\ \A x \in DOMAIN best_cost :
          \/ \E e \in frontier : e.node = x /\ e.cost = best_cost[x]
          \/ /\ x \notin Current.goals
             /\ \A y \in SearchNode : <<x, y>> \in Current.steps => y \in DOMAIN best_cost

SearchInv ==
    /\ TypeOK
    /\ CostsOrdered
    /\ ParentsAcyclic
    /\ result # "found" => Explored
    /\ NothingMissed

\* What the constants say of an attempt.
LEMMA AttemptTyped ==
    ASSUME NEW p \in Problems, NEW i \in 1 .. Len(p)
    PROVE  /\ p[i] \in Attempt
           /\ p[i].starts \subseteq SearchNode
           /\ p[i].steps \subseteq SearchNode \X SearchNode
           /\ \A x \in SearchNode : /\ p[i].start_cost[x] \in Nat
                                    /\ p[i].start_priority[x] \in Nat
                                    /\ p[i].estimate[x] \in Nat
           /\ \A x, y \in SearchNode : p[i].cost[<<x, y>>] \in Nat
<1>1. p \in Seq(Attempt)
  BY ProblemsAssumption
<1>2. p[i] \in Attempt
  BY <1>1
<1> QED
  BY <1>2 DEF Attempt

\* Replacing the parent of y by x, when that lowers y to a cost not below that
\* of x, closes no cycle: the nodes of a cycle that were cheaper than y was
\* would have been a cycle before.
LEMMA NewParentsAcyclic ==
    ASSUME TypeOK, CostsOrdered, ParentsAcyclic,
           NEW e \in frontier, ~Stale(e),
           NEW S \in SUBSET (DOMAIN parent \cup Improved(e)), S # {},
           \A y \in S : IF y \in Improved(e) THEN ~JoinsTree(y) /\ e.node \in S
                        ELSE parent[y] \in S
    PROVE  FALSE
<1>0. e.node \in DOMAIN best_cost /\ e.cost = best_cost[e.node] /\ e.cost \in Nat
  BY DEF Stale, CostsOrdered, TypeOK, Entry
<1>1. \A y \in Improved(e) : y \in DOMAIN best_cost => best_cost[e.node] < best_cost[y]
  <2> SUFFICES ASSUME NEW y \in Improved(e), y \in DOMAIN best_cost
               PROVE  best_cost[e.node] < best_cost[y]
    OBVIOUS
  <2>1. y \in SearchNode /\ e.cost + Current.cost[<<e.node, y>>] < best_cost[y]
    BY DEF Improved, Improves, CostVia
  <2>2. Current.cost[<<e.node, y>>] \in Nat
    BY <2>1, AttemptTyped DEF TypeOK, Entry, Current
  <2>3. best_cost[y] \in Nat
    BY DEF TypeOK
  <2> QED
    BY <1>0, <2>1, <2>2, <2>3
<1> DEFINE M == {y \in S : /\ y \in DOMAIN parent
                           /\ y \in DOMAIN best_cost
                           /\ best_cost[y] <= best_cost[e.node]}
<1>2. \A y \in M : y \notin Improved(e) /\ parent[y] \in S
  BY <1>0, <1>1 DEF TypeOK
<1>3. CASE \E y \in S : y \in Improved(e)
  <2>1. e.node \in S
    BY <1>3
  <2>2. e.node \notin Improved(e)
    BY <1>0, <1>1 DEF TypeOK
  <2>3. e.node \in M
    BY <1>0, <2>1, <2>2 DEF TypeOK
  <2>4. \A y \in M : parent[y] \in M
    <3> SUFFICES ASSUME NEW y \in M
                 PROVE  parent[y] \in M
      OBVIOUS
    <3>1. parent[y] # NoNode
      BY <1>2, NodesAssumption DEF TypeOK, Improved
    <3>2. /\ parent[y] \in DOMAIN best_cost
          /\ best_cost[parent[y]] <= best_cost[y]
      BY <3>1 DEF TypeOK, CostsOrdered
    <3>3. best_cost[parent[y]] <= best_cost[e.node]
      BY <1>0, <3>2 DEF TypeOK
    <3>4. parent[y] \notin Improved(e)
      BY <1>0, <1>1, <3>2, <3>3 DEF TypeOK
    <3> QED
      BY <1>2, <3>2, <3>3, <3>4
  <2>5. M \in SUBSET DOMAIN parent
    OBVIOUS
  <2> HIDE DEF M
  <2> QED
    BY <2>3, <2>4, <2>5 DEF ParentsAcyclic
<1>4. CASE \A y \in S : y \notin Improved(e)
  <2>1. S \in SUBSET DOMAIN parent /\ \A y \in S : parent[y] \in S
    BY <1>4
  <2> QED
    BY <2>1 DEF ParentsAcyclic
<1> QED
  BY <1>3, <1>4

-----------------------------------------------------------------------------

\* A search that begins is well typed and has only its starts to explore.
LEMMA SeededInv ==
    ASSUME NEW p \in Problems, NEW i \in 1 .. Len(p),
           problem = p, attempt = i, frontier = Seeds(p[i]),
           best_cost = SeedCosts(p[i]), parent = <<>>
    PROVE  /\ TypeOK /\ CostsOrdered /\ ParentsAcyclic /\ Explored
<1>1. /\ p[i].starts \subseteq SearchNode
      /\ \A x \in SearchNode : p[i].start_cost[x] \in Nat /\ p[i].start_priority[x] \in Nat
  BY AttemptTyped
<1>2. DOMAIN parent = {}
  OBVIOUS
<1>3. DOMAIN best_cost = p[i].starts /\ \A x \in p[i].starts : best_cost[x] = p[i].start_cost[x]
  BY DEF SeedCosts
<1>4. TypeOK
  BY <1>1, <1>2, <1>3 DEF TypeOK, Seeds, Entry
<1>5. CostsOrdered
  BY <1>1, <1>2, <1>3 DEF CostsOrdered, Seeds
<1>6. ParentsAcyclic
  BY <1>2 DEF ParentsAcyclic
<1>7. Explored
  <2>1. \A x \in p[i].starts :
            [node |-> x, cost |-> p[i].start_cost[x], priority |-> p[i].start_priority[x]]
              \in frontier
    BY DEF Seeds
  <2>2. \A x \in p[i].starts : \E e \in frontier : e.node = x /\ e.cost = best_cost[x]
    BY <1>3, <2>1
  <2> QED
    BY <1>3, <2>2 DEF Explored, Current
<1> QED
  BY <1>4, <1>5, <1>6, <1>7

LEMMA InitInv == Init => SearchInv
<1> SUFFICES ASSUME Init PROVE SearchInv
  OBVIOUS
<1>1. 1 \in 1 .. Len(problem)
  BY ProblemsAssumption DEF Init
<1>2. TypeOK /\ CostsOrdered /\ ParentsAcyclic /\ Explored
  BY <1>1, SeededInv DEF Init
<1>3. NothingMissed
  BY <1>1 DEF Init, NothingMissed
<1> QED
  BY <1>2, <1>3 DEF SearchInv

LEMMA PopGoalInv == SearchInv /\ PopGoal => SearchInv'
BY DEF SearchInv, PopGoal, TypeOK, CostsOrdered, ParentsAcyclic, NothingMissed

LEMMA PopStaleInv == SearchInv /\ PopStale => SearchInv'
<1> SUFFICES ASSUME SearchInv, PopStale PROVE SearchInv'
  OBVIOUS
<1> PICK e \in frontier : Stale(e) /\ frontier' = frontier \ {e}
  BY DEF PopStale
<1>1. e.cost # best_cost[e.node]
  <2>1. e.node \in DOMAIN best_cost /\ e.cost > best_cost[e.node]
    BY DEF Stale, SearchInv, CostsOrdered
  <2>2. e.cost \in Nat /\ best_cost[e.node] \in Nat
    BY <2>1 DEF SearchInv, TypeOK, Entry
  <2> QED
    BY <2>1, <2>2
<1>2. Explored'
  BY <1>1 DEF SearchInv, PopStale, Explored, Current
<1> QED
  BY <1>2 DEF SearchInv, PopStale, TypeOK, CostsOrdered, ParentsAcyclic, NothingMissed

LEMMA NextAttemptInv == SearchInv /\ NextAttempt => SearchInv'
<1> SUFFICES ASSUME SearchInv, NextAttempt PROVE SearchInv'
  OBVIOUS
<1>1. problem \in Problems /\ attempt + 1 \in 1 .. Len(problem) /\ attempt \in 1 .. Len(problem)
  BY ProblemsAssumption DEF SearchInv, TypeOK, NextAttempt
<1> DEFINE A == problem[attempt + 1]
<1>2. (TypeOK /\ CostsOrdered /\ ParentsAcyclic /\ Explored)'
  <2>1. /\ A.starts \subseteq SearchNode
        /\ \A x \in SearchNode : A.start_cost[x] \in Nat /\ A.start_priority[x] \in Nat
    BY <1>1, AttemptTyped
  <2>2. /\ parent' = <<>> /\ DOMAIN parent' = {} /\ frontier' = Seeds(A) /\ Current' = A
        /\ problem' = problem /\ attempt' = attempt + 1
    BY DEF NextAttempt, Current
  <2>3. DOMAIN best_cost' = A.starts /\ \A x \in A.starts : best_cost'[x] = A.start_cost[x]
    BY DEF NextAttempt, SeedCosts
  <2> HIDE DEF A
  <2>4. TypeOK'
    BY <1>1, <2>1, <2>2, <2>3 DEF TypeOK, Seeds, Entry
  <2>5. CostsOrdered'
    BY <2>1, <2>2, <2>3 DEF CostsOrdered, Seeds
  <2>6. ParentsAcyclic'
    BY <2>2 DEF ParentsAcyclic
  <2>7. Explored'
    <3>1. \A x \in A.starts :
              [node |-> x, cost |-> A.start_cost[x], priority |-> A.start_priority[x]]
                \in frontier'
      BY <2>2 DEF Seeds
    <3>2. \A x \in A.starts : \E e \in frontier' : e.node = x /\ e.cost = best_cost'[x]
      BY <2>3, <3>1
    <3> QED
      BY <2>2, <2>3, <3>2 DEF Explored
  <2> QED
    BY <2>4, <2>5, <2>6, <2>7
<1>3. Unreachable(problem[attempt])
  <2>1. Explored /\ frontier = {}
    BY DEF SearchInv, NextAttempt
  <2>2. DOMAIN best_cost \in SUBSET SearchNode
    BY DEF SearchInv, TypeOK
  <2>3. problem[attempt].steps \subseteq SearchNode \X SearchNode
    BY <1>1, AttemptTyped
  <2> QED
    BY <2>1, <2>2, <2>3 DEF Explored, Unreachable, Current
<1>4. NothingMissed'
  <2> SUFFICES ASSUME NEW i \in 1 .. Len(problem), i < attempt + 1
               PROVE  Unreachable(problem[i])
    BY DEF NothingMissed, NextAttempt, Unreachable
  <2>1. i < attempt \/ i = attempt
    BY <1>1
  <2> QED
    BY <1>3, <2>1 DEF SearchInv, NothingMissed
<1> QED
  BY <1>2, <1>4 DEF SearchInv

LEMMA GiveUpInv == SearchInv /\ GiveUp => SearchInv'
<1> SUFFICES ASSUME SearchInv, GiveUp PROVE SearchInv'
  OBVIOUS
<1>1. problem \in Problems /\ attempt \in 1 .. Len(problem)
  BY DEF SearchInv, TypeOK
<1>2. Unreachable(problem[attempt])
  <2>1. Explored /\ frontier = {}
    BY DEF SearchInv, GiveUp
  <2>2. DOMAIN best_cost \in SUBSET SearchNode
    BY DEF SearchInv, TypeOK
  <2>3. problem[attempt].steps \subseteq SearchNode \X SearchNode
    BY <1>1, AttemptTyped
  <2> QED
    BY <2>1, <2>2, <2>3 DEF Explored, Unreachable, Current
<1>3. NothingMissed'
  BY <1>1, <1>2, SMTT(30) DEF SearchInv, NothingMissed, GiveUp, Unreachable
<1>4. (TypeOK /\ CostsOrdered /\ ParentsAcyclic /\ Explored)'
  BY DEF SearchInv, GiveUp, TypeOK, CostsOrdered, ParentsAcyclic, Explored, Current
<1> QED
  BY <1>3, <1>4 DEF SearchInv

LEMMA ExpandInv == SearchInv /\ Expand => SearchInv'
<1> SUFFICES ASSUME SearchInv, Expand PROVE SearchInv'
  OBVIOUS
<1> DEFINE entered(e) == {[node |-> y, cost |-> CostVia(e, y),
                           priority |-> CostVia(e, y) + Current.estimate[y]] : y \in Improved(e)}
<1>1. PICK e \in frontier :
        /\ e.node \notin Current.goals
        /\ ~Stale(e)
        /\ best_cost' = [y \in DOMAIN best_cost \cup Improved(e) |->
               IF y \in Improved(e) THEN CostVia(e, y) ELSE best_cost[y]]
        /\ parent' = [y \in DOMAIN parent \cup Improved(e) |->
               IF y \notin Improved(e) THEN parent[y]
               ELSE IF JoinsTree(y) THEN NoNode ELSE e.node]
        /\ frontier' = (frontier \ {e}) \cup entered(e)
  BY DEF Expand
<1>2. /\ result = "searching" /\ result' = result /\ problem' = problem
      /\ attempt' = attempt /\ Current' = Current
  BY DEF Expand, Current
<1>3. /\ e.node \in SearchNode /\ e.node \in DOMAIN best_cost
      /\ e.cost = best_cost[e.node] /\ e.cost \in Nat
  BY <1>1 DEF Stale, SearchInv, CostsOrdered, TypeOK, Entry
<1>4. \A y \in Improved(e) :
          /\ y \in SearchNode
          /\ CostVia(e, y) \in Nat /\ CostVia(e, y) >= e.cost
          /\ CostVia(e, y) + Current.estimate[y] \in Nat
          /\ y \in DOMAIN best_cost => CostVia(e, y) < best_cost[y]
  BY <1>3, AttemptTyped, SMTT(30) DEF Improved, Improves, CostVia, SearchInv, TypeOK, Current
<1>5. /\ DOMAIN best_cost' = DOMAIN best_cost \cup Improved(e)
      /\ DOMAIN parent' = DOMAIN parent \cup Improved(e)
      /\ \A y \in DOMAIN best_cost' :
            best_cost'[y] = IF y \in Improved(e) THEN CostVia(e, y) ELSE best_cost[y]
      /\ \A y \in DOMAIN parent' :
            parent'[y] = IF y \notin Improved(e) THEN parent[y]
                         ELSE IF JoinsTree(y) THEN NoNode ELSE e.node
  BY <1>1
<1>6. e.node \notin Improved(e)
  BY <1>3, <1>4
<1>7. \A y \in DOMAIN best_cost : best_cost'[y] \in Nat /\ best_cost'[y] <= best_cost[y]
  BY <1>4, <1>5 DEF SearchInv, TypeOK
<1>8. TypeOK'
  <2>1. entered(e) \subseteq Entry
    BY <1>4 DEF Entry
  <2>2. frontier' \subseteq Entry
    BY <1>1, <2>1 DEF SearchInv, TypeOK
  <2>3. /\ DOMAIN best_cost' \subseteq SearchNode
        /\ \A y \in DOMAIN best_cost' : best_cost'[y] \in Nat
    BY <1>4, <1>5, <1>7 DEF SearchInv, TypeOK
  <2>4. /\ DOMAIN parent' \subseteq DOMAIN best_cost'
        /\ \A y \in DOMAIN parent' : parent'[y] \in DOMAIN best_cost' \cup {NoNode}
    BY <1>3, <1>5 DEF SearchInv, TypeOK
  <2> QED
    BY <1>2, <2>2, <2>3, <2>4 DEF SearchInv, TypeOK
<1>9. CostsOrdered'
  <2>1. ASSUME NEW y \in DOMAIN parent', parent'[y] # NoNode
        PROVE  best_cost'[parent'[y]] <= best_cost'[y]
    <3>1. CASE y \in Improved(e)
      <4>1. parent'[y] = e.node /\ best_cost'[e.node] = e.cost
        BY <1>3, <1>5, <1>6, <2>1, <3>1
      <4> QED
        BY <1>4, <1>5, <3>1, <4>1
    <3>2. CASE y \notin Improved(e)
      <4>1. /\ y \in DOMAIN parent /\ parent'[y] = parent[y] /\ y \in DOMAIN best_cost
            /\ parent[y] \in DOMAIN best_cost /\ best_cost'[y] = best_cost[y]
        BY <1>5, <2>1, <3>2 DEF SearchInv, TypeOK
      <4>2. best_cost[parent[y]] <= best_cost[y]
        BY <2>1, <4>1 DEF SearchInv, CostsOrdered
      <4> QED
        BY <1>7, <4>1, <4>2 DEF SearchInv, TypeOK
    <3> QED
      BY <3>1, <3>2
  <2>2. ASSUME NEW f \in frontier'
        PROVE  f.node \in DOMAIN best_cost' /\ best_cost'[f.node] <= f.cost
    <3>1. CASE f \in frontier
      <4>1. /\ f.node \in DOMAIN best_cost /\ best_cost[f.node] <= f.cost
            /\ f.cost \in Nat /\ best_cost[f.node] \in Nat
        BY <3>1 DEF SearchInv, CostsOrdered, TypeOK, Entry
      <4> QED
        BY <1>5, <1>7, <4>1
    <3>2. CASE f \in entered(e)
      <4>1. PICK y \in Improved(e) : f.node = y /\ f.cost = CostVia(e, y)
        BY <3>2
      <4> QED
        BY <1>4, <1>5, <4>1
    <3> QED
      BY <1>1, <2>2, <3>1, <3>2
  <2> QED
    BY <2>1, <2>2 DEF CostsOrdered
<1>10. ParentsAcyclic'
  <2> SUFFICES ASSUME NEW S \in SUBSET DOMAIN parent', S # {},
                      \A y \in S : parent'[y] \in S
               PROVE  FALSE
    BY DEF ParentsAcyclic
  <2>1. NoNode \notin S
    BY <1>4, <1>5, NodesAssumption DEF SearchInv, TypeOK
  <2>2. \A y \in S : IF y \in Improved(e) THEN ~JoinsTree(y) /\ e.node \in S
                      ELSE parent[y] \in S
    BY <1>5, <2>1
  <2>3. S \in SUBSET (DOMAIN parent \cup Improved(e))
    BY <1>5
  <2> QED
    BY <1>1, <2>2, <2>3, NewParentsAcyclic DEF SearchInv
<1>11. Explored'
  <2>0. Explored
    BY <1>2 DEF SearchInv
  <2>1. (Current.starts \subseteq DOMAIN best_cost)'
    BY <1>2, <1>5, <2>0 DEF Explored
  <2>2. ASSUME NEW y \in DOMAIN best_cost'
        PROVE  \/ \E f \in frontier' : f.node = y /\ f.cost = best_cost'[y]
               \/ /\ y \notin Current.goals
                  /\ \A z \in SearchNode : <<y, z>> \in Current.steps => z \in DOMAIN best_cost'
    <3>1. CASE y \in Improved(e)
      <4> DEFINE f == [node |-> y, cost |-> CostVia(e, y),
                       priority |-> CostVia(e, y) + Current.estimate[y]]
      <4>1. f \in frontier'
        BY <1>1, <3>1
      <4>2. f.node = y /\ f.cost = best_cost'[y]
        BY <1>5, <3>1
      <4> QED
        BY <4>1, <4>2
    <3>2. CASE y = e.node
      <4>1. \A z \in SearchNode : <<y, z>> \in Current.steps => z \in DOMAIN best_cost'
        BY <1>5, <3>2 DEF Improved, Improves
      <4> QED
        BY <1>1, <3>2, <4>1
    <3>3. CASE y \notin Improved(e) /\ y # e.node
      <4>1. y \in DOMAIN best_cost /\ best_cost'[y] = best_cost[y]
        BY <1>5, <3>3
      <4>2. CASE \E f \in frontier : f.node = y /\ f.cost = best_cost[y]
        BY <1>1, <3>3, <4>1, <4>2
      <4>3. CASE /\ y \notin Current.goals
                 /\ \A z \in SearchNode : <<y, z>> \in Current.steps => z \in DOMAIN best_cost
        BY <1>5, <4>3
      <4> QED
        BY <2>0, <4>1, <4>2, <4>3 DEF Explored
    <3> QED
      BY <3>1, <3>2, <3>3
  <2> QED
    BY <1>2, <2>1, <2>2 DEF Explored
<1>12. NothingMissed'
  BY <1>2 DEF SearchInv, NothingMissed, Unreachable
<1> QED
  BY <1>8, <1>9, <1>10, <1>11, <1>12 DEF SearchInv

-----------------------------------------------------------------------------

\* The inductive invariant holds in every behaviour.
THEOREM SearchInvariant == Spec => []SearchInv
<1>1. SearchInv /\ [Next]_vars => SearchInv'
  <2> SUFFICES ASSUME SearchInv, [Next]_vars PROVE SearchInv'
    OBVIOUS
  <2>1. CASE PopGoal
    BY <2>1, PopGoalInv
  <2>2. CASE PopStale
    BY <2>2, PopStaleInv
  <2>3. CASE Expand
    BY <2>3, ExpandInv
  <2>4. CASE NextAttempt
    BY <2>4, NextAttemptInv
  <2>5. CASE GiveUp
    BY <2>5, GiveUpInv
  <2>6. CASE UNCHANGED vars
    BY <2>6 DEF vars, SearchInv, TypeOK, CostsOrdered, ParentsAcyclic, Explored,
                NothingMissed, Current, Unreachable
  <2> QED
    BY <2>1, <2>2, <2>3, <2>4, <2>5, <2>6 DEF Next, Returned
<1> QED
  BY <1>1, InitInv, PTL DEF Spec

\* Following parents always ends: the search's parents are acyclic in every
\* state, for every fabric, cost and heuristic.
THEOREM ParentsAcyclicHolds == Spec => []ParentsAcyclic
BY SearchInvariant, PTL DEF SearchInv

\* A sink is given up, and a guide relaxed, only when no path exists.
THEOREM NothingMissedHolds == Spec => []NothingMissed
BY SearchInvariant, PTL DEF SearchInv

-----------------------------------------------------------------------------
(* The path that is returned.  Its definition follows parents, so that it  *)
(* is by acyclic parents that it is defined at all.                        *)

\* f gives the nodes of D, a set that parents do not leave, their paths.
Trace(f, D) ==
    \A x \in D :
        /\ HasPrevious(x) => parent[x] \in D
        /\ f[x] = IF HasPrevious(x) THEN Append(f[parent[x]], RouteNodeOf[x])
                  ELSE <<RouteNodeOf[x]>>

LEMMA TracesAgree ==
    ASSUME ParentsAcyclic,
           NEW D1, NEW f1, Trace(f1, D1),
           NEW D2, NEW f2, Trace(f2, D2),
           NEW x \in D1 \cap D2
    PROVE  f1[x] = f2[x]
<1> DEFINE S == {y \in D1 \cap D2 : f1[y] # f2[y]}
<1>1. ASSUME S # {} PROVE FALSE
  <2>1. S \in SUBSET DOMAIN parent
    BY DEF Trace, HasPrevious
  <2>2. PICK y \in S : parent[y] \notin S
    BY <1>1, <2>1 DEF ParentsAcyclic
  <2>3. HasPrevious(y)
    BY DEF Trace
  <2>4. parent[y] \in D1 \cap D2 /\ f1[parent[y]] = f2[parent[y]]
    BY <2>2, <2>3 DEF Trace
  <2> QED
    BY <2>3, <2>4 DEF Trace
<1> QED
  BY <1>1

\* Every node has its path: one whose parent has one has one itself, and no set
\* of nodes without is closed under parents.
LEMMA TraceExists ==
    ASSUME TypeOK, ParentsAcyclic, NEW x \in SearchNode
    PROVE  \E D \in SUBSET SearchNode : \E f \in [D -> Seq(RouteNode)] : x \in D /\ Trace(f, D)
<1> DEFINE Traced(y) ==
      \E D \in SUBSET SearchNode : \E f \in [D -> Seq(RouteNode)] : y \in D /\ Trace(f, D)
           S == {y \in SearchNode : ~Traced(y)}
<1>1. ASSUME NEW y \in SearchNode, ~HasPrevious(y) PROVE Traced(y)
  <2>1. [z \in {y} |-> <<RouteNodeOf[y]>>] \in [{y} -> Seq(RouteNode)]
    BY NodesAssumption
  <2>2. Trace([z \in {y} |-> <<RouteNodeOf[y]>>], {y})
    BY <1>1 DEF Trace
  <2> QED
    BY <2>1, <2>2
<1>2. ASSUME NEW y \in SearchNode, HasPrevious(y), Traced(parent[y]) PROVE Traced(y)
  <2>1. PICK D \in SUBSET SearchNode :
               \E f \in [D -> Seq(RouteNode)] : parent[y] \in D /\ Trace(f, D)
    BY <1>2
  <2>2. PICK f \in [D -> Seq(RouteNode)] : parent[y] \in D /\ Trace(f, D)
    BY <2>1
  <2> DEFINE g == [z \in D \cup {y} |-> IF z \in D THEN f[z]
                                       ELSE Append(f[parent[y]], RouteNodeOf[y])]
  <2>3. f[parent[y]] \in Seq(RouteNode) /\ RouteNodeOf[y] \in RouteNode
    BY <2>2, NodesAssumption
  <2>4. Append(f[parent[y]], RouteNodeOf[y]) \in Seq(RouteNode)
    BY <2>3
  <2>5. g \in [D \cup {y} -> Seq(RouteNode)]
    BY <2>4
  <2>6. Trace(g, D \cup {y})
    <3> SUFFICES ASSUME NEW z \in D \cup {y}
                 PROVE  /\ HasPrevious(z) => parent[z] \in D \cup {y}
                        /\ g[z] = IF HasPrevious(z) THEN Append(g[parent[z]], RouteNodeOf[z])
                                  ELSE <<RouteNodeOf[z]>>
      BY DEF Trace
    <3>1. CASE z \in D
      BY <2>2, <3>1 DEF Trace
    <3>2. CASE z \notin D
      <4>1. z = y /\ g[z] = Append(f[parent[y]], RouteNodeOf[y]) /\ g[parent[y]] = f[parent[y]]
        BY <2>2, <3>2
      <4> QED
        BY <1>2, <2>2, <4>1
    <3> QED
      BY <3>1, <3>2
  <2>7. D \cup {y} \in SUBSET SearchNode /\ y \in D \cup {y}
    OBVIOUS
  <2> HIDE DEF g
  <2> QED
    BY <2>5, <2>6, <2>7
<1> HIDE DEF Traced
<1>3. ASSUME S # {} PROVE FALSE
  <2>1. S \in SUBSET DOMAIN parent
    BY <1>1 DEF HasPrevious
  <2>2. PICK y \in S : parent[y] \notin S
    BY <1>3, <2>1 DEF ParentsAcyclic
  <2>3. HasPrevious(y)
    BY <1>1
  <2>4. parent[y] \in SearchNode
    BY <2>3 DEF HasPrevious, TypeOK
  <2> QED
    BY <1>2, <2>2, <2>3, <2>4
<1> QED
  BY <1>3 DEF Traced

LEMMA SearchPathFollowsParents ==
    ASSUME TypeOK, ParentsAcyclic
    PROVE  \A x \in SearchNode :
              /\ SearchPath[x] \in Seq(RouteNode)
              /\ SearchPath[x] = IF HasPrevious(x) THEN Append(SearchPath[parent[x]], RouteNodeOf[x])
                                 ELSE <<RouteNodeOf[x]>>
<1> DEFINE Gives(x, s) ==
      \E D \in SUBSET SearchNode :
        \E f \in [D -> Seq(RouteNode)] : x \in D /\ Trace(f, D) /\ s = f[x]
           h == [x \in SearchNode |-> CHOOSE s : Gives(x, s)]
<1>1. ASSUME NEW D \in SUBSET SearchNode, NEW f \in [D -> Seq(RouteNode)], Trace(f, D),
             NEW x \in D
      PROVE  h[x] = f[x]
  <2>1. Gives(x, f[x])
    BY <1>1
  <2>2. Gives(x, h[x])
    BY <2>1
  <2>3. PICK D2 \in SUBSET SearchNode :
               \E f2 \in [D2 -> Seq(RouteNode)] : x \in D2 /\ Trace(f2, D2) /\ h[x] = f2[x]
    BY <2>2
  <2>4. PICK f2 \in [D2 -> Seq(RouteNode)] : x \in D2 /\ Trace(f2, D2) /\ h[x] = f2[x]
    BY <2>3
  <2> QED
    BY <1>1, <2>4, TracesAgree
<1> HIDE DEF h
<1>2. ASSUME NEW x \in SearchNode
      PROVE  /\ h[x] \in Seq(RouteNode)
             /\ h[x] = IF HasPrevious(x) THEN Append(h[parent[x]], RouteNodeOf[x])
                       ELSE <<RouteNodeOf[x]>>
  <2>1. PICK D \in SUBSET SearchNode :
               \E f \in [D -> Seq(RouteNode)] : x \in D /\ Trace(f, D)
    BY TraceExists
  <2>2. PICK f \in [D -> Seq(RouteNode)] : x \in D /\ Trace(f, D)
    BY <2>1
  <2>3. \A y \in D : h[y] = f[y]
    BY <1>1, <2>2
  <2> QED
    BY <2>2, <2>3 DEF Trace
<1>3. h = [x \in SearchNode |->
             IF HasPrevious(x) THEN Append(h[parent[x]], RouteNodeOf[x]) ELSE <<RouteNodeOf[x]>>]
  <2>1. h = [x \in SearchNode |-> h[x]]
    BY DEF h
  <2> QED
    BY <1>2, <2>1
<1>4. SearchPath = [x \in SearchNode |->
             IF HasPrevious(x) THEN Append(SearchPath[parent[x]], RouteNodeOf[x])
             ELSE <<RouteNodeOf[x]>>]
  BY <1>3 DEF SearchPath
<1>5. \A x \in SearchNode :
         SearchPath[x] = IF HasPrevious(x) THEN Append(SearchPath[parent[x]], RouteNodeOf[x])
                         ELSE <<RouteNodeOf[x]>>
  <2> DEFINE F(g) == [x \in SearchNode |->
             IF HasPrevious(x) THEN Append(g[parent[x]], RouteNodeOf[x]) ELSE <<RouteNodeOf[x]>>]
  <2>1. \A x \in SearchNode :
         F(SearchPath)[x] = IF HasPrevious(x) THEN Append(SearchPath[parent[x]], RouteNodeOf[x])
                            ELSE <<RouteNodeOf[x]>>
    OBVIOUS
  <2>2. SearchPath = F(SearchPath)
    BY <1>4
  <2> HIDE DEF F
  <2> QED
    BY <2>1, <2>2
<1>6. \A x \in SearchNode : SearchPath[x] = h[x]
  <2>1. Trace(SearchPath, SearchNode)
    BY <1>5 DEF Trace, TypeOK, HasPrevious
  <2>2. Trace(h, SearchNode)
    BY <1>2 DEF Trace, TypeOK, HasPrevious
  <2> QED
    BY <2>1, <2>2, TracesAgree
<1> QED
  BY <1>2, <1>5, <1>6

\* A node without a previous one is on the tree; any other is not, and was come
\* to by a step from a node that is no goal.
ParentsLegal ==
    /\ DOMAIN best_cost \subseteq Reachable(Current)
    /\ \A x \in DOMAIN best_cost \cap Current.starts : best_cost[x] <= Current.start_cost[x]
    /\ \A x \in DOMAIN best_cost :
          IF HasPrevious(x)
          THEN /\ RouteNodeOf[x] \notin TreeNodes
               /\ parent[x] \notin Current.goals
               /\ <<parent[x], x>> \in Current.steps
          ELSE RouteNodeOf[x] \in TreeNodes

\* A path to x: at each place of it is the wire of a node whose own path ends
\* there, and that is no goal unless it is x.
WayTo(x) ==
    LET p == SearchPath[x]
    IN  /\ p \in Seq(RouteNode) /\ Len(p) > 0
        /\ p[1] \in TreeNodes
        /\ \A i \in 2 .. Len(p) : p[i] \notin TreeNodes
        /\ \A i \in 2 .. Len(p) : \E step \in Current.steps :
              RouteNodeOf[step[1]] = p[i - 1] /\ RouteNodeOf[step[2]] = p[i]
        /\ p[Len(p)] = RouteNodeOf[x]
        /\ \A i \in 1 .. Len(p) : \E u \in DOMAIN best_cost :
              /\ RouteNodeOf[u] = p[i] /\ Len(SearchPath[u]) = i
              /\ i < Len(p) => u \notin Current.goals

LEMMA PathExtended ==
    ASSUME TypeOK, ParentsAcyclic, ParentsLegal,
           NEW x \in DOMAIN best_cost, HasPrevious(x), WayTo(parent[x])
    PROVE  WayTo(x)
<1> DEFINE q == SearchPath[parent[x]]
           p == SearchPath[x]
           n == Len(q)
<1>1. /\ x \in SearchNode /\ parent[x] \in SearchNode /\ parent[x] \in DOMAIN best_cost
      /\ RouteNodeOf[x] \in RouteNode
  BY NodesAssumption DEF HasPrevious, TypeOK
<1>2. p = Append(q, RouteNodeOf[x])
  BY <1>1, SearchPathFollowsParents
<1>3. q \in Seq(RouteNode) /\ n \in Nat /\ n > 0
  BY DEF WayTo
<1>4. p \in Seq(RouteNode) /\ Len(p) = n + 1
  BY <1>1, <1>2, <1>3
<1>5. p[n + 1] = RouteNodeOf[x] /\ \A i \in 1 .. n : p[i] = q[i]
  BY <1>1, <1>2, <1>3
<1>6. /\ RouteNodeOf[x] \notin TreeNodes /\ parent[x] \notin Current.goals
      /\ <<parent[x], x>> \in Current.steps
  BY DEF ParentsLegal
<1>7. q[n] = RouteNodeOf[parent[x]]
  BY DEF WayTo
<1>8. q[1] \in TreeNodes /\ \A i \in 2 .. n : q[i] \notin TreeNodes
  BY DEF WayTo
<1>9. \A i \in 2 .. n : \E step \in Current.steps :
          RouteNodeOf[step[1]] = q[i - 1] /\ RouteNodeOf[step[2]] = q[i]
  BY DEF WayTo
<1>10. \A i \in 1 .. n : \E u \in DOMAIN best_cost :
          /\ RouteNodeOf[u] = q[i] /\ Len(SearchPath[u]) = i
          /\ i < n => u \notin Current.goals
  BY DEF WayTo
<1>11. Len(SearchPath[x]) = n + 1 /\ Len(SearchPath[parent[x]]) = n
  BY <1>4
<1> HIDE DEF p, q, n
<1>12. \A i \in 2 .. n + 1 : p[i] \notin TreeNodes
  <2> SUFFICES ASSUME NEW i \in 2 .. n + 1 PROVE p[i] \notin TreeNodes
    OBVIOUS
  <2> QED
    BY <1>3, <1>5, <1>6, <1>8
<1>13. \A i \in 2 .. n + 1 : \E step \in Current.steps :
          RouteNodeOf[step[1]] = p[i - 1] /\ RouteNodeOf[step[2]] = p[i]
  <2> SUFFICES ASSUME NEW i \in 2 .. n + 1
               PROVE  \E step \in Current.steps :
                        RouteNodeOf[step[1]] = p[i - 1] /\ RouteNodeOf[step[2]] = p[i]
    OBVIOUS
  <2>1. CASE i \in 2 .. n
    <3>1. p[i] = q[i] /\ p[i - 1] = q[i - 1]
      BY <1>3, <1>5, <2>1
    <3> QED
      BY <1>9, <2>1, <3>1
  <2>2. CASE i = n + 1
    <3>1. p[i] = RouteNodeOf[x] /\ p[i - 1] = RouteNodeOf[parent[x]]
      BY <1>3, <1>5, <1>7, <2>2
    <3>2. <<parent[x], x>>[1] = parent[x] /\ <<parent[x], x>>[2] = x
      OBVIOUS
    <3> QED
      BY <1>6, <3>1, <3>2
  <2> QED
    BY <1>3, <2>1, <2>2
<1>14. \A i \in 1 .. n + 1 : \E u \in DOMAIN best_cost :
          /\ RouteNodeOf[u] = p[i] /\ Len(SearchPath[u]) = i
          /\ i < n + 1 => u \notin Current.goals
  <2> SUFFICES ASSUME NEW i \in 1 .. n + 1
               PROVE  \E u \in DOMAIN best_cost :
                        /\ RouteNodeOf[u] = p[i] /\ Len(SearchPath[u]) = i
                        /\ i < n + 1 => u \notin Current.goals
    OBVIOUS
  <2>1. CASE i < n
    BY <1>3, <1>5, <1>10, <2>1
  <2>2. CASE i = n
    BY <1>1, <1>3, <1>5, <1>6, <1>7, <1>11, <2>2
  <2>3. CASE i = n + 1
    BY <1>3, <1>5, <1>11, <2>3
  <2> QED
    BY <1>3, <2>1, <2>2, <2>3
<1>15. p[1] \in TreeNodes
  BY <1>3, <1>5, <1>8
<1> USE DEF p
<1> QED
  BY <1>3, <1>4, <1>5, <1>12, <1>13, <1>14, <1>15 DEF WayTo

LEMMA PathsReached ==
    ASSUME TypeOK, ParentsAcyclic, ParentsLegal
    PROVE  \A x \in DOMAIN best_cost : WayTo(x)
<1> DEFINE S == {x \in DOMAIN best_cost : ~WayTo(x)}
<1>1. ASSUME NEW x \in DOMAIN best_cost, ~HasPrevious(x) PROVE WayTo(x)
  <2>1. x \in SearchNode /\ RouteNodeOf[x] \in TreeNodes /\ RouteNodeOf[x] \in RouteNode
    BY <1>1, NodesAssumption DEF TypeOK, ParentsLegal
  <2>2. SearchPath[x] = <<RouteNodeOf[x]>>
    BY <1>1, <2>1, SearchPathFollowsParents
  <2>3. Len(SearchPath[x]) = 1 /\ SearchPath[x][1] = RouteNodeOf[x]
    BY <2>2
  <2>4. SearchPath[x] \in Seq(RouteNode)
    BY <2>1, <2>2
  <2> QED
    BY <1>1, <2>1, <2>3, <2>4 DEF WayTo
<1>2. ASSUME S # {} PROVE FALSE
  <2>1. S \in SUBSET DOMAIN parent
    BY <1>1 DEF HasPrevious
  <2>2. PICK x \in S : parent[x] \notin S
    BY <1>2, <2>1 DEF ParentsAcyclic
  <2>3. HasPrevious(x)
    BY <1>1
  <2>4. parent[x] \in DOMAIN best_cost
    BY <2>3 DEF HasPrevious, TypeOK
  <2> QED
    BY <2>2, <2>3, <2>4, PathExtended
<1> QED
  BY <1>2

\* Once found, a path stays as it was.
PathInv == SearchInv /\ ParentsLegal /\ FoundPathLegal

LEMMA GoalPathLegal ==
    ASSUME SearchInv, ParentsLegal, PopGoal PROVE FoundPathLegal'
<1>1. PICK e \in frontier : e.node \in Current.goals /\ path' = SearchPath[e.node]
  BY DEF PopGoal
<1>2. e.node \in DOMAIN best_cost /\ TypeOK /\ ParentsAcyclic
  BY DEF SearchInv, CostsOrdered
<1>3. WayTo(e.node)
  BY <1>2, PathsReached
<1> DEFINE p == SearchPath[e.node]
<1>4. Len(p) \in Nat /\ Len(p) > 0
  BY <1>3 DEF WayTo
<1>5. ASSUME OverWires(Current)
      PROVE  /\ \A i, j \in 1 .. Len(p) : p[i] = p[j] => i = j
             /\ \A i \in 1 .. Len(p) - 1 : \A goal \in Current.goals : RouteNodeOf[goal] # p[i]
  <2>1. \A i \in 1 .. Len(p) : \E u \in DOMAIN best_cost :
          /\ RouteNodeOf[u] = p[i] /\ Len(SearchPath[u]) = i
          /\ i < Len(p) => u \notin Current.goals
    BY <1>3 DEF WayTo
  <2>2. \A u, v \in DOMAIN best_cost \cup Current.goals : RouteNodeOf[u] = RouteNodeOf[v] => u = v
    BY <1>5 DEF ParentsLegal, OverWires
  <2> HIDE DEF p
  <2>3. ASSUME NEW i \in 1 .. Len(p), NEW j \in 1 .. Len(p), p[i] = p[j] PROVE i = j
    <3>1. PICK u \in DOMAIN best_cost : RouteNodeOf[u] = p[i] /\ Len(SearchPath[u]) = i
      BY <2>1
    <3>2. PICK v \in DOMAIN best_cost : RouteNodeOf[v] = p[j] /\ Len(SearchPath[v]) = j
      BY <2>1
    <3> QED
      BY <2>2, <2>3, <3>1, <3>2
  <2>4. ASSUME NEW i \in 1 .. Len(p) - 1, NEW goal \in Current.goals, RouteNodeOf[goal] = p[i]
        PROVE  FALSE
    <3>1. i \in 1 .. Len(p) /\ i < Len(p)
      BY <1>4
    <3>2. PICK u \in DOMAIN best_cost : RouteNodeOf[u] = p[i] /\ u \notin Current.goals
      BY <2>1, <3>1
    <3> QED
      BY <2>2, <2>4, <3>2
  <2> QED
    BY <2>3, <2>4
<1>6. Current' = Current
  BY DEF PopGoal, Current
<1>7. OverWires(Current)' <=> OverWires(Current)
  BY <1>6 DEF OverWires, Reachable
<1>8. /\ p[1] \in TreeNodes
      /\ \A i \in 2 .. Len(p) : p[i] \notin TreeNodes
      /\ \A i \in 2 .. Len(p) : \E step \in Current.steps :
            RouteNodeOf[step[1]] = p[i - 1] /\ RouteNodeOf[step[2]] = p[i]
      /\ \E goal \in Current.goals : RouteNodeOf[goal] = p[Len(p)]
  BY <1>1, <1>3 DEF WayTo
<1>9. path' = p
  BY <1>1
<1> HIDE DEF p
<1> QED
  BY <1>5, <1>6, <1>7, <1>8, <1>9 DEF FoundPathLegal

\* Beginning anew, all that was reached is starts.
LEMMA SeededParents ==
    ASSUME NEW p \in Problems, NEW i \in 1 .. Len(p),
           problem = p, attempt = i, best_cost = SeedCosts(p[i]), parent = <<>>
    PROVE  ParentsLegal
<1>1. /\ DOMAIN best_cost = p[i].starts /\ DOMAIN parent = {}
      /\ \A x \in p[i].starts : best_cost[x] = p[i].start_cost[x]
  BY DEF SeedCosts
<1>2. p[i].starts \subseteq SearchNode /\ \A x \in SearchNode : p[i].start_cost[x] \in Nat
  BY AttemptTyped
<1>3. \A x \in p[i].starts : RouteNodeOf[x] \in TreeNodes
  BY ProblemsAssumption
<1>4. Current = p[i]
  BY DEF Current
<1> QED
  BY <1>1, <1>2, <1>3, <1>4 DEF ParentsLegal, HasPrevious, Reachable

LEMMA ExpandParents == SearchInv /\ ParentsLegal /\ Expand => ParentsLegal'
<1> SUFFICES ASSUME SearchInv, ParentsLegal, Expand PROVE ParentsLegal'
  OBVIOUS
<1>1. PICK e \in frontier :
        /\ e.node \notin Current.goals
        /\ ~Stale(e)
        /\ best_cost' = [y \in DOMAIN best_cost \cup Improved(e) |->
               IF y \in Improved(e) THEN CostVia(e, y) ELSE best_cost[y]]
        /\ parent' = [y \in DOMAIN parent \cup Improved(e) |->
               IF y \notin Improved(e) THEN parent[y]
               ELSE IF JoinsTree(y) THEN NoNode ELSE e.node]
  BY DEF Expand
<1>2. Current' = Current /\ result = "searching"
  BY DEF Expand, Current
<1>3. /\ problem \in Problems /\ attempt \in 1 .. Len(problem)
      /\ e.node \in SearchNode /\ e.cost \in Nat /\ e.node # NoNode
  BY NodesAssumption DEF SearchInv, TypeOK, Entry
<1>4. /\ DOMAIN best_cost' = DOMAIN best_cost \cup Improved(e)
      /\ DOMAIN parent' = DOMAIN parent \cup Improved(e)
      /\ \A y \in Improved(e) : /\ best_cost'[y] = CostVia(e, y)
                                /\ parent'[y] = IF JoinsTree(y) THEN NoNode ELSE e.node
      /\ \A y \in DOMAIN best_cost \ Improved(e) : best_cost'[y] = best_cost[y]
      /\ \A y \in DOMAIN parent \ Improved(e) : parent'[y] = parent[y]
  BY <1>1
<1>5. \A y \in Improved(e) :
        /\ y \in SearchNode /\ <<e.node, y>> \in Current.steps /\ CostVia(e, y) \in Nat
        /\ y \in DOMAIN best_cost => CostVia(e, y) < best_cost[y] /\ best_cost[y] \in Nat
  BY <1>3, AttemptTyped DEF Improved, Improves, CostVia, Current, SearchInv, TypeOK
<1>6. Current.starts \subseteq DOMAIN best_cost
  BY <1>2 DEF SearchInv, Explored
\* A root can be had for nothing already.
<1>7. ASSUME NEW y \in Improved(e) PROVE RouteNodeOf[y] \notin Roots
  <2> SUFFICES ASSUME RouteNodeOf[y] \in Roots PROVE FALSE
    OBVIOUS
  <2>1. y \in Current.starts /\ Current.start_cost[y] = 0
    BY <1>3, <1>5, ProblemsAssumption DEF Current
  <2>2. y \in DOMAIN best_cost /\ best_cost[y] <= 0
    BY <1>6, <2>1 DEF ParentsLegal
  <2>3. CostVia(e, y) \in Nat /\ CostVia(e, y) < best_cost[y] /\ best_cost[y] \in Nat
    BY <1>5, <2>2
  <2> QED
    BY <2>2, <2>3
<1>8. (DOMAIN best_cost \subseteq Reachable(Current))'
  <2>1. \A y \in Improved(e) : y \in Reachable(Current)
    <3> TAKE y \in Improved(e)
    <3>1. <<e.node, y>> \in Current.steps /\ <<e.node, y>>[2] = y
      BY <1>5
    <3> QED
      BY <3>1 DEF Reachable
  <2> QED
    BY <1>2, <1>4, <2>1 DEF ParentsLegal, Reachable
<1>9. (\A x \in DOMAIN best_cost \cap Current.starts : best_cost[x] <= Current.start_cost[x])'
  <2> SUFFICES ASSUME NEW x \in DOMAIN best_cost', x \in Current.starts
               PROVE  best_cost'[x] <= Current.start_cost[x]
    BY <1>2
  <2>1. x \in DOMAIN best_cost /\ best_cost[x] <= Current.start_cost[x]
    BY <1>6 DEF ParentsLegal
  <2>2. best_cost[x] \in Nat /\ Current.start_cost[x] \in Nat
    BY <1>3, <2>1, AttemptTyped DEF SearchInv, TypeOK, Current
  <2>3. CASE x \in Improved(e)
    <3>1. CostVia(e, x) \in Nat /\ CostVia(e, x) < best_cost[x]
      BY <1>5, <2>1, <2>3
    <3>2. best_cost'[x] = CostVia(e, x)
      BY <1>4, <2>3
    <3> QED
      BY <2>1, <2>2, <3>1, <3>2
  <2>4. CASE x \notin Improved(e)
    BY <1>4, <2>1, <2>4
  <2> QED
    BY <2>3, <2>4
<1>10. ASSUME NEW x \in DOMAIN best_cost'
       PROVE  IF HasPrevious(x)'
              THEN /\ RouteNodeOf[x] \notin TreeNodes
                   /\ parent'[x] \notin Current.goals
                   /\ <<parent'[x], x>> \in Current.steps
              ELSE RouteNodeOf[x] \in TreeNodes
  <2>1. CASE x \in Improved(e)
    BY <1>1, <1>3, <1>4, <1>5, <1>7, <2>1 DEF HasPrevious, JoinsTree
  <2>2. CASE x \notin Improved(e)
    <3>1. x \in DOMAIN best_cost
      BY <1>4, <2>2
    <3>2. HasPrevious(x)' <=> HasPrevious(x)
      BY <1>4, <2>2 DEF HasPrevious
    <3>3. HasPrevious(x) => parent'[x] = parent[x]
      BY <1>4, <2>2 DEF HasPrevious
    <3> QED
      BY <3>1, <3>2, <3>3 DEF ParentsLegal
  <2> QED
    BY <2>1, <2>2
<1> QED
  BY <1>2, <1>8, <1>9, <1>10 DEF ParentsLegal

\* Any path a search returns is one RouteNegotiation may take: it leaves the
\* tree once, by allowed steps, ends at the first goal and passes no wire twice,
\* whatever the costs.
THEOREM FoundPathLegalHolds == Spec => []FoundPathLegal
<1>1. Init => PathInv
  <2> SUFFICES ASSUME Init PROVE PathInv
    OBVIOUS
  <2>1. 1 \in 1 .. Len(problem) /\ problem \in Problems
    BY ProblemsAssumption DEF Init
  <2>2. ParentsLegal
    BY <2>1, SeededParents DEF Init
  <2> QED
    BY <2>2, InitInv DEF Init, PathInv, FoundPathLegal
<1>2. PathInv /\ [Next]_vars => PathInv'
  <2> SUFFICES ASSUME PathInv, [Next]_vars PROVE (ParentsLegal /\ FoundPathLegal)' /\ SearchInv'
    BY DEF PathInv
  <2>0. SearchInv /\ ParentsLegal /\ FoundPathLegal
    BY DEF PathInv
  <2>1. CASE PopGoal
    <3>1. ParentsLegal'
      BY <2>0, <2>1 DEF PopGoal, ParentsLegal, HasPrevious, Reachable, Current
    <3> QED
      BY <2>0, <2>1, <3>1, PopGoalInv, GoalPathLegal
  <2>2. CASE PopStale
    <3>1. ParentsLegal'
      BY <2>0, <2>2 DEF PopStale, ParentsLegal, HasPrevious, Reachable, Current
    <3> QED
      BY <2>0, <2>2, <3>1, PopStaleInv DEF PopStale, FoundPathLegal
  <2>3. CASE Expand
    BY <2>0, <2>3, ExpandInv, ExpandParents DEF Expand, FoundPathLegal
  <2>4. CASE NextAttempt
    <3>1. SearchInv'
      BY <2>0, <2>4, NextAttemptInv
    <3>2. problem' \in Problems /\ attempt' \in 1 .. Len(problem')
      BY <3>1 DEF SearchInv, TypeOK
    <3>3. best_cost' = SeedCosts(problem'[attempt']) /\ parent' = <<>>
      BY <2>4 DEF NextAttempt
    <3>4. ParentsLegal'
      <4> DEFINE p == problem'
                 i == attempt'
      <4>1. /\ DOMAIN best_cost' = p[i].starts /\ DOMAIN parent' = {}
            /\ \A x \in p[i].starts : best_cost'[x] = p[i].start_cost[x]
        BY <3>3 DEF SeedCosts
      <4>2. p[i].starts \subseteq SearchNode /\ \A x \in SearchNode : p[i].start_cost[x] \in Nat
        BY <3>2, AttemptTyped
      <4>3. \A x \in p[i].starts : RouteNodeOf[x] \in TreeNodes
        BY <3>2, ProblemsAssumption
      <4>4. Current' = p[i]
        BY DEF Current
      <4> QED
        BY <4>1, <4>2, <4>3, <4>4 DEF ParentsLegal, HasPrevious, Reachable
    <3> QED
      BY <2>4, <3>1, <3>4 DEF NextAttempt, FoundPathLegal
  <2>5. CASE GiveUp
    <3>1. ParentsLegal'
      BY <2>0, <2>5 DEF GiveUp, ParentsLegal, HasPrevious, Reachable, Current
    <3> QED
      BY <2>0, <2>5, <3>1, GiveUpInv DEF GiveUp, FoundPathLegal
  <2>6. CASE UNCHANGED vars
    <3>1. SearchInv'
      BY <2>0, <2>6 DEF vars, SearchInv, TypeOK, CostsOrdered, ParentsAcyclic, Explored,
                NothingMissed, Current, Unreachable
    <3> QED
      BY <2>0, <2>6, <3>1 DEF vars, ParentsLegal, HasPrevious, Reachable, Current,
                              FoundPathLegal, OverWires
  <2> QED
    BY <2>1, <2>2, <2>3, <2>4, <2>5, <2>6 DEF Next, Returned
<1>3. PathInv => FoundPathLegal
  BY DEF PathInv
<1> QED
  BY <1>1, <1>2, <1>3, PTL DEF Spec

-----------------------------------------------------------------------------
(* The sequence that is chosen for a finite set lists all of it. *)
LEMMA SetToSeqAll ==
    ASSUME NEW S, IsFiniteSet(S)
    PROVE  SetToSeq(S) \in Seq(S) /\ \A x \in S : \E i \in 1 .. Len(SetToSeq(S)) : SetToSeq(S)[i] = x
<1> DEFINE n == Cardinality(S)
           q == SetToSeq(S)
<1>1. n \in Nat
  BY FS_CardinalityType
<1>2. PICK f : f \in Bijection(1 .. n, S)
  <2>1. PICK m \in Nat : ExistsBijection(1 .. m, S)
    BY FS_NatBijection
  <2>2. n = m
    BY <2>1, FS_CountingElements
  <2> QED
    BY <2>1, <2>2 DEF ExistsBijection
<1>3. f \in [1 .. n -> S] /\ IsInjective(f)
  BY <1>2 DEF Bijection, Injection, IsInjective
<1>4. q \in [1 .. n -> S] /\ IsInjective(q)
  BY <1>3 DEF SetToSeq
<1> HIDE DEF q
<1>5. q \in Injection(1 .. n, S)
  BY <1>4 DEF Injection, IsInjective
<1>6. Cardinality(1 .. n) = n
  BY <1>1, FS_Interval
<1>7. q \in Surjection(1 .. n, S)
  <2> HIDE DEF n
  <2> QED
    BY <1>5, <1>6, FS_Injection DEF n
<1>8. \A x \in S : \E i \in 1 .. n : q[i] = x
  BY <1>7 DEF Surjection
<1>9. q \in Seq(S) /\ Len(q) = n
  BY <1>1, <1>4
<1> QED
  BY <1>8, <1>9 DEF q

(* The tiles of the guide are at distance 0 as long as distances spread.   *)
FieldInv ==
  /\ phase = "spreading" => queue \in Seq(Tiles)
  /\ (phase \in {"spreading", "following", "left"} /\ guide # <<>>) =>
       /\ \A t \in Tiles : field[t] \in Nat \union {Far}
       /\ \A t \in Tiles : t \in ToSet(guide) => field[t] = 0
  /\ (phase \in {"spreading", "following", "left"} /\ guide = <<>>) =>
       (phase = "spreading" => queue = <<>>)

LEMMA FieldInvInductive == GuideSpec => []FieldInv
<1>1. GuideInit => FieldInv
  BY DEF GuideInit, FieldInv
<1>2. ASSUME FieldInv, [GuideNext]_guideVars PROVE FieldInv'
  <2> USE <1>2 DEF FieldInv
  <2>1. CASE Trivial BY <2>1 DEF Trivial, Guided
  <2>2. CASE NotOnRoute BY <2>2 DEF NotOnRoute, Guided
  <2>3. CASE StartTrace BY <2>3 DEF StartTrace
  <2>4. CASE TraceOn BY <2>4 DEF TraceOn
  <2>5. CASE TraceDone BY <2>5 DEF TraceDone, Guided
  <2>6. CASE StartSpread
    <3>1. IsFiniteSet(ToSet(guide) \cap Tiles)
      BY GuideAssumption, FS_Subset
    <3>2. queue' \in Seq(Tiles)
      <4>1. queue' \in Seq(ToSet(guide) \cap Tiles)
        BY <2>6, <3>1, SetToSeqAll DEF StartSpread, Nearest
      <4> QED BY <4>1
    <3>3. guide = <<>> => queue' = <<>>
      <4> SUFFICES ASSUME guide = <<>> PROVE queue' = <<>>
        OBVIOUS
      <4>1. ToSet(guide) \cap Tiles = {}
        BY DEF ToSet
      <4>2. queue' \in Seq({})
        BY <4>1, <2>6, <3>1, SetToSeqAll DEF StartSpread, Nearest
      <4> QED BY <4>2
    <3> QED BY <2>6, <3>2, <3>3 DEF StartSpread, Nearest, Far
  <2>7. CASE Spread
    <3>1. guide # <<>> /\ queue # <<>> /\ queue \in Seq(Tiles)
      BY <2>7 DEF Spread
    <3>2. Head(queue) \in Tiles /\ Tail(queue) \in Seq(Tiles)
      BY <3>1
    <3> DEFINE found == {u \in Tiles : Closer(Head(queue), u)}
    <3>3. SetToSeq(found) \in Seq(Tiles)
      <4>1. IsFiniteSet(found) BY GuideAssumption, FS_Subset
      <4>2. SetToSeq(found) \in Seq(found) BY <4>1, SetToSeqAll
      <4> QED BY <4>2
    <3>4. queue' \in Seq(Tiles)
      BY <2>7, <3>2, <3>3 DEF Spread
    <3>5. field[Head(queue)] \in Nat \union {Far}
      BY <3>1, <3>2, <2>7 DEF Spread
    <3>6. \A t \in Tiles : field'[t] = IF t \in found THEN field[Head(queue)] + 1 ELSE field[t]
      BY <2>7 DEF Spread
    <3>7. \A t \in Tiles : t \in ToSet(guide) => t \notin found
      BY <2>7, <3>1, <3>5 DEF Spread, Closer, Far
    <3>8. \A t \in Tiles : field'[t] \in Nat \union {Far}
      BY <2>7, <3>1, <3>5, <3>6 DEF Spread, Far
    <3>9. \A t \in Tiles : t \in ToSet(guide) => field'[t] = 0
      BY <2>7, <3>1, <3>6, <3>7 DEF Spread
    <3> QED BY <2>7, <3>1, <3>4, <3>8, <3>9 DEF Spread
  <2>8. CASE SpreadDone BY <2>8 DEF SpreadDone
  <2>9. CASE Enter BY <2>9 DEF Enter
  <2>10. CASE Follow BY <2>10 DEF Follow
  <2>11. CASE Leave BY <2>11 DEF Leave
  <2>12. CASE Done BY <2>12 DEF Done, guideVars
  <2>13. CASE UNCHANGED guideVars BY <2>13 DEF guideVars
  <2> QED BY <2>1, <2>2, <2>3, <2>4, <2>5, <2>6, <2>7, <2>8, <2>9, <2>10, <2>11, <2>12, <2>13 DEF GuideNext
<1> QED BY <1>1, <1>2, PTL DEF GuideSpec

(***************************************************************************)
(* The attempts of route_sink widen: a wire to another tile that the order *)
(* of the guide allows is to a tile of the guide, which has distance 0.    *)
(***************************************************************************)
THEOREM OrderedKeepsToGuide == GuideSpec => []AttemptsWiden
<1>1. FieldInv => AttemptsWiden
  <2> SUFFICES ASSUME FieldInv, phase \in {"following", "left"},
                      NEW i \in DOMAIN guide, NEW j \in DOMAIN guide, NEW u \in Tiles,
                      Advances(i, j, guide[i], u)
               PROVE  Admitted(0, guide[i], u)
    BY DEF AttemptsWiden
  <2>1. guide[j] = u BY DEF Advances
  <2>2. u \in ToSet(guide) BY <2>1 DEF ToSet
  <2>3. guide # <<>> => field[u] = 0 BY <2>2 DEF FieldInv
  <2> QED BY <2>3 DEF Admitted, Far
<1> QED BY <1>1, FieldInvInductive, PTL

(* What is kept of the first k entries. *)
Kept(X, s, kept) ==
  /\ kept \in [0 .. Len(s) -> Seq(X)] /\ kept[0] = <<>>
  /\ \A k \in 1 .. Len(s) :
       kept[k] = IF kept[k - 1] # <<>> /\ Last(kept[k - 1]) = s[k] THEN kept[k - 1]
                 ELSE Append(kept[k - 1], s[k])

\* Merging equal neighbours works entry by entry.
LEMMA DedupedUnfolds ==
    ASSUME NEW X, NEW s \in Seq(X)
    PROVE  \E kept : Kept(X, s, kept) /\ Deduped(s) = kept[Len(s)]
<1> DEFINE D == 1 .. Len(s)
           One(w, t) == IF w # <<>> /\ Last(w) = t THEN w ELSE Append(w, t)
           IsFold(f) == f = [S \in SUBSET D |->
                               IF S = {} THEN <<>> ELSE One(f[S \ {Max(S)}], s[Max(S)])]
           r == CHOOSE f : IsFold(f)
           pick == [S \in SUBSET D |-> Max(S)]
           step == [p \in D \X Seq(X) |-> One(p[2], s[p[1]])]
<1>1. Len(s) \in Nat /\ DOMAIN s = D
  OBVIOUS
<1>2. Deduped(s) = r[D]
  BY <1>1 DEF Deduped, FoldLeft, MapThenFoldSet
<1>3. Picks(D, pick)
  <2>1. IsFiniteSet(D)
    BY <1>1, FS_Interval
  <2>2. ASSUME NEW S \in SUBSET D, S # {} PROVE Max(S) \in S
    <3>1. S \in SUBSET Int
      OBVIOUS
    <3> HIDE DEF D
    <3>2. IsFiniteSet(S)
      BY <2>1, FS_Subset
    <3> QED
      BY <2>2, <3>1, <3>2, MaxOfFinite
  <2> QED
    BY <2>1, <2>2 DEF Picks
<1>4. step \in [D \X Seq(X) -> Seq(X)]
  <2>1. ASSUME NEW p \in D \X Seq(X) PROVE One(p[2], s[p[1]]) \in Seq(X)
    <3>1. p[2] \in Seq(X) /\ p[1] \in D
      OBVIOUS
    <3>2. s[p[1]] \in X
      BY <3>1
    <3>3. Append(p[2], s[p[1]]) \in Seq(X)
      BY <3>1, <3>2
    <3> QED
      BY <3>1, <3>3
  <2> HIDE DEF One
  <2> QED
    BY <2>1
<1>5. <<>> \in Seq(X)
  OBVIOUS
<1>6. PICK f \in [SUBSET D -> Seq(X)] : FoldsTo(f, D, <<>>, pick, step)
  <2> HIDE DEF D, pick, step
  <2> QED
    BY <1>3, <1>4, <1>5, FoldExists
<1>7. ASSUME NEW S \in SUBSET D
      PROVE  f[S] = IF S = {} THEN <<>> ELSE One(f[S \ {Max(S)}], s[Max(S)])
  <2>1. CASE S = {}
    BY <1>6, <2>1 DEF FoldsTo
  <2>2. CASE S # {}
    <3>1. f[S] = step[<<pick[S], f[S \ {pick[S]}]>>] /\ pick[S] = Max(S)
      BY <1>6, <2>2 DEF FoldsTo
    <3>2. Max(S) \in D /\ f[S \ {Max(S)}] \in Seq(X)
      BY <1>3, <2>2, <3>1 DEF Picks
    <3>3. step[<<Max(S), f[S \ {Max(S)}]>>] = One(f[S \ {Max(S)}], s[Max(S)])
      <4> HIDE DEF D, One
      <4> QED
        BY <3>2
    <3> QED
      BY <2>2, <3>1, <3>3
  <2> QED
    BY <2>1, <2>2
<1>8. IsFold(f)
  <2> HIDE DEF D, One
  <2> QED
    BY <1>6, <1>7
<1>9. IsFold(r)
  <2> HIDE DEF IsFold
  <2> QED
    BY <1>8
<1>10. \A S \in SUBSET D : r[S] = IF S = {} THEN <<>> ELSE One(r[S \ {Max(S)}], s[Max(S)])
  <2> HIDE DEF r, D, One
  <2> QED
    BY <1>9
<1> HIDE DEF r
<1> DEFINE kept == [k \in 0 .. Len(s) |-> r[1 .. k]]
<1>11. kept[0] = <<>>
  <2>1. 1 .. 0 = {} /\ {} \in SUBSET D
    OBVIOUS
  <2>2. r[{}] = <<>>
    BY <1>10, <2>1
  <2> QED
    BY <1>1, <2>1, <2>2
<1>12. ASSUME NEW k \in 1 .. Len(s) PROVE kept[k] = One(kept[k - 1], s[k])
  <2>1. /\ 1 .. k \in SUBSET D /\ 1 .. k # {} /\ (1 .. k) \ {k} = 1 .. k - 1
        /\ Max(1 .. k) = k
    BY <1>1, PrefixPick
  <2>2. r[1 .. k] = One(r[1 .. k - 1], s[k])
    <3> HIDE DEF One
    <3>1. r[1 .. k] = One(r[(1 .. k) \ {Max(1 .. k)}], s[Max(1 .. k)])
      BY <1>10, <2>1
    <3> QED
      BY <2>1, <3>1
  <2>3. k \in 0 .. Len(s) /\ k - 1 \in 0 .. Len(s)
    BY <1>1
  <2> HIDE DEF One
  <2> QED
    BY <2>2, <2>3
<1>13. ASSUME NEW k \in 0 .. Len(s) PROVE kept[k] \in Seq(X)
  <2> DEFINE Good == {j \in 1 .. Len(s) + 1 : kept[j - 1] \in Seq(X)}
  <2>1. 1 \in Good
    <3>1. 1 \in 1 .. Len(s) + 1 /\ 1 - 1 = 0
      BY <1>1
    <3> HIDE DEF kept
    <3> QED
      BY <1>5, <1>11, <3>1
  <2>2. ASSUME NEW j \in 2 .. Len(s) + 1, j - 1 \in Good PROVE j \in Good
    <3>1. j - 1 \in 1 .. Len(s) /\ kept[(j - 1) - 1] \in Seq(X) /\ s[j - 1] \in X
      BY <1>1, <2>2
    <3>2. kept[j - 1] = One(kept[(j - 1) - 1], s[j - 1])
      BY <1>12, <3>1
    <3> HIDE DEF kept
    <3>3. kept[j - 1] \in Seq(X)
      BY <3>1, <3>2
    <3> QED
      BY <1>1, <3>3
  <2>3. 1 .. Len(s) + 1 \subseteq Good
    <3> HIDE DEF Good
    <3>1. Len(s) + 1 \in Nat \ {0}
      BY <1>1
    <3> QED
      BY <2>1, <2>2, <3>1, Climb
  <2>4. k + 1 \in 1 .. Len(s) + 1 /\ (k + 1) - 1 = k
    BY <1>1
  <2> HIDE DEF kept
  <2> QED
    BY <2>3, <2>4
<1>14. Kept(X, s, kept)
  <2>1. kept \in [0 .. Len(s) -> Seq(X)]
    BY <1>13
  <2> HIDE DEF kept
  <2> QED
    BY <1>11, <1>12, <2>1 DEF Kept
<1>15. Deduped(s) = kept[Len(s)]
  BY <1>1, <1>2
<1> QED
  BY <1>14, <1>15

(* Where the entries of a list are after neighbours have been merged. *)
Merges(s, d, at) ==
  /\ at \in [1 .. Len(s) -> 1 .. Len(d)]
  /\ at[1] = 1 /\ at[Len(s)] = Len(d)
  /\ \A k \in 1 .. Len(s) : d[at[k]] = s[k]
  /\ \A k \in 2 .. Len(s) : at[k] = IF s[k] = s[k - 1] THEN at[k - 1] ELSE at[k - 1] + 1

LEMMA DedupedMerges ==
    ASSUME NEW X, NEW s \in Seq(X), s # <<>>
    PROVE  Deduped(s) \in Seq(X) /\ \E at : Merges(s, Deduped(s), at)
<1> DEFINE n == Len(s)
           d == Deduped(s)
<1>1. n \in Nat \ {0} /\ 1 \in 1 .. n /\ n \in 1 .. n /\ \A k \in 1 .. n : s[k] \in X
  OBVIOUS
<1>2. PICK kept : Kept(X, s, kept) /\ d = kept[n]
  BY DedupedUnfolds
<1> HIDE DEF d
<1>3. /\ \A k \in 0 .. n : kept[k] \in Seq(X)
      /\ kept[0] = <<>>
      /\ \A k \in 1 .. n :
           kept[k] = IF kept[k - 1] # <<>> /\ Last(kept[k - 1]) = s[k] THEN kept[k - 1]
                     ELSE Append(kept[k - 1], s[k])
  BY <1>2 DEF Kept
<1> DEFINE len(k) == Len(kept[k])
<1>4. ASSUME NEW k \in 1 .. n
      PROVE  /\ k - 1 \in 0 .. n /\ len(k) \in Nat /\ len(k - 1) \in Nat
             /\ len(k) > 0 /\ kept[k][len(k)] = s[k]
             /\ len(k - 1) <= len(k)
             /\ \A i \in 1 .. len(k - 1) : kept[k][i] = kept[k - 1][i]
  <2>1. k - 1 \in 0 .. n /\ k \in 0 .. n
    BY <1>1
  <2>2. kept[k] \in Seq(X) /\ kept[k - 1] \in Seq(X) /\ s[k] \in X
    BY <1>1, <1>3, <2>1
  <2>3. CASE kept[k - 1] # <<>> /\ Last(kept[k - 1]) = s[k]
    <3>1. kept[k] = kept[k - 1]
      BY <1>3, <2>3
    <3> QED
      BY <2>1, <2>2, <2>3, <3>1 DEF Last
  <2>4. CASE ~(kept[k - 1] # <<>> /\ Last(kept[k - 1]) = s[k])
    <3>1. kept[k] = Append(kept[k - 1], s[k])
      BY <1>3, <2>4
    <3> QED
      BY <2>1, <2>2, <3>1
  <2> QED
    BY <2>3, <2>4
<1>5. /\ len(1) = 1
      /\ \A k \in 2 .. n : len(k) = IF s[k] = s[k - 1] THEN len(k - 1) ELSE len(k - 1) + 1
  <2>1. len(1) = 1
    <3>1. kept[1] = Append(<<>>, s[1])
      <4>1. 1 - 1 = 0 /\ ~(kept[0] # <<>> /\ Last(kept[0]) = s[1])
        BY <1>3
      <4>2. kept[1] = IF kept[1 - 1] # <<>> /\ Last(kept[1 - 1]) = s[1] THEN kept[1 - 1]
                      ELSE Append(kept[1 - 1], s[1])
        BY <1>1, <1>3
      <4>3. kept[1 - 1] = kept[0] /\ kept[0] = <<>>
        BY <1>3, <4>1
      <4> QED
        BY ONLY <4>1, <4>2, <4>3
    <3> QED
      BY <1>1, <3>1
  <2>2. ASSUME NEW k \in 2 .. n
        PROVE  len(k) = IF s[k] = s[k - 1] THEN len(k - 1) ELSE len(k - 1) + 1
    <3>1. k \in 1 .. n /\ k - 1 \in 1 .. n /\ k - 1 \in 0 .. n
      BY <1>1
    <3>2. kept[k - 1] \in Seq(X) /\ len(k - 1) > 0 /\ Last(kept[k - 1]) = s[k - 1]
      BY <1>3, <1>4, <3>1 DEF Last
    <3>3. kept[k - 1] # <<>>
      BY <3>2
    <3>4. kept[k] = IF s[k - 1] = s[k] THEN kept[k - 1] ELSE Append(kept[k - 1], s[k])
      BY <1>3, <3>1, <3>2, <3>3
    <3>5. Len(Append(kept[k - 1], s[k])) = len(k - 1) + 1
      BY <3>2
    <3> QED
      BY <3>4, <3>5
  <2> QED
    BY <2>1, <2>2
<1> DEFINE Extends(k) == \A j \in 1 .. k : /\ len(j) <= len(k)
                                          /\ \A i \in 1 .. len(j) : kept[k][i] = kept[j][i]
           Good == {k \in 1 .. n : Extends(k)}
<1>6. Extends(n)
  <2>1. 1 \in Good
    <3>1. \A j \in 1 .. 1 : j = 1
      OBVIOUS
    <3>2. len(1) \in Nat
      BY <1>1, <1>4
    <3> QED
      BY <1>1, <3>1, <3>2
  <2>2. ASSUME NEW k \in 2 .. n, k - 1 \in Good PROVE k \in Good
    <3>1. k \in 1 .. n /\ Extends(k - 1)
      BY <1>1, <2>2
    <3>2. ASSUME NEW j \in 1 .. k
          PROVE  len(j) <= len(k) /\ \A i \in 1 .. len(j) : kept[k][i] = kept[j][i]
      <4>1. j \in 1 .. n /\ len(j) \in Nat /\ len(k) \in Nat /\ len(k - 1) \in Nat
        BY <1>1, <1>4, <3>1
      <4>2. CASE j = k
        BY <4>1, <4>2
      <4>3. CASE j # k
        <5>1. j \in 1 .. k - 1
          BY <4>3
        <5>2. len(j) <= len(k - 1) /\ \A i \in 1 .. len(j) : kept[k - 1][i] = kept[j][i]
          BY <3>1, <5>1
        <5>3. len(k - 1) <= len(k) /\ \A i \in 1 .. len(k - 1) : kept[k][i] = kept[k - 1][i]
          BY <1>4, <3>1
        <5> HIDE DEF len
        <5>4. \A i \in 1 .. len(j) : i \in 1 .. len(k - 1)
          BY <4>1, <5>2
        <5> QED
          BY <4>1, <5>2, <5>3, <5>4
      <4> QED
        BY <4>2, <4>3
    <3>3. Extends(k)
      BY <3>2
    <3> HIDE DEF Extends
    <3> QED
      BY <3>1, <3>3
  <2>3. 1 .. n \subseteq Good
    <3> HIDE DEF Good, n
    <3> QED
      BY <1>1, <2>1, <2>2, Climb
  <2> QED
    BY <1>1, <2>3
<1> DEFINE at == [k \in 1 .. n |-> len(k)]
<1>7. d \in Seq(X)
  BY <1>1, <1>2, <1>3
<1>8. ASSUME NEW k \in 1 .. n PROVE len(k) \in 1 .. Len(d) /\ d[len(k)] = s[k]
  <2>1. len(k) \in Nat /\ len(k) > 0 /\ kept[k][len(k)] = s[k] /\ Len(d) \in Nat
    BY <1>4, <1>7
  <2>2. len(k) <= Len(d) /\ \A i \in 1 .. len(k) : d[i] = kept[k][i]
    BY <1>2, <1>6
  <2> QED
    BY <2>1, <2>2
<1>9. Merges(s, d, at)
  <2>1. at \in [1 .. n -> 1 .. Len(d)]
    BY <1>8
  <2>2. at[1] = 1 /\ at[n] = Len(d)
    BY <1>1, <1>2, <1>5
  <2>3. \A k \in 1 .. n : d[at[k]] = s[k]
    BY <1>8
  <2>4. \A k \in 2 .. n : k \in 1 .. n /\ k - 1 \in 1 .. n
    BY <1>1
  <2>5. \A k \in 2 .. n : at[k] = IF s[k] = s[k - 1] THEN at[k - 1] ELSE at[k - 1] + 1
    <3> HIDE DEF len
    <3> QED
      BY <1>5, <2>4
  <2> HIDE DEF at
  <2> QED
    BY <2>1, <2>2, <2>3, <2>5 DEF Merges
<1> HIDE DEF at
<1> QED
  BY <1>7, <1>9 DEF d

\* Entries that are neighbours afterwards were neighbours before, and differ.
LEMMA MergedNeighbours ==
    ASSUME NEW X, NEW s \in Seq(X), s # <<>>, NEW d \in Seq(X), NEW at, Merges(s, d, at),
           NEW p \in 2 .. Len(d)
    PROVE  \E k \in 2 .. Len(s) : /\ at[k] = p /\ at[k - 1] = p - 1 /\ s[k] # s[k - 1]
                                  /\ d[p] = s[k] /\ d[p - 1] = s[k - 1]
<1> DEFINE n == Len(s)
           Late == {k \in 1 .. n : at[k] >= p}
<1>1. n \in Nat \ {0} /\ 1 \in 1 .. n /\ n \in 1 .. n /\ Len(d) \in Nat /\ p \in Nat
  OBVIOUS
<1>2. /\ at \in [1 .. n -> 1 .. Len(d)] /\ at[1] = 1 /\ at[n] = Len(d)
      /\ \A k \in 1 .. n : d[at[k]] = s[k]
      /\ \A k \in 2 .. n : at[k] = IF s[k] = s[k - 1] THEN at[k - 1] ELSE at[k - 1] + 1
  BY DEF Merges
<1>3. n \in Late /\ Late \in SUBSET Nat
  BY <1>1, <1>2
<1>4. PICK k \in Late : \A j \in Late : k <= j
  <2> HIDE DEF Late
  <2> QED
    BY <1>3, LeastNatural
<1>5. k \in 1 .. n /\ at[k] >= p /\ k # 1
  BY <1>1, <1>2
<1>6. k \in 2 .. n /\ k - 1 \in 1 .. n /\ ~(k <= k - 1)
  BY <1>1, <1>5
<1>7. k - 1 \notin Late
  BY <1>4, <1>6
<1>8. at[k - 1] \in Nat /\ at[k] \in Nat /\ ~(at[k - 1] >= p)
  BY <1>1, <1>2, <1>5, <1>6, <1>7
<1>9. s[k] # s[k - 1] /\ at[k] = at[k - 1] + 1
  BY <1>2, <1>5, <1>6, <1>8
<1>10. at[k] = p /\ at[k - 1] = p - 1
  BY <1>1, <1>5, <1>8, <1>9
<1>11. d[at[k]] = s[k] /\ d[at[k - 1]] = s[k - 1]
  BY <1>2, <1>5, <1>6
<1> QED
  BY <1>6, <1>9, <1>10, <1>11

\* A list without equal neighbours stays as it is.
LEMMA DedupedSame ==
    ASSUME NEW X, NEW s \in Seq(X), \A k \in 2 .. Len(s) : s[k] # s[k - 1]
    PROVE  Deduped(s) = s
<1>1. CASE s = <<>>
  <2>1. PICK kept : Kept(X, s, kept) /\ Deduped(s) = kept[Len(s)]
    BY DedupedUnfolds
  <2> QED
    BY <1>1, <2>1 DEF Kept
<1>2. CASE s # <<>>
  <2> DEFINE n == Len(s)
             d == Deduped(s)
  <2>1. d \in Seq(X)
    BY <1>2, DedupedMerges
  <2>2. PICK at : Merges(s, d, at)
    BY <1>2, DedupedMerges
  <2> HIDE DEF d
  <2>3. n \in Nat \ {0} /\ Len(d) \in Nat /\ n \in 1 .. n /\ 1 \in 1 .. n
    BY <1>2, <2>1
  <2>4. /\ at[1] = 1 /\ at[n] = Len(d)
        /\ \A k \in 1 .. n : d[at[k]] = s[k]
        /\ \A k \in 2 .. n : at[k] = IF s[k] = s[k - 1] THEN at[k - 1] ELSE at[k - 1] + 1
    BY <2>2 DEF Merges
  <2> DEFINE Same == {k \in 1 .. n : at[k] = k}
  <2>5. 1 .. n \subseteq Same
    <3>1. 1 \in Same
      BY <2>3, <2>4
    <3>2. \A k \in 2 .. n : k - 1 \in Same => k \in Same
      BY <2>3, <2>4
    <3> HIDE DEF Same, n
    <3> QED
      BY <2>3, <3>1, <3>2, Climb
  <2>6. Len(d) = n /\ \A k \in 1 .. n : d[k] = s[k]
    BY <2>3, <2>4, <2>5
  <2> QED
    BY <2>1, <2>6 DEF d
<1> QED
  BY <1>1, <1>2

-----------------------------------------------------------------------------
(* Where lists are when they are put one after the other. *)
Laid(ss, w, off) ==
  /\ off \in [1 .. Len(ss) -> Nat] /\ off[1] = 0
  /\ \A i \in 2 .. Len(ss) : off[i] = off[i - 1] + Len(ss[i - 1])
  /\ Len(w) = off[Len(ss)] + Len(ss[Len(ss)])
  /\ \A i \in 1 .. Len(ss) : \A m \in 1 .. Len(ss[i]) :
       off[i] + m \in 1 .. Len(w) /\ w[off[i] + m] = ss[i][m]
  /\ \A p \in 1 .. Len(w) :
       \E i \in 1 .. Len(ss) : \E m \in 1 .. Len(ss[i]) : p = off[i] + m

\* The flattened list grows by one list after the other.
LEMMA FlattenUnfolds ==
    ASSUME NEW S, NEW ss \in Seq(Seq(S)), ss # <<>>
    PROVE  \E r \in [1 .. Len(ss) -> Seq(S)] :
             /\ FlattenSeq(ss) = r[Len(ss)] /\ r[1] = ss[1]
             /\ \A k \in 2 .. Len(ss) : r[k] = r[k - 1] \o ss[k]
<1> DEFINE n == Len(ss)
           Follows(f, k) == IF k = 1 THEN ss[k] ELSE f[k - 1] \o ss[k]
           IsFlat(f) == f = [k \in 1 .. n |-> Follows(f, k)]
           r == CHOOSE f : IsFlat(f)
           step == [k \in 2 .. n |-> [w \in Seq(S) |-> w \o ss[k]]]
<1>1. n \in Nat \ {0} /\ 1 \in 1 .. n /\ n \in 1 .. n /\ \A k \in 1 .. n : ss[k] \in Seq(S)
  OBVIOUS
<1>2. FlattenSeq(ss) = r[n]
  BY <1>1 DEF FlattenSeq
<1>3. PICK h : StepsTo(h, Seq(S), n, ss[1], step)
  <2>1. step \in [2 .. n -> [Seq(S) -> Seq(S)]]
    <3>1. \A k \in 2 .. n : \A w \in Seq(S) : w \o ss[k] \in Seq(S)
      BY <1>1
    <3> QED
      BY <3>1
  <2>2. Stepwise(Seq(S), n, ss[1], step)
    BY <1>1, <2>1 DEF Stepwise
  <2> HIDE DEF step
  <2> QED
    BY <2>2, StepByStep
<1>4. h \in [1 .. n -> Seq(S)] /\ h[1] = ss[1] /\ \A k \in 2 .. n : h[k] = h[k - 1] \o ss[k]
  <2>1. h \in [1 .. n -> Seq(S)] /\ h[1] = ss[1] /\ \A k \in 2 .. n : h[k] = step[k][h[k - 1]]
    BY <1>3 DEF StepsTo
  <2>2. \A k \in 2 .. n : k - 1 \in 1 .. n
    BY <1>1
  <2> QED
    BY <2>1, <2>2
<1>5. IsFlat(h)
  <2>1. \A k \in 1 .. n : h[k] = Follows(h, k)
    <3> SUFFICES ASSUME NEW k \in 1 .. n PROVE h[k] = Follows(h, k)
      OBVIOUS
    <3>1. CASE k = 1
      BY <1>4, <3>1
    <3>2. CASE k # 1
      <4>1. k \in 2 .. n
        BY <1>1, <3>2
      <4> QED
        BY <1>4, <3>2, <4>1
    <3> QED
      BY <3>1, <3>2
  <2> HIDE DEF Follows
  <2> QED
    BY <1>4, <2>1
<1>6. IsFlat(r)
  <2> HIDE DEF IsFlat
  <2> QED
    BY <1>5
<1>7. \A k \in 1 .. n : r[k] = Follows(r, k)
  <2> HIDE DEF r, Follows
  <2> QED
    BY <1>6
<1>8. r = [k \in 1 .. n |-> r[k]]
  <2> HIDE DEF r, Follows
  <2> QED
    BY <1>6
<1> HIDE DEF r
<1> DEFINE Typed == {k \in 1 .. n : r[k] \in Seq(S)}
<1>9. r[1] = ss[1] /\ \A k \in 2 .. n : k \in 1 .. n /\ r[k] = r[k - 1] \o ss[k]
  <2>1. r[1] = ss[1]
    BY <1>1, <1>7
  <2>2. ASSUME NEW k \in 2 .. n PROVE k \in 1 .. n /\ r[k] = r[k - 1] \o ss[k]
    <3>1. k \in 1 .. n /\ k # 1
      BY <1>1
    <3>2. r[k] = Follows(r, k)
      BY <1>7, <3>1
    <3> QED
      BY <3>1, <3>2
  <2> QED
    BY <2>1, <2>2
<1>10. 1 .. n \subseteq Typed
  <2>1. 1 \in Typed
    BY <1>1, <1>9
  <2>2. \A k \in 2 .. n : k - 1 \in Typed => k \in Typed
    <3> SUFFICES ASSUME NEW k \in 2 .. n, r[k - 1] \in Seq(S) PROVE k \in Typed
      OBVIOUS
    <3>1. ss[k] \in Seq(S) /\ k \in 1 .. n
      BY <1>1, <1>9
    <3>2. r[k - 1] \o ss[k] \in Seq(S)
      BY <3>1
    <3> QED
      BY <1>9, <3>1, <3>2
  <2> HIDE DEF Typed, n
  <2> QED
    BY <1>1, <2>1, <2>2, Climb
<1>11. r \in [1 .. n -> Seq(S)]
  BY <1>8, <1>10
<1> QED
  BY <1>2, <1>9, <1>11

\* In the flattened list every list is whole, and each entry is of one of them.
LEMMA FlattenLaid ==
    ASSUME NEW S, NEW ss \in Seq(Seq(S)), ss # <<>>
    PROVE  FlattenSeq(ss) \in Seq(S) /\ \E off : Laid(ss, FlattenSeq(ss), off)
<1> DEFINE n == Len(ss)
           w == FlattenSeq(ss)
<1>1. n \in Nat \ {0} /\ 1 \in 1 .. n /\ n \in 1 .. n
      /\ \A k \in 1 .. n : ss[k] \in Seq(S) /\ Len(ss[k]) \in Nat
  OBVIOUS
<1>2. PICK r \in [1 .. n -> Seq(S)] :
        w = r[n] /\ r[1] = ss[1] /\ \A k \in 2 .. n : r[k] = r[k - 1] \o ss[k]
  BY FlattenUnfolds
<1> HIDE DEF w
<1> DEFINE off == [i \in 1 .. n |-> Len(r[i]) - Len(ss[i])]
<1>3. /\ off[1] = 0
      /\ \A i \in 1 .. n : r[i] \in Seq(S) /\ Len(r[i]) = off[i] + Len(ss[i]) /\ off[i] \in Int
  <2>1. ASSUME NEW i \in 1 .. n
        PROVE  /\ r[i] \in Seq(S) /\ Len(r[i]) = off[i] + Len(ss[i]) /\ off[i] \in Int
    <3>1. r[i] \in Seq(S) /\ Len(ss[i]) \in Nat
      BY <1>1, <1>2
    <3>2. Len(r[i]) \in Nat
      BY <3>1
    <3>3. off[i] = Len(r[i]) - Len(ss[i])
      OBVIOUS
    <3> HIDE DEF off
    <3> QED
      BY <3>1, <3>2, <3>3
  <2>2. off[1] = 0
    <3>1. off[1] = Len(r[1]) - Len(ss[1]) /\ Len(r[1]) = Len(ss[1]) /\ Len(ss[1]) \in Nat
      BY <1>1, <1>2
    <3> QED
      BY <3>1
  <2> HIDE DEF off
  <2> QED
    BY <2>1, <2>2
<1>20. off = [i \in 1 .. n |-> off[i]]
  OBVIOUS
<1> HIDE DEF off
<1>4. ASSUME NEW i \in 2 .. n
      PROVE  /\ i \in 1 .. n /\ i - 1 \in 1 .. n
             /\ off[i] = off[i - 1] + Len(ss[i - 1]) /\ off[i] = Len(r[i - 1])
             /\ \A p \in 1 .. off[i] : r[i][p] = r[i - 1][p]
             /\ \A m \in 1 .. Len(ss[i]) : r[i][off[i] + m] = ss[i][m]
  <2>1. i \in 1 .. n /\ i - 1 \in 1 .. n
    BY <1>1
  <2>2. r[i] = r[i - 1] \o ss[i] /\ r[i - 1] \in Seq(S) /\ ss[i] \in Seq(S)
    BY <1>1, <1>2, <2>1
  <2>3. /\ Len(r[i - 1]) \in Nat /\ Len(ss[i]) \in Nat /\ Len(r[i]) = Len(r[i - 1]) + Len(ss[i])
        /\ \A p \in 1 .. Len(r[i - 1]) : r[i][p] = r[i - 1][p]
        /\ \A m \in 1 .. Len(ss[i]) : r[i][Len(r[i - 1]) + m] = ss[i][m]
    <3> DEFINE u == r[i - 1]
               v == ss[i]
    <3>1. u \in Seq(S) /\ v \in Seq(S) /\ r[i] = u \o v
      BY <2>2
    <3> HIDE DEF u, v
    <3>2. /\ Len(u) \in Nat /\ Len(v) \in Nat /\ Len(u \o v) = Len(u) + Len(v)
          /\ \A p \in 1 .. Len(u) : (u \o v)[p] = u[p]
          /\ \A m \in 1 .. Len(v) : (u \o v)[Len(u) + m] = v[m]
      BY ONLY <3>1, Joined
    <3>3. /\ Len(u) \in Nat /\ Len(v) \in Nat /\ Len(r[i]) = Len(u) + Len(v)
          /\ \A p \in 1 .. Len(u) : r[i][p] = u[p]
          /\ \A m \in 1 .. Len(v) : r[i][Len(u) + m] = v[m]
      BY ONLY <3>1, <3>2
    <3> QED
      BY <3>3 DEF u, v
  <2>4. off[i] = Len(r[i - 1])
    <3>1. Len(r[i]) = off[i] + Len(ss[i]) /\ off[i] \in Int
      BY <1>3, <2>1
    <3>2. \A a \in Int : \A b, c \in Nat : a + c = b + c => a = b
      OBVIOUS
    <3>3. Len(r[i - 1]) \in Nat /\ Len(ss[i]) \in Nat /\ off[i] + Len(ss[i]) = Len(r[i - 1]) + Len(ss[i])
      BY <2>3, <3>1
    <3> QED
      BY ONLY <3>1, <3>2, <3>3
  <2>5. Len(r[i - 1]) = off[i - 1] + Len(ss[i - 1])
    BY <1>3, <2>1
  <2> QED
    BY <2>1, <2>3, <2>4, <2>5
<1> DEFINE Placed(k) == \A i \in 1 .. k : \A m \in 1 .. Len(ss[i]) :
                          off[i] + m \in 1 .. Len(r[k]) /\ r[k][off[i] + m] = ss[i][m]
           Covered(k) == \A p \in 1 .. Len(r[k]) :
                           \E i \in 1 .. k : \E m \in 1 .. Len(ss[i]) : p = off[i] + m
           Good == {k \in 1 .. n : off[k] \in Nat /\ Placed(k) /\ Covered(k)}
<1>5. 1 \in Good
  <2>1. \A i \in 1 .. 1 : i = 1
    OBVIOUS
  <2>2. r[1] = ss[1] /\ off[1] = 0 /\ Len(ss[1]) \in Nat
    BY <1>1, <1>2, <1>3
  <2>3. Placed(1)
    BY <2>1, <2>2
  <2>4. Covered(1)
    BY <2>2
  <2> QED
    BY <1>1, <2>2, <2>3, <2>4
<1>6. ASSUME NEW k \in 2 .. n, k - 1 \in Good PROVE k \in Good
  <2>1. k \in 1 .. n /\ k - 1 \in 1 .. n /\ off[k - 1] \in Nat /\ Placed(k - 1) /\ Covered(k - 1)
    BY <1>4, <1>6
  <2>2. /\ off[k] = off[k - 1] + Len(ss[k - 1]) /\ off[k] = Len(r[k - 1])
        /\ Len(r[k]) = off[k] + Len(ss[k]) /\ Len(ss[k]) \in Nat /\ Len(ss[k - 1]) \in Nat
    BY <1>1, <1>3, <1>4, <2>1
  <2>3. off[k] \in Nat
    <3>1. \A a, b \in Nat : a + b \in Nat
      OBVIOUS
    <3> QED
      BY <2>1, <2>2, <3>1
  <2>8. \A a, b \in Nat : \A m \in 1 .. b : a + m \in 1 .. a + b
    OBVIOUS
  <2>9. \A a, b \in Nat : \A q \in 1 .. a : q \in 1 .. a + b
    OBVIOUS
  <2>10. \A a, b \in Nat : \A p \in 1 .. a + b : ~(p <= a) => p - a \in 1 .. b /\ p = a + (p - a)
    OBVIOUS
  <2>11. \A a \in Nat : \A b \in Nat : \A p \in 1 .. a + b : p <= a => p \in 1 .. a
    OBVIOUS
  <2>4. \A i \in 1 .. k : i = k \/ i \in 1 .. k - 1
    OBVIOUS
  <2>5. ASSUME NEW i \in 1 .. k, NEW m \in 1 .. Len(ss[i])
        PROVE  off[i] + m \in 1 .. Len(r[k]) /\ r[k][off[i] + m] = ss[i][m]
    <3>1. CASE i = k
      <4>1. off[k] + m \in 1 .. Len(r[k]) /\ r[k][off[k] + m] = ss[k][m]
        BY <1>4, <2>2, <2>3, <2>8, <3>1
      <4> QED
        BY <3>1, <4>1
    <3>2. CASE i \in 1 .. k - 1
      <4>1. off[i] + m \in 1 .. Len(r[k - 1]) /\ r[k - 1][off[i] + m] = ss[i][m]
        BY <2>1, <3>2
      <4>2. off[i] + m \in 1 .. off[k]
        BY <2>2, <4>1
      <4>3. r[k][off[i] + m] = r[k - 1][off[i] + m]
        BY <1>4, <4>2
      <4>4. \A q \in 1 .. off[k] : q \in 1 .. Len(r[k])
        BY <2>2, <2>3, <2>9
      <4> QED
        BY <4>1, <4>2, <4>3, <4>4
    <3> QED
      BY <2>4, <3>1, <3>2
  <2>6. ASSUME NEW p \in 1 .. Len(r[k])
        PROVE  \E i \in 1 .. k : \E m \in 1 .. Len(ss[i]) : p = off[i] + m
    <3>1. CASE p <= off[k]
      <4>1. p \in 1 .. Len(r[k - 1])
        BY <2>2, <2>3, <2>11, <3>1
      <4>2. PICK i \in 1 .. k - 1 : \E m \in 1 .. Len(ss[i]) : p = off[i] + m
        BY <2>1, <4>1
      <4> QED
        BY <4>2
    <3>2. CASE ~(p <= off[k])
      <4>1. p - off[k] \in 1 .. Len(ss[k]) /\ p = off[k] + (p - off[k])
        BY <2>2, <2>3, <2>10, <3>2
      <4>2. k \in 1 .. k
        BY <2>1
      <4> QED
        BY <4>1, <4>2
    <3> QED
      BY <3>1, <3>2
  <2>7. Placed(k) /\ Covered(k)
    BY <2>5, <2>6
  <2> HIDE DEF Placed, Covered
  <2> QED
    BY <2>1, <2>3, <2>7
<1>7. 1 .. n \subseteq Good
  <2> HIDE DEF Good, n
  <2> QED
    BY <1>1, <1>5, <1>6, Climb
<1>9. off \in [1 .. n -> Nat]
  <2>1. \A i \in 1 .. n : off[i] \in Nat
    BY <1>7
  <2> QED
    BY <1>20, <2>1
<1>10. Placed(n) /\ Covered(n) /\ Len(w) = off[n] + Len(ss[n])
  BY <1>1, <1>2, <1>3, <1>7
<1>11. Laid(ss, w, off)
  <2>1. \A i \in 2 .. n : off[i] = off[i - 1] + Len(ss[i - 1])
    BY <1>4
  <2> QED
    BY <1>2, <1>3, <1>9, <1>10, <2>1 DEF Laid
<1>12. w \in Seq(S)
  BY <1>1, <1>2
<1> QED
  BY <1>11, <1>12 DEF w

-----------------------------------------------------------------------------
(* The tiles of a net. *)

\* A segment leads from its first tile to its last, and never rests.
LEMMA SegmentLeads ==
    ASSUME NEW a \in Cells, NEW b \in Cells
    PROVE  LET st == SegmentTiles(<<a, b>>) IN
           /\ st \in Seq(Cells) /\ st # <<>>
           /\ st[1] = a /\ st[Len(st)] = b
           /\ \A k \in 2 .. Len(st) : st[k] # st[k - 1]
<1> DEFINE st == SegmentTiles(<<a, b>>)
           x == a[1]
           y == a[2]
           v == b[1]
           w == b[2]
           steps == IF Gap(x, v) < Gap(y, w) THEN Gap(y, w) ELSE Gap(x, v)
<1>1. a = <<x, y>> /\ b = <<v, w>> /\ x \in Int /\ y \in Int /\ v \in Int /\ w \in Int
  BY DEF Cells
<1>2. st = [k \in 1 .. steps + 1 |-> <<Toward(x, v, k - 1), Toward(y, w, k - 1)>>]
  BY DEF SegmentTiles
<1> HIDE DEF x, y, v, w
<1>3. steps \in Nat /\ Gap(x, v) <= steps /\ Gap(y, w) <= steps /\ (steps = Gap(x, v) \/ steps = Gap(y, w))
  BY <1>1 DEF Gap
<1>4. \A k \in 1 .. steps + 1 : Toward(x, v, k - 1) \in Int /\ Toward(y, w, k - 1) \in Int
  BY <1>1, <1>3 DEF Toward
<1>5. Toward(x, v, 0) = x /\ Toward(y, w, 0) = y
  BY <1>1 DEF Toward
<1>6. Toward(x, v, steps) = v /\ Toward(y, w, steps) = w
  BY <1>1, <1>3 DEF Toward, Gap
<1>7. \A k \in 2 .. steps + 1 : \/ Toward(x, v, k - 1) # Toward(x, v, (k - 1) - 1)
                               \/ Toward(y, w, k - 1) # Toward(y, w, (k - 1) - 1)
  BY <1>1, <1>3 DEF Toward, Gap
<1> HIDE DEF steps, st
<1>8. st \in Seq(Cells) /\ Len(st) = steps + 1 /\ st # <<>>
  BY <1>2, <1>3, <1>4 DEF Cells
<1>9. st[1] = a
  <2>1. 1 \in 1 .. steps + 1 /\ 1 - 1 = 0
    BY <1>3
  <2> QED
    BY <1>1, <1>2, <1>5, <2>1
<1>10. st[Len(st)] = b
  <2>1. steps + 1 \in 1 .. steps + 1 /\ (steps + 1) - 1 = steps
    BY <1>3
  <2> QED
    BY <1>1, <1>2, <1>6, <1>8, <2>1
<1>11. ASSUME NEW k \in 2 .. Len(st) PROVE st[k] # st[k - 1]
  <2>1. k \in 2 .. steps + 1 /\ k \in 1 .. steps + 1 /\ k - 1 \in 1 .. steps + 1
    BY <1>3, <1>8
  <2> QED
    BY <1>2, <1>7, <2>1
<1> QED
  BY <1>8, <1>9, <1>10, <1>11 DEF st

(* The tiles of one segment after the other. *)
Laps(n) == [i \in DOMAIN SegmentsOf(n.pips) |-> SegmentTiles(SegmentsOf(n.pips)[i])]

LEMMA SegmentsJoin ==
    ASSUME NEW n \in GuidedNets, n.pips # <<>>
    PROVE  LET at == Deduped(n.pips)
               segs == SegmentsOf(n.pips)
           IN  /\ at \in Seq(Cells) /\ at # <<>> /\ at[1] = n.pips[1]
               /\ segs \in Seq(Cells \X Cells) /\ segs # <<>>
               /\ segs[1][1] = at[1] /\ segs[Len(segs)][2] = at[Len(at)]
               /\ \A i \in 2 .. Len(segs) : segs[i - 1][2] = segs[i][1]
               /\ Len(at) > 1 => /\ Len(segs) = Len(at) - 1
                                 /\ \A i \in 1 .. Len(segs) : segs[i] = <<at[i], at[i + 1]>>
               /\ \A i \in 2 .. Len(at) : at[i] # at[i - 1]
<1> DEFINE at == Deduped(n.pips)
           segs == SegmentsOf(n.pips)
<1>1. n.pips \in Seq(Cells)
  BY GuideAssumption
<1>2. at \in Seq(Cells)
  BY <1>1, DedupedMerges
<1>3. PICK f : Merges(n.pips, at, f)
  BY <1>1, DedupedMerges
<1>4. segs = CASE at = <<>> -> <<>>
               [] Len(at) = 1 -> <<<<at[1], at[1]>>>>
               [] OTHER -> [i \in 1..(Len(at) - 1) |-> <<at[i], at[i + 1]>>]
  BY DEF SegmentsOf
<1> HIDE DEF at, segs
<1>5. at # <<>> /\ at[1] = n.pips[1]
  <2>1. 1 \in 1 .. Len(n.pips)
    BY <1>1
  <2>2. f[1] \in 1 .. Len(at) /\ at[f[1]] = n.pips[1] /\ f[1] = 1
    BY <1>3, <2>1 DEF Merges
  <2> QED
    BY <1>2, <2>2
<1>6. \A i \in 2 .. Len(at) : at[i] # at[i - 1]
  <2> TAKE i \in 2 .. Len(at)
  <2>1. \E k \in 2 .. Len(n.pips) : n.pips[k] # n.pips[k - 1] /\ at[i] = n.pips[k] /\ at[i - 1] = n.pips[k - 1]
    <3> DEFINE s == n.pips
    <3>1. s \in Seq(Cells) /\ s # <<>> /\ at \in Seq(Cells) /\ Merges(s, at, f) /\ i \in 2 .. Len(at)
      BY <1>1, <1>2, <1>3
    <3> HIDE DEF s
    <3>2. \E k \in 2 .. Len(s) : s[k] # s[k - 1] /\ at[i] = s[k] /\ at[i - 1] = s[k - 1]
      BY ONLY <3>1, MergedNeighbours
    <3> QED
      BY <3>2 DEF s
  <2> QED
    BY <2>1
<1>7. Len(at) \in Nat \ {0} /\ \A i \in 1 .. Len(at) : at[i] \in Cells
  BY <1>2, <1>5
<1>8. CASE Len(at) = 1
  <2>1. segs = <<<<at[1], at[1]>>>>
    BY <1>4, <1>5, <1>8
  <2>2. at[1] \in Cells
    BY <1>7
  <2>3. segs \in Seq(Cells \X Cells) /\ Len(segs) = 1 /\ segs[1] = <<at[1], at[1]>> /\ segs # <<>>
    BY <2>1, <2>2
  <2> QED
    BY <1>2, <1>5, <1>6, <1>8, <2>3 DEF at, segs
<1>9. CASE Len(at) # 1
  <2>1. segs = [i \in 1..(Len(at) - 1) |-> <<at[i], at[i + 1]>>]
    BY <1>4, <1>5, <1>9
  <2>2. Len(at) - 1 \in Nat \ {0} /\ Len(at) > 1
    <3>1. \A l \in Nat \ {0} : l # 1 => l - 1 \in Nat \ {0} /\ l > 1
      OBVIOUS
    <3> QED
      BY <1>7, <1>9, <3>1
  <2>3. \A i \in 1 .. Len(at) - 1 : at[i] \in Cells /\ at[i + 1] \in Cells
    BY <1>7
  <2>4. segs \in Seq(Cells \X Cells) /\ Len(segs) = Len(at) - 1
    <3>1. \A i \in 1 .. Len(at) - 1 : <<at[i], at[i + 1]>> \in Cells \X Cells
      BY <2>3
    <3>2. segs \in [1 .. Len(at) - 1 -> Cells \X Cells]
      BY <2>1, <3>1
    <3> QED
      BY <2>2, <3>2
  <2>5. segs # <<>>
    BY <2>2, <2>4
  <2>6. \A i \in 1 .. Len(segs) : segs[i] = <<at[i], at[i + 1]>>
    BY <2>1, <2>4
  <2>7. segs[1][1] = at[1] /\ segs[Len(segs)][2] = at[Len(at)]
    <3>1. 1 \in 1 .. Len(segs) /\ Len(segs) \in 1 .. Len(segs) /\ Len(segs) + 1 = Len(at)
      BY <2>2, <2>4
    <3> QED
      BY <2>6, <3>1
  <2>8. ASSUME NEW i \in 2 .. Len(segs) PROVE segs[i - 1][2] = segs[i][1]
    <3>1. i \in 1 .. Len(segs) /\ i - 1 \in 1 .. Len(segs) /\ (i - 1) + 1 = i
      BY <2>2, <2>4
    <3> QED
      BY <2>6, <3>1
  <2> QED
    BY <1>2, <1>5, <1>6, <2>2, <2>4, <2>5, <2>6, <2>7, <2>8 DEF at, segs
<1> QED
  BY <1>8, <1>9

(* Where the segments of a net are in its tiles. *)
TilesLaid(n, T) ==
  /\ T \in Seq(Cells) /\ T # <<>>
  /\ T[1] = Deduped(n.pips)[1] /\ T[Len(T)] = Deduped(n.pips)[Len(Deduped(n.pips))]
  /\ \A i \in DOMAIN Laps(n) : \E o \in Nat : \A m \in 1 .. Len(Laps(n)[i]) :
       o + m \in 1 .. Len(T) /\ T[o + m] = Laps(n)[i][m]
  /\ \A p \in 2 .. Len(T) : \E i \in DOMAIN Laps(n) : \E m \in 2 .. Len(Laps(n)[i]) :
       T[p - 1] = Laps(n)[i][m - 1] /\ T[p] = Laps(n)[i][m]

LEMMA NetTilesLaid ==
    ASSUME NEW n \in GuidedNets, n.pips # <<>>
    PROVE  TilesLaid(n, NetTiles(n))
<1> DEFINE at == Deduped(n.pips)
           segs == SegmentsOf(n.pips)
           ss == Laps(n)
           w == FlattenSeq(ss)
           T == Deduped(w)
<1>1. /\ segs \in Seq(Cells \X Cells) /\ segs # <<>>
      /\ segs[1][1] = at[1] /\ segs[Len(segs)][2] = at[Len(at)]
      /\ \A i \in 2 .. Len(segs) : segs[i - 1][2] = segs[i][1]
  BY SegmentsJoin
<1>2. NetTiles(n) = T
  BY DEF NetTiles, Laps
<1>3. DOMAIN ss = 1 .. Len(segs) /\ \A i \in 1 .. Len(segs) : ss[i] = SegmentTiles(segs[i])
  BY <1>1 DEF Laps
<1> HIDE DEF ss
<1>4. ASSUME NEW i \in 1 .. Len(segs)
      PROVE  /\ ss[i] \in Seq(Cells) /\ ss[i] # <<>> /\ Len(ss[i]) \in Nat \ {0}
             /\ ss[i][1] = segs[i][1] /\ ss[i][Len(ss[i])] = segs[i][2]
             /\ \A k \in 2 .. Len(ss[i]) : ss[i][k] # ss[i][k - 1]
  <2>1. segs[i] \in Cells \X Cells
    BY <1>1
  <2>2. segs[i] = <<segs[i][1], segs[i][2]>> /\ segs[i][1] \in Cells /\ segs[i][2] \in Cells
    BY <2>1
  <2>3. ss[i] = SegmentTiles(<<segs[i][1], segs[i][2]>>)
    BY <1>3, <2>2
  <2>4. /\ ss[i] \in Seq(Cells) /\ ss[i] # <<>>
        /\ ss[i][1] = segs[i][1] /\ ss[i][Len(ss[i])] = segs[i][2]
        /\ \A k \in 2 .. Len(ss[i]) : ss[i][k] # ss[i][k - 1]
    BY <2>2, <2>3, SegmentLeads
  <2> QED
    BY <2>4
<1>5. Len(segs) \in Nat \ {0} /\ ss \in Seq(Seq(Cells)) /\ Len(ss) = Len(segs) /\ ss # <<>>
  <2>1. Len(segs) \in Nat \ {0}
    BY <1>1
  <2>2. ss = [i \in 1 .. Len(segs) |-> ss[i]]
    BY <1>3 DEF ss, Laps
  <2>3. ss \in [1 .. Len(segs) -> Seq(Cells)]
    BY <1>4, <2>2
  <2> QED
    BY <2>1, <2>3
<1>6. w \in Seq(Cells) /\ \E off : Laid(ss, w, off)
  BY <1>5, FlattenLaid
<1> HIDE DEF w
<1>7. PICK off : Laid(ss, w, off)
  BY <1>6
<1> DEFINE N == Len(segs)
<1>8. /\ \A i \in 1 .. N : off[i] \in Nat
      /\ off[1] = 0
      /\ \A i \in 2 .. N : off[i] = off[i - 1] + Len(ss[i - 1])
      /\ Len(w) = off[N] + Len(ss[N])
      /\ \A i \in 1 .. N : \A m \in 1 .. Len(ss[i]) :
           off[i] + m \in 1 .. Len(w) /\ w[off[i] + m] = ss[i][m]
      /\ \A p \in 1 .. Len(w) : \E i \in 1 .. N : \E m \in 1 .. Len(ss[i]) : p = off[i] + m
  BY <1>5, <1>7 DEF Laid
<1>9. w # <<>> /\ w[1] = at[1] /\ w[Len(w)] = at[Len(at)]
  <2>1. 1 \in 1 .. N /\ N \in 1 .. N
    BY <1>5
  <2>2. 1 \in 1 .. Len(ss[1]) /\ Len(ss[N]) \in 1 .. Len(ss[N])
    BY <1>4, <2>1
  <2>3. off[1] + 1 \in 1 .. Len(w) /\ w[off[1] + 1] = ss[1][1] /\ off[1] + 1 = 1
    BY <1>8, <2>1, <2>2
  <2>4. w[Len(w)] = ss[N][Len(ss[N])]
    BY <1>8, <2>1, <2>2
  <2> QED
    BY <1>1, <1>4, <1>6, <2>1, <2>3, <2>4
<1>10. T \in Seq(Cells) /\ \E f : Merges(w, T, f)
  BY <1>6, <1>9, DedupedMerges
<1> HIDE DEF T
<1>11. PICK f : Merges(w, T, f)
  BY <1>10
<1>12. /\ f \in [1 .. Len(w) -> 1 .. Len(T)] /\ f[1] = 1 /\ f[Len(w)] = Len(T)
       /\ \A k \in 1 .. Len(w) : T[f[k]] = w[k]
       /\ \A k \in 2 .. Len(w) : f[k] = IF w[k] = w[k - 1] THEN f[k - 1] ELSE f[k - 1] + 1
  BY <1>11 DEF Merges
<1>13. Len(w) \in Nat \ {0} /\ 1 \in 1 .. Len(w) /\ Len(w) \in 1 .. Len(w) /\ Len(T) \in Nat
  BY <1>6, <1>9, <1>10
<1>14. T # <<>> /\ T[1] = at[1] /\ T[Len(T)] = at[Len(at)]
  <2>1. f[1] \in 1 .. Len(T)
    BY <1>12, <1>13
  <2>2. T[f[1]] = w[1] /\ T[f[Len(w)]] = w[Len(w)]
    BY <1>12, <1>13
  <2> QED
    BY <1>9, <1>10, <1>12, <2>1, <2>2
<1>15. ASSUME NEW i \in 1 .. N
       PROVE  \E o \in Nat : \A m \in 1 .. Len(ss[i]) : o + m \in 1 .. Len(T) /\ T[o + m] = ss[i][m]
  <2> DEFINE g == off[i]
             o == f[g + 1] - 1
             L == Len(ss[i])
  <2>1. g \in Nat /\ L \in Nat \ {0} /\ \A m \in 1 .. L : g + m \in 1 .. Len(w) /\ w[g + m] = ss[i][m]
    BY <1>4, <1>8
  <2>2. f[g + 1] \in 1 .. Len(T)
    <3>1. 1 \in 1 .. L
      BY <2>1
    <3>2. g + 1 \in 1 .. Len(w)
      BY <2>1, <3>1
    <3> QED
      BY <1>12, <3>2
  <2>3. o \in Nat /\ f[g + 1] = o + 1
    BY <1>13, <2>2
  <2>4. \A k \in 2 .. L : ss[i][k] # ss[i][k - 1]
    BY <1>4
  <2> HIDE DEF g, o, L
  <2> DEFINE Good == {m \in 1 .. L : f[g + m] = o + m}
  <2>5. 1 \in Good
    BY <2>1, <2>3
  <2>6. ASSUME NEW m \in 2 .. L, m - 1 \in Good PROVE m \in Good
    <3>1. m \in 1 .. L /\ m - 1 \in 1 .. L /\ g + m \in 2 .. Len(w) /\ (g + m) - 1 = g + (m - 1)
      <4>1. m \in 1 .. L /\ m - 1 \in 1 .. L
        BY <2>1
      <4>2. g + m \in 1 .. Len(w)
        BY <2>1, <4>1
      <4> QED
        BY <1>13, <2>1, <4>1, <4>2
    <3>2. w[g + m] = ss[i][m] /\ w[g + (m - 1)] = ss[i][m - 1]
      BY <2>1, <3>1
    <3>3. w[g + m] # w[(g + m) - 1]
      BY <2>4, <3>1, <3>2
    <3>4. f[g + m] = f[g + (m - 1)] + 1
      BY <1>12, <3>1, <3>3
    <3>5. f[g + (m - 1)] = o + (m - 1)
      BY <2>6
    <3> QED
      BY <2>3, <3>1, <3>4, <3>5
  <2>7. 1 .. L \subseteq Good
    <3> HIDE DEF Good
    <3> QED
      BY <2>1, <2>5, <2>6, Climb
  <2>8. ASSUME NEW m \in 1 .. L PROVE o + m \in 1 .. Len(T) /\ T[o + m] = ss[i][m]
    <3>1. f[g + m] = o + m /\ g + m \in 1 .. Len(w) /\ w[g + m] = ss[i][m]
      BY <2>1, <2>7
    <3>2. f[g + m] \in 1 .. Len(T) /\ T[f[g + m]] = w[g + m]
      BY <1>12, <3>1
    <3> QED
      BY <3>1, <3>2
  <2> QED
    BY <2>3, <2>8 DEF L
<1>16. ASSUME NEW p \in 2 .. Len(T)
       PROVE  \E i \in 1 .. N : \E m \in 2 .. Len(ss[i]) : T[p - 1] = ss[i][m - 1] /\ T[p] = ss[i][m]
  <2>1. PICK k \in 2 .. Len(w) : w[k] # w[k - 1] /\ T[p] = w[k] /\ T[p - 1] = w[k - 1]
    BY <1>6, <1>9, <1>10, <1>11, MergedNeighbours
  <2>2. k \in 1 .. Len(w) /\ k \in Nat /\ k >= 2
    BY <1>13
  <2>7. PICK i \in 1 .. N : \E m \in 1 .. Len(ss[i]) : k = off[i] + m
    BY <1>8, <2>2
  <2>3. PICK m \in 1 .. Len(ss[i]) : k = off[i] + m
    BY <2>7
  <2>4. off[i] \in Nat /\ Len(ss[i]) \in Nat \ {0} /\ w[off[i] + m] = ss[i][m]
    BY <1>4, <1>8
  <2>5. CASE m = 1
    <3>1. i # 1
      BY <1>8, <2>2, <2>3, <2>5
    <3>2. i \in 2 .. N /\ i - 1 \in 1 .. N
      BY <1>5, <3>1
    <3>3. Len(ss[i - 1]) \in Nat \ {0} /\ off[i - 1] \in Nat /\ off[i] = off[i - 1] + Len(ss[i - 1])
      BY <1>4, <1>8, <3>2
    <3>4. Len(ss[i - 1]) \in 1 .. Len(ss[i - 1])
      BY <3>3
    <3>5. w[off[i - 1] + Len(ss[i - 1])] = ss[i - 1][Len(ss[i - 1])]
      BY <1>8, <3>2, <3>4
    <3>6. k - 1 = off[i]
      BY <2>3, <2>4, <2>5
    <3>7. w[k - 1] = segs[i - 1][2] /\ w[k] = segs[i][1]
      BY <1>4, <2>3, <2>4, <2>5, <3>2, <3>3, <3>5, <3>6
    <3> QED
      BY <1>1, <2>1, <3>2, <3>7
  <2>6. CASE m # 1
    <3>1. m \in 2 .. Len(ss[i]) /\ m - 1 \in 1 .. Len(ss[i]) /\ k - 1 = off[i] + (m - 1)
      <4>1. \A a \in Nat : \A b \in Nat \ {0} : \A j \in 1 .. b :
              j # 1 => j \in 2 .. b /\ j - 1 \in 1 .. b /\ (a + j) - 1 = a + (j - 1)
        OBVIOUS
      <4> QED
        BY ONLY <2>3, <2>4, <2>6, <4>1
    <3>2. w[off[i] + (m - 1)] = ss[i][m - 1]
      BY <1>8, <3>1
    <3> QED
      BY <2>1, <2>3, <2>4, <3>1, <3>2
  <2> QED
    BY <2>5, <2>6
<1>17. TilesLaid(n, T)
  <2>1. \A i \in DOMAIN ss : \E o \in Nat : \A m \in 1 .. Len(ss[i]) : o + m \in 1 .. Len(T) /\ T[o + m] = ss[i][m]
    BY <1>3, <1>15
  <2>2. \A p \in 2 .. Len(T) : \E i \in DOMAIN ss : \E m \in 2 .. Len(ss[i]) :
          T[p - 1] = ss[i][m - 1] /\ T[p] = ss[i][m]
    BY <1>3, <1>16
  <2> QED
    BY <1>10, <1>14, <2>1, <2>2 DEF TilesLaid, ss
<1> QED
  BY <1>2, <1>17

\* t and u are next to each other in the list T.
NextTo(T, t, u) == \E p \in 2 .. Len(T) : {T[p - 1], T[p]} = {t, u}

\* A net without pips has no tiles.
LEMMA NoTiles ==
    ASSUME NEW n \in GuidedNets, n.pips = <<>>
    PROVE  SegmentsOf(n.pips) = <<>> /\ NetTiles(n) = <<>>
<1>1. Deduped(<<>>) = <<>>
  <2>1. <<>> \in Seq({}) /\ \A k \in 2 .. Len(<<>>) : <<>>[k] # <<>>[k - 1]
    OBVIOUS
  <2> QED
    BY <2>1, DedupedSame
<1>2. SegmentsOf(n.pips) = <<>>
  BY <1>1 DEF SegmentsOf
<1>3. [i \in DOMAIN <<>> |-> SegmentTiles(<<>>[i])] = <<>>
  OBVIOUS
<1>4. FlattenSeq(<<>>) = <<>>
  BY DEF FlattenSeq
<1> QED
  BY <1>1, <1>2, <1>3, <1>4 DEF NetTiles

\* Two tiles are neighbours on an old route if they are next to each other in
\* the list of its tiles.
LEMMA AdjacentIsNext ==
    ASSUME NEW n \in GuidedNets
    PROVE  /\ NetTiles(n) \in Seq(Cells)
           /\ \A t, u : Adjacent(n, t, u) <=> NextTo(NetTiles(n), t, u)
<1> DEFINE T == NetTiles(n)
           segs == SegmentsOf(n.pips)
<1>1. CASE n.pips = <<>>
  <2>1. T = <<>> /\ segs = <<>>
    BY <1>1, NoTiles
  <2>2. \A t, u : ~Adjacent(n, t, u)
    <3>1. DOMAIN segs = {}
      BY <2>1
    <3> QED
      BY <3>1 DEF Adjacent
  <2>3. \A t, u : ~NextTo(T, t, u)
    <3>1. 2 .. Len(T) = {}
      BY <2>1
    <3> QED
      BY <3>1 DEF NextTo
  <2> QED
    BY <2>1, <2>2, <2>3
<1>2. CASE n.pips # <<>>
  <2>1. TilesLaid(n, T)
    BY <1>2, NetTilesLaid
  <2>2. /\ segs \in Seq(Cells \X Cells)
        /\ DOMAIN Laps(n) = DOMAIN segs
        /\ \A i \in DOMAIN segs : Laps(n)[i] = SegmentTiles(segs[i]) /\ Len(Laps(n)[i]) \in Nat
    <3>1. segs \in Seq(Cells \X Cells)
      BY <1>2, SegmentsJoin
    <3>2. DOMAIN Laps(n) = DOMAIN segs /\ \A i \in DOMAIN segs : Laps(n)[i] = SegmentTiles(segs[i])
      BY DEF Laps
    <3>3. ASSUME NEW i \in DOMAIN segs PROVE Len(SegmentTiles(segs[i])) \in Nat
      <4>1. segs[i] \in Cells \X Cells
        BY <3>1
      <4>2. segs[i] = <<segs[i][1], segs[i][2]>> /\ segs[i][1] \in Cells /\ segs[i][2] \in Cells
        BY <4>1
      <4>3. SegmentTiles(<<segs[i][1], segs[i][2]>>) \in Seq(Cells)
        BY <4>2, SegmentLeads
      <4>4. SegmentTiles(segs[i]) \in Seq(Cells)
        BY <4>2, <4>3
      <4> QED
        BY <4>4
    <3> QED
      BY <3>1, <3>2, <3>3
  <2>3. T \in Seq(Cells) /\ Len(T) \in Nat
    BY <2>1 DEF TilesLaid
  <2> HIDE DEF T, segs
  <2>4. ASSUME NEW t, NEW u, Adjacent(n, t, u) PROVE NextTo(T, t, u)
    <3>1. PICK i \in DOMAIN segs : \E k \in 1 .. (Len(SegmentTiles(segs[i])) - 1) :
            {SegmentTiles(segs[i])[k], SegmentTiles(segs[i])[k + 1]} = {t, u}
      BY <2>4 DEF Adjacent, segs
    <3> DEFINE st == Laps(n)[i]
    <3>2. PICK k \in 1 .. (Len(st) - 1) : {st[k], st[k + 1]} = {t, u}
      BY <2>2, <3>1
    <3>3. PICK o \in Nat : \A m \in 1 .. Len(st) : o + m \in 1 .. Len(T) /\ T[o + m] = st[m]
      BY <2>1, <2>2 DEF TilesLaid
    <3>4. Len(st) \in Nat
      BY <2>2
    <3> HIDE DEF st
    <3>5. k \in 1 .. Len(st) /\ k + 1 \in 1 .. Len(st)
      BY <3>4
    <3>6. o + (k + 1) \in 1 .. Len(T) /\ T[o + k] = st[k] /\ T[o + (k + 1)] = st[k + 1]
      BY <3>3, <3>5
    <3>7. o + (k + 1) \in 2 .. Len(T) /\ (o + (k + 1)) - 1 = o + k
      BY <2>3, <3>4, <3>6
    <3>8. {T[(o + (k + 1)) - 1], T[o + (k + 1)]} = {t, u}
      BY <3>2, <3>6, <3>7
    <3> QED
      BY <3>7, <3>8 DEF NextTo
  <2>5. ASSUME NEW t, NEW u, NextTo(T, t, u) PROVE Adjacent(n, t, u)
    <3>1. PICK p \in 2 .. Len(T) : {T[p - 1], T[p]} = {t, u}
      BY <2>5 DEF NextTo
    <3>2. PICK i \in DOMAIN Laps(n) : \E m \in 2 .. Len(Laps(n)[i]) :
            T[p - 1] = Laps(n)[i][m - 1] /\ T[p] = Laps(n)[i][m]
      BY <2>1 DEF TilesLaid
    <3> DEFINE st == Laps(n)[i]
    <3>3. PICK m \in 2 .. Len(st) : T[p - 1] = st[m - 1] /\ T[p] = st[m]
      BY <3>2
    <3>4. i \in DOMAIN segs /\ st = SegmentTiles(segs[i]) /\ Len(st) \in Nat
      BY <2>2
    <3> HIDE DEF st
    <3>5. m - 1 \in 1 .. (Len(st) - 1) /\ (m - 1) + 1 = m
      BY <3>4
    <3>6. {st[m - 1], st[(m - 1) + 1]} = {t, u}
      BY <3>1, <3>3, <3>5
    <3>7. \E k \in 1 .. (Len(st) - 1) : {st[k], st[k + 1]} = {t, u}
      BY <3>5, <3>6
    <3> QED
      BY <3>4, <3>7 DEF Adjacent, segs
  <2> QED
    BY <2>3, <2>4, <2>5 DEF T
<1> QED
  BY <1>1, <1>2

\* All tiles of a list are reached from any of them over neighbours.
LEMMA ClosedIsAll ==
    ASSUME NEW X, NEW T \in Seq(X), NEW S, NEW a \in S, a \in ToSet(T),
           \A x \in S : \A u \in ToSet(T) : NextTo(T, x, u) => u \in S
    PROVE  ToSet(T) \subseteq S
<1>0. Len(T) \in Nat /\ DOMAIN T = 1 .. Len(T)
  OBVIOUS
<1>1. PICK i \in 1 .. Len(T) : T[i] = a
  BY <1>0 DEF ToSet
<1>2. ASSUME NEW p \in 2 .. Len(T) PROVE T[p - 1] \in S <=> T[p] \in S
  <2>1. p \in 1 .. Len(T) /\ p - 1 \in 1 .. Len(T)
    BY <1>0
  <2>2. T[p] \in ToSet(T) /\ T[p - 1] \in ToSet(T)
    BY <1>0, <2>1 DEF ToSet
  <2>3. NextTo(T, T[p - 1], T[p]) /\ NextTo(T, T[p], T[p - 1])
    BY DEF NextTo
  <2> QED
    BY <2>2, <2>3
<1> DEFINE N == Len(T)
           Up == {k \in 1 .. N : i + (k - 1) \in 1 .. N => T[i + (k - 1)] \in S}
           Down == {k \in 1 .. N : i - (k - 1) \in 1 .. N => T[i - (k - 1)] \in S}
<1>3. N \in Nat \ {0} /\ i \in 1 .. N
  BY <1>0
<1> HIDE DEF N
<1>4. 1 .. N \subseteq Up
  <2>1. 1 \in Up
    <3>1. i + (1 - 1) = i /\ 1 \in 1 .. N
      BY <1>3
    <3> QED
      BY <1>1, <3>1
  <2>2. ASSUME NEW k \in 2 .. N, k - 1 \in Up PROVE k \in Up
    <3> SUFFICES ASSUME i + (k - 1) \in 1 .. N PROVE T[i + (k - 1)] \in S
      BY <1>3
    <3>1. i + ((k - 1) - 1) \in 1 .. N /\ i + (k - 1) \in 2 .. N /\ (i + (k - 1)) - 1 = i + ((k - 1) - 1)
      BY <1>3
    <3>2. T[i + ((k - 1) - 1)] \in S
      BY <2>2, <3>1
    <3> QED
      BY <1>2, <3>1, <3>2 DEF N
  <2> HIDE DEF Up
  <2> QED
    BY <1>3, <2>1, <2>2, Climb
<1>5. 1 .. N \subseteq Down
  <2>1. 1 \in Down
    <3>1. i - (1 - 1) = i /\ 1 \in 1 .. N
      BY <1>3
    <3> QED
      BY <1>1, <3>1
  <2>2. ASSUME NEW k \in 2 .. N, k - 1 \in Down PROVE k \in Down
    <3> SUFFICES ASSUME i - (k - 1) \in 1 .. N PROVE T[i - (k - 1)] \in S
      BY <1>3
    <3>1. i - ((k - 1) - 1) \in 1 .. N /\ i - ((k - 1) - 1) \in 2 .. N
          /\ (i - ((k - 1) - 1)) - 1 = i - (k - 1)
      BY <1>3
    <3>2. T[i - ((k - 1) - 1)] \in S
      BY <2>2, <3>1
    <3> QED
      BY <1>2, <3>1, <3>2 DEF N
  <2> HIDE DEF Down
  <2> QED
    BY <1>3, <2>1, <2>2, Climb
<1>6. ASSUME NEW j \in 1 .. N PROVE T[j] \in S
  <2>1. CASE j >= i
    <3>1. j - i + 1 \in 1 .. N /\ i + ((j - i + 1) - 1) = j
      BY <1>3, <2>1
    <3> QED
      BY <1>4, <3>1
  <2>2. CASE j < i
    <3>1. i - j + 1 \in 1 .. N /\ i - ((i - j + 1) - 1) = j
      BY <1>3, <2>2
    <3> QED
      BY <1>5, <3>1
  <2> QED
    BY <1>3, <2>1, <2>2
<1> QED
  BY <1>0, <1>6 DEF ToSet, N

\* The pairs of tiles a guide search steps over, and those distances spread over.
NextPairs(T) == {p \in ToSet(T) \X ToSet(T) : NextTo(T, p[1], p[2])}

BesidePairs == {p \in Tiles \X Tiles : Beside(p[1], p[2])}

\* What RouteGuide reaches over an old route, and over the tiles of the device.
LEMMA WithinRoute ==
    ASSUME net \in GuidedNets, NEW S \in SUBSET Mapped(net), NEW k \in Nat
    PROVE  Within(S, k, LAMBDA t, u : Adjacent(net, t, u))
             = Reach(Mapped(net), NextPairs(NetTiles(net)), S)[k]
<1> DEFINE T == NetTiles(net)
           M == Mapped(net)
           Body(reach) == [n \in Nat |->
             IF n = 0 THEN S
             ELSE reach[n - 1] \union {u \in M \union Tiles : \E t \in reach[n - 1] : Adjacent(net, t, u)}]
           r == CHOOSE reach : reach = Body(reach)
           b == Reach(M, NextPairs(T), S)
<1>1. Within(S, k, LAMBDA t, u : Adjacent(net, t, u)) = r[k]
  BY DEF Within
<1>2. ReachesIn(b, M, NextPairs(T), S)
  BY ReachExists
<1>3. /\ b \in [Nat -> SUBSET M] /\ b[0] = S
      /\ \A n \in Nat : b[n + 1] = b[n] \union {u \in M : \E t \in b[n] : <<t, u>> \in NextPairs(T)}
  BY <1>2 DEF ReachesIn
<1>4. \A t, u : <<t, u>> \in NextPairs(T) <=> t \in M /\ u \in M /\ Adjacent(net, t, u)
  BY AdjacentIsNext DEF NextPairs, Mapped
<1>5. \A t, u : Adjacent(net, t, u) => u \in M
  <2> TAKE t, u
  <2> SUFFICES ASSUME Adjacent(net, t, u) PROVE u \in M
    OBVIOUS
  <2>0. NextTo(T, t, u)
    BY AdjacentIsNext
  <2>1. PICK p \in 2 .. Len(T) : {T[p - 1], T[p]} = {t, u}
    BY <2>0 DEF NextTo
  <2>2. T \in Seq(Cells)
    BY AdjacentIsNext
  <2> HIDE DEF T
  <2>3. p - 1 \in DOMAIN T /\ p \in DOMAIN T
    BY <2>2
  <2> QED
    BY <2>1, <2>3 DEF Mapped, ToSet, T
<1> HIDE DEF b
<1>6. b = Body(b)
  <2>1. ASSUME NEW n \in Nat
        PROVE  b[n] = IF n = 0 THEN S
                      ELSE b[n - 1] \union {u \in M \union Tiles : \E t \in b[n - 1] : Adjacent(net, t, u)}
    <3>1. CASE n = 0
      BY <1>3, <3>1
    <3>2. CASE n # 0
      <4>1. n - 1 \in Nat /\ (n - 1) + 1 = n
        BY <3>2
      <4>2. b[n] = b[n - 1] \union {u \in M : \E t \in b[n - 1] : <<t, u>> \in NextPairs(T)}
        BY <1>3, <4>1
      <4>3. b[n - 1] \subseteq M
        BY <1>3, <4>1
      <4>4. {u \in M : \E t \in b[n - 1] : <<t, u>> \in NextPairs(T)}
              = {u \in M \union Tiles : \E t \in b[n - 1] : Adjacent(net, t, u)}
        BY <1>4, <1>5, <4>3
      <4> QED
        BY <3>2, <4>2, <4>4
    <3> QED
      BY <3>1, <3>2
  <2>2. b = [n \in Nat |-> b[n]]
    BY <1>3
  <2> HIDE DEF M
  <2> QED
    BY <2>1, <2>2
<1>7. r = Body(r)
  <2> HIDE DEF Body
  <2> QED
    BY <1>6
<1> HIDE DEF r
<1>8. r[k] = b[k]
  <2>1. ASSUME NEW n \in Nat
        PROVE  /\ n + 1 # 0 /\ (n + 1) - 1 = n /\ n + 1 \in Nat
    OBVIOUS
  <2>2. ASSUME NEW n \in Nat, r[n] = b[n] PROVE r[n + 1] = b[n + 1]
    <3>1. r[n + 1] = r[n] \union {u \in M \union Tiles : \E t \in r[n] : Adjacent(net, t, u)}
      BY <1>7, <2>1
    <3>2. b[n + 1] = b[n] \union {u \in M \union Tiles : \E t \in b[n] : Adjacent(net, t, u)}
      BY <1>6, <2>1
    <3> QED
      BY <2>2, <3>1, <3>2
  <2>3. r[0] = b[0]
    <3>1. r[0] = S
      BY <1>7
    <3> QED
      BY <1>3, <3>1
  <2> QED
    BY <2>2, <2>3, SameReach
<1> QED
  BY <1>1, <1>8 DEF b

LEMMA WithinTiles ==
    ASSUME NEW S \in SUBSET Tiles, NEW k \in Nat
    PROVE  Within(S, k, LAMBDA a, b : b \in Tiles /\ Beside(a, b)) = Reach(Tiles, BesidePairs, S)[k]
<1> DEFINE M == Mapped(net)
           Body(reach) == [n \in Nat |->
             IF n = 0 THEN S
             ELSE reach[n - 1] \union {u \in M \union Tiles :
                                         \E t \in reach[n - 1] : u \in Tiles /\ Beside(t, u)}]
           r == CHOOSE reach : reach = Body(reach)
           near == Reach(Tiles, BesidePairs, S)
<1>1. Within(S, k, LAMBDA a, b : b \in Tiles /\ Beside(a, b)) = r[k]
  BY DEF Within
<1>2. ReachesIn(near, Tiles, BesidePairs, S)
  BY ReachExists
<1>3. /\ near \in [Nat -> SUBSET Tiles] /\ near[0] = S
      /\ \A n \in Nat : near[n + 1] = near[n] \union {u \in Tiles : \E t \in near[n] : <<t, u>> \in BesidePairs}
  BY <1>2 DEF ReachesIn
<1> HIDE DEF near
<1>6. near = Body(near)
  <2>1. ASSUME NEW n \in Nat
        PROVE  near[n] = IF n = 0 THEN S
                      ELSE near[n - 1] \union {u \in M \union Tiles :
                                              \E t \in near[n - 1] : u \in Tiles /\ Beside(t, u)}
    <3>1. CASE n = 0
      BY <1>3, <3>1
    <3>2. CASE n # 0
      <4>1. n - 1 \in Nat /\ (n - 1) + 1 = n
        BY <3>2
      <4>2. near[n] = near[n - 1] \union {u \in Tiles : \E t \in near[n - 1] : <<t, u>> \in BesidePairs}
        BY <1>3, <4>1
      <4>3. near[n - 1] \subseteq Tiles
        BY <1>3, <4>1
      <4>4. {u \in Tiles : \E t \in near[n - 1] : <<t, u>> \in BesidePairs}
              = {u \in M \union Tiles : \E t \in near[n - 1] : u \in Tiles /\ Beside(t, u)}
        <5> HIDE DEF M
        <5> QED
          BY <4>3 DEF BesidePairs
      <4> QED
        BY <3>2, <4>2, <4>4
    <3> QED
      BY <3>1, <3>2
  <2>2. near = [n \in Nat |-> near[n]]
    BY <1>3
  <2> HIDE DEF M
  <2> QED
    BY <2>1, <2>2
<1>7. r = Body(r)
  <2> HIDE DEF Body
  <2> QED
    BY <1>6
<1> HIDE DEF r
<1>8. r[k] = near[k]
  <2>1. ASSUME NEW n \in Nat
        PROVE  /\ n + 1 # 0 /\ (n + 1) - 1 = n /\ n + 1 \in Nat
    OBVIOUS
  <2>2. ASSUME NEW n \in Nat, r[n] = near[n] PROVE r[n + 1] = near[n + 1]
    <3>1. r[n + 1] = r[n] \union {u \in M \union Tiles : \E t \in r[n] : u \in Tiles /\ Beside(t, u)}
      BY <1>7, <2>1
    <3>2. near[n + 1] = near[n] \union {u \in M \union Tiles : \E t \in near[n] : u \in Tiles /\ Beside(t, u)}
      BY <1>6, <2>1
    <3> QED
      BY <2>2, <3>1, <3>2
  <2>3. r[0] = near[0]
    <3>1. r[0] = S
      BY <1>7
    <3> QED
      BY <1>3, <3>1
  <2> QED
    BY <2>2, <2>3, SameReach
<1> QED
  BY <1>1, <1>8 DEF near

-----------------------------------------------------------------------------
(* The distances from a guide. *)

\* What every tile's distance is of: the tile is reached within so many steps
\* from the guide, and once it has left the queue none of the tiles beside it
\* is more than one farther.
DistanceInv ==
  /\ phase \in {"following", "left"} => queue = <<>>
  /\ (phase \in {"spreading", "following", "left"} /\ guide # <<>>) =>
       /\ \A t \in Tiles : field[t] # Far => t \in Reach(Tiles, BesidePairs, Nearest)[field[t]]
       /\ \A i \in 1 .. Len(queue) : field[queue[i]] # Far
       /\ \A t \in Tiles : (field[t] # Far /\ \A i \in 1 .. Len(queue) : queue[i] # t) =>
            \A u \in Tiles : Beside(t, u) => field[u] # Far /\ field[u] <= field[t] + 1

LEMMA SpreadDistances ==
    ASSUME FieldInv, DistanceInv, Spread
    PROVE  DistanceInv'
<1> DEFINE t == Head(queue)
           found == {u \in Tiles : Closer(t, u)}
           b == Reach(Tiles, BesidePairs, Nearest)
           far == field[t] + 1
<1>1. /\ phase = "spreading" /\ phase' = phase /\ guide' = guide
      /\ guide # <<>> /\ queue # <<>> /\ queue \in Seq(Tiles)
      /\ \A x \in Tiles : field[x] \in Nat \union {Far}
  BY DEF Spread, FieldInv
<1>2. /\ queue' = Tail(queue) \o SetToSeq(found)
      /\ \A u \in Tiles : field'[u] = IF u \in found THEN far ELSE field[u]
  BY DEF Spread
<1>3. t \in Tiles /\ Tail(queue) \in Seq(Tiles) /\ Len(queue) \in Nat \ {0} /\ t = queue[1]
      /\ Len(Tail(queue)) = Len(queue) - 1 /\ \A i \in 1 .. Len(queue) - 1 : Tail(queue)[i] = queue[i + 1]
  BY <1>1
<1>4. SetToSeq(found) \in Seq(Tiles) /\ \A u \in found : \E i \in 1 .. Len(SetToSeq(found)) : SetToSeq(found)[i] = u
  <2>1. IsFiniteSet(found)
    BY GuideAssumption, FS_Subset
  <2> HIDE DEF found
  <2>2. SetToSeq(found) \in Seq(found)
    BY <2>1, SetToSeqAll
  <2>3. found \subseteq Tiles
    BY DEF found
  <2> QED
    BY <2>1, <2>2, <2>3, SetToSeqAll
<1>14. ListsBoth(queue', Tail(queue), SetToSeq(found))
  BY <1>2, <1>3, <1>4, JoinedHas
<1>5. field[t] \in Nat /\ far \in Nat /\ far # Far /\ far - 1 = field[t]
  <2>1. 1 \in 1 .. Len(queue)
    BY <1>3
  <2>2. field[t] # Far
    BY <1>1, <1>3, <2>1 DEF DistanceInv
  <2> QED
    BY <1>1, <1>3, <2>2 DEF Far
<1>6. /\ ReachesIn(b, Tiles, BesidePairs, Nearest) /\ b' = b
  <2>1. Nearest \in SUBSET Tiles /\ Nearest' = Nearest
    BY <1>1 DEF Nearest
  <2> QED
    BY <2>1, ReachExists
<1> HIDE DEF b
<1>7. \A u \in found : u \in Tiles /\ Beside(t, u) /\ (field[u] = Far \/ far < field[u])
  BY DEF Closer
<1>8. t \notin found
  <2>1. ~Beside(t, t)
    <3>1. t[1] \in Int /\ t[2] \in Int
      BY <1>3, GuideAssumption DEF Cells
    <3> QED
      BY <3>1 DEF Beside, Gap
  <2> QED
    BY <1>7, <2>1
<1>9. \A u \in Tiles : Beside(t, u) => u \in found \/ (field[u] # Far /\ field[u] <= far)
  BY <1>1, <1>5 DEF Closer, Far
<1>10. ASSUME NEW u \in Tiles, field[u] # Far
       PROVE  field'[u] # Far /\ field'[u] <= field[u]
  <2>1. field[u] \in Nat
    BY <1>1, <1>10
  <2>2. CASE u \in found
    <3>1. field'[u] = far /\ far < field[u]
      BY <1>2, <1>7, <1>10, <2>2
    <3> HIDE DEF far
    <3> QED
      BY <1>5, <2>1, <3>1
  <2>3. CASE u \notin found
    <3>1. field'[u] = field[u]
      BY <1>2, <2>3
    <3> QED
      BY <1>10, <2>1, <3>1
  <2> QED
    BY <2>2, <2>3
<1> HIDE DEF found, t, far
<1>11. ASSUME NEW u \in Tiles, field'[u] # Far
       PROVE  u \in b[field'[u]]
  <2>1. CASE u \in found
    <3>1. t \in b[field[t]]
      BY <1>1, <1>3, <1>5 DEF DistanceInv, b, Far
    <3>2. b[field[t] + 1] = b[field[t]] \union {x \in Tiles : \E y \in b[field[t]] : <<y, x>> \in BesidePairs}
      BY <1>5, <1>6 DEF ReachesIn
    <3>3. <<t, u>> \in BesidePairs
      BY <1>3, <1>7, <2>1 DEF BesidePairs
    <3>4. u \in b[field[t] + 1]
      BY <3>1, <3>2, <3>3
    <3> QED
      BY <1>2, <2>1, <3>4 DEF far
  <2>2. CASE u \notin found
    BY <1>1, <1>2, <1>11, <2>2 DEF DistanceInv, b
  <2> QED
    BY <2>1, <2>2
<1>12. ASSUME NEW i \in 1 .. Len(queue') PROVE queue'[i] \in Tiles /\ field'[queue'[i]] # Far
  <2>1. \/ \E k \in 1 .. Len(Tail(queue)) : queue'[i] = Tail(queue)[k]
        \/ \E k \in 1 .. Len(SetToSeq(found)) : queue'[i] = SetToSeq(found)[k]
    BY <1>14 DEF ListsBoth
  <2>2. ASSUME NEW k \in 1 .. Len(Tail(queue)), queue'[i] = Tail(queue)[k]
        PROVE  queue'[i] \in Tiles /\ field'[queue'[i]] # Far
    <3>1. k + 1 \in 1 .. Len(queue) /\ Tail(queue)[k] = queue[k + 1]
      BY <1>3
    <3>2. queue[k + 1] \in Tiles /\ field[queue[k + 1]] # Far
      BY <1>1, <3>1 DEF DistanceInv
    <3> QED
      BY <1>10, <2>2, <3>1, <3>2
  <2>3. ASSUME NEW k \in 1 .. Len(SetToSeq(found)), queue'[i] = SetToSeq(found)[k]
        PROVE  queue'[i] \in Tiles /\ field'[queue'[i]] # Far
    <3>1. SetToSeq(found)[k] \in found
      <4>1. IsFiniteSet(found)
        BY GuideAssumption, FS_Subset DEF found
      <4>2. SetToSeq(found) \in Seq(found)
        BY <4>1, SetToSeqAll
      <4> QED
        BY <4>2
    <3> QED
      BY <1>2, <1>5, <1>7, <2>3, <3>1
  <2> QED
    BY <2>1, <2>2, <2>3
<1>13. ASSUME NEW x \in Tiles, field'[x] # Far, \A i \in 1 .. Len(queue') : queue'[i] # x,
              NEW u \in Tiles, Beside(x, u)
       PROVE  field'[u] # Far /\ field'[u] <= field'[x] + 1
  <2>1. x \notin found
    <3> SUFFICES ASSUME x \in found PROVE FALSE
      OBVIOUS
    <3>1. PICK k \in 1 .. Len(SetToSeq(found)) : SetToSeq(found)[k] = x
      BY <1>4
    <3>2. \E i \in 1 .. Len(queue') : queue'[i] = SetToSeq(found)[k]
      BY <1>14, <3>1 DEF ListsBoth
    <3> QED
      BY <1>13, <3>1, <3>2
  <2>2. field'[x] = field[x] /\ field[x] # Far
    BY <1>2, <1>13, <2>1
  <2>3. CASE x = t
    <3>1. u \in found => field'[u] = far
      BY <1>2
    <3>2. u \notin found => field[u] # Far /\ field[u] <= far /\ field'[u] = field[u]
      BY <1>2, <1>9, <1>13, <2>3
    <3>3. field'[x] + 1 = far
      BY <2>2, <2>3 DEF far
    <3> QED
      BY <1>5, <3>1, <3>2, <3>3
  <2>4. CASE x # t
    <3>1. \A i \in 1 .. Len(queue) : queue[i] # x
      <4> SUFFICES ASSUME NEW i \in 1 .. Len(queue), queue[i] = x PROVE FALSE
        OBVIOUS
      <4>1. i # 1
        BY <1>3, <2>4
      <4>2. i - 1 \in 1 .. Len(Tail(queue)) /\ Tail(queue)[i - 1] = x
        <5>1. i - 1 \in 1 .. Len(queue) - 1 /\ (i - 1) + 1 = i
          BY <1>3, <4>1
        <5> QED
          BY <1>3, <5>1
      <4>3. \E j \in 1 .. Len(queue') : queue'[j] = Tail(queue)[i - 1]
        BY <1>14, <4>2 DEF ListsBoth
      <4> QED
        BY <1>13, <4>2, <4>3
    <3>2. field[u] # Far /\ field[u] <= field[x] + 1
      BY <1>1, <1>13, <2>2, <3>1 DEF DistanceInv
    <3>3. field'[u] # Far /\ field'[u] <= field[u]
      BY <1>10, <3>2
    <3>4. field[x] \in Int /\ field[u] \in Int /\ field'[u] \in Int
      BY <1>1, <1>2, <1>5 DEF Far
    <3> QED
      BY <2>2, <3>2, <3>3, <3>4
  <2> QED
    BY <2>3, <2>4
<1> QED
  BY <1>1, <1>6, <1>11, <1>12, <1>13 DEF DistanceInv, b

\* At first the tiles of the guide have a distance, all in the queue.
LEMMA SpreadStarts ==
    ASSUME StartSpread
    PROVE  DistanceInv'
<1>1. /\ phase' = "spreading" /\ guide' = guide /\ queue' = SetToSeq(Nearest)
      /\ field' = IF guide = <<>> THEN <<>> ELSE [t \in Tiles |-> IF t \in Nearest THEN 0 ELSE Far]
  BY DEF StartSpread
<1> DEFINE b == Reach(Tiles, BesidePairs, Nearest)
<1>2. Nearest \in SUBSET Tiles /\ Nearest' = Nearest
  BY <1>1 DEF Nearest
<1>3. b[0] = Nearest /\ b' = b
  <2>1. ReachesIn(b, Tiles, BesidePairs, Nearest)
    BY <1>2, ReachExists
  <2> QED
    BY <1>2, <2>1 DEF ReachesIn
<1>4. \A t \in Nearest : \E i \in 1 .. Len(queue') : queue'[i] = t
  <2>1. IsFiniteSet(Nearest)
    BY <1>2, GuideAssumption, FS_Subset
  <2> QED
    BY <1>1, <2>1, SetToSeqAll
<1>5. \A i \in 1 .. Len(queue') : queue'[i] \in Nearest
  <2>1. IsFiniteSet(Nearest)
    BY <1>2, GuideAssumption, FS_Subset
  <2>2. SetToSeq(Nearest) \in Seq(Nearest)
    BY <2>1, SetToSeqAll
  <2> QED
    BY <1>1, <2>2
<1> HIDE DEF b
<1>6. CASE guide # <<>>
  <2>1. \A t \in Tiles : field'[t] = IF t \in Nearest THEN 0 ELSE Far
    BY <1>1, <1>6
  <2>2. \A t \in Tiles : field'[t] # Far => t \in Nearest /\ field'[t] = 0
    BY <2>1
  <2>3. \A t \in Nearest : field'[t] # Far
    BY <1>2, <2>1 DEF Far
  <2>4. \A t \in Tiles : field'[t] # Far => t \in b'[field'[t]]
    BY <1>3, <2>2
  <2> QED
    BY <1>1, <1>4, <1>5, <2>2, <2>3, <2>4 DEF DistanceInv, b
<1> QED
  BY <1>1, <1>6 DEF DistanceInv

\* Where nothing that distances are about changes.
DistanceSame ==
    /\ queue' = queue /\ guide' = guide /\ field' = field
    /\ phase' \in {"spreading", "following", "left"} => phase \in {"spreading", "following", "left"}
    /\ phase' \in {"following", "left"} => queue = <<>>

LEMMA DistancesKept ==
    ASSUME DistanceInv, DistanceSame
    PROVE  DistanceInv'
<1>1. Nearest' = Nearest
  BY DEF DistanceSame, Nearest
<1>2. Reach(Tiles, BesidePairs, Nearest)' = Reach(Tiles, BesidePairs, Nearest)
  BY <1>1
<1> DEFINE b == Reach(Tiles, BesidePairs, Nearest)
<1>3. b' = b
  BY <1>2
<1> HIDE DEF b
<1> QED
  BY <1>3 DEF DistanceSame, DistanceInv, b

LEMMA DistancesStep ==
    ASSUME FieldInv, DistanceInv, [GuideNext]_guideVars
    PROVE  DistanceInv'
<1>1. CASE Trivial \/ NotOnRoute \/ StartTrace \/ TraceOn \/ TraceDone
  <2>1. phase' \notin {"spreading", "following", "left"}
    BY <1>1 DEF Trivial, NotOnRoute, StartTrace, TraceOn, TraceDone, Guided
  <2> QED
    BY <2>1 DEF DistanceInv
<1>2. CASE StartSpread
  BY <1>2, SpreadStarts
<1>3. CASE Spread
  BY <1>3, SpreadDistances
<1>4. CASE SpreadDone \/ Enter \/ Follow \/ Leave \/ Done \/ UNCHANGED guideVars
  <2>1. DistanceSame
    BY <1>4 DEF DistanceSame, DistanceInv, SpreadDone, Enter, Follow, Leave, Done, guideVars
  <2> QED
    BY <2>1, DistancesKept
<1> QED
  BY <1>1, <1>2, <1>3, <1>4 DEF GuideNext

LEMMA DistancesAreTrue ==
    ASSUME FieldInv, DistanceInv
    PROVE  DistancesTrue
<1> SUFFICES ASSUME phase \in {"following", "left"}, guide # <<>>, NEW t \in Tiles
             PROVE  LET near(k) == t \in Within(ToSet(guide) \cap Tiles, k,
                                                LAMBDA a, b : b \in Tiles /\ Beside(a, b))
                    IN IF field[t] = Far THEN ~near(Cardinality(Tiles))
                       ELSE near(field[t]) /\ (field[t] > 0 => ~near(field[t] - 1))
  BY DEF DistancesTrue
<1> DEFINE w == Reach(Tiles, BesidePairs, Nearest)
<1>1. ReachesIn(w, Tiles, BesidePairs, Nearest)
  BY ReachExists DEF Nearest
<1>2. /\ queue = <<>>
      /\ \A x \in Tiles : field[x] # Far => x \in w[field[x]]
      /\ \A x \in Tiles : field[x] \in Nat \union {Far}
      /\ \A x \in Tiles : x \in Nearest => field[x] = 0
  BY DEF DistanceInv, FieldInv, Nearest
<1>3. \A x, y \in Tiles : field[x] # Far /\ Beside(x, y) => field[y] # Far /\ field[y] <= field[x] + 1
  <2>1. \A x \in Tiles : \A i \in 1 .. Len(queue) : queue[i] # x
    BY <1>2
  <2> QED
    BY <2>1 DEF DistanceInv
<1>4. /\ w[0] = Nearest /\ \A n \in Nat : w[n] \in SUBSET Tiles
      /\ \A n \in Nat : w[n + 1] = w[n] \union {u \in Tiles : \E x \in w[n] : <<x, u>> \in BesidePairs}
  BY <1>1 DEF ReachesIn
<1>5. \A k \in Nat : Within(ToSet(guide) \cap Tiles, k, LAMBDA a, b : b \in Tiles /\ Beside(a, b)) = w[k]
  <2>1. Nearest \in SUBSET Tiles /\ Nearest = ToSet(guide) \cap Tiles
    BY DEF Nearest
  <2>2. \A k \in Nat : Within(Nearest, k, LAMBDA a, b : b \in Tiles /\ Beside(a, b)) = w[k]
    BY <2>1, WithinTiles
  <2> QED
    BY <2>1, <2>2
<1> HIDE DEF w
<1>6. ASSUME NEW k \in Nat PROVE \A u \in w[k] : field[u] # Far /\ field[u] <= k
  <2> DEFINE N == k + 1
             Near == {m \in 1 .. N : \A u \in w[m - 1] : field[u] # Far /\ field[u] <= m - 1}
  <2>1. 1 \in Near
    <3>1. 1 \in 1 .. N /\ 1 - 1 = 0
      OBVIOUS
    <3>2. \A u \in w[0] : field[u] = 0 /\ 0 # Far
      BY <1>2, <1>4 DEF Far
    <3> HIDE DEF N
    <3>3. \A u \in w[1 - 1] : field[u] # Far /\ field[u] <= 1 - 1
      BY <3>1, <3>2
    <3> QED
      BY <3>1, <3>3
  <2>2. ASSUME NEW m \in 2 .. N, m - 1 \in Near PROVE m \in Near
    <3>1. m \in 1 .. N /\ (m - 1) - 1 \in Nat /\ ((m - 1) - 1) + 1 = m - 1
      OBVIOUS
    <3> DEFINE j == (m - 1) - 1
    <3>2. j \in Nat /\ m - 1 = j + 1 /\ \A u \in w[j] : field[u] # Far /\ field[u] <= j
      BY <2>2, <3>1
    <3> HIDE DEF j
    <3>3. ASSUME NEW u \in w[j + 1] PROVE field[u] # Far /\ field[u] <= j + 1
      <4>1. CASE u \in w[j]
        <5>1. field[u] \in Nat
          BY <1>2, <1>4, <3>2, <4>1
        <5> QED
          BY <3>2, <4>1, <5>1
      <4>2. CASE u \notin w[j]
        <5>1. PICK x \in w[j] : u \in Tiles /\ <<x, u>> \in BesidePairs
          BY <1>4, <3>2, <3>3, <4>2
        <5>2. x \in Tiles /\ Beside(x, u)
          BY <5>1 DEF BesidePairs
        <5>3. field[x] # Far /\ field[x] <= j /\ field[x] \in Nat
          BY <1>2, <3>2, <5>2
        <5>4. field[u] # Far /\ field[u] <= field[x] + 1 /\ field[u] \in Nat
          BY <1>2, <1>3, <5>1, <5>2, <5>3
        <5> QED
          BY <3>2, <5>3, <5>4
      <4> QED
        BY <4>1, <4>2
    <3>4. \A u \in w[m - 1] : field[u] # Far /\ field[u] <= m - 1
      BY <3>2, <3>3
    <3> QED
      BY <3>1, <3>4
  <2>3. 1 .. N \subseteq Near
    <3>1. N \in Nat \ {0}
      OBVIOUS
    <3> HIDE DEF N, Near
    <3> QED
      BY <2>1, <2>2, <3>1, Climb
  <2>4. N \in 1 .. N /\ N - 1 = k
    OBVIOUS
  <2>5. \A u \in w[N - 1] : field[u] # Far /\ field[u] <= N - 1
    <3> HIDE DEF N
    <3> QED
      BY <2>3, <2>4
  <2> QED
    BY <2>4, <2>5
<1>7. Cardinality(Tiles) \in Nat
  BY GuideAssumption, FS_CardinalityType
<1>8. CASE field[t] = Far
  <2>1. t \notin w[Cardinality(Tiles)]
    BY <1>6, <1>7, <1>8
  <2> QED
    BY <1>5, <1>7, <1>8, <2>1
<1>9. CASE field[t] # Far
  <2>1. field[t] \in Nat /\ t \in w[field[t]]
    BY <1>2, <1>9
  <2>2. ASSUME field[t] > 0 PROVE field[t] - 1 \in Nat /\ t \notin w[field[t] - 1]
    <3>1. field[t] - 1 \in Nat /\ ~(field[t] <= field[t] - 1)
      BY <2>1, <2>2
    <3> QED
      BY <1>6, <3>1
  <2> QED
    BY <1>5, <1>9, <2>1, <2>2
<1> QED
  BY <1>8, <1>9

-----------------------------------------------------------------------------
(* The search for a guide: f[u] is the way that was found to u. *)

\* w leads from a to u over the tiles of T.
LeadsTo(T, w, a, u) ==
  /\ w \in Seq(ToSet(T)) /\ Len(w) >= 1 /\ w[1] = a /\ w[Len(w)] = u
  /\ \A p \in 2 .. Len(w) : NextTo(T, w[p - 1], w[p]) /\ w[p] # w[p - 1]

\* The ways follow where tiles came from.
Follows(T, cf, f) ==
  /\ f \in [ToSet(T) -> Seq(ToSet(T))]
  /\ \A u \in ToSet(T) : f[u] = IF u \in DOMAIN cf THEN Append(f[cf[u]], u) ELSE <<u>>

\* What has been seen is a closed part of the route about a, without z.
SeenFrom(T, a, z, cf) ==
  /\ a \in ToSet(T) /\ z \in ToSet(T) /\ a # z /\ a \notin DOMAIN cf /\ z \notin DOMAIN cf
  /\ DOMAIN cf \subseteq ToSet(T)
  /\ \A u \in DOMAIN cf : cf[u] \in DOMAIN cf \union {a}

\* The queue is in the order of the ways, which differ by one at most; what has
\* left it has all its neighbours seen, none of them farther by more than one.
InOrder(T, S, q, f) ==
  /\ q \in Seq(S)
  /\ \A i, j \in 1 .. Len(q) : i <= j => Len(f[q[i]]) <= Len(f[q[j]])
  /\ q # <<>> => \A x \in S : Len(f[x]) <= Len(f[q[1]]) + 1
  /\ \A x \in S : (\A i \in 1 .. Len(q) : q[i] # x) =>
       \A u \in ToSet(T) : NextTo(T, x, u) => u \in S /\ Len(f[u]) <= Len(f[x]) + 1

Traced(T, a, z, cf, q, f) ==
  /\ T \in Seq(Cells)
  /\ SeenFrom(T, a, z, cf) /\ Follows(T, cf, f)
  /\ \A u \in DOMAIN cf \union {a} : LeadsTo(T, f[u], a, u)
  /\ InOrder(T, DOMAIN cf \union {a}, q, f)
  /\ q # <<>>

LEMMA TraceBegins ==
    ASSUME NEW T \in Seq(Cells), NEW a \in ToSet(T), NEW z \in ToSet(T), a # z
    PROVE  \E f : Traced(T, a, z, <<>>, <<a>>, f)
<1> DEFINE M == ToSet(T)
           f == [u \in M |-> <<u>>]
           q == <<a>>
<1>1. DOMAIN <<>> = {} /\ {} \union {a} = {a}
  OBVIOUS
<1>2. SeenFrom(T, a, z, <<>>)
  BY <1>1 DEF SeenFrom
<1>3. Follows(T, <<>>, f)
  <2>1. f \in [M -> Seq(M)]
    OBVIOUS
  <2> QED
    BY <1>1, <2>1 DEF Follows
<1>4. LeadsTo(T, f[a], a, a)
  <2>1. f[a] = <<a>> /\ <<a>> \in Seq(M) /\ Len(<<a>>) = 1 /\ <<a>>[1] = a
    OBVIOUS
  <2>2. 2 .. 1 = {}
    OBVIOUS
  <2> HIDE DEF f, M
  <2> QED
    BY <2>1, <2>2 DEF LeadsTo, M
<1>5. q \in Seq({a}) /\ Len(q) = 1 /\ q[1] = a /\ q # <<>>
  OBVIOUS
<1>6. InOrder(T, {a}, q, f)
  <2>1. Len(f[a]) = 1
    OBVIOUS
  <2>2. \A x \in {a} : x = q[1] /\ 1 \in 1 .. Len(q)
    BY <1>5
  <2>3. \A i \in 1 .. Len(q) : q[i] = a
    BY <1>5
  <2> HIDE DEF q, f
  <2>4. \A x \in {a} : ~(\A i \in 1 .. Len(q) : q[i] # x)
    BY <2>2
  <2>5. \A i, j \in 1 .. Len(q) : i <= j => Len(f[q[i]]) <= Len(f[q[j]])
    BY <2>1, <2>3
  <2>6. \A x \in {a} : Len(f[x]) <= Len(f[q[1]]) + 1
    BY <2>1, <1>5
  <2> QED
    BY <1>5, <2>4, <2>5, <2>6 DEF InOrder
<1> HIDE DEF f, q, M
<1>7. Traced(T, a, z, <<>>, q, f)
  BY <1>1, <1>2, <1>3, <1>4, <1>5, <1>6 DEF Traced
<1> QED
  BY <1>7 DEF q

\* A way that goes on by one tile.
LEMMA LeadsOn ==
    ASSUME NEW T, NEW a, NEW h, NEW w, LeadsTo(T, w, a, h), NEW u \in ToSet(T), u # h, NextTo(T, h, u)
    PROVE  LeadsTo(T, Append(w, u), a, u) /\ Len(Append(w, u)) = Len(w) + 1 /\ Len(w) \in Nat \ {0}
<1> DEFINE M == ToSet(T)
           v == Append(w, u)
<1>1. w \in Seq(M) /\ Len(w) \in Nat \ {0} /\ w[1] = a /\ w[Len(w)] = h
  BY DEF LeadsTo
<1>2. /\ v \in Seq(M) /\ Len(v) = Len(w) + 1 /\ v[Len(w) + 1] = u
      /\ \A i \in 1 .. Len(w) : v[i] = w[i]
  <2> HIDE DEF M
  <2> QED
    BY <1>1 DEF M
<1> HIDE DEF v
<1>3. v[1] = a
  BY <1>1, <1>2
<1>4. ASSUME NEW p \in 2 .. Len(v) PROVE NextTo(T, v[p - 1], v[p]) /\ v[p] # v[p - 1]
  <2>1. CASE p = Len(w) + 1
    <3>1. p - 1 = Len(w) /\ Len(w) \in 1 .. Len(w)
      BY <1>1, <2>1
    <3> QED
      BY <1>1, <1>2, <2>1, <3>1
  <2>2. CASE p # Len(w) + 1
    <3>1. p \in 2 .. Len(w) /\ p \in 1 .. Len(w) /\ p - 1 \in 1 .. Len(w)
      BY <1>1, <1>2, <2>2
    <3> QED
      BY <1>2, <3>1 DEF LeadsTo
  <2> QED
    BY <2>1, <2>2
<1> QED
  BY <1>1, <1>2, <1>3, <1>4 DEF LeadsTo, v

\* What the search sees for the first time from h, where it came from, and the
\* ways to it.
NewFrom(T, cf, a, h) == {u \in ToSet(T) : NextTo(T, h, u)} \ (DOMAIN cf \union {a})

CameFrom(T, cf, a, h) ==
  [u \in DOMAIN cf \union NewFrom(T, cf, a, h) |-> IF u \in DOMAIN cf THEN cf[u] ELSE h]

Ways(T, cf, a, h, f) ==
  [u \in ToSet(T) |-> IF u \in NewFrom(T, cf, a, h) THEN Append(f[h], u) ELSE f[u]]

\* From the ways to those that go on from h by one tile.
WaysGo(T, a, z, cf, h, f) ==
  LET N == NewFrom(T, cf, a, h)
      cf2 == CameFrom(T, cf, a, h)
      f2 == Ways(T, cf, a, h, f)
  IN  /\ DOMAIN cf2 = DOMAIN cf \union N
      /\ SeenFrom(T, a, z, cf2) /\ Follows(T, cf2, f2)
      /\ \A u \in DOMAIN cf2 \union {a} : LeadsTo(T, f2[u], a, u)
      /\ \A u \in DOMAIN cf \union {a} : f2[u] = f[u] /\ Len(f[u]) \in Nat \ {0}
      /\ \A u \in N : Len(f2[u]) = Len(f[h]) + 1

LEMMA WaysGoOn ==
    ASSUME NEW T, NEW a, NEW z, NEW cf, NEW f, SeenFrom(T, a, z, cf), Follows(T, cf, f),
           \A u \in DOMAIN cf \union {a} : LeadsTo(T, f[u], a, u),
           NEW h \in DOMAIN cf \union {a}, z \notin NewFrom(T, cf, a, h)
    PROVE  WaysGo(T, a, z, cf, h, f)
<1> DEFINE N == NewFrom(T, cf, a, h)
           cf2 == CameFrom(T, cf, a, h)
           f2 == Ways(T, cf, a, h, f)
           M == ToSet(T)
           S == DOMAIN cf \union {a}
<1>1. N \subseteq M /\ (\A u \in N : NextTo(T, h, u) /\ u \notin S) /\ z \notin N
  BY DEF NewFrom
<1>2. DOMAIN cf2 = DOMAIN cf \union N /\ \A u \in DOMAIN cf2 : cf2[u] = IF u \in DOMAIN cf THEN cf[u] ELSE h
  BY DEF CameFrom
<1>3. DOMAIN f2 = M /\ \A u \in M : f2[u] = IF u \in N THEN Append(f[h], u) ELSE f[u]
  BY DEF Ways
<1>4. /\ a \in M /\ z \in M /\ a # z /\ a \notin DOMAIN cf /\ z \notin DOMAIN cf
      /\ DOMAIN cf \subseteq M /\ \A u \in DOMAIN cf : cf[u] \in S
  BY DEF SeenFrom
<1>5. /\ DOMAIN f = M /\ \A u \in M : f[u] \in Seq(M)
      /\ \A u \in M : f[u] = IF u \in DOMAIN cf THEN Append(f[cf[u]], u) ELSE <<u>>
  BY DEF Follows
<1>6. f2 = [u \in M |-> f2[u]]
  BY DEF Ways
<1> HIDE DEF N, cf2, f2, M
<1>7. SeenFrom(T, a, z, cf2)
  BY <1>1, <1>2, <1>4 DEF SeenFrom, M
<1>8. \A u \in S : u \in M /\ f2[u] = f[u] /\ LeadsTo(T, f[u], a, u)
  BY <1>1, <1>3, <1>4
<1>9. ASSUME NEW u \in N
      PROVE  /\ f2[u] = Append(f[h], u) /\ LeadsTo(T, f2[u], a, u)
             /\ Len(f2[u]) = Len(f[h]) + 1
  <2>1. u \in M /\ u # h /\ NextTo(T, h, u) /\ LeadsTo(T, f[h], a, h)
    BY <1>1, <1>8
  <2>2. f2[u] = Append(f[h], u)
    BY <1>3, <2>1
  <2> QED
    BY <2>1, <2>2, LeadsOn DEF M
<1>10. Follows(T, cf2, f2)
  <2>1. ASSUME NEW u \in M PROVE f2[u] \in Seq(M) /\ f2[u] = IF u \in DOMAIN cf2 THEN Append(f2[cf2[u]], u) ELSE <<u>>
    <3>1. CASE u \in N
      <4>1. cf2[u] = h /\ u \in DOMAIN cf2 /\ f2[h] = f[h]
        BY <1>1, <1>2, <1>8, <3>1
      <4>2. f2[u] \in Seq(M)
        BY <1>9, <3>1 DEF LeadsTo, M
      <4> QED
        BY <1>9, <3>1, <4>1, <4>2
    <3>2. CASE u \in DOMAIN cf
      <4>1. cf2[u] = cf[u] /\ u \in DOMAIN cf2 /\ cf[u] \in S /\ u \in S
        BY <1>2, <1>4, <3>2
      <4>2. f2[cf[u]] = f[cf[u]] /\ f2[u] = f[u] /\ f[u] = Append(f[cf[u]], u)
        BY <1>5, <1>8, <3>2, <4>1
      <4> QED
        BY <1>5, <4>1, <4>2
    <3>3. CASE u \notin N /\ u \notin DOMAIN cf
      BY <1>2, <1>3, <1>5, <3>3
    <3> QED
      BY <3>1, <3>2, <3>3
  <2>2. f2 \in [M -> Seq(M)]
    BY <1>6, <2>1
  <2> QED
    BY <2>1, <2>2 DEF Follows, M
<1>11. \A u \in DOMAIN cf2 \union {a} : LeadsTo(T, f2[u], a, u)
  BY <1>2, <1>8, <1>9
<1>12. \A u \in S : Len(f[u]) \in Nat \ {0}
  <2> TAKE u \in S
  <2>1. f[u] \in Seq(ToSet(T)) /\ Len(f[u]) >= 1
    BY <1>8 DEF LeadsTo
  <2> QED
    BY <2>1
<1> QED
  BY <1>2, <1>7, <1>8, <1>9, <1>10, <1>11, <1>12 DEF N, cf2, f2, WaysGo

LEMMA OrderGoesOn ==
    ASSUME NEW T, NEW S, NEW N, NEW q, NEW f, NEW f2, NEW s, NEW h,
           InOrder(T, S, q, f), q # <<>>, h = Head(q),
           N = {u \in ToSet(T) : NextTo(T, h, u)} \ S,
           s \in Seq(N), \A u \in N : \E i \in 1 .. Len(s) : s[i] = u,
           \A u \in S : f2[u] = f[u] /\ Len(f[u]) \in Nat,
           \A u \in N : Len(f2[u]) = Len(f[h]) + 1
    PROVE  InOrder(T, S \union N, Tail(q) \o s, f2)
<1> DEFINE w == Tail(q)
           q2 == w \o s
           S2 == S \union N
           L == Len(f[h])
<1>1. /\ q \in Seq(S) /\ Len(q) \in Nat \ {0} /\ h = q[1] /\ h \in S /\ 1 \in 1 .. Len(q)
      /\ w \in Seq(S) /\ Len(w) = Len(q) - 1
      /\ \A i \in 1 .. Len(q) : q[i] \in S
      /\ \A i \in 1 .. Len(w) : i + 1 \in 1 .. Len(q) /\ w[i] = q[i + 1] /\ w[i] \in S
  <2>1. q \in Seq(S)
    BY DEF InOrder
  <2> QED
    BY <2>1
<1>2. L \in Nat /\ (\A u \in S : f2[u] = f[u] /\ Len(f[u]) \in Nat) /\ \A u \in N : Len(f2[u]) = L + 1
  BY <1>1
<1>3. w \in Seq(S2) /\ s \in Seq(S2) /\ q2 \in Seq(S2)
  BY <1>1
<1>4. \A i \in 1 .. Len(s) : s[i] \in N
  OBVIOUS
<1>5. /\ \A u \in S : Len(f[u]) <= L + 1
      /\ \A i, j \in 1 .. Len(q) : i <= j => Len(f[q[i]]) <= Len(f[q[j]])
      /\ \A x \in S : (\A i \in 1 .. Len(q) : q[i] # x) =>
           \A u \in ToSet(T) : NextTo(T, x, u) => u \in S /\ Len(f[u]) <= Len(f[x]) + 1
  BY <1>1 DEF InOrder
<1>6. \A u \in ToSet(T) : NextTo(T, h, u) => u \in S2
  OBVIOUS
<1> HIDE DEF w, q2, L
<1>7. ASSUME NEW i \in 1 .. Len(w)
      PROVE  /\ w[i] \in S /\ L <= Len(f[w[i]]) /\ Len(f[w[i]]) <= L + 1 /\ Len(f2[w[i]]) = Len(f[w[i]])
  <2>1. i + 1 \in 1 .. Len(q) /\ w[i] = q[i + 1] /\ w[i] \in S /\ 1 <= i + 1
    BY <1>1
  <2>2. Len(f[q[1]]) <= Len(f[q[i + 1]])
    BY <1>1, <1>5, <2>1
  <2> QED
    BY <1>1, <1>2, <1>5, <2>1, <2>2 DEF L
<1>8. \A i \in 1 .. Len(q2) :
        \/ i \in 1 .. Len(w) /\ q2[i] = w[i]
        \/ i > Len(w) /\ i - Len(w) \in 1 .. Len(s) /\ q2[i] = s[i - Len(w)]
  BY <1>3 DEF q2
<1>9. ASSUME NEW i \in 1 .. Len(q2), NEW j \in 1 .. Len(q2), i <= j
      PROVE  Len(f2[q2[i]]) <= Len(f2[q2[j]])
  <2>1. CASE j \in 1 .. Len(w)
    <3>1. i \in 1 .. Len(w) /\ q2[i] = w[i] /\ q2[j] = w[j]
      BY <1>8, <1>9, <2>1
    <3>2. i + 1 \in 1 .. Len(q) /\ j + 1 \in 1 .. Len(q) /\ i + 1 <= j + 1 /\ w[i] = q[i + 1] /\ w[j] = q[j + 1]
      BY <1>1, <1>9, <2>1, <3>1
    <3>3. Len(f[w[i]]) <= Len(f[w[j]])
      BY <1>5, <3>2
    <3> QED
      BY <1>7, <2>1, <3>1, <3>3
  <2>2. CASE j \notin 1 .. Len(w)
    <3>1. Len(f2[q2[j]]) = L + 1
      BY <1>2, <1>4, <1>8, <2>2
    <3>2. Len(f2[q2[i]]) <= L + 1
      <4>1. CASE i \in 1 .. Len(w)
        <5>1. q2[i] = w[i]
          BY <1>8, <4>1
        <5> QED
          BY <1>7, <4>1, <5>1
      <4>2. CASE i \notin 1 .. Len(w)
        <5>1. Len(f2[q2[i]]) = L + 1
          BY <1>2, <1>4, <1>8, <4>2
        <5> QED
          BY <1>2, <5>1
      <4> QED
        BY <4>1, <4>2
    <3> QED
      BY <3>1, <3>2
  <2> QED
    BY <2>1, <2>2
<1>10. ASSUME q2 # <<>>, NEW x \in S2 PROVE Len(f2[x]) <= Len(f2[q2[1]]) + 1
  <2>1. Len(f2[x]) <= L + 1 /\ Len(f2[x]) \in Nat
    BY <1>2, <1>5
  <2>2. 1 \in 1 .. Len(q2)
    BY <1>3, <1>10
  <2>3. L <= Len(f2[q2[1]]) /\ Len(f2[q2[1]]) \in Nat
    <3>1. CASE 1 \in 1 .. Len(w)
      BY <1>2, <1>7, <1>8, <2>2, <3>1
    <3>2. CASE 1 \notin 1 .. Len(w)
      <4>1. Len(f2[q2[1]]) = L + 1
        BY <1>2, <1>4, <1>8, <2>2, <3>2
      <4> QED
        BY <1>2, <4>1
    <3> QED
      BY <3>1, <3>2
  <2> QED
    BY <1>2, <2>1, <2>3
<1>11. ListsBoth(q2, w, s)
  BY <1>3, JoinedHas DEF q2
<1>12. ASSUME NEW x \in S2, \A i \in 1 .. Len(q2) : q2[i] # x, NEW u \in ToSet(T), NextTo(T, x, u)
       PROVE  u \in S2 /\ Len(f2[u]) <= Len(f2[x]) + 1
  <2>1. x \notin N
    <3> SUFFICES ASSUME x \in N PROVE FALSE
      OBVIOUS
    <3>1. PICK k \in 1 .. Len(s) : s[k] = x
      OBVIOUS
    <3>2. \E i \in 1 .. Len(q2) : q2[i] = s[k]
      BY <1>11 DEF ListsBoth
    <3> QED
      BY <1>12, <3>1, <3>2
  <2>2. x \in S /\ f2[x] = f[x]
    BY <1>2, <2>1
  <2>3. CASE x = h
    <3>1. u \in S2
      BY <1>6, <1>12, <2>3
    <3>2. Len(f2[u]) <= L + 1
      BY <1>2, <1>5, <3>1
    <3> QED
      BY <2>2, <2>3, <3>1, <3>2 DEF L
  <2>4. CASE x # h
    <3>1. \A i \in 1 .. Len(q) : q[i] # x
      <4> SUFFICES ASSUME NEW i \in 1 .. Len(q), q[i] = x PROVE FALSE
        OBVIOUS
      <4>1. i # 1
        BY <1>1, <2>4
      <4>2. i - 1 \in 1 .. Len(w) /\ (i - 1) + 1 = i
        BY <1>1, <4>1
      <4>3. w[i - 1] = x
        BY <1>1, <4>2
      <4>4. \E k \in 1 .. Len(q2) : q2[k] = w[i - 1]
        BY <1>11, <4>2 DEF ListsBoth
      <4> QED
        BY <1>12, <4>3, <4>4
    <3>2. u \in S /\ Len(f[u]) <= Len(f[x]) + 1
      BY <1>5, <1>12, <2>2, <3>1
    <3> QED
      BY <1>2, <2>2, <3>2
  <2> QED
    BY <2>3, <2>4
<1> QED
  BY <1>3, <1>9, <1>10, <1>12 DEF InOrder, q2, w

LEMMA TraceGoesOn ==
    ASSUME NEW T, NEW a, NEW z, NEW cf, NEW q, NEW f, Traced(T, a, z, cf, q, f),
           NEW N, N = NewFrom(T, cf, a, Head(q)), z \notin N,
           NEW s \in Seq(N), \A u \in N : \E i \in 1 .. Len(s) : s[i] = u
    PROVE  \E f2 : Traced(T, a, z, CameFrom(T, cf, a, Head(q)), Tail(q) \o s, f2)
<1> DEFINE h == Head(q)
           S == DOMAIN cf \union {a}
           cf2 == CameFrom(T, cf, a, h)
           f2 == Ways(T, cf, a, h, f)
           q2 == Tail(q) \o s
           S2 == DOMAIN cf2 \union {a}
<1>1. /\ T \in Seq(Cells) /\ SeenFrom(T, a, z, cf) /\ Follows(T, cf, f)
      /\ \A u \in S : LeadsTo(T, f[u], a, u)
      /\ InOrder(T, S, q, f) /\ q # <<>>
  BY DEF Traced
<1>2. h \in S
  <2>1. q \in Seq(S)
    BY <1>1 DEF InOrder
  <2> QED
    BY <1>1, <2>1
<1> HIDE DEF h
<1>3. N = NewFrom(T, cf, a, h)
  BY DEF h
<1>4. /\ DOMAIN cf2 = DOMAIN cf \union N
      /\ SeenFrom(T, a, z, cf2) /\ Follows(T, cf2, f2)
      /\ \A u \in DOMAIN cf2 \union {a} : LeadsTo(T, f2[u], a, u)
      /\ \A u \in S : f2[u] = f[u] /\ Len(f[u]) \in Nat \ {0}
      /\ \A u \in N : Len(f2[u]) = Len(f[h]) + 1
  <2> DEFINE NN == NewFrom(T, cf, a, h)
  <2>1. z \notin NN
    BY <1>3
  <2>2. /\ DOMAIN cf2 = DOMAIN cf \union NN
        /\ SeenFrom(T, a, z, cf2) /\ Follows(T, cf2, f2)
        /\ \A u \in DOMAIN cf2 \union {a} : LeadsTo(T, f2[u], a, u)
        /\ \A u \in S : f2[u] = f[u] /\ Len(f[u]) \in Nat \ {0}
        /\ \A u \in NN : Len(f2[u]) = Len(f[h]) + 1
    <3>1. WaysGo(T, a, z, cf, h, f)
      <4> HIDE DEF cf2, f2
      <4> QED
        BY <1>1, <1>2, <2>1, WaysGoOn
    <3> QED
      BY <3>1 DEF WaysGo
  <2> HIDE DEF cf2, f2, NN
  <2>3. NN = N
    BY <1>3 DEF NN
  <2> QED
    BY <2>2, <2>3
<1> HIDE DEF cf2, f2
<1>5. S2 = S \union N
  BY <1>4
<1>6. InOrder(T, S2, q2, f2)
  <2>1. N = {u \in ToSet(T) : NextTo(T, h, u)} \ S
    BY <1>3 DEF NewFrom
  <2>2. InOrder(T, S \union N, Tail(q) \o s, f2)
    <3> HIDE DEF S
    <3> QED
      BY <1>1, <1>4, <2>1, OrderGoesOn DEF h
  <2> QED
    BY <1>5, <2>2
<1>7. q2 # <<>>
  <2> SUFFICES ASSUME q2 = <<>> PROVE FALSE
    OBVIOUS
  <2>1. \A x \in S2 : \A u \in ToSet(T) : NextTo(T, x, u) => u \in S2
    <3>0. 1 .. Len(q2) = {}
      <4> HIDE DEF q2
      <4>1. Len(<<>>) = 0 /\ 1 .. 0 = {}
        OBVIOUS
      <4> QED
        BY <4>1
    <3>1. \A x \in S2 : \A i \in 1 .. Len(q2) : q2[i] # x
      <4> HIDE DEF q2, S2
      <4> QED
        BY <3>0
    <3> HIDE DEF S2, q2
    <3> QED
      BY <1>6, <3>1 DEF InOrder
  <2>2. a \in S2 /\ a \in ToSet(T) /\ z \in ToSet(T) /\ z \notin S2
    BY <1>4 DEF SeenFrom
  <2> HIDE DEF S2
  <2>3. ToSet(T) \subseteq S2
    BY <1>1, <2>1, <2>2, ClosedIsAll
  <2> QED
    BY <2>2, <2>3
<1> HIDE DEF q2
<1>8. Traced(T, a, z, cf2, q2, f2)
  BY <1>1, <1>4, <1>6, <1>7 DEF Traced
<1> QED
  BY <1>8 DEF cf2, q2, h

\* What the search has come to when it finds z: the way to z is a shortest one.
Shortest(T, a, z, w) ==
  /\ w \in Seq(ToSet(T)) /\ Len(w) >= 1 /\ w[1] = a /\ w[Len(w)] = z
  /\ \A p \in 2 .. Len(w) : NextTo(T, w[p - 1], w[p])
  /\ Len(w) > 1 => z \notin Reach(ToSet(T), NextPairs(T), {a})[Len(w) - 2]

LEMMA FoundIsShortest ==
    ASSUME NEW T, NEW a, NEW z, NEW cf, NEW q, NEW f, Traced(T, a, z, cf, q, f),
           z \in NewFrom(T, cf, a, Head(q))
    PROVE  /\ Shortest(T, a, z, Append(f[Head(q)], z))
           /\ \A p \in 2 .. Len(Append(f[Head(q)], z)) :
                Append(f[Head(q)], z)[p] # Append(f[Head(q)], z)[p - 1]
<1> DEFINE h == Head(q)
           S == DOMAIN cf \union {a}
           M == ToSet(T)
           w == Append(f[h], z)
           L == Len(f[h])
           b == Reach(M, NextPairs(T), {a})
<1>1. /\ T \in Seq(Cells) /\ SeenFrom(T, a, z, cf) /\ Follows(T, cf, f)
      /\ \A u \in S : LeadsTo(T, f[u], a, u)
      /\ InOrder(T, S, q, f) /\ q # <<>>
  BY DEF Traced
<1>2. q \in Seq(S) /\ h \in S /\ h = q[1] /\ 1 \in 1 .. Len(q) /\ \A i \in 1 .. Len(q) : 1 <= i
  <2>1. q \in Seq(S)
    BY <1>1 DEF InOrder
  <2> QED
    BY <1>1, <2>1
<1>3. z \in M /\ z # h /\ NextTo(T, h, z) /\ z \notin S
  BY <1>2 DEF NewFrom
<1>4. LeadsTo(T, w, a, z) /\ Len(w) = L + 1 /\ L \in Nat \ {0}
  <2>1. LeadsTo(T, f[h], a, h)
    BY <1>1, <1>2
  <2> HIDE DEF h
  <2> QED
    BY <1>3, <2>1, LeadsOn
<1>5. ReachesIn(b, M, NextPairs(T), {a})
  <2>1. {a} \in SUBSET M
    BY <1>1 DEF SeenFrom
  <2> QED
    BY <2>1, ReachExists
<1>6. \A u \in S : u \in M /\ Len(f[u]) \in Nat
  <2> TAKE u \in S
  <2>1. u \in M
    BY <1>1 DEF SeenFrom
  <2>2. LeadsTo(T, f[u], a, u)
    BY <1>1
  <2> QED
    BY <2>1, <2>2 DEF LeadsTo
<1>7. a \in S /\ Len(f[a]) = 1
  <2>1. a \in M /\ a \notin DOMAIN cf
    BY <1>1 DEF SeenFrom
  <2>2. f[a] = <<a>>
    BY <1>1, <2>1 DEF Follows
  <2> QED
    BY <2>2
<1>8. \A i \in 1 .. Len(q) : L <= Len(f[q[i]])
  BY <1>1, <1>2 DEF InOrder
<1> HIDE DEF h, S, L, b, w
<1>9. ASSUME NEW k \in Nat, k <= L - 1
      PROVE  b[k] \subseteq {x \in S : Len(f[x]) <= k + 1}
  <2> DEFINE Part(j) == {x \in S : Len(f[x]) <= j + 1}
             Good == {m \in 1 .. L : b[m - 1] \subseteq Part(m - 1)}
  <2>1. 1 \in Good
    <3>1. 1 \in 1 .. L /\ 1 - 1 = 0
      BY <1>4
    <3>2. b[0] = {a}
      BY <1>5 DEF ReachesIn
    <3>3. a \in Part(0)
      <4>1. \A l : l = 1 => l <= 0 + 1
        OBVIOUS
      <4> QED
        BY <1>7, <4>1
    <3>4. b[1 - 1] \subseteq Part(1 - 1)
      <4> HIDE DEF Part
      <4> QED
        BY <3>1, <3>2, <3>3
    <3> HIDE DEF Part
    <3> QED
      BY <3>1, <3>4
  <2>2. ASSUME NEW m \in 2 .. L, m - 1 \in Good PROVE m \in Good
    <3> DEFINE j == (m - 1) - 1
    <3>1. m \in 1 .. L /\ j \in Nat /\ j + 1 = m - 1 /\ j + 1 < L
      BY <1>4
    <3>2. b[j] \subseteq Part(j)
      BY <2>2
    <3> HIDE DEF j
    <3>3. b[j + 1] = b[j] \union {u \in M : \E x \in b[j] : <<x, u>> \in NextPairs(T)}
      BY <1>5, <3>1 DEF ReachesIn
    <3>4. ASSUME NEW u \in b[j + 1] PROVE u \in Part(j + 1)
      <4>1. CASE u \in b[j]
        <5>1. u \in S /\ Len(f[u]) <= j + 1 /\ Len(f[u]) \in Nat
          BY <1>6, <3>2, <4>1
        <5> QED
          BY <3>1, <5>1
      <4>2. CASE u \notin b[j]
        <5>1. PICK x \in b[j] : u \in M /\ <<x, u>> \in NextPairs(T)
          BY <3>3, <3>4, <4>2
        <5>2. x \in S /\ Len(f[x]) <= j + 1 /\ Len(f[x]) \in Nat /\ NextTo(T, x, u)
          BY <1>6, <3>2, <5>1 DEF NextPairs
        <5>3. \A i \in 1 .. Len(q) : q[i] # x
          <6> SUFFICES ASSUME NEW i \in 1 .. Len(q), q[i] = x PROVE FALSE
            OBVIOUS
          <6>1. L <= Len(f[x])
            BY <1>8
          <6> QED
            BY <1>4, <3>1, <5>2, <6>1
        <5>4. u \in S /\ Len(f[u]) <= Len(f[x]) + 1
          BY <1>1, <5>1, <5>2, <5>3 DEF InOrder, S
        <5> QED
          BY <1>6, <3>1, <5>2, <5>4
      <4> QED
        BY <4>1, <4>2
    <3>5. b[m - 1] \subseteq Part(m - 1)
      <4> HIDE DEF Part
      <4> QED
        BY <3>1, <3>4
    <3> HIDE DEF Part
    <3> QED
      BY <3>1, <3>5
  <2>3. 1 .. L \subseteq Good
    <3> HIDE DEF Good
    <3> QED
      BY <1>4, <2>1, <2>2, Climb
  <2>4. k + 1 \in 1 .. L /\ (k + 1) - 1 = k
    BY <1>4, <1>9
  <2>5. b[(k + 1) - 1] \subseteq Part((k + 1) - 1)
    BY <2>3, <2>4
  <2> QED
    BY <2>4, <2>5
<1>10. z \notin b[Len(w) - 2]
  <2>1. L - 1 \in Nat /\ L - 1 <= L - 1 /\ Len(w) - 2 = L - 1
    BY <1>4
  <2>2. b[L - 1] \subseteq S
    BY <1>9, <2>1
  <2> QED
    BY <1>3, <2>1, <2>2
<1>11. Shortest(T, a, z, w)
  BY <1>4, <1>10 DEF LeadsTo, Shortest, b
<1>12. \A p \in 2 .. Len(w) : w[p] # w[p - 1]
  BY <1>4 DEF LeadsTo
<1> QED
  BY <1>11, <1>12 DEF w, h

\* The way that is taken back is the one that was found.
LEMMA PathIsFound ==
    ASSUME NEW a, NEW z, NEW q, NEW f, Traced(NetTiles(net), a, z, came_from, q, f),
           NEW h \in DOMAIN came_from \union {a}
    PROVE  PathTo(h) = f[h]
<1> DEFINE M == Mapped(net)
           cf == came_from
           S == DOMAIN cf \union {a}
           Body(g) == [u \in M |-> IF u \in DOMAIN cf THEN Append(g[cf[u]], u) ELSE <<u>>]
           back == CHOOSE g : g = Body(g)
<1>1. PathTo(h) = back[h]
  BY DEF PathTo
<1>2. /\ M = ToSet(NetTiles(net)) /\ SeenFrom(NetTiles(net), a, z, cf) /\ Follows(NetTiles(net), cf, f)
      /\ \A u \in S : LeadsTo(NetTiles(net), f[u], a, u)
  BY DEF Mapped, Traced
<1> HIDE DEF M
<1>3. /\ f \in [M -> Seq(M)] /\ \A u \in M : f[u] = IF u \in DOMAIN cf THEN Append(f[cf[u]], u) ELSE <<u>>
      /\ S \subseteq M /\ \A u \in DOMAIN cf : cf[u] \in S
  BY <1>2 DEF Follows, SeenFrom
<1>4. f = Body(f)
  <2>1. f = [u \in M |-> f[u]]
    BY <1>3
  <2> QED
    BY <1>3, <2>1
<1>5. back = Body(back)
  <2> HIDE DEF Body
  <2> QED
    BY <1>4
<1> HIDE DEF back
<1>6. \A u \in M : back[u] = IF u \in DOMAIN cf THEN Append(back[cf[u]], u) ELSE <<u>>
  BY <1>5
<1> DEFINE Bad == {u \in S : back[u] # f[u]}
           Lens == {Len(f[u]) : u \in Bad}
<1>7. ASSUME Bad # {} PROVE FALSE
  <2>1. \A u \in S : Len(f[u]) \in Nat
    <3> TAKE u \in S
    <3>1. f[u] \in Seq(M)
      BY <1>3
    <3> QED
      BY <3>1
  <2>2. Lens \in SUBSET Nat /\ Lens # {}
    BY <1>7, <2>1
  <2>3. PICK m \in Lens : \A k \in Lens : m <= k
    <3> HIDE DEF Lens
    <3> QED
      BY <2>2, LeastNatural
  <2>4. PICK u \in Bad : m = Len(f[u])
    OBVIOUS
  <2>5. u \in S /\ u \in M /\ back[u] # f[u]
    BY <1>3
  <2>6. u \in DOMAIN cf
    BY <1>3, <1>6, <2>5
  <2>7. cf[u] \in S /\ f[u] = Append(f[cf[u]], u) /\ back[u] = Append(back[cf[u]], u)
    BY <1>3, <1>6, <2>5, <2>6
  <2>8. cf[u] \in Bad
    BY <2>5, <2>7
  <2>9. Len(f[cf[u]]) < Len(f[u])
    <3>1. f[cf[u]] \in Seq(M)
      BY <1>3, <2>7
    <3> QED
      BY <2>7, <3>1
  <2>10. m <= Len(f[cf[u]])
    BY <2>3, <2>8
  <2> QED
    BY <2>1, <2>4, <2>5, <2>7, <2>9, <2>10
<1> HIDE DEF Bad
<1>8. back[h] = f[h]
  BY <1>7 DEF Bad
<1> QED
  BY <1>1, <1>8

-----------------------------------------------------------------------------
(* A guide is a shortest way where there is one. *)

\* The ends of a net are on its old route.
Ends(n) == {n.source, n.sink} \subseteq Mapped(n)

\* The search of a guide is what Traced says of it, and the guide it leaves is a
\* shortest way.
TraceInv ==
  /\ net \in GuidedNets
  /\ phase = "lowered" => came_from = <<>>
  /\ phase = "tracing" =>
       /\ Ends(net)
       /\ \E f : Traced(NetTiles(net), net.source, net.sink, came_from, queue, f)
  /\ phase \notin {"lowered", "tracing"} =>
       /\ guide \in Seq(Cells)
       /\ Ends(net) => Shortest(NetTiles(net), net.source, net.sink, guide)

LEMMA NetTyped ==
    ASSUME NEW n \in GuidedNets
    PROVE  /\ n.pips \in Seq(Cells) /\ n.source \in Cells /\ n.sink \in Cells
           /\ NetTiles(n) \in Seq(Cells) /\ Mapped(n) \subseteq Cells /\ Mapped(n) = ToSet(NetTiles(n))
<1>1. NetTiles(n) \in Seq(Cells)
  BY AdjacentIsNext
<1>2. ToSet(NetTiles(n)) \subseteq Cells
  <2> DEFINE T == NetTiles(n)
  <2>1. T \in Seq(Cells)
    BY <1>1
  <2> HIDE DEF T
  <2>2. ToSet(T) \subseteq Cells
    BY <2>1 DEF ToSet
  <2> QED
    BY <2>2 DEF T
<1> QED
  BY <1>1, <1>2, GuideAssumption DEF Mapped

\* A list of one entry has no neighbours to merge.
LEMMA DedupedOne ==
    ASSUME NEW x
    PROVE  Deduped(<<x>>) = <<x>>
<1>1. <<x>> \in Seq({x}) /\ Len(<<x>>) = 1 /\ 2 .. 1 = {}
  OBVIOUS
<1>2. \A k \in 2 .. Len(<<x>>) : <<x>>[k] # <<x>>[k - 1]
  BY <1>1
<1> QED
  BY <1>1, <1>2, DedupedSame

LEMMA TrivialTraced ==
    ASSUME TraceInv, Trivial
    PROVE  TraceInv'
<1>1. /\ net \in GuidedNets /\ net' = net /\ phase' = "guided" /\ net.source = net.sink
      /\ guide' = <<net.source>>
  BY DedupedOne DEF TraceInv, Trivial, Guided
<1> DEFINE a == net.source
           T == NetTiles(net)
           M == ToSet(T)
           w == <<a>>
<1>2. a \in Cells /\ Mapped(net) = M
  BY <1>1, NetTyped
<1>3. w \in Seq(Cells) /\ Len(w) = 1 /\ w[1] = a /\ 2 .. 1 = {}
  BY <1>2
<1>4. ASSUME a \in M PROVE Shortest(T, a, a, w)
  <2>1. w \in Seq(M)
    BY <1>4
  <2> HIDE DEF w, a
  <2> QED
    BY <1>3, <2>1 DEF Shortest
<1> HIDE DEF w, M, T
<1>5. guide' = w /\ (Ends(net) => a \in M) /\ net.sink = a
  BY <1>1, <1>2 DEF w, Ends
<1>6. Ends(net) => Shortest(NetTiles(net), net.source, net.sink, guide')
  BY <1>4, <1>5 DEF T
<1> QED
  BY <1>1, <1>3, <1>5, <1>6 DEF TraceInv

LEMMA NotOnRouteTraced ==
    ASSUME TraceInv, NotOnRoute
    PROVE  TraceInv'
<1>1. /\ net \in GuidedNets /\ net' = net /\ phase' = "guided" /\ ~Ends(net)
      /\ guide' = Deduped(NetTiles(net))
  BY DEF TraceInv, NotOnRoute, Guided, Ends
<1>2. guide' \in Seq(Cells)
  <2> DEFINE T == NetTiles(net)
  <2>1. T \in Seq(Cells)
    BY <1>1, NetTyped
  <2> HIDE DEF T
  <2>2. CASE T = <<>>
    <3>1. <<>> \in Seq(Cells) /\ \A k \in 2 .. Len(<<>>) : <<>>[k] # <<>>[k - 1]
      OBVIOUS
    <3>2. Deduped(<<>>) = <<>>
      BY <3>1, DedupedSame
    <3> QED
      BY <1>1, <2>2, <3>1, <3>2 DEF T
  <2>3. CASE T # <<>>
    BY <1>1, <2>1, <2>3, DedupedMerges DEF T
  <2> QED
    BY <2>2, <2>3
<1> QED
  BY <1>1, <1>2 DEF TraceInv

LEMMA StartTraced ==
    ASSUME TraceInv, StartTrace
    PROVE  TraceInv'
<1>1. /\ net \in GuidedNets /\ net' = net /\ phase' = "tracing" /\ Ends(net)
      /\ net.source # net.sink /\ came_from' = <<>> /\ queue' = <<net.source>>
  BY DEF TraceInv, StartTrace, Ends
<1>2. NetTiles(net) \in Seq(Cells) /\ net.source \in ToSet(NetTiles(net)) /\ net.sink \in ToSet(NetTiles(net))
  BY <1>1, NetTyped DEF Ends
<1>3. \E f : Traced(NetTiles(net), net.source, net.sink, <<>>, <<net.source>>, f)
  BY <1>1, <1>2, TraceBegins
<1> QED
  BY <1>1, <1>3 DEF TraceInv

LEMMA FreshIsNew ==
    ASSUME net \in GuidedNets, NEW t
    PROVE  Fresh(t) = NewFrom(NetTiles(net), came_from, net.source, t)
  BY AdjacentIsNext DEF Fresh, NewFrom, Seen, Mapped

LEMMA TraceOnTraced ==
    ASSUME TraceInv, TraceOn
    PROVE  TraceInv'
<1> DEFINE T == NetTiles(net)
           h == Head(queue)
           N == Fresh(h)
           s == SetToSeq(N)
<1>1. /\ net \in GuidedNets /\ net' = net /\ phase = "tracing" /\ phase' = "tracing" /\ Ends(net)
      /\ net.sink \notin N
      /\ came_from' = [u \in DOMAIN came_from \union N |-> IF u \in DOMAIN came_from THEN came_from[u] ELSE h]
      /\ queue' = Tail(queue) \o s
  BY DEF TraceInv, TraceOn, Enqueued
<1>2. N = NewFrom(T, came_from, net.source, h)
  BY <1>1, FreshIsNew
<1>3. came_from' = CameFrom(T, came_from, net.source, h)
  BY <1>1, <1>2 DEF CameFrom
<1>4. PICK f : Traced(T, net.source, net.sink, came_from, queue, f)
  BY <1>1 DEF TraceInv
<1>5. IsFiniteSet(N)
  <2>1. T \in Seq(Cells)
    BY <1>1, NetTyped
  <2> HIDE DEF T
  <2>2. IsFiniteSet(ToSet(T))
    <3>1. Len(T) \in Nat /\ DOMAIN T = 1 .. Len(T)
      BY <2>1
    <3>2. IsFiniteSet(1 .. Len(T))
      BY <3>1, FS_Interval
    <3>3. ToSet(T) = {T[i] : i \in 1 .. Len(T)}
      BY <3>1 DEF ToSet
    <3> QED
      BY <3>2, <3>3, FiniteValues
  <2>3. N \subseteq ToSet(T)
    BY DEF Fresh, Mapped, T
  <2> QED
    BY <2>2, <2>3, FS_Subset
<1> HIDE DEF N
<1>6. s \in Seq(N) /\ \A u \in N : \E i \in 1 .. Len(s) : s[i] = u
  BY <1>5, SetToSeqAll
<1> HIDE DEF s, T
<1>7. \E f2 : Traced(T, net.source, net.sink, CameFrom(T, came_from, net.source, Head(queue)), Tail(queue) \o s, f2)
  BY <1>1, <1>2, <1>4, <1>6, TraceGoesOn
<1> QED
  BY <1>1, <1>3, <1>7 DEF TraceInv, T

LEMMA TraceDoneTraced ==
    ASSUME TraceInv, TraceDone
    PROVE  TraceInv'
<1> DEFINE T == NetTiles(net)
           h == Head(queue)
           a == net.source
           z == net.sink
<1>1. /\ net \in GuidedNets /\ net' = net /\ phase = "tracing" /\ phase' = "guided" /\ Ends(net)
      /\ z \in Fresh(h) /\ guide' = Deduped(Append(PathTo(h), z))
  BY DEF TraceInv, TraceDone, Guided
<1>2. z \in NewFrom(T, came_from, a, h)
  BY <1>1, FreshIsNew
<1>3. PICK f : Traced(T, a, z, came_from, queue, f)
  BY <1>1 DEF TraceInv
<1>4. h \in DOMAIN came_from \union {a}
  <2>1. queue \in Seq(DOMAIN came_from \union {a}) /\ queue # <<>>
    BY <1>3 DEF Traced, InOrder
  <2> QED
    BY <2>1
<1>5. PathTo(h) = f[h]
  BY <1>3, <1>4, PathIsFound
<1> DEFINE w == Append(f[h], z)
<1>6. Shortest(T, a, z, w) /\ \A p \in 2 .. Len(w) : w[p] # w[p - 1]
  BY <1>2, <1>3, FoundIsShortest
<1> HIDE DEF w, h
<1>7. w \in Seq(ToSet(T)) /\ ToSet(T) \subseteq Cells
  BY <1>1, <1>6, NetTyped DEF Shortest
<1>8. Deduped(w) = w /\ w \in Seq(Cells)
  BY <1>6, <1>7, DedupedSame
<1>9. guide' = w
  BY <1>1, <1>5, <1>8 DEF w
<1> QED
  BY <1>1, <1>6, <1>8, <1>9 DEF TraceInv

LEMMA TraceKept ==
    ASSUME TraceInv, [GuideNext]_guideVars
    PROVE  TraceInv'
<1>1. CASE Trivial
  BY <1>1, TrivialTraced
<1>2. CASE NotOnRoute
  BY <1>2, NotOnRouteTraced
<1>3. CASE StartTrace
  BY <1>3, StartTraced
<1>4. CASE TraceOn
  BY <1>4, TraceOnTraced
<1>5. CASE TraceDone
  BY <1>5, TraceDoneTraced
<1>6. CASE StartSpread \/ Spread \/ SpreadDone \/ Enter \/ Follow \/ Leave \/ Done
  <2>1. net' = net /\ guide' = guide /\ phase' \notin {"lowered", "tracing"} /\ phase \notin {"lowered", "tracing"}
    BY <1>6 DEF StartSpread, Spread, SpreadDone, Enter, Follow, Leave, Done, guideVars
  <2> QED
    BY <2>1 DEF TraceInv
<1>7. CASE UNCHANGED guideVars
  BY <1>7 DEF guideVars, TraceInv
<1> QED
  BY <1>1, <1>2, <1>3, <1>4, <1>5, <1>6, <1>7 DEF GuideNext

LEMMA GuideIsShortest ==
    ASSUME TraceInv
    PROVE  SinkGuideShortest
<1> DEFINE T == NetTiles(net)
           a == net.source
           z == net.sink
<1>1. phase = "tracing" => queue # <<>>
  BY DEF TraceInv, Traced
<1>2. ASSUME phase \notin {"lowered", "tracing"}, {a, z} \subseteq Mapped(net)
      PROVE  /\ Head(guide) = a /\ Last(guide) = z
             /\ \A i \in 1 .. (Len(guide) - 1) : Adjacent(net, guide[i], guide[i + 1])
             /\ Len(guide) > 1 =>
                  z \notin Within({a}, Len(guide) - 2, LAMBDA t, u : Adjacent(net, t, u))
  <2>1. /\ Shortest(T, a, z, guide) /\ net \in GuidedNets /\ Mapped(net) = ToSet(T)
    BY <1>2, NetTyped DEF TraceInv, Ends
  <2>2. /\ guide \in Seq(ToSet(T)) /\ Len(guide) >= 1 /\ guide[1] = a /\ guide[Len(guide)] = z
        /\ \A p \in 2 .. Len(guide) : NextTo(T, guide[p - 1], guide[p])
        /\ Len(guide) > 1 => z \notin Reach(ToSet(T), NextPairs(T), {a})[Len(guide) - 2]
    BY <2>1 DEF Shortest
  <2>3. Len(guide) \in Nat /\ Head(guide) = a /\ Last(guide) = z
    BY <2>2 DEF Last
  <2>4. ASSUME NEW i \in 1 .. (Len(guide) - 1) PROVE Adjacent(net, guide[i], guide[i + 1])
    <3>1. i + 1 \in 2 .. Len(guide) /\ (i + 1) - 1 = i
      BY <2>3
    <3>2. NextTo(T, guide[(i + 1) - 1], guide[i + 1])
      BY <2>2, <3>1
    <3> QED
      BY <2>1, <3>1, <3>2, AdjacentIsNext
  <2>5. ASSUME Len(guide) > 1
        PROVE  z \notin Within({a}, Len(guide) - 2, LAMBDA t, u : Adjacent(net, t, u))
    <3>1. Len(guide) - 2 \in Nat /\ {a} \in SUBSET Mapped(net)
      BY <1>2, <2>3, <2>5
    <3>2. Within({a}, Len(guide) - 2, LAMBDA t, u : Adjacent(net, t, u))
            = Reach(Mapped(net), NextPairs(T), {a})[Len(guide) - 2]
      BY <2>1, <3>1, WithinRoute
    <3> QED
      BY <2>1, <2>2, <2>5, <3>2
  <2> QED
    BY <2>3, <2>4, <2>5
<1> QED
  BY <1>1, <1>2 DEF SinkGuideShortest

-----------------------------------------------------------------------------
(* The walk along a guide. *)

\* A coordinate after k steps of d, which is -1, 0 or 1.
Along(c, d, k) == IF d = 1 THEN c + k ELSE IF d = -1 THEN c - k ELSE c

LEMMA TowardAlong ==
    ASSUME NEW c \in Int, NEW d \in {-1, 0, 1}, NEW n \in Nat
    PROVE  /\ \A k \in 0 .. n : Toward(c, Along(c, d, n), k) = Along(c, d, k)
           /\ Gap(c, Along(c, d, n)) = IF d = 0 THEN 0 ELSE n
BY DEF Toward, Along, Gap

LEMMA AlongOn ==
    ASSUME NEW c \in Int, NEW v \in Int, NEW w \in Int, NEW e \in {-1, 0, 1}, NEW m \in Nat,
           v = Along(c, e, m), w - v = e
    PROVE  w = Along(c, e, m + 1)
BY DEF Along

\* The directions of a step to a tile beside.
Way(d) == d \in {<<1, 0>>, <<-1, 0>>, <<0, 1>>, <<0, -1>>}

Onward(t, d, k) == <<Along(t[1], d[1], k), Along(t[2], d[2], k)>>

LEMMA SegmentOnward ==
    ASSUME NEW t \in Cells, NEW d, Way(d), NEW n \in Nat
    PROVE  SegmentTiles(<<t, Onward(t, d, n)>>) = [k \in 1 .. n + 1 |-> Onward(t, d, k - 1)]
<1> DEFINE u == Onward(t, d, n)
           x == t[1]
           y == t[2]
           dx == d[1]
           dy == d[2]
           v == Along(x, dx, n)
           w == Along(y, dy, n)
           steps == IF Gap(x, v) < Gap(y, w) THEN Gap(y, w) ELSE Gap(x, v)
<1>1. x \in Int /\ y \in Int /\ dx \in {-1, 0, 1} /\ dy \in {-1, 0, 1} /\ (dx = 0 \/ dy = 0) /\ (dx # 0 \/ dy # 0)
  BY DEF Cells, Way
<1>2. /\ \A k \in 0 .. n : Toward(x, v, k) = Along(x, dx, k) /\ Toward(y, w, k) = Along(y, dy, k)
      /\ Gap(x, v) = IF dx = 0 THEN 0 ELSE n
      /\ Gap(y, w) = IF dy = 0 THEN 0 ELSE n
  <2> HIDE DEF x, y, dx, dy
  <2> QED
    BY <1>1, TowardAlong
<1>3. SegmentTiles(<<t, u>>) = [k \in 1 .. steps + 1 |-> <<Toward(x, v, k - 1), Toward(y, w, k - 1)>>]
  BY DEF SegmentTiles, Onward
<1>4. \A k : Onward(t, d, k) = <<Along(x, dx, k), Along(y, dy, k)>>
  BY DEF Onward
<1> HIDE DEF x, y, dx, dy, v, w, u
<1>5. steps = n
  BY <1>1, <1>2
<1> HIDE DEF steps
<1>6. \A k \in 1 .. n + 1 : k - 1 \in 0 .. n
  OBVIOUS
<1>7. \A k \in 1 .. n + 1 : <<Toward(x, v, k - 1), Toward(y, w, k - 1)>> = Onward(t, d, k - 1)
  BY <1>2, <1>4, <1>6
<1>8. SegmentTiles(<<t, u>>) = [k \in 1 .. n + 1 |-> Onward(t, d, k - 1)]
  BY <1>3, <1>5, <1>7
<1> QED
  BY <1>8 DEF u

\* A straight run of a guide is the tiles from its first to its last.
LEMMA StraightRun ==
    ASSUME guide \in Seq(Cells), NEW i \in 1 .. Len(guide), NEW j \in 1 .. Len(guide), i < j, Linear(i, j)
    PROVE  /\ Passed(guide[i], guide[j]) \in Seq(Cells)
           /\ Len(Passed(guide[i], guide[j])) = j - i
           /\ \A k \in 1 .. j - i : Passed(guide[i], guide[j])[k] = guide[i + k]
<1> DEFINE g == guide
           n == j - i
           d == Step(g[i], g[i + 1])
<1>1. /\ Len(g) \in Nat /\ n \in Nat \ {0} /\ i \in Nat \ {0}
      /\ \A k \in 1 .. Len(g) : g[k] \in Cells /\ g[k][1] \in Int /\ g[k][2] \in Int /\ g[k] = <<g[k][1], g[k][2]>>
  <2>1. \A c \in Cells : c[1] \in Int /\ c[2] \in Int /\ c = <<c[1], c[2]>>
    BY DEF Cells
  <2>2. Len(g) \in Nat /\ \A k \in 1 .. Len(g) : g[k] \in Cells
    OBVIOUS
  <2>3. n \in Nat \ {0} /\ i \in Nat \ {0}
    OBVIOUS
  <2> HIDE DEF g, n
  <2>4. \A k \in 1 .. Len(g) : g[k] \in Cells /\ g[k][1] \in Int /\ g[k][2] \in Int /\ g[k] = <<g[k][1], g[k][2]>>
    BY <2>1, <2>2
  <2> QED
    BY <2>2, <2>3, <2>4
<1>2. i + 1 \in 1 .. Len(g)
  BY <1>1
<1>3. Way(d) /\ d = <<d[1], d[2]>>
  <2>1. Beside(g[i], g[i + 1])
    BY DEF Linear
  <2>2. \A a, b, v, w \in Int : Gap(a, v) + Gap(b, w) = 1 => Way(<<v - a, w - b>>)
    BY DEF Gap, Way
  <2> QED
    BY <1>1, <1>2, <2>1, <2>2 DEF Beside, Step
<1>4. \A k \in i .. j - 1 : Step(g[k], g[k + 1]) = d
  BY DEF Linear
<1>16. i \in 1 .. Len(g) /\ j \in 1 .. Len(g) /\ n = j - i
  OBVIOUS
<1> HIDE DEF g, d, n
<1> DEFINE N == n + 1
           Good == {k \in 1 .. N : g[i + (k - 1)] = Onward(g[i], d, k - 1)}
<1>5. 1 \in Good
  <2>1. 1 \in 1 .. N /\ 1 - 1 = 0 /\ i + 0 = i
    BY <1>1
  <2>2. Onward(g[i], d, 0) = g[i]
    <3>1. g[i][1] \in Int /\ g[i][2] \in Int /\ g[i] = <<g[i][1], g[i][2]>>
      BY <1>1, <1>16
    <3>2. \A c \in Int : \A e : Along(c, e, 0) = c
      BY DEF Along
    <3>3. Along(g[i][1], d[1], 0) = g[i][1] /\ Along(g[i][2], d[2], 0) = g[i][2]
      BY <3>1, <3>2
    <3> QED
      BY <3>1, <3>3 DEF Onward
  <2>3. g[i + (1 - 1)] = Onward(g[i], d, 1 - 1)
    BY <2>1, <2>2
  <2> QED
    BY <2>1, <2>3
<1>6. ASSUME NEW k \in 2 .. N, k - 1 \in Good PROVE k \in Good
  <2> DEFINE m == k - 2
             p == i + m
  <2>1. /\ m \in Nat /\ k \in 1 .. N /\ (k - 1) - 1 = m /\ k - 1 = m + 1
        /\ p \in i .. j - 1 /\ p \in 1 .. Len(g) /\ p + 1 \in 1 .. Len(g) /\ i + (m + 1) = p + 1
    <3>1. \A l \in Nat : \A a, b \in 1 .. l : \A x \in Nat \ {0} : \A y \in 2 .. x + 1 :
            x = b - a =>
            /\ y - 2 \in Nat /\ y \in 1 .. x + 1 /\ (y - 1) - 1 = y - 2 /\ y - 1 = (y - 2) + 1
            /\ a + (y - 2) \in a .. b - 1 /\ a + (y - 2) \in 1 .. l /\ a + (y - 2) + 1 \in 1 .. l
            /\ a + ((y - 2) + 1) = a + (y - 2) + 1
      OBVIOUS
    <3> QED
      BY <1>1, <1>16, <3>1
  <2>2. g[p] = Onward(g[i], d, m)
    BY <1>6, <2>1
  <2>3. Step(g[p], g[p + 1]) = d
    BY <1>4, <2>1
  <2> HIDE DEF m, p
  <2>4. g[p + 1] = Onward(g[i], d, m + 1)
    <3>1. d = <<g[p + 1][1] - g[p][1], g[p + 1][2] - g[p][2]>>
      BY <2>3 DEF Step
    <3>2. g[p + 1][1] - g[p][1] = d[1] /\ g[p + 1][2] - g[p][2] = d[2]
      BY <3>1
    <3>3. d[1] \in {-1, 0, 1} /\ d[2] \in {-1, 0, 1}
      BY <1>3 DEF Way
    <3>5. g[p][1] = Along(g[i][1], d[1], m) /\ g[p][2] = Along(g[i][2], d[2], m)
      BY <2>2 DEF Onward
    <3>8. /\ g[i][1] \in Int /\ g[i][2] \in Int /\ g[p][1] \in Int /\ g[p][2] \in Int
          /\ g[p + 1][1] \in Int /\ g[p + 1][2] \in Int
      BY <1>1, <1>16, <2>1
    <3>6. g[p + 1][1] = Along(g[i][1], d[1], m + 1)
      <4> DEFINE c == g[i][1]
                 v == g[p][1]
                 w == g[p + 1][1]
                 e == d[1]
      <4>1. /\ c \in Int /\ v \in Int /\ w \in Int /\ e \in {-1, 0, 1}
            /\ v = Along(c, e, m) /\ w - v = e /\ m \in Nat
        BY <2>1, <3>2, <3>3, <3>5, <3>8
      <4> HIDE DEF c, v, w, e
      <4>2. w = Along(c, e, m + 1)
        BY ONLY <4>1, AlongOn
      <4> QED
        BY <4>2 DEF c, w, e
    <3>7. g[p + 1][2] = Along(g[i][2], d[2], m + 1)
      <4> DEFINE c == g[i][2]
                 v == g[p][2]
                 w == g[p + 1][2]
                 e == d[2]
      <4>1. /\ c \in Int /\ v \in Int /\ w \in Int /\ e \in {-1, 0, 1}
            /\ v = Along(c, e, m) /\ w - v = e /\ m \in Nat
        BY <2>1, <3>2, <3>3, <3>5, <3>8
      <4> HIDE DEF c, v, w, e
      <4>2. w = Along(c, e, m + 1)
        BY ONLY <4>1, AlongOn
      <4> QED
        BY <4>2 DEF c, w, e
    <3> QED
      BY <1>1, <2>1, <3>6, <3>7 DEF Onward
  <2> QED
    BY <2>1, <2>4
<1>7. 1 .. N \subseteq Good
  <2>1. N \in Nat \ {0}
    BY <1>1
  <2> HIDE DEF N, Good
  <2> QED
    BY <1>5, <1>6, <2>1, Climb
<1>8. \A k \in 1 .. N : g[i + (k - 1)] = Onward(g[i], d, k - 1)
  BY <1>7
<1>9. g[j] = Onward(g[i], d, n)
  <2>1. N \in 1 .. N /\ N - 1 = n /\ i + n = j
    <3>1. \A l \in Nat : \A a, b \in 1 .. l : \A x \in Nat \ {0} :
            x = b - a => x + 1 \in 1 .. x + 1 /\ (x + 1) - 1 = x /\ a + x = b
      OBVIOUS
    <3> QED
      BY <1>1, <1>16, <3>1
  <2>2. g[i + (N - 1)] = Onward(g[i], d, N - 1)
    BY <1>8, <2>1
  <2> QED
    BY <2>1, <2>2
<1> DEFINE st == SegmentTiles(<<g[i], g[j]>>)
<1>10. st = [k \in 1 .. N |-> g[i + (k - 1)]]
  <2>1. st = [k \in 1 .. N |-> Onward(g[i], d, k - 1)]
    <3>1. g[i] \in Cells /\ n \in Nat
      BY <1>1, <1>16
    <3>2. SegmentTiles(<<g[i], Onward(g[i], d, n)>>) = [k \in 1 .. n + 1 |-> Onward(g[i], d, k - 1)]
      BY <1>3, <3>1, SegmentOnward
    <3> QED
      BY <1>9, <3>2
  <2> QED
    BY <1>8, <2>1
<1>11. \A k \in 1 .. N : g[i + (k - 1)] \in Cells
  <2> TAKE k \in 1 .. N
  <2>1. i + (k - 1) \in 1 .. Len(g)
    BY <1>1, <1>16
  <2> QED
    BY <1>1, <2>1
<1> HIDE DEF st
<1>12. st \in Seq(Cells) /\ Len(st) = N /\ N > 0
  <2>1. N \in Nat /\ N > 0
    BY <1>1
  <2> HIDE DEF N
  <2>2. st \in [1 .. N -> Cells]
    BY <1>10, <1>11
  <2> QED
    BY <2>1, <2>2
<1> DEFINE w == Tail(st)
<1>13. w \in Seq(Cells) /\ Len(w) = n /\ \A k \in 1 .. n : w[k] = st[k + 1]
  BY <1>1, <1>12
<1>14. \A k \in 1 .. n : w[k] = g[i + k]
  <2> TAKE k \in 1 .. n
  <2>1. k + 1 \in 1 .. N /\ (k + 1) - 1 = k
    BY <1>1
  <2>2. st[k + 1] = g[i + ((k + 1) - 1)]
    BY <1>10, <2>1
  <2> QED
    BY <1>13, <2>1, <2>2
<1>15. Passed(g[i], g[j]) = w
  BY DEF Passed, st
<1> HIDE DEF w
<1> QED
  BY <1>13, <1>14, <1>15 DEF g, n

\* The wires that follow a guide are over a part of it.
WalkInv ==
  index # 0 =>
    /\ phase \in {"following", "left"}
    /\ index \in 1 .. Len(guide)
    /\ \E s \in 1 .. index :
         /\ trail \in Seq(Cells) /\ Len(trail) = (index - s) + 1
         /\ \A k \in 1 .. (index - s) + 1 : trail[k] = guide[(s + k) - 1]

LEMMA EnterWalk ==
    ASSUME TraceInv, Enter
    PROVE  WalkInv'
<1>1. /\ phase = "following" /\ phase' = "following" /\ guide' = guide /\ guide \in Seq(Cells)
  BY DEF Enter, TraceInv
<1>2. PICK i \in DOMAIN guide : index' = i /\ trail' = <<guide[i]>>
  BY DEF Enter
<1>3. i \in 1 .. Len(guide) /\ i \in Nat /\ i \in 1 .. i /\ guide[i] \in Cells
  BY <1>1
<1>4. trail' \in Seq(Cells) /\ Len(trail') = 1 /\ trail'[1] = guide[i]
  BY <1>2, <1>3
<1>5. (i - i) + 1 = 1 /\ (i + 1) - 1 = i /\ \A k \in 1 .. 1 : k = 1
  BY <1>3
<1>6. \A k \in 1 .. (i - i) + 1 : trail'[k] = guide[(i + k) - 1]
  BY <1>4, <1>5
<1> QED
  BY <1>1, <1>2, <1>3, <1>4, <1>5, <1>6 DEF WalkInv

LEMMA FollowWalk ==
    ASSUME TraceInv, WalkInv, Follow
    PROVE  WalkInv'
<1>1. /\ phase = "following" /\ phase' = "following" /\ guide' = guide /\ guide \in Seq(Cells)
      /\ index # 0
  BY DEF Follow, TraceInv
<1>2. PICK u \in Tiles : \E j \in DOMAIN guide :
        /\ Advances(index, j, guide[index], u)
        /\ index' = j /\ trail' = trail \o Passed(guide[index], u)
  BY DEF Follow
<1>3. PICK j \in DOMAIN guide :
        /\ Advances(index, j, guide[index], u)
        /\ index' = j /\ trail' = trail \o Passed(guide[index], u)
  BY <1>2
<1>4. j > index /\ guide[j] = u /\ Linear(index, j)
  BY <1>3 DEF Advances
<1>5. PICK s \in 1 .. index :
        /\ trail \in Seq(Cells) /\ Len(trail) = (index - s) + 1
        /\ \A k \in 1 .. (index - s) + 1 : trail[k] = guide[(s + k) - 1]
  BY <1>1 DEF WalkInv
<1>6. index \in 1 .. Len(guide) /\ j \in 1 .. Len(guide) /\ Len(guide) \in Nat /\ index < j
  BY <1>1, <1>4 DEF WalkInv
<1> DEFINE w == Passed(guide[index], u)
           i == index
<1>7. /\ w \in Seq(Cells) /\ Len(w) = j - i /\ \A k \in 1 .. j - i : w[k] = guide[i + k]
  BY <1>1, <1>4, <1>6, StraightRun
<1> HIDE DEF w
<1>8. /\ trail' = trail \o w /\ trail' \in Seq(Cells) /\ Len(trail') = Len(trail) + Len(w)
  <2>1. trail' = trail \o w
    BY <1>3 DEF w
  <2>2. trail \o w \in Seq(Cells) /\ Len(trail \o w) = Len(trail) + Len(w)
    <3>1. trail \in Seq(Cells) /\ w \in Seq(Cells)
      BY <1>5, <1>7
    <3> QED
      BY ONLY <3>1
  <2> QED
    BY <2>1, <2>2
<1> HIDE DEF i
<1>9. i \in 1 .. Len(guide) /\ s \in 1 .. i /\ i < j /\ Len(trail) = (i - s) + 1
  BY <1>5, <1>6 DEF i
<1>10. s \in 1 .. j /\ Len(trail') = (j - s) + 1
  BY <1>6, <1>7, <1>8, <1>9
<1>11. ASSUME NEW k \in 1 .. (j - s) + 1 PROVE trail'[k] = guide[(s + k) - 1]
  <2>1. CASE k <= Len(trail)
    <3>1. k \in 1 .. Len(trail) /\ k \in 1 .. (i - s) + 1
      BY <1>6, <1>9, <2>1
    <3>2. trail'[k] = trail[k]
      BY <1>5, <1>7, <1>8, <3>1, Joined
    <3> QED
      BY <1>5, <3>1, <3>2 DEF i
  <2>2. CASE k > Len(trail)
    <3> DEFINE m == k - Len(trail)
    <3>1. m \in 1 .. j - i /\ Len(trail) + m = k /\ i + m = (s + k) - 1
      BY <1>6, <1>9, <2>2
    <3> HIDE DEF m
    <3>2. (trail \o w)[Len(trail) + m] = w[m]
      BY <1>5, <1>7, <3>1, Joined
    <3> QED
      BY <1>7, <1>8, <3>1, <3>2
  <2> QED
    BY <1>6, <1>9, <2>1, <2>2
<1> QED
  BY <1>1, <1>3, <1>6, <1>8, <1>10, <1>11 DEF WalkInv

LEMMA WalkStep ==
    ASSUME TraceInv, WalkInv, [GuideNext]_guideVars
    PROVE  WalkInv'
<1>1. CASE Trivial \/ NotOnRoute \/ StartTrace \/ TraceOn \/ TraceDone \/ StartSpread \/ Spread \/ SpreadDone
  <2>1. index' = 0
    BY <1>1 DEF WalkInv, Trivial, NotOnRoute, StartTrace, TraceOn, TraceDone, StartSpread, Spread, SpreadDone
  <2> QED
    BY <2>1 DEF WalkInv
<1>2. CASE Enter
  BY <1>2, EnterWalk
<1>3. CASE Follow
  BY <1>3, FollowWalk
<1>4. CASE Leave \/ Done \/ UNCHANGED guideVars
  <2>1. index' = index /\ trail' = trail /\ guide' = guide
        /\ (phase \in {"following", "left"} => phase' \in {"following", "left"})
    BY <1>4 DEF Leave, Done, guideVars
  <2> QED
    BY <2>1 DEF WalkInv
<1> QED
  BY <1>1, <1>2, <1>3, <1>4 DEF GuideNext

\* A part as long as the whole is the whole.
LEMMA SameAsPart ==
    ASSUME NEW g \in Seq(Cells), NEW w \in Seq(Cells), NEW i \in 1 .. Len(g), NEW s \in 1 .. i,
           Len(w) = (i - s) + 1, \A k \in 1 .. (i - s) + 1 : w[k] = g[(s + k) - 1]
    PROVE  w = SubSeq(g, (i - Len(w)) + 1, i)
<1>1. (i - Len(w)) + 1 = s /\ Len(g) \in Nat
  OBVIOUS
<1> DEFINE v == SubSeq(g, s, i)
<1>2. v \in Seq(Cells) /\ Len(v) = (i - s) + 1 /\ \A k \in 1 .. (i - s) + 1 : v[k] = g[(s + k) - 1]
  OBVIOUS
<1> HIDE DEF v
<1>3. w = v
  <2>1. w = [k \in 1 .. Len(w) |-> w[k]] /\ v = [k \in 1 .. Len(v) |-> v[k]]
    BY <1>2
  <2> QED
    BY <1>2, <2>1
<1> QED
  BY <1>1, <1>3 DEF v

LEMMA WalkIsGuide ==
    ASSUME TraceInv, WalkInv
    PROVE  WalkFollowsGuide
<1> SUFFICES ASSUME index # 0 PROVE trail = SubSeq(guide, index - Len(trail) + 1, index)
  BY DEF WalkFollowsGuide
<1>1. guide \in Seq(Cells) /\ index \in 1 .. Len(guide)
  BY DEF TraceInv, WalkInv
<1>2. PICK s \in 1 .. index :
        /\ trail \in Seq(Cells) /\ Len(trail) = (index - s) + 1
        /\ \A k \in 1 .. (index - s) + 1 : trail[k] = guide[(s + k) - 1]
  BY DEF WalkInv
<1> QED
  BY <1>1, <1>2, SameAsPart

-----------------------------------------------------------------------------
(* The old route of a net. *)

\* Over tiles that are all different a shortest way from the first to the last
\* is over all of them.
LEMMA ShortestIsWhole ==
    ASSUME NEW T \in Seq(Cells), T # <<>>, IsInjective(T),
           NEW w, Shortest(T, T[1], T[Len(T)], w)
    PROVE  w = T
<1> DEFINE n == Len(T)
           M == ToSet(T)
           l == Len(w)
           b == Reach(M, NextPairs(T), {T[1]})
<1>1. /\ n \in Nat \ {0} /\ 1 \in 1 .. n /\ n \in 1 .. n /\ DOMAIN T = 1 .. n
      /\ T = [i \in 1 .. n |-> T[i]]
  OBVIOUS
<1>2. /\ \A p \in 1 .. n : T[p] \in M
      /\ \A x \in M : \E p \in 1 .. n : T[p] = x
      /\ \A p, q \in 1 .. n : T[p] = T[q] => p = q
  BY <1>1 DEF ToSet, IsInjective
<1>3. /\ w \in Seq(M) /\ l >= 1 /\ w[1] = T[1] /\ w[l] = T[n]
      /\ \A p \in 2 .. l : NextTo(T, w[p - 1], w[p])
      /\ l > 1 => T[n] \notin b[l - 2]
  BY DEF Shortest
<1>4. ReachesIn(b, M, NextPairs(T), {T[1]})
  <2>1. {T[1]} \in SUBSET M
    BY <1>1, <1>2
  <2> QED
    BY <2>1, ReachExists
<1> HIDE DEF n, M, b
<1>5. l \in Nat \ {0} /\ 1 \in 1 .. l /\ l \in 1 .. l /\ w = [i \in 1 .. l |-> w[i]] /\ \A i \in 1 .. l : w[i] \in M
  BY <1>3
<1> HIDE DEF l
<1>6. T[n] \in b[n - 1]
  <2> DEFINE Good == {k \in 1 .. n : T[k] \in b[k - 1]}
  <2>1. 1 \in Good
    <3>1. T[1] \in b[0] /\ 1 - 1 = 0
      BY <1>4 DEF ReachesIn
    <3> QED
      BY <1>1, <3>1
  <2>2. ASSUME NEW k \in 2 .. n, k - 1 \in Good PROVE k \in Good
    <3>1. k \in 1 .. n /\ k - 1 \in 1 .. n /\ (k - 1) - 1 \in Nat /\ ((k - 1) - 1) + 1 = k - 1
      BY <1>1
    <3>2. T[k - 1] \in b[(k - 1) - 1]
      BY <2>2
    <3> DEFINE m == (k - 1) - 1
    <3>3. b[m + 1] = b[m] \union {u \in M : \E t \in b[m] : <<t, u>> \in NextPairs(T)}
      BY <1>4, <3>1 DEF ReachesIn
    <3>4. <<T[k - 1], T[k]>> \in NextPairs(T)
      <4>1. NextTo(T, T[k - 1], T[k])
        BY DEF NextTo, n
      <4> QED
        BY <1>2, <3>1, <4>1 DEF NextPairs, M
    <3>5. T[k] \in b[m + 1]
      BY <1>2, <3>1, <3>2, <3>3, <3>4
    <3> QED
      BY <3>1, <3>5
  <2>3. 1 .. n \subseteq Good
    <3> HIDE DEF Good
    <3> QED
      BY <1>1, <2>1, <2>2, Climb
  <2> QED
    BY <1>1, <2>3
<1>7. l <= n
  <2> SUFFICES ASSUME l > n PROVE FALSE
    BY <1>1, <1>5
  <2>1. n - 1 \in Nat /\ l - 2 \in Nat /\ n - 1 <= l - 2 /\ l > 1
    BY <1>1, <1>5
  <2>2. b[n - 1] \subseteq b[l - 2]
    BY <1>4, <2>1, ReachMore
  <2> QED
    BY <1>3, <1>6, <2>1, <2>2
<1> DEFINE pos == [i \in 1 .. l |-> CHOOSE p \in 1 .. n : T[p] = w[i]]
<1>8. \A i \in 1 .. l : pos[i] \in 1 .. n /\ T[pos[i]] = w[i]
  BY <1>2, <1>5
<1> HIDE DEF pos
<1>9. pos[1] = 1 /\ pos[l] = n
  BY <1>1, <1>2, <1>3, <1>5, <1>8
<1>10. ASSUME NEW i \in 2 .. l PROVE pos[i] <= pos[i - 1] + 1
  <2>1. i \in 1 .. l /\ i - 1 \in 1 .. l
    BY <1>5
  <2>2. PICK p \in 2 .. n : {T[p - 1], T[p]} = {w[i - 1], w[i]}
    BY <1>3 DEF NextTo, n
  <2>3. p \in 1 .. n /\ p - 1 \in 1 .. n
    BY <1>1
  <2>4. CASE w[i] = T[p]
    <3>1. w[i - 1] = T[p - 1]
      <4>1. T[p - 1] # T[p]
        BY <1>1, <1>2, <2>3
      <4> QED
        BY <2>2, <2>4, <4>1
    <3>2. pos[i] = p /\ pos[i - 1] = p - 1
      BY <1>2, <1>8, <2>1, <2>3, <2>4, <3>1
    <3> QED
      BY <2>3, <3>2
  <2>5. CASE w[i] = T[p - 1]
    <3>1. w[i - 1] = T[p]
      <4>1. T[p - 1] # T[p]
        BY <1>1, <1>2, <2>3
      <4> QED
        BY <2>2, <2>5, <4>1
    <3>2. pos[i] = p - 1 /\ pos[i - 1] = p
      BY <1>2, <1>8, <2>1, <2>3, <2>5, <3>1
    <3> QED
      BY <2>3, <3>2
  <2> QED
    BY <2>2, <2>4, <2>5
<1>11. n <= l
  <2> DEFINE Good == {i \in 1 .. l : pos[i] <= i}
  <2>1. 1 \in Good
    BY <1>5, <1>9
  <2>2. ASSUME NEW i \in 2 .. l, i - 1 \in Good PROVE i \in Good
    <3>1. i \in 1 .. l /\ i - 1 \in 1 .. l /\ pos[i - 1] <= i - 1
      BY <1>5, <2>2
    <3>2. pos[i] \in Int /\ pos[i - 1] \in Int /\ pos[i] <= pos[i - 1] + 1
      BY <1>8, <1>10, <3>1
    <3> QED
      BY <3>1, <3>2
  <2>3. 1 .. l \subseteq Good
    <3> HIDE DEF Good
    <3> QED
      BY <1>5, <2>1, <2>2, Climb
  <2> QED
    BY <1>5, <1>9, <2>3
<1>12. l = n
  BY <1>1, <1>5, <1>7, <1>11
<1>13. ASSUME NEW i \in 1 .. n PROVE pos[i] <= i /\ pos[i] >= i
  <2> DEFINE Up == {j \in 1 .. n : pos[j] <= j}
             Down == {k \in 1 .. n : pos[n - (k - 1)] >= n - (k - 1)}
  <2>1. i \in Up
    <3>1. 1 \in Up
      BY <1>1, <1>9
    <3>2. ASSUME NEW j \in 2 .. n, j - 1 \in Up PROVE j \in Up
      <4>1. j \in 1 .. l /\ j - 1 \in 1 .. l /\ pos[j - 1] <= j - 1 /\ j \in 2 .. l /\ j \in 1 .. n
        BY <1>1, <1>12, <3>2
      <4>2. pos[j] \in Int /\ pos[j - 1] \in Int /\ pos[j] <= pos[j - 1] + 1
        BY <1>8, <1>10, <4>1
      <4> QED
        BY <4>1, <4>2
    <3>3. 1 .. n \subseteq Up
      <4> HIDE DEF Up
      <4> QED
        BY <1>1, <3>1, <3>2, Climb
    <3> QED
      BY <3>3
  <2>2. 1 .. n \subseteq Down
    <3>1. 1 \in Down
      <4>1. n - (1 - 1) = n
        BY <1>1
      <4>2. pos[n - (1 - 1)] >= n - (1 - 1)
        BY <1>1, <1>9, <1>12, <4>1
      <4> QED
        BY <1>1, <4>2
    <3>2. ASSUME NEW k \in 2 .. n, k - 1 \in Down PROVE k \in Down
      <4> DEFINE m == n - ((k - 1) - 1)
      <4>1. k \in 1 .. n /\ m \in 2 .. n /\ m \in 1 .. l /\ m - 1 \in 1 .. l /\ m \in 2 .. l /\ m - 1 = n - (k - 1)
        BY <1>1, <1>12
      <4>2. pos[m] >= m
        BY <3>2
      <4> HIDE DEF m
      <4>3. pos[m] \in Int /\ pos[m - 1] \in Int /\ pos[m] <= pos[m - 1] + 1
        BY <1>8, <1>10, <4>1
      <4>4. pos[m - 1] >= m - 1
        BY <4>1, <4>2, <4>3
      <4>5. pos[n - (k - 1)] >= n - (k - 1)
        BY <4>1, <4>4
      <4> QED
        BY <4>1, <4>5
    <3> HIDE DEF Down
    <3> QED
      BY <1>1, <3>1, <3>2, Climb
  <2>3. pos[i] >= i
    <3> DEFINE k == n - (i - 1)
    <3>1. k \in 1 .. n /\ n - (k - 1) = i
      BY <1>1
    <3>2. pos[n - (k - 1)] >= n - (k - 1)
      BY <2>2, <3>1
    <3> QED
      BY <3>1, <3>2
  <2> QED
    BY <2>1, <2>3
<1>14. \A i \in 1 .. n : w[i] = T[i]
  <2> TAKE i \in 1 .. n
  <2>1. pos[i] \in Int /\ i \in Int /\ i \in 1 .. l
    BY <1>8, <1>12
  <2>2. pos[i] = i
    BY <1>13, <2>1
  <2> QED
    BY <1>8, <2>1, <2>2
<1> QED
  BY <1>1, <1>5, <1>12, <1>14

\* A straight segment goes in one direction.
LEMMA StraightOnward ==
    ASSUME NEW a \in Cells, NEW b \in Cells, a # b, a[1] = b[1] \/ a[2] = b[2]
    PROVE  \E d, n : Way(d) /\ n \in Nat \ {0} /\ b = Onward(a, d, n)
<1> DEFINE x == a[1]
           y == a[2]
           v == b[1]
           w == b[2]
<1>1. a = <<x, y>> /\ b = <<v, w>> /\ x \in Int /\ y \in Int /\ v \in Int /\ w \in Int /\ (x = v \/ y = w)
  BY DEF Cells
<1>2. \A d, k : Onward(a, d, k) = <<Along(x, d[1], k), Along(y, d[2], k)>>
  BY DEF Onward
<1> HIDE DEF x, y, v, w
<1>3. x # v \/ y # w
  BY <1>1
<1>4. CASE v > x
  <2>1. v - x \in Nat \ {0} /\ y = w /\ Along(x, 1, v - x) = v /\ Along(y, 0, v - x) = w
    BY <1>1, <1>4 DEF Along
  <2>2. Way(<<1, 0>>) /\ Onward(a, <<1, 0>>, v - x) = b
    BY <1>1, <1>2, <2>1 DEF Way
  <2> QED
    BY <2>1, <2>2
<1>5. CASE v < x
  <2>1. x - v \in Nat \ {0} /\ y = w /\ Along(x, -1, x - v) = v /\ Along(y, 0, x - v) = w
    BY <1>1, <1>5 DEF Along
  <2>2. Way(<<-1, 0>>) /\ Onward(a, <<-1, 0>>, x - v) = b
    BY <1>1, <1>2, <2>1 DEF Way
  <2> QED
    BY <2>1, <2>2
<1>6. CASE v = x /\ w > y
  <2>1. w - y \in Nat \ {0} /\ Along(x, 0, w - y) = v /\ Along(y, 1, w - y) = w
    BY <1>1, <1>6 DEF Along
  <2>2. Way(<<0, 1>>) /\ Onward(a, <<0, 1>>, w - y) = b
    BY <1>1, <1>2, <2>1 DEF Way
  <2> QED
    BY <2>1, <2>2
<1>7. CASE v = x /\ w < y
  <2>1. y - w \in Nat \ {0} /\ Along(x, 0, y - w) = v /\ Along(y, -1, y - w) = w
    BY <1>1, <1>7 DEF Along
  <2>2. Way(<<0, -1>>) /\ Onward(a, <<0, -1>>, y - w) = b
    BY <1>1, <1>2, <2>1 DEF Way
  <2> QED
    BY <2>1, <2>2
<1> QED
  BY <1>1, <1>3, <1>4, <1>5, <1>6, <1>7

\* In one direction every step is the same, to the tile beside.
LEMMA OnwardSteps ==
    ASSUME NEW a \in Cells, NEW d, Way(d), NEW k \in Nat
    PROVE  /\ Step(Onward(a, d, k), Onward(a, d, k + 1)) = d
           /\ Beside(Onward(a, d, k), Onward(a, d, k + 1))
<1> DEFINE x == a[1]
           y == a[2]
<1>1. x \in Int /\ y \in Int
  BY DEF Cells
<1>2. d = <<d[1], d[2]>> /\ d[1] \in {-1, 0, 1} /\ d[2] \in {-1, 0, 1} /\ (d[1] = 0 <=> d[2] # 0)
  BY DEF Way
<1>3. \A c \in Int : \A e \in {-1, 0, 1} :
        /\ Along(c, e, k + 1) - Along(c, e, k) = e
        /\ Gap(Along(c, e, k), Along(c, e, k + 1)) = IF e = 0 THEN 0 ELSE 1
  BY DEF Along, Gap
<1>4. \A j : Onward(a, d, j) = <<Along(x, d[1], j), Along(y, d[2], j)>>
  BY DEF Onward
<1> HIDE DEF x, y
<1>5. /\ Along(x, d[1], k + 1) - Along(x, d[1], k) = d[1]
      /\ Along(y, d[2], k + 1) - Along(y, d[2], k) = d[2]
      /\ Gap(Along(x, d[1], k), Along(x, d[1], k + 1)) = IF d[1] = 0 THEN 0 ELSE 1
      /\ Gap(Along(y, d[2], k), Along(y, d[2], k + 1)) = IF d[2] = 0 THEN 0 ELSE 1
  BY <1>1, <1>2, <1>3
<1>6. Step(Onward(a, d, k), Onward(a, d, k + 1)) = d
  BY <1>2, <1>4, <1>5 DEF Step
<1>7. Beside(Onward(a, d, k), Onward(a, d, k + 1))
  BY <1>2, <1>4, <1>5 DEF Beside
<1> QED
  BY <1>6, <1>7

\* The net has its old ends on its tiles.
LEMMA OwnEnds ==
    ASSUME NEW n \in GuidedNets, Len(Deduped(n.pips)) > 1,
           Head(Deduped(n.pips)) = n.source, Last(Deduped(n.pips)) = n.sink
    PROVE  LET T == NetTiles(n) IN
           /\ n.pips # <<>> /\ TilesLaid(n, T)
           /\ T[1] = n.source /\ T[Len(T)] = n.sink /\ Ends(n)
           /\ Deduped(n.pips) \in Seq(Cells) /\ Deduped(n.pips)[1] = n.source
<1> DEFINE at == Deduped(n.pips)
           T == NetTiles(n)
<1>1. n.pips # <<>>
  <2> SUFFICES ASSUME n.pips = <<>> PROVE FALSE
    OBVIOUS
  <2>1. <<>> \in Seq(Cells) /\ \A k \in 2 .. Len(<<>>) : <<>>[k] # <<>>[k - 1]
    OBVIOUS
  <2>2. Deduped(<<>>) = <<>>
    BY <2>1, DedupedSame
  <2> QED
    BY <2>2
<1>2. at \in Seq(Cells) /\ at # <<>>
  BY <1>1, SegmentsJoin
<1>3. TilesLaid(n, T)
  BY <1>1, NetTilesLaid
<1> HIDE DEF at, T
<1>4. Head(at) = at[1] /\ Last(at) = at[Len(at)]
  BY <1>2 DEF Last
<1>5. T \in Seq(Cells) /\ T # <<>> /\ T[1] = at[1] /\ T[Len(T)] = at[Len(at)]
  BY <1>3 DEF TilesLaid, at
<1>6. T[1] \in ToSet(T) /\ T[Len(T)] \in ToSet(T)
  <2>1. 1 \in DOMAIN T /\ Len(T) \in DOMAIN T
    BY <1>5
  <2> QED
    BY <2>1 DEF ToSet
<1>7. at[1] = n.source /\ at[Len(at)] = n.sink
  BY <1>4 DEF at
<1> QED
  BY <1>1, <1>2, <1>3, <1>5, <1>6, <1>7 DEF at, T, Ends, Mapped

LEMMA OwnRouteFits ==
    ASSUME TraceInv
    PROVE  OwnRouteAdmitted
<1> DEFINE at == Deduped(net.pips)
           T == NetTiles(net)
           straight == \A k \in 1 .. (Len(at) - 1) : at[k][1] = at[k + 1][1] \/ at[k][2] = at[k + 1][2]
<1> SUFFICES ASSUME phase \in {"following", "left"}, Len(at) > 1, straight, IsInjective(T),
                    Head(at) = net.source, Last(at) = net.sink
             PROVE  /\ Ordered /\ Head(guide) = Head(at)
                    /\ \A k \in 1 .. (Len(at) - 1) : \E i, j \in DOMAIN guide : Advances(i, j, at[k], at[k + 1])
  BY DEF OwnRouteAdmitted
<1>1. /\ net \in GuidedNets /\ guide \in Seq(Cells)
      /\ Ends(net) => Shortest(T, net.source, net.sink, guide)
  BY DEF TraceInv
<1>2. /\ net.pips # <<>> /\ TilesLaid(net, T)
      /\ T[1] = net.source /\ T[Len(T)] = net.sink /\ Ends(net)
      /\ at \in Seq(Cells) /\ at[1] = net.source
  BY <1>1, OwnEnds
<1>3. /\ Len(SegmentsOf(net.pips)) = Len(at) - 1
      /\ \A k \in 1 .. Len(SegmentsOf(net.pips)) : SegmentsOf(net.pips)[k] = <<at[k], at[k + 1]>>
      /\ \A k \in 2 .. Len(at) : at[k] # at[k - 1]
      /\ SegmentsOf(net.pips) \in Seq(Cells \X Cells)
  BY <1>1, <1>2, SegmentsJoin
<1> HIDE DEF T
<1>4. T \in Seq(Cells) /\ T # <<>>
  BY <1>2 DEF TilesLaid
<1>5. guide = T
  <2>1. Shortest(T, T[1], T[Len(T)], guide)
    BY <1>1, <1>2
  <2> QED
    BY <1>4, <2>1, ShortestIsWhole
<1>6. Len(at) \in Nat /\ \A k \in 1 .. (Len(at) - 1) : at[k] \in Cells /\ at[k + 1] \in Cells /\ at[k] # at[k + 1]
  <2>1. Len(at) \in Nat
    BY <1>2
  <2>2. ASSUME NEW k \in 1 .. (Len(at) - 1) PROVE at[k] \in Cells /\ at[k + 1] \in Cells /\ at[k] # at[k + 1]
    <3>1. k + 1 \in 2 .. Len(at) /\ (k + 1) - 1 = k /\ k \in 1 .. Len(at) /\ k + 1 \in 1 .. Len(at)
      BY <2>1
    <3>2. at[k + 1] # at[(k + 1) - 1]
      BY <1>3, <3>1
    <3> HIDE DEF at
    <3> QED
      BY <1>2, <3>1, <3>2
  <2> QED
    BY <2>1, <2>2
<1>7. /\ Head(at) = at[1]
      /\ \A k \in 1 .. (Len(at) - 1) : at[k][1] = at[k + 1][1] \/ at[k][2] = at[k + 1][2]
  BY <1>2
<1>8. Laps(net) = [k \in DOMAIN SegmentsOf(net.pips) |-> SegmentTiles(SegmentsOf(net.pips)[k])]
  BY DEF Laps
<1>9. 1 .. (Len(at) - 1) = DOMAIN Laps(net) /\ \A k \in 1 .. (Len(at) - 1) : Laps(net)[k] = SegmentTiles(<<at[k], at[k + 1]>>)
  <2>1. DOMAIN SegmentsOf(net.pips) = 1 .. (Len(at) - 1)
    BY <1>3
  <2> QED
    BY <1>3, <1>8, <2>1
<1>10. /\ Len(at) > 1 /\ Head(at) = net.source
  OBVIOUS
<1> HIDE DEF at
<1>11. ASSUME NEW k \in 1 .. (Len(at) - 1)
       PROVE  \E i, j \in 1 .. Len(T) : i < j /\ Advances(i, j, at[k], at[k + 1])
  <2>1. PICK o \in Nat : \A m \in 1 .. Len(Laps(net)[k]) :
          o + m \in 1 .. Len(T) /\ T[o + m] = Laps(net)[k][m]
    BY <1>2, <1>9 DEF TilesLaid
  <2>2. PICK d, n : Way(d) /\ n \in Nat \ {0} /\ at[k + 1] = Onward(at[k], d, n)
    BY <1>6, <1>7, StraightOnward
  <2> DEFINE a == at[k]
             st == Laps(net)[k]
  <2>3. st = [m \in 1 .. n + 1 |-> Onward(a, d, m - 1)]
    <3>1. a \in Cells /\ n \in Nat /\ Way(d)
      BY <1>6, <2>2
    <3> HIDE DEF a
    <3>2. SegmentTiles(<<a, Onward(a, d, n)>>) = [m \in 1 .. n + 1 |-> Onward(a, d, m - 1)]
      BY ONLY <3>1, SegmentOnward
    <3>3. st = SegmentTiles(<<a, at[k + 1]>>) /\ at[k + 1] = Onward(a, d, n)
      BY <1>9, <2>2 DEF a
    <3> QED
      BY <3>2, <3>3
  <2>4. a \in Cells /\ at[k] # at[k + 1]
    BY <1>6
  <2> HIDE DEF a, st
  <2>5. Len(st) = n + 1 /\ \A m \in 1 .. n + 1 : o + m \in 1 .. Len(T) /\ T[o + m] = Onward(a, d, m - 1)
    <3>1. Len(st) = n + 1
      BY <2>2, <2>3
    <3> QED
      BY <2>1, <2>3, <3>1 DEF st
  <2>6. \A j \in 0 .. n : o + (j + 1) \in 1 .. Len(T) /\ T[o + (j + 1)] = Onward(a, d, j)
    <3> TAKE j \in 0 .. n
    <3>1. j + 1 \in 1 .. n + 1 /\ (j + 1) - 1 = j
      BY <2>2
    <3> QED
      BY <2>5, <3>1
  <2> DEFINE i == o + 1
             e == o + (n + 1)
  <2>7. i \in 1 .. Len(T) /\ e \in 1 .. Len(T) /\ i < e /\ T[i] = Onward(a, d, 0) /\ T[e] = at[k + 1]
    <3>1. 0 \in 0 .. n /\ n \in 0 .. n /\ 0 + 1 = 1 /\ o + 1 < o + (n + 1)
      BY <2>2
    <3>2. o + (0 + 1) \in 1 .. Len(T) /\ T[o + (0 + 1)] = Onward(a, d, 0)
      BY <2>6, <3>1
    <3>3. o + (n + 1) \in 1 .. Len(T) /\ T[o + (n + 1)] = Onward(a, d, n)
      BY <2>6, <3>1
    <3> QED
      BY <2>2, <3>1, <3>2, <3>3 DEF a
  <2>8. T[i] = at[k]
    <3>1. a[1] \in Int /\ a[2] \in Int /\ a = <<a[1], a[2]>>
      BY <2>4 DEF Cells
    <3>2. \A c \in Int : \A x : Along(c, x, 0) = c
      BY DEF Along
    <3>3. Onward(a, d, 0) = a
      BY <3>1, <3>2 DEF Onward
    <3> QED
      BY <2>7, <3>3 DEF a
  <2>9. Linear(i, e)
    <3>1. ASSUME NEW p \in i .. e - 1
          PROVE  Step(T[p], T[p + 1]) = d /\ Beside(T[p], T[p + 1])
      <4> DEFINE j == p - (o + 1)
      <4>1. j \in Nat /\ j \in 0 .. n /\ j + 1 \in 0 .. n /\ o + (j + 1) = p /\ o + ((j + 1) + 1) = p + 1
        <5>1. \A x \in Nat : \A y \in Nat \ {0} : \A z \in (x + 1) .. (x + (y + 1)) - 1 :
                /\ z - (x + 1) \in Nat /\ z - (x + 1) \in 0 .. y /\ (z - (x + 1)) + 1 \in 0 .. y
                /\ x + ((z - (x + 1)) + 1) = z /\ x + (((z - (x + 1)) + 1) + 1) = z + 1
          OBVIOUS
        <5> QED
          BY <2>2, <5>1
      <4> HIDE DEF j
      <4>2. T[p] = Onward(a, d, j) /\ T[p + 1] = Onward(a, d, j + 1)
        BY <2>6, <4>1
      <4> QED
        BY <2>2, <2>4, <4>1, <4>2, OnwardSteps
    <3>2. i \in i .. e - 1 /\ i + 1 = i + 1
      BY <2>2
    <3>3. Step(T[i], T[i + 1]) = d /\ Beside(T[i], T[i + 1])
      BY <3>1, <3>2
    <3> HIDE DEF i, e
    <3> QED
      BY <1>5, <3>1, <3>3 DEF Linear
  <2>10. Advances(i, e, at[k], at[k + 1])
    <3> HIDE DEF i, e
    <3> QED
      BY <1>5, <2>4, <2>7, <2>8, <2>9 DEF Advances
  <2> QED
    BY <2>7, <2>10
<1>12. Len(T) > 1 /\ DOMAIN T = 1 .. Len(T) /\ Len(T) \in Nat
  <2>1. 1 \in 1 .. (Len(at) - 1)
    BY <1>6, <1>10
  <2>2. PICK i \in 1 .. Len(T) : \E j \in 1 .. Len(T) : i < j
    BY <1>11, <2>1
  <2> QED
    BY <1>4, <2>2
<1>13. Ordered
  BY <1>2, <1>5, <1>12 DEF Ordered, Last
<1>14. Head(guide) = Head(at)
  BY <1>2, <1>4, <1>5, <1>10
<1> QED
  BY <1>5, <1>11, <1>12, <1>13, <1>14

-----------------------------------------------------------------------------
(***************************************************************************)
(* What holds of a guide all along: its search has a way to every tile it  *)
(* has seen, in the order of their lengths, the guide is a shortest way,   *)
(* distances spread from it without a gap, and the wires that follow it    *)
(* are over a part of it.                                                  *)
(***************************************************************************)
GuideInv == FieldInv /\ TraceInv /\ DistanceInv /\ WalkInv

\* The inductive invariant of guides holds in every behaviour.
THEOREM GuideInvariant == GuideSpec => []GuideInv
<1>1. GuideInit => TraceInv /\ DistanceInv /\ WalkInv
  BY DEF GuideInit, TraceInv, DistanceInv, WalkInv
<1>2. FieldInv /\ (TraceInv /\ DistanceInv /\ WalkInv) /\ [GuideNext]_guideVars
        => (TraceInv /\ DistanceInv /\ WalkInv)'
  BY TraceKept, DistancesStep, WalkStep
<1> QED
  BY <1>1, <1>2, FieldInvInductive, PTL DEF GuideSpec, GuideInv

(***************************************************************************)
(* A guide is a shortest way over the old route, with true distances, that *)
(* admits the route it was made from and no short cut (route_adjacency,    *)
(* GuideDistances::new and OrderedGuide::advance in route/guide.rs).       *)
(***************************************************************************)
THEOREM GuidesHoldAlways == GuideSpec => []GuidesHold
<1>1. GuideInv => GuidesHold
  BY GuideIsShortest, DistancesAreTrue, WalkIsGuide, OwnRouteFits
     DEF GuideInv, GuidesHold, SearchesShortest, GuideAdmitsItsRoute
<1> QED
  BY <1>1, GuideInvariant, PTL

-----------------------------------------------------------------------------
(***************************************************************************)
(* The heap of search states.                                              *)
(***************************************************************************)
Positions(n) == 0 .. n - 1

\* A heap of n entries, ordered or not, and one with a position marked.
Heaps(n) == [Positions(n) -> Entries]

Marked(n) == [heap : Heaps(n), at : Positions(n)]

HeapOrdered(n, h) ==
    \A i \in 1 .. n - 1 : h[Parent(i)].priority <= h[i].priority

\* The order of a heap, but for the entry on its way up.
HeapOrderedBut(n, h, at) ==
    /\ \A i \in 1 .. n - 1 : i # at => h[Parent(i)].priority <= h[i].priority
    /\ \A i \in 1 .. n - 1 : Parent(i) = at /\ at > 0 =>
          h[Parent(at)].priority <= h[i].priority

LEMMA ParentBelow ==
    ASSUME NEW i \in Nat \ {0}
    PROVE  /\ Parent(i) \in Nat /\ Parent(i) < i
           /\ i = 2 * Parent(i) + 1 \/ i = 2 * Parent(i) + 2
BY DEF Parent

LEMMA Priorities ==
    ASSUME NEW n \in Nat, NEW h \in Heaps(n), NEW i \in Positions(n)
    PROVE  h[i] \in Entries /\ h[i].priority \in Nat
BY HeapAssumption DEF Heaps

\* The entry at the root of a heap is a least one.
LEMMA RootLeast ==
    ASSUME NEW n \in Nat, NEW h \in Heaps(n), HeapOrdered(n, h),
           NEW i \in Positions(n)
    PROVE  h[0].priority <= h[i].priority
<1> DEFINE Bad == {j \in Positions(n) : ~(h[0].priority <= h[j].priority)}
<1> SUFFICES ASSUME Bad # {} PROVE FALSE
  OBVIOUS
<1>1. Bad \in SUBSET Nat
  BY DEF Positions
<1>2. PICK j \in Bad : \A k \in Bad : j <= k
  BY <1>1, LeastNatural
<1>3. j \in Positions(n) /\ j \in Nat /\ 0 \in Positions(n) /\ ~(h[0].priority <= h[j].priority)
  BY DEF Positions
<1>4. j # 0
  BY <1>3, Priorities
<1>5. /\ Parent(j) \in Positions(n) /\ Parent(j) < j /\ j \in 1 .. n - 1
  BY <1>3, <1>4, ParentBelow DEF Positions
<1>6. Parent(j) \notin Bad
  BY <1>2, <1>3, <1>5 DEF Positions
<1>7. h[0].priority <= h[Parent(j)].priority /\ h[Parent(j)].priority <= h[j].priority
  BY <1>5, <1>6 DEF HeapOrdered
<1>8. h[0].priority \in Nat /\ h[Parent(j)].priority \in Nat /\ h[j].priority \in Nat
  BY <1>3, <1>5, Priorities
<1> QED
  BY <1>3, <1>7, <1>8

-----------------------------------------------------------------------------
\* Rearrangements.

Shuffles(n) == Bijection(Positions(n), Positions(n))

Swap(p, a, b) == [p EXCEPT ![a] = p[b], ![b] = p[a]]

LEMMA ShuffleFacts ==
    ASSUME NEW n, NEW p \in Shuffles(n)
    PROVE  /\ p \in [Positions(n) -> Positions(n)]
           /\ \A a, b \in Positions(n) : p[a] = p[b] => a = b
           /\ \A a \in Positions(n) : \E b \in Positions(n) : p[b] = a
BY Fun_BijectionProperties DEF Shuffles

LEMMA Unshuffled ==
    ASSUME NEW n
    PROVE  [i \in Positions(n) |-> i] \in Shuffles(n)
<1> DEFINE D == Positions(n)
           p == [i \in D |-> i]
<1> HIDE DEF D
<1>1. p \in [D -> D] /\ (\A a, b \in D : p[a] = p[b] => a = b) /\ \A a \in D : \E b \in D : p[b] = a
  OBVIOUS
<1> HIDE DEF p
<1> QED
  BY <1>1, Fun_IsBij DEF Shuffles, D, p

LEMMA SwapShuffles ==
    ASSUME NEW n, NEW p \in Shuffles(n), NEW a \in Positions(n), NEW b \in Positions(n)
    PROVE  Swap(p, a, b) \in Shuffles(n)
<1> DEFINE D == Positions(n)
           q == Swap(p, a, b)
<1>1. /\ p \in [D -> D]
      /\ \A x, y \in D : p[x] = p[y] => x = y
      /\ \A x \in D : \E y \in D : p[y] = x
  BY ShuffleFacts
<1>2. a \in D /\ b \in D
  OBVIOUS
<1> HIDE DEF D
<1>3. /\ q \in [D -> D] /\ q[a] = p[b] /\ q[b] = p[a]
      /\ \A x \in D : x # a /\ x # b => q[x] = p[x]
  BY <1>1, <1>2 DEF Swap
<1> HIDE DEF q
<1>4. \A x, y \in D : q[x] = q[y] => x = y
  BY <1>1, <1>2, <1>3
<1>5. \A x \in D : \E y \in D : q[y] = x
  <2> SUFFICES ASSUME NEW x \in D PROVE \E y \in D : q[y] = x
    OBVIOUS
  <2>1. PICK y \in D : p[y] = x
    BY <1>1
  <2> QED
    BY <1>2, <1>3, <2>1
<1>6. q \in Bijection(D, D)
  BY <1>3, <1>4, <1>5, Fun_IsBij
<1> QED
  BY <1>6 DEF Shuffles, D, q

-----------------------------------------------------------------------------
\* Sifting up.

\* A heap on the way from h: its entry at s.at still rises.
Rising(n, h, child, s) ==
    /\ HeapOrderedBut(n, s.heap, s.at)
    /\ s.at <= child
    /\ \E p \in Shuffles(n) :
          /\ \A i \in Positions(n) : s.heap[i] = h[p[i]]
          /\ \A i \in Positions(n) : i > child => p[i] = i

\* And no longer.
Settled(s) == s.at = 0 \/ ~Prefers(s.heap[Parent(s.at)], s.heap[s.at])

LEMMA RisingStep ==
    ASSUME NEW n \in Nat, NEW h, NEW child \in Positions(n),
           NEW s \in Marked(n), Rising(n, h, child, s)
    PROVE  /\ Risen(s) \in Marked(n) /\ Rising(n, h, child, Risen(s))
           /\ (Risen(s) = s /\ Settled(s)) \/ Risen(s).at < s.at
<1> DEFINE g == s.heap
           a == s.at
           b == Parent(a)
<1>1. /\ s = [heap |-> g, at |-> a] /\ g \in Heaps(n) /\ a \in Positions(n) /\ a \in Nat
      /\ HeapOrderedBut(n, g, a) /\ a <= child /\ n \in Nat /\ child \in Nat
  BY DEF Marked, Rising, Positions
<1>2. PICK p \in Shuffles(n) : /\ \A i \in Positions(n) : g[i] = h[p[i]]
                               /\ \A i \in Positions(n) : i > child => p[i] = i
  BY DEF Rising
<1> HIDE DEF g, a
<1>3. CASE ~(a > 0 /\ Prefers(g[b], g[a]))
  <2>1. Risen(s) = s
    BY <1>3 DEF Risen, g, a
  <2>2. Settled(s)
    BY <1>1, <1>3 DEF Settled, g, a
  <2> QED
    BY <2>1, <2>2
<1>4. CASE a > 0 /\ Prefers(g[b], g[a])
  <2> DEFINE r == Swap(g, a, b)
  <2>1. b \in Positions(n) /\ b < a /\ b \in Nat
    BY <1>1, <1>4, ParentBelow DEF Positions
  <2>2. Risen(s) = [heap |-> r, at |-> b]
    <3>1. Risen(s) = [heap |-> [g EXCEPT ![a] = g[b], ![b] = g[a]], at |-> b]
      BY <1>4 DEF Risen, g, a
    <3> QED
      BY <3>1 DEF Swap
  <2> HIDE DEF b
  <2>3. /\ r \in Heaps(n) /\ r[a] = g[b] /\ r[b] = g[a]
        /\ \A i \in Positions(n) : i # a /\ i # b => r[i] = g[i]
    BY <1>1, <2>1 DEF Heaps, Swap
  <2> HIDE DEF r
  <2>4. Risen(s) \in Marked(n)
    BY <2>1, <2>2, <2>3 DEF Marked
  <2>5. \A i \in Positions(n) : g[i].priority \in Nat /\ r[i].priority \in Nat
    BY <1>1, <2>3, Priorities
  <2>6. g[b].priority > g[a].priority
    BY <1>4 DEF Prefers
  <2>7. \A i \in 1 .. n - 1 : /\ i \in Positions(n) /\ Parent(i) \in Positions(n)
                              /\ Parent(i) < i /\ i # 0
    BY ParentBelow DEF Positions
  <2>8. HeapOrderedBut(n, r, b)
    <3>1. ASSUME NEW i \in 1 .. n - 1, i # b PROVE r[Parent(i)].priority <= r[i].priority
      <4>1. CASE i = a
        BY <1>1, <1>4, <2>3, <2>5, <2>6, <2>1, <4>1 DEF b
      <4>2. CASE i # a /\ Parent(i) = a
        <5>1. r[Parent(i)] = g[b] /\ r[i] = g[i] /\ g[b].priority <= g[i].priority
          BY <1>1, <1>4, <2>3, <2>7, <3>1, <4>2 DEF HeapOrderedBut, b
        <5> QED
          BY <5>1
      <4>3. CASE i # a /\ Parent(i) = b
        <5>1. r[Parent(i)] = g[a] /\ r[i] = g[i] /\ g[b].priority <= g[i].priority
          BY <1>1, <2>3, <2>7, <3>1, <4>3 DEF HeapOrderedBut
        <5> QED
          BY <1>1, <2>1, <2>5, <2>6, <2>7, <5>1
      <4>4. CASE i # a /\ Parent(i) # a /\ Parent(i) # b
        <5>1. r[Parent(i)] = g[Parent(i)] /\ r[i] = g[i] /\ g[Parent(i)].priority <= g[i].priority
          BY <1>1, <2>3, <2>7, <3>1, <4>4 DEF HeapOrderedBut
        <5> QED
          BY <5>1
      <4> QED
        BY <4>1, <4>2, <4>3, <4>4
    <3>2. ASSUME NEW i \in 1 .. n - 1, Parent(i) = b, b > 0
          PROVE  r[Parent(b)].priority <= r[i].priority
      <4>1. b \in 1 .. n - 1
        BY <1>1, <2>1, <3>2 DEF Positions
      <4> DEFINE c == Parent(b)
      <4>2. c \in Positions(n) /\ c < b
        BY <2>7, <4>1
      <4>3. r[c] = g[c] /\ g[c].priority <= g[b].priority
        <5>1. c # a /\ c # b /\ b # a
          BY <1>1, <2>1, <4>2 DEF Positions
        <5> QED
          BY <1>1, <2>3, <4>1, <4>2, <5>1 DEF HeapOrderedBut
      <4> HIDE DEF c
      <4>4. CASE i = a
        BY <2>3, <4>3, <4>4 DEF c
      <4>5. CASE i # a
        <5>1. r[i] = g[i] /\ g[b].priority <= g[i].priority
          BY <1>1, <2>3, <2>7, <3>2, <4>5 DEF HeapOrderedBut
        <5>2. g[c].priority \in Nat /\ g[b].priority \in Nat /\ g[i].priority \in Nat
          BY <2>1, <2>5, <2>7, <4>2
        <5>3. r[c].priority <= r[i].priority
          BY <4>3, <5>1, <5>2
        <5> QED
          BY <5>3 DEF c
      <4> QED
        BY <4>4, <4>5
    <3> QED
      BY <3>1, <3>2 DEF HeapOrderedBut
  <2> DEFINE q == Swap(p, a, b)
  <2>9. q \in Shuffles(n)
    BY <1>1, <2>1, SwapShuffles
  <2>10. \A i \in Positions(n) : r[i] = h[q[i]]
    <3>1. p \in [Positions(n) -> Positions(n)]
      BY ShuffleFacts
    <3>2. q[a] = p[b] /\ q[b] = p[a] /\ \A i \in Positions(n) : i # a /\ i # b => q[i] = p[i]
      BY <1>1, <2>1, <3>1 DEF Swap
    <3> HIDE DEF q
    <3> QED
      BY <1>1, <1>2, <2>1, <2>3, <3>2
  <2>11. \A i \in Positions(n) : i > child => q[i] = i
    <3>1. p \in [Positions(n) -> Positions(n)]
      BY ShuffleFacts
    <3>2. \A i \in Positions(n) : i > child => i # a /\ i # b
      BY <1>1, <2>1 DEF Positions
    <3> QED
      BY <1>2, <3>1, <3>2 DEF Swap
  <2> HIDE DEF q
  <2>12. Rising(n, h, child, Risen(s))
    BY <1>1, <2>1, <2>2, <2>8, <2>9, <2>10, <2>11 DEF Rising
  <2> QED
    BY <2>1, <2>2, <2>4, <2>12 DEF a
<1> QED
  BY <1>3, <1>4

LEMMA SiftUpKeeps ==
    ASSUME NEW n \in Nat, NEW h \in Heaps(n), NEW child \in Positions(n),
           HeapOrderedBut(n, h, child)
    PROVE  /\ SiftUp(h, child) \in Heaps(n) /\ HeapOrdered(n, SiftUp(h, child))
           /\ \E p \in Shuffles(n) :
                 /\ \A i \in Positions(n) : SiftUp(h, child)[i] = h[p[i]]
                 /\ \A i \in Positions(n) : i > child => p[i] = i
<1> DEFINE S == {s \in Marked(n) : Rising(n, h, child, s)}
           start == [heap |-> h, at |-> child]
           step == [s \in S |-> Risen(s)]
           F(f) == [k \in 0 .. child |-> IF k = 0 THEN start ELSE Risen(f[k - 1])]
           after == CHOOSE f : f = F(f)
           T == [k \in 0 .. child |-> {s \in S : s.at <= child - k \/ (Risen(s) = s /\ Settled(s))}]
<1>1. SiftUp(h, child) = after[child].heap
  BY DEF SiftUp
<1>2. child \in Nat
  BY DEF Positions
<1>3. start \in S
  <2>1. start \in Marked(n) /\ start.heap = h /\ start.at = child
    BY DEF Marked
  <2>2. [i \in Positions(n) |-> i] \in Shuffles(n)
    BY Unshuffled
  <2>3. Rising(n, h, child, start)
    BY <1>2, <2>1, <2>2 DEF Rising
  <2> QED
    BY <2>1, <2>3
<1>4. \A s \in S : Risen(s) \in S /\ ((Risen(s) = s /\ Settled(s)) \/ Risen(s).at < s.at)
  BY RisingStep
<1>5. \A s \in S : s.at \in Nat
  BY DEF Marked, Positions
<1>6. Loop(S, child, start, step)
  <2> HIDE DEF S, start
  <2> QED
    BY <1>2, <1>3, <1>4 DEF Loop
<1> HIDE DEF S, start, F
<1>7. PICK f : Runs(f, S, child, start, step)
  <2> HIDE DEF step
  <2> QED
    BY <1>6, LoopRuns
<1>8. /\ f \in [0 .. child -> S] /\ f[0] = start
      /\ \A k \in 1 .. child : f[k] = Risen(f[k - 1])
  <2>1. \A k \in 1 .. child : f[k] = step[f[k - 1]] /\ f[k - 1] \in S
    BY <1>2, <1>7 DEF Runs
  <2> QED
    BY <1>7, <2>1 DEF Runs
<1>9. f = F(f)
  <2>1. \A k \in 0 .. child : f[k] = IF k = 0 THEN start ELSE Risen(f[k - 1])
    <3>1. \A k \in 0 .. child : k = 0 \/ k \in 1 .. child
      BY <1>2
    <3> QED
      BY <1>8, <3>1
  <2> QED
    BY <1>8, <2>1 DEF F
<1>10. after = F(after)
  BY <1>9
<1>11. after[0] = start /\ \A k \in 1 .. child : after[k] = Risen(after[k - 1])
  <2>1. \A k \in 0 .. child : after[k] = IF k = 0 THEN start ELSE Risen(after[k - 1])
    <3>1. \A k \in 0 .. child : F(after)[k] = IF k = 0 THEN start ELSE Risen(after[k - 1])
      BY DEF F
    <3> HIDE DEF after
    <3> QED
      BY <1>10, <3>1
  <2>2. 0 \in 0 .. child /\ \A k \in 1 .. child : k \in 0 .. child /\ k # 0
    BY <1>2
  <2> HIDE DEF after
  <2> QED
    BY <2>1, <2>2
<1> HIDE DEF after
<1>12. \A k \in 1 .. child : after[k - 1] \in S => after[k] = step[after[k - 1]]
  BY <1>11
<1>13. start \in T[0]
  BY <1>2, <1>3 DEF start
<1>14. ASSUME NEW k \in 1 .. child, NEW s \in S, s \in T[k - 1]
       PROVE  step[s] \in T[k]
  <2>1. /\ T[k - 1] = {z \in S : z.at <= child - (k - 1) \/ (Risen(z) = z /\ Settled(z))}
        /\ T[k] = {z \in S : z.at <= child - k \/ (Risen(z) = z /\ Settled(z))}
    BY <1>2
  <2>2. step[s] = Risen(s) /\ Risen(s) \in S /\ Risen(s).at \in Nat /\ s.at \in Nat
    BY <1>4, <1>5
  <2>3. CASE Risen(s) = s /\ Settled(s)
    BY <2>1, <2>2, <2>3
  <2>4. CASE ~(Risen(s) = s /\ Settled(s))
    <3>1. s.at <= child - (k - 1) /\ Risen(s).at < s.at
      BY <1>4, <1>14, <2>1, <2>4
    <3>2. Risen(s).at <= child - k
      BY <1>2, <2>2, <3>1
    <3> QED
      BY <2>1, <2>2, <3>2
  <2> QED
    BY <2>3, <2>4
<1>15. after[child] \in S /\ after[child] \in T[child]
  <2> HIDE DEF step, T
  <2> QED
    BY <1>6, <1>11, <1>12, <1>13, <1>14, LoopEnds
<1> DEFINE s == after[child]
           g == s.heap
<1> HIDE DEF s
<1>16. s \in S /\ (s.at <= 0 \/ Settled(s))
  <2>1. T[child] = {z \in S : z.at <= child - child \/ (Risen(z) = z /\ Settled(z))}
    BY <1>2
  <2> QED
    BY <1>2, <1>15, <2>1 DEF s
<1>17. s \in Marked(n) /\ Rising(n, h, child, s) /\ s.at \in Nat
  BY <1>5, <1>16 DEF S
<1>18. g \in Heaps(n) /\ s.at \in Positions(n) /\ HeapOrderedBut(n, g, s.at)
  BY <1>17 DEF Marked, Rising
<1>19. HeapOrdered(n, g)
  <2> SUFFICES ASSUME NEW i \in 1 .. n - 1 PROVE g[Parent(i)].priority <= g[i].priority
    BY DEF HeapOrdered
  <2>1. i \in Positions(n) /\ Parent(i) \in Positions(n)
    BY ParentBelow DEF Positions
  <2>2. CASE i # s.at
    BY <1>18, <2>2 DEF HeapOrderedBut
  <2>3. CASE i = s.at
    <3>1. ~(g[Parent(i)].priority > g[i].priority)
      BY <1>16, <1>17, <2>3 DEF Settled, Prefers
    <3>2. g[Parent(i)].priority \in Nat /\ g[i].priority \in Nat
      BY <1>18, <2>1, Priorities
    <3> QED
      BY <3>1, <3>2
  <2> QED
    BY <2>2, <2>3
<1>20. SiftUp(h, child) = g
  BY <1>1 DEF s
<1> HIDE DEF g
<1> QED
  BY <1>17, <1>18, <1>19, <1>20 DEF Rising, g

-----------------------------------------------------------------------------
\* Sinking the hole.

LEMMA HeapSize ==
    ASSUME NEW n \in Nat, NEW h \in Heaps(n)
    PROVE  /\ DOMAIN h = Positions(n) /\ SizeOf(h) = n
           /\ IsFiniteSet(Positions(n)) /\ Cardinality(Positions(n)) = n
<1>1. DOMAIN h = Positions(n)
  BY DEF Heaps
<1>2. IsFiniteSet(0 .. n - 1) /\ Cardinality(0 .. n - 1) = n
  BY FS_Interval
<1> QED
  BY <1>1, <1>2 DEF SizeOf, Positions

LEMMA LeastChildFacts ==
    ASSUME NEW n \in Nat, NEW h \in Heaps(n), NEW a \in Positions(n),
           ~(a > (n - 2) \div 2)
    PROVE  /\ LeastChild(h, a) \in 1 .. n - 1
           /\ Parent(LeastChild(h, a)) = a /\ a < LeastChild(h, a)
           /\ \A i \in 1 .. n - 1 : Parent(i) = a =>
                 h[LeastChild(h, a)].priority <= h[i].priority
<1> DEFINE l == 2 * a + 1
<1>1. a \in Nat /\ l \in 1 .. n - 1 /\ l \in Positions(n) /\ DOMAIN h = Positions(n)
  BY HeapSize DEF Positions
<1>2. Parent(l) = a /\ Parent(l + 1) = a
  BY <1>1 DEF Parent
<1>3. \A i \in 1 .. n - 1 : Parent(i) = a => i = l \/ i = l + 1
  BY ParentBelow
<1>4. \A i \in Positions(n) : h[i].priority \in Nat
  BY Priorities
<1>5. CASE l + 1 \in Positions(n) /\ h[l].priority > h[l + 1].priority
  <2>1. LeastChild(h, a) = l + 1
    BY <1>1, <1>5 DEF LeastChild, Prefers
  <2>2. l + 1 \in 1 .. n - 1 /\ a < l + 1
    BY <1>1, <1>5 DEF Positions
  <2> HIDE DEF l
  <2> QED
    BY <1>1, <1>2, <1>3, <1>4, <1>5, <2>1, <2>2
<1>6. CASE ~(l + 1 \in Positions(n) /\ h[l].priority > h[l + 1].priority)
  <2>1. LeastChild(h, a) = l
    BY <1>1, <1>6 DEF LeastChild, Prefers
  <2>2. a < l /\ \A i \in 1 .. n - 1 : i \in Positions(n)
    BY <1>1 DEF Positions
  <2>3. ASSUME NEW i \in 1 .. n - 1, Parent(i) = a PROVE h[l].priority <= h[i].priority
    <3>1. i = l \/ i = l + 1
      BY <1>3, <2>3
    <3>2. h[l].priority \in Nat /\ h[i].priority \in Nat
      BY <1>1, <1>4, <2>2
    <3> QED
      BY <1>6, <2>2, <3>1, <3>2
  <2> HIDE DEF l
  <2> QED
    BY <1>1, <1>2, <2>1, <2>2, <2>3
<1> QED
  BY <1>5, <1>6

\* A heap from whose root a hole came to s.at.
Sinking(n, h, s) ==
    /\ HeapOrdered(n, s.heap)
    /\ \E p \in Shuffles(n) :
          p[s.at] = 0 /\ \A i \in Positions(n) : i # s.at => s.heap[i] = h[p[i]]

Leaf(n, a) == a > (n - 2) \div 2

LEMMA SinkingStep ==
    ASSUME NEW n \in Nat, NEW h, NEW s \in Marked(n), Sinking(n, h, s)
    PROVE  /\ Sunk(s) \in Marked(n) /\ Sinking(n, h, Sunk(s))
           /\ (Sunk(s) = s /\ Leaf(n, s.at)) \/ s.at < Sunk(s).at
<1> DEFINE g == s.heap
           a == s.at
           c == LeastChild(g, a)
           r == [g EXCEPT ![a] = g[c]]
<1>1. g \in Heaps(n) /\ a \in Positions(n) /\ HeapOrdered(n, g)
  BY DEF Marked, Sinking
<1>2. PICK p \in Shuffles(n) : p[a] = 0 /\ \A i \in Positions(n) : i # a => g[i] = h[p[i]]
  BY DEF Sinking
<1>3. Sunk(s) = IF Leaf(n, a) THEN s ELSE [heap |-> r, at |-> c]
  BY <1>1, HeapSize DEF Sunk, Leaf
<1>4. CASE Leaf(n, a)
  BY <1>3, <1>4
<1>5. CASE ~Leaf(n, a)
  <2> HIDE DEF g, a
  <2>1. /\ c \in 1 .. n - 1 /\ Parent(c) = a /\ a < c
        /\ \A i \in 1 .. n - 1 : Parent(i) = a => g[c].priority <= g[i].priority
    BY <1>1, <1>5, LeastChildFacts DEF Leaf
  <2> HIDE DEF c
  <2>2. c \in Positions(n) /\ \A i \in 1 .. n - 1 : i \in Positions(n) /\ Parent(i) \in Positions(n)
    BY <2>1, ParentBelow DEF Positions
  <2>3. r \in Heaps(n) /\ r[a] = g[c] /\ \A i \in Positions(n) : i # a => r[i] = g[i]
    BY <1>1, <2>2 DEF Heaps
  <2> HIDE DEF r
  <2>4. \A i \in Positions(n) : g[i].priority \in Nat
    BY <1>1, Priorities
  <2>5. ASSUME NEW i \in 1 .. n - 1 PROVE r[Parent(i)].priority <= r[i].priority
    <3>1. Parent(i) # i
      BY ParentBelow
    <3>2. CASE Parent(i) = a
      <4>1. r[Parent(i)] = g[c] /\ r[i] = g[i] /\ g[c].priority <= g[i].priority
        BY <2>1, <2>2, <2>3, <3>1, <3>2
      <4> QED
        BY <4>1
    <3>3. CASE i = a
      <4>1. r[Parent(i)] = g[Parent(i)] /\ r[i] = g[c]
        BY <2>2, <2>3, <3>1, <3>3
      <4>2. g[Parent(i)].priority <= g[i].priority /\ g[a].priority <= g[c].priority
        BY <1>1, <2>1 DEF HeapOrdered
      <4>3. g[Parent(i)].priority \in Nat /\ g[a].priority \in Nat /\ g[c].priority \in Nat
        BY <1>1, <2>2, <2>4
      <4> QED
        BY <3>3, <4>1, <4>2, <4>3
    <3>4. CASE i # a /\ Parent(i) # a
      <4>1. r[Parent(i)] = g[Parent(i)] /\ r[i] = g[i]
        BY <2>2, <2>3, <3>4
      <4> QED
        BY <1>1, <4>1 DEF HeapOrdered
    <3> QED
      BY <3>2, <3>3, <3>4
  <2>6. HeapOrdered(n, r)
    BY <2>5 DEF HeapOrdered
  <2> DEFINE q == Swap(p, a, c)
  <2>7. q \in Shuffles(n)
    BY <1>1, <2>2, SwapShuffles
  <2>8. p \in [Positions(n) -> Positions(n)] /\ a # c
    BY <2>1, ShuffleFacts
  <2>9. q[a] = p[c] /\ q[c] = p[a] /\ \A i \in Positions(n) : i # a /\ i # c => q[i] = p[i]
    BY <1>1, <2>2, <2>8 DEF Swap
  <2> HIDE DEF q
  <2>10. \A i \in Positions(n) : i # c => r[i] = h[q[i]]
    BY <1>1, <1>2, <2>2, <2>3, <2>8, <2>9
  <2>11. Sunk(s) = [heap |-> r, at |-> c]
    BY <1>3, <1>5
  <2>12. Sunk(s) \in Marked(n) /\ Sinking(n, h, Sunk(s))
    BY <1>2, <2>2, <2>3, <2>6, <2>7, <2>9, <2>10, <2>11 DEF Marked, Sinking
  <2> QED
    BY <2>1, <2>11, <2>12 DEF a
<1> QED
  BY <1>4, <1>5

LEMMA SinkHoleKeeps ==
    ASSUME NEW n \in Nat \ {0}, NEW h \in Heaps(n), HeapOrdered(n, h)
    PROVE  /\ SinkHole(h) \in Marked(n) /\ Sinking(n, h, SinkHole(h))
           /\ Leaf(n, SinkHole(h).at)
<1> DEFINE S == {s \in Marked(n) : Sinking(n, h, s)}
           start == [heap |-> h, at |-> 0]
           step == [s \in S |-> Sunk(s)]
           F(f) == [k \in 0 .. n |-> IF k = 0 THEN start ELSE Sunk(f[k - 1])]
           after == CHOOSE f : f = F(f)
           T == [k \in 0 .. n |-> {s \in S : s.at >= k \/ (Sunk(s) = s /\ Leaf(n, s.at))}]
<1>1. SinkHole(h) = after[n]
  BY HeapSize DEF SinkHole
<1>2. start \in S
  <2>1. start \in Marked(n) /\ start.heap = h /\ start.at = 0 /\ 0 \in Positions(n)
    BY DEF Marked, Positions
  <2>2. [i \in Positions(n) |-> i] \in Shuffles(n)
    BY Unshuffled
  <2>3. Sinking(n, h, start)
    BY <2>1, <2>2 DEF Sinking
  <2> QED
    BY <2>1, <2>3
<1>3. \A s \in S : Sunk(s) \in S /\ ((Sunk(s) = s /\ Leaf(n, s.at)) \/ s.at < Sunk(s).at)
  BY SinkingStep
<1>4. \A s \in S : s.at \in 0 .. n - 1
  BY DEF Marked, Positions
<1>5. Loop(S, n, start, step)
  <2> HIDE DEF S, start
  <2> QED
    BY <1>2, <1>3 DEF Loop
<1> HIDE DEF S, start, F
<1>6. PICK f : Runs(f, S, n, start, step)
  <2> HIDE DEF step
  <2> QED
    BY <1>5, LoopRuns
<1>7. /\ f \in [0 .. n -> S] /\ f[0] = start
      /\ \A k \in 1 .. n : f[k] = Sunk(f[k - 1])
  <2>1. \A k \in 1 .. n : f[k] = step[f[k - 1]] /\ f[k - 1] \in S
    BY <1>6 DEF Runs
  <2> QED
    BY <1>6, <2>1 DEF Runs
<1>8. f = F(f)
  <2>1. \A k \in 0 .. n : f[k] = IF k = 0 THEN start ELSE Sunk(f[k - 1])
    <3>1. \A k \in 0 .. n : k = 0 \/ k \in 1 .. n
      OBVIOUS
    <3> QED
      BY <1>7, <3>1
  <2> QED
    BY <1>7, <2>1 DEF F
<1>9. after = F(after)
  BY <1>8
<1>10. after[0] = start /\ \A k \in 1 .. n : after[k] = Sunk(after[k - 1])
  <2>1. \A k \in 0 .. n : after[k] = IF k = 0 THEN start ELSE Sunk(after[k - 1])
    <3>1. \A k \in 0 .. n : F(after)[k] = IF k = 0 THEN start ELSE Sunk(after[k - 1])
      BY DEF F
    <3> HIDE DEF after
    <3> QED
      BY <1>9, <3>1
  <2>2. 0 \in 0 .. n /\ \A k \in 1 .. n : k \in 0 .. n /\ k # 0
    OBVIOUS
  <2> HIDE DEF after
  <2> QED
    BY <2>1, <2>2
<1> HIDE DEF after
<1>11. \A k \in 1 .. n : after[k - 1] \in S => after[k] = step[after[k - 1]]
  BY <1>10
<1>12. start \in T[0]
  BY <1>2 DEF start
<1>13. ASSUME NEW k \in 1 .. n, NEW s \in S, s \in T[k - 1]
       PROVE  step[s] \in T[k]
  <2>1. /\ T[k - 1] = {z \in S : z.at >= k - 1 \/ (Sunk(z) = z /\ Leaf(n, z.at))}
        /\ T[k] = {z \in S : z.at >= k \/ (Sunk(z) = z /\ Leaf(n, z.at))}
    OBVIOUS
  <2>2. step[s] = Sunk(s) /\ Sunk(s) \in S /\ Sunk(s).at \in Nat /\ s.at \in Nat
    BY <1>3, <1>4
  <2>3. CASE Sunk(s) = s /\ Leaf(n, s.at)
    BY <2>1, <2>2, <2>3
  <2>4. CASE ~(Sunk(s) = s /\ Leaf(n, s.at))
    <3>1. s.at >= k - 1 /\ s.at < Sunk(s).at
      BY <1>3, <1>13, <2>1, <2>4
    <3>2. Sunk(s).at >= k
      BY <2>2, <3>1
    <3> QED
      BY <2>1, <2>2, <3>2
  <2> QED
    BY <2>3, <2>4
<1>14. after[n] \in S /\ after[n] \in T[n]
  <2> HIDE DEF step, T
  <2> QED
    BY <1>5, <1>10, <1>11, <1>12, <1>13, LoopEnds
<1>15. Leaf(n, after[n].at)
  <2>1. T[n] = {z \in S : z.at >= n \/ (Sunk(z) = z /\ Leaf(n, z.at))}
    OBVIOUS
  <2> QED
    BY <1>4, <1>14, <2>1
<1> QED
  BY <1>1, <1>14, <1>15 DEF S

-----------------------------------------------------------------------------
\* Popping and pushing.

LEMMA ShufflesCompose ==
    ASSUME NEW n, NEW p \in Shuffles(n), NEW q \in Shuffles(n)
    PROVE  [i \in Positions(n) |-> q[p[i]]] \in Shuffles(n)
<1> DEFINE D == Positions(n)
           r == [i \in D |-> q[p[i]]]
<1>1. /\ p \in [D -> D] /\ (\A x, y \in D : p[x] = p[y] => x = y)
      /\ \A x \in D : \E y \in D : p[y] = x
  BY ShuffleFacts
<1>2. /\ q \in [D -> D] /\ (\A x, y \in D : q[x] = q[y] => x = y)
      /\ \A x \in D : \E y \in D : q[y] = x
  BY ShuffleFacts
<1> HIDE DEF D
<1>3. r \in [D -> D] /\ \A x \in D : p[x] \in D /\ r[x] = q[p[x]]
  BY <1>1, <1>2
<1> HIDE DEF r
<1>4. \A x, y \in D : r[x] = r[y] => x = y
  BY <1>1, <1>2, <1>3
<1>5. \A x \in D : \E y \in D : r[y] = x
  <2> SUFFICES ASSUME NEW x \in D PROVE \E y \in D : r[y] = x
    OBVIOUS
  <2>1. PICK z \in D : q[z] = x
    BY <1>2
  <2>2. PICK y \in D : p[y] = z
    BY <1>1
  <2> QED
    BY <1>3, <2>1, <2>2
<1>6. r \in Bijection(D, D)
  BY <1>3, <1>4, <1>5, Fun_IsBij
<1> QED
  BY <1>6 DEF Shuffles, D, r

\* When the root is what comes last, what is before it is the rest.
LEMMA RootLast ==
    ASSUME NEW n \in Nat \ {0}, NEW p \in Shuffles(n), p[n - 1] = 0
    PROVE  [i \in Positions(n - 1) |-> p[i]] \in Bijection(Positions(n - 1), 1 .. n - 1)
<1> DEFINE A == Positions(n - 1)
           B == 1 .. n - 1
           r == [i \in A |-> p[i]]
<1>1. /\ p \in [Positions(n) -> Positions(n)]
      /\ \A x, y \in Positions(n) : p[x] = p[y] => x = y
      /\ \A x \in Positions(n) : \E y \in Positions(n) : p[y] = x
  BY ShuffleFacts
<1>2. /\ \A i \in A : i \in Positions(n) /\ i # n - 1
      /\ \A i \in Positions(n) : i # n - 1 => i \in A
      /\ \A j \in B : j \in Positions(n) /\ j # 0
      /\ \A j \in Positions(n) : j # 0 => j \in B
      /\ n - 1 \in Positions(n) /\ 0 \in Positions(n)
  BY DEF Positions
<1> HIDE DEF A, B
<1>3. r \in [A -> B] /\ \A i \in A : r[i] = p[i]
  BY <1>1, <1>2
<1> HIDE DEF r
<1>4. \A x, y \in A : r[x] = r[y] => x = y
  BY <1>1, <1>2, <1>3
<1>5. \A x \in B : \E y \in A : r[y] = x
  <2> SUFFICES ASSUME NEW x \in B PROVE \E y \in A : r[y] = x
    OBVIOUS
  <2>1. PICK y \in Positions(n) : p[y] = x
    BY <1>1, <1>2
  <2> QED
    BY <1>2, <1>3, <2>1
<1>6. r \in Bijection(A, B)
  BY <1>3, <1>4, <1>5, Fun_IsBij
<1> QED
  BY <1>6 DEF A, B, r

\* r has the entries that h has at B.
Takes(r, A, h, B) == \E p \in Bijection(A, B) : \A i \in A : r[i] = h[p[i]]

LEMMA PrefixKeeps ==
    ASSUME NEW n \in Nat \ {0}, NEW r \in Heaps(n), HeapOrdered(n, r), NEW h,
           NEW p \in Shuffles(n), p[n - 1] = 0,
           \A i \in Positions(n) : i # n - 1 => r[i] = h[p[i]]
    PROVE  /\ Prefix(r, n - 1) \in Heaps(n - 1) /\ HeapOrdered(n - 1, Prefix(r, n - 1))
           /\ Takes(Prefix(r, n - 1), Positions(n - 1), h, 1 .. n - 1)
<1> DEFINE A == Positions(n - 1)
           t == Prefix(r, n - 1)
           q == [i \in A |-> p[i]]
<1>1. t = [i \in A |-> r[i]]
  BY DEF Prefix, Positions
<1>2. \A i \in A : i \in Positions(n) /\ i # n - 1
  BY DEF Positions
<1> HIDE DEF t
<1>3. t \in Heaps(n - 1) /\ \A i \in A : t[i] = r[i]
  BY <1>1, <1>2 DEF Heaps
<1>4. HeapOrdered(n - 1, t)
  <2> SUFFICES ASSUME NEW i \in 1 .. (n - 1) - 1 PROVE t[Parent(i)].priority <= t[i].priority
    BY DEF HeapOrdered
  <2>1. i \in A /\ Parent(i) \in A /\ i \in 1 .. n - 1
    BY ParentBelow DEF Positions
  <2> QED
    BY <1>3, <2>1 DEF HeapOrdered
<1>5. q \in Bijection(A, 1 .. n - 1)
  BY RootLast
<1>6. \A i \in A : t[i] = h[q[i]]
  BY <1>2, <1>3
<1> HIDE DEF q, A
<1>7. Takes(t, A, h, 1 .. n - 1)
  BY <1>5, <1>6 DEF Takes
<1> QED
  BY <1>3, <1>4, <1>7 DEF t, A

LEMMA RestKeeps ==
    ASSUME NEW n \in Nat \ {0}, NEW h \in Heaps(n), HeapOrdered(n, h)
    PROVE  /\ Rest(h) \in Heaps(n - 1) /\ HeapOrdered(n - 1, Rest(h))
           /\ Takes(Rest(h), Positions(n - 1), h, 1 .. n - 1)
<1> DEFINE last == n - 1
<1>1. SizeOf(h) = n /\ last \in Nat /\ last \in Positions(n) /\ h \in Heaps(n)
  BY HeapSize DEF Positions
<1>2. CASE n = 1
  <2>1. Rest(h) = Prefix(h, last)
    BY <1>1, <1>2 DEF Rest
  <2> DEFINE id == [i \in Positions(n) |-> i]
  <2>2. id \in Shuffles(n) /\ id[last] = 0
    BY <1>1, <1>2, Unshuffled
  <2>3. \A i \in Positions(n) : h[i] = h[id[i]]
    OBVIOUS
  <2> HIDE DEF id
  <2> QED
    BY <2>1, <2>2, <2>3, PrefixKeeps
<1>3. CASE n # 1
  <2> DEFINE s == SinkHole(h)
             g == s.heap
             a == s.at
  <2>1. Rest(h) = Filled(s, last)
    BY <1>1, <1>3 DEF Rest
  <2>2. s \in Marked(n) /\ Sinking(n, h, s) /\ Leaf(n, a)
    BY SinkHoleKeeps
  <2>3. g \in Heaps(n) /\ a \in Positions(n) /\ HeapOrdered(n, g)
    BY <2>2 DEF Marked, Sinking
  <2>4. PICK p \in Shuffles(n) : p[a] = 0 /\ \A i \in Positions(n) : i # a => g[i] = h[p[i]]
    BY <2>2 DEF Sinking
  <2> HIDE DEF s
  <2>5. CASE a = last
    <3>1. Rest(h) = Prefix(g, last)
      BY <2>1, <2>5 DEF Filled
    <3> QED
      BY <2>3, <2>4, <2>5, <3>1, PrefixKeeps
  <2>6. CASE a # last
    <3> HIDE DEF g, a
    <3> DEFINE u == [g EXCEPT ![a] = g[last]]
               r == SiftUp(u, a)
               q == Swap(p, a, last)
    <3>1. Rest(h) = Prefix(r, last)
      BY <2>1, <2>6 DEF Filled, g, a
    <3>2. u \in Heaps(n) /\ u[a] = g[last] /\ \A i \in Positions(n) : i # a => u[i] = g[i]
      BY <1>1, <2>3 DEF Heaps
    <3> HIDE DEF u
    <3>3. \A i \in 1 .. n - 1 : Parent(i) # a /\ i \in Positions(n) /\ Parent(i) \in Positions(n)
      BY <2>2, <2>3, ParentBelow DEF Leaf, Positions
    <3>4. HeapOrderedBut(n, u, a)
      BY <2>3, <3>2, <3>3 DEF HeapOrdered, HeapOrderedBut
    <3>5. /\ r \in Heaps(n) /\ HeapOrdered(n, r)
          /\ \E t \in Shuffles(n) :
                /\ \A i \in Positions(n) : r[i] = u[t[i]]
                /\ \A i \in Positions(n) : i > a => t[i] = i
      BY <2>3, <3>2, <3>4, SiftUpKeeps
    <3> HIDE DEF r
    <3>6. PICK t \in Shuffles(n) : /\ \A i \in Positions(n) : r[i] = u[t[i]]
                                   /\ \A i \in Positions(n) : i > a => t[i] = i
      BY <3>5
    <3>7. q \in Shuffles(n)
      BY <1>1, <2>3, SwapShuffles
    <3>8. p \in [Positions(n) -> Positions(n)]
      BY ShuffleFacts
    <3>9. /\ q[a] = p[last] /\ q[last] = 0
          /\ \A i \in Positions(n) : i # a /\ i # last => q[i] = p[i]
      BY <1>1, <2>3, <2>4, <2>6, <3>8 DEF Swap
    <3> HIDE DEF q
    <3>10. \A i \in Positions(n) : i # last => u[i] = h[q[i]]
      BY <1>1, <2>3, <2>4, <2>6, <3>2, <3>9
    <3> DEFINE v == [i \in Positions(n) |-> q[t[i]]]
    <3>11. v \in Shuffles(n)
      BY <3>6, <3>7, ShufflesCompose
    <3>12. /\ t \in [Positions(n) -> Positions(n)]
           /\ \A x, y \in Positions(n) : t[x] = t[y] => x = y
      BY ShuffleFacts
    <3>13. t[last] = last
      BY <1>1, <2>3, <2>6, <3>6 DEF Positions
    <3>14. v[last] = 0 /\ \A i \in Positions(n) : v[i] = q[t[i]]
      BY <1>1, <3>9, <3>13
    <3> HIDE DEF v
    <3>15. \A i \in Positions(n) : i # last => r[i] = h[v[i]]
      BY <1>1, <3>6, <3>10, <3>12, <3>13, <3>14
    <3> QED
      BY <3>1, <3>5, <3>11, <3>14, <3>15, PrefixKeeps
  <2> QED
    BY <2>5, <2>6
<1> QED
  BY <1>2, <1>3

\* The heap with an entry at its end, before it rises.
Grown(n, h, e) == [i \in Positions(n + 1) |-> IF i = n THEN e ELSE h[i]]

LEMMA PushedKeeps ==
    ASSUME NEW n \in Nat, NEW h \in Heaps(n), HeapOrdered(n, h), NEW e \in Entries
    PROVE  /\ Pushed(h, e) \in Heaps(n + 1) /\ HeapOrdered(n + 1, Pushed(h, e))
           /\ Takes(Pushed(h, e), Positions(n + 1), Grown(n, h, e), Positions(n + 1))
<1> DEFINE g == Grown(n, h, e)
           m == n + 1
<1>1. Pushed(h, e) = SiftUp(g, n)
  <2>1. 0 .. n = Positions(n + 1) /\ SizeOf(h) = n
    BY HeapSize DEF Positions
  <2> QED
    BY <2>1 DEF Pushed, Grown
<1>2. m \in Nat /\ n \in Positions(m) /\ \A i \in Positions(m) : i # n => i \in Positions(n)
  BY DEF Positions
<1>3. g \in Heaps(m) /\ g[n] = e /\ \A i \in Positions(m) : i # n => g[i] = h[i]
  BY <1>2 DEF Grown, Heaps
<1> HIDE DEF g
<1>4. HeapOrderedBut(m, g, n)
  <2>1. \A i \in 1 .. m - 1 : /\ i \in Positions(m) /\ Parent(i) \in Positions(m)
                              /\ Parent(i) # n /\ (i # n => i \in 1 .. n - 1)
    BY ParentBelow DEF Positions
  <2> QED
    BY <1>3, <2>1 DEF HeapOrdered, HeapOrderedBut
<1>5. /\ SiftUp(g, n) \in Heaps(m) /\ HeapOrdered(m, SiftUp(g, n))
      /\ \E p \in Shuffles(m) : \A i \in Positions(m) : SiftUp(g, n)[i] = g[p[i]]
  BY <1>2, <1>3, <1>4, SiftUpKeeps
<1>6. Takes(SiftUp(g, n), Positions(m), g, Positions(m))
  BY <1>5 DEF Takes, Shuffles
<1> QED
  BY <1>1, <1>5, <1>6 DEF g

-----------------------------------------------------------------------------
\* The bag of the entries.

Places(h, A, e) == {i \in A : h[i] = e}

Copies(h, A, e) == Cardinality(Places(h, A, e))

Tally(h, A) == [e \in {h[i] : i \in A} |-> Copies(h, A, e)]

LEMMA CopiesTaken ==
    ASSUME NEW A, NEW B, NEW r, NEW h, IsFiniteSet(A), Takes(r, A, h, B), NEW e
    PROVE  Copies(r, A, e) = Copies(h, B, e)
<1>1. PICK p \in Bijection(A, B) : \A i \in A : r[i] = h[p[i]]
  BY DEF Takes
<1>2. /\ p \in [A -> B]
      /\ \A x, y \in A : p[x] = p[y] => x = y
      /\ \A x \in B : \E y \in A : p[y] = x
  BY Fun_BijectionProperties
<1> DEFINE C == Places(r, A, e)
           D == Places(h, B, e)
           q == [i \in C |-> p[i]]
<1>3. C \subseteq A /\ D \subseteq B
  BY DEF Places
<1>4. \A i \in A : i \in C <=> p[i] \in D
  BY <1>1, <1>2 DEF Places
<1> HIDE DEF C, D
<1>5. q \in [C -> D] /\ \A i \in C : q[i] = p[i]
  BY <1>2, <1>3, <1>4
<1> HIDE DEF q
<1>6. \A x, y \in C : q[x] = q[y] => x = y
  BY <1>2, <1>3, <1>5
<1>7. \A x \in D : \E y \in C : q[y] = x
  <2> SUFFICES ASSUME NEW x \in D PROVE \E y \in C : q[y] = x
    OBVIOUS
  <2>1. PICK y \in A : p[y] = x
    BY <1>2, <1>3
  <2> QED
    BY <1>4, <1>5, <2>1
<1>8. q \in Bijection(C, D)
  BY <1>5, <1>6, <1>7, Fun_IsBij
<1>9. ExistsBijection(C, D)
  BY <1>8 DEF ExistsBijection
<1>10. IsFiniteSet(C)
  BY <1>3, FS_Subset
<1>11. Cardinality(D) = Cardinality(C)
  BY <1>9, <1>10, FS_Bijection
<1> QED
  BY <1>11 DEF C, D, Copies

LEMMA CopiesCounted ==
    ASSUME NEW A, IsFiniteSet(A), NEW h, NEW e
    PROVE  /\ IsFiniteSet(Places(h, A, e)) /\ Copies(h, A, e) \in Nat
           /\ Copies(h, A, e) > 0 <=> e \in {h[i] : i \in A}
<1>1. Places(h, A, e) \subseteq A
  BY DEF Places
<1>2. IsFiniteSet(Places(h, A, e)) /\ Copies(h, A, e) \in Nat
  BY <1>1, FS_Subset, FS_CardinalityType DEF Copies
<1>3. Copies(h, A, e) = 0 <=> Places(h, A, e) = {}
  BY <1>2, FS_EmptySet DEF Copies
<1>4. Places(h, A, e) # {} <=> e \in {h[i] : i \in A}
  BY DEF Places
<1> QED
  BY <1>2, <1>3, <1>4

\* g and h agree on A, and x is one place more.
Grows(g, h, A, x) == IsFiniteSet(A) /\ x \notin A /\ \A i \in A : g[i] = h[i]

LEMMA CopiesMore ==
    ASSUME NEW A, NEW x, NEW h, NEW g, Grows(g, h, A, x), NEW e
    PROVE  Copies(g, A \cup {x}, e) = IF g[x] = e THEN Copies(h, A, e) + 1 ELSE Copies(h, A, e)
<1>1. Places(g, A \cup {x}, e) = IF g[x] = e THEN Places(h, A, e) \cup {x} ELSE Places(h, A, e)
  BY DEF Grows, Places
<1>2. IsFiniteSet(Places(h, A, e)) /\ x \notin Places(h, A, e)
  <2>1. Places(h, A, e) \subseteq A
    BY DEF Places
  <2> QED
    BY <2>1, FS_Subset DEF Grows
<1>3. Cardinality(Places(h, A, e) \cup {x}) = Cardinality(Places(h, A, e)) + 1
  BY <1>2, FS_AddElement
<1> QED
  BY <1>1, <1>3 DEF Copies

LEMMA TallyGrows ==
    ASSUME NEW n \in Nat, NEW h \in Heaps(n), HeapOrdered(n, h), NEW e \in Entries
    PROVE  Tally(Pushed(h, e), Positions(n + 1)) = Tally(h, Positions(n)) (+) SetToBag({e})
<1> DEFINE A == Positions(n)
           B == Positions(n + 1)
           r == Pushed(h, e)
           g == Grown(n, h, e)
<1>1. /\ IsFiniteSet(A) /\ IsFiniteSet(B) /\ B = A \cup {n} /\ n \notin A
      /\ g[n] = e /\ \A i \in A : g[i] = h[i]
  BY HeapSize, FS_Interval, SMTT(30) DEF Positions, Grown
<1>2. Takes(r, B, g, B)
  BY PushedKeeps
<1> HIDE DEF A, B, r, g
<1>3. \A d : Copies(r, B, d) = IF d = e THEN Copies(h, A, d) + 1 ELSE Copies(h, A, d)
  <2> SUFFICES ASSUME NEW d
               PROVE  Copies(r, B, d) = IF d = e THEN Copies(h, A, d) + 1 ELSE Copies(h, A, d)
    OBVIOUS
  <2>1. Copies(r, B, d) = Copies(g, B, d)
    BY <1>1, <1>2, CopiesTaken
  <2>2. Grows(g, h, A, n)
    BY <1>1 DEF Grows
  <2>3. Copies(g, A \cup {n}, d) = IF g[n] = d THEN Copies(h, A, d) + 1 ELSE Copies(h, A, d)
    BY <2>2, CopiesMore
  <2>4. B = A \cup {n} /\ g[n] = e
    BY <1>1
  <2> QED
    BY <2>1, <2>3, <2>4
<1>4. \A d : /\ Copies(h, A, d) \in Nat /\ (Copies(h, A, d) > 0 <=> d \in {h[i] : i \in A})
             /\ (Copies(r, B, d) > 0 <=> d \in {r[i] : i \in B})
  BY <1>1, CopiesCounted
<1> DEFINE old == {h[i] : i \in A}
           new == {r[i] : i \in B}
<1> HIDE DEF old, new
<1>5. new = old \cup {e}
  <2>1. \A d : d \in new <=> Copies(r, B, d) > 0
    BY <1>4 DEF new
  <2>2. \A d : d \in old <=> Copies(h, A, d) > 0
    BY <1>4 DEF old
  <2>3. \A d : d \in new <=> d = e \/ d \in old
    BY <1>3, <1>4, <2>1, <2>2
  <2> QED
    BY <2>3
<1>6. \A d \in new : Copies(r, B, d) = (IF d \in old THEN Copies(h, A, d) ELSE 0)
                                       + (IF d \in {e} THEN 1 ELSE 0)
  BY <1>3, <1>4, <1>5 DEF old, new
<1>7. Tally(r, B) = [d \in new |-> Copies(r, B, d)] /\ Tally(h, A) = [d \in old |-> Copies(h, A, d)]
  BY DEF Tally, old, new
<1>8. Tally(h, A) (+) SetToBag({e})
        = [d \in old \cup {e} |-> (IF d \in old THEN Copies(h, A, d) ELSE 0)
                                  + (IF d \in {e} THEN 1 ELSE 0)]
  BY <1>7 DEF (+), SetToBag
<1>9. Tally(r, B) = Tally(h, A) (+) SetToBag({e})
  BY <1>5, <1>6, <1>7, <1>8
<1> QED
  BY <1>9 DEF A, B, r

LEMMA TallyShrinks ==
    ASSUME NEW n \in Nat \ {0}, NEW h \in Heaps(n), HeapOrdered(n, h)
    PROVE  Tally(Rest(h), Positions(n - 1)) = Tally(h, Positions(n)) (-) SetToBag({h[0]})
<1> DEFINE A == Positions(n)
           B == Positions(n - 1)
           C == 1 .. n - 1
           r == Rest(h)
           e == h[0]
<1>1. IsFiniteSet(A) /\ IsFiniteSet(B) /\ IsFiniteSet(C) /\ A = C \cup {0} /\ 0 \notin C
  BY HeapSize, FS_Interval, SMTT(30) DEF Positions
<1>2. Takes(r, B, h, C)
  BY RestKeeps
<1> HIDE DEF A, B, C, r, e
<1>3. \A d : Copies(h, A, d) = IF d = e THEN Copies(r, B, d) + 1 ELSE Copies(r, B, d)
  <2> SUFFICES ASSUME NEW d
               PROVE  Copies(h, A, d) = IF d = e THEN Copies(r, B, d) + 1 ELSE Copies(r, B, d)
    OBVIOUS
  <2>1. Copies(r, B, d) = Copies(h, C, d)
    BY <1>1, <1>2, CopiesTaken
  <2>2. Grows(h, h, C, 0)
    BY <1>1 DEF Grows
  <2>3. Copies(h, C \cup {0}, d) = IF h[0] = d THEN Copies(h, C, d) + 1 ELSE Copies(h, C, d)
    BY <2>2, CopiesMore
  <2>4. A = C \cup {0}
    BY <1>1
  <2> QED
    BY <2>1, <2>3, <2>4 DEF e
<1>4. \A d : /\ Copies(r, B, d) \in Nat /\ (Copies(h, A, d) > 0 <=> d \in {h[i] : i \in A})
             /\ (Copies(r, B, d) > 0 <=> d \in {r[i] : i \in B})
  BY <1>1, CopiesCounted
<1> DEFINE old == {h[i] : i \in A}
           new == {r[i] : i \in B}
           less == [d \in old |-> IF d \in {e} THEN Copies(h, A, d) - 1 ELSE Copies(h, A, d)]
<1> HIDE DEF old, new
<1>5. \A d \in old : less[d] = Copies(r, B, d)
  BY <1>3, <1>4
<1>6. new = {d \in old : less[d] > 0}
  <2>1. new \subseteq old
    BY <1>3, <1>4 DEF old, new
  <2> QED
    BY <1>4, <1>5, <2>1 DEF new
<1>7. Tally(r, B) = [d \in new |-> Copies(r, B, d)] /\ Tally(h, A) = [d \in old |-> Copies(h, A, d)]
  BY DEF Tally, old, new
<1>8. Tally(h, A) (-) SetToBag({e}) = [d \in {d \in old : less[d] > 0} |-> less[d]]
  BY <1>7 DEF (-), SetToBag
<1> HIDE DEF less
<1>9. Tally(r, B) = Tally(h, A) (-) SetToBag({e})
  <2>1. \A d \in new : d \in old /\ Copies(r, B, d) = less[d]
    BY <1>5, <1>6
  <2> QED
    BY <1>6, <1>7, <1>8, <2>1
<1> QED
  BY <1>9 DEF A, B, r, e

-----------------------------------------------------------------------------

HeapInv == \E n \in Nat : heap \in Heaps(n) /\ HeapOrdered(n, heap)

\* What frontier_heap_push and frontier_heap_pop make of the heap is a queue:
\* no entry is lost or duplicated, whatever the priorities, and each pop returns
\* a least one.
THEOREM HeapIsQueue == HeapSpec => ImplementsQueue
<1>1. HeapInit => HeapInv
  <2> SUFFICES ASSUME HeapInit PROVE HeapInv
    OBVIOUS
  <2>1. 0 \in Nat /\ Positions(0) = {} /\ 1 .. 0 - 1 = {}
    BY DEF Positions
  <2>2. heap \in [{} -> Entries]
    BY DEF HeapInit
  <2> QED
    BY <2>1, <2>2 DEF HeapInv, Heaps, HeapOrdered
<1>2. HeapInv /\ [HeapNext]_heapVars => HeapInv'
  <2> SUFFICES ASSUME HeapInv, [HeapNext]_heapVars PROVE HeapInv'
    OBVIOUS
  <2>1. PICK n \in Nat : heap \in Heaps(n) /\ HeapOrdered(n, heap)
    BY DEF HeapInv
  <2>2. SizeOf(heap) = n
    BY <2>1, HeapSize
  <2>3. ASSUME NEW e \in Entries, Push(e) PROVE HeapInv'
    <3>1. heap' \in Heaps(n + 1) /\ HeapOrdered(n + 1, heap') /\ n + 1 \in Nat
      BY <2>1, <2>3, PushedKeeps DEF Push
    <3> QED
      BY <3>1 DEF HeapInv
  <2>4. CASE Pop
    <3>1. n \in Nat \ {0}
      BY <2>2, <2>4 DEF Pop
    <3>2. heap' \in Heaps(n - 1) /\ HeapOrdered(n - 1, heap') /\ n - 1 \in Nat
      BY <2>1, <2>4, <3>1, RestKeeps DEF Pop
    <3> QED
      BY <3>2 DEF HeapInv
  <2>5. CASE PopEmpty \/ UNCHANGED heapVars
    BY <2>1, <2>5 DEF PopEmpty, heapVars, HeapInv
  <2> QED
    BY <2>3, <2>4, <2>5 DEF HeapNext
<1>3. \A n \in Nat : heap \in Heaps(n) => Contents = Tally(heap, Positions(n))
  BY HeapSize DEF Contents, Tally, Copies, Places
<1>4. \A n \in Nat : heap' \in Heaps(n) => Contents' = Tally(heap', Positions(n))
  BY HeapSize DEF Contents, Tally, Copies, Places
<1>5. HeapInit => Queue!Init
  <2> SUFFICES ASSUME HeapInit PROVE Queue!Init
    OBVIOUS
  <2>1. DOMAIN heap = {} /\ popped = Nothing
    BY DEF HeapInit
  <2>2. Contents = [e \in {} |-> 1]
    BY <2>1 DEF Contents
  <2> QED
    BY <2>1, <2>2 DEF Queue!Init, Queue!EmptyBag, Queue!SetToBag
<1>6. HeapInv /\ [HeapNext]_heapVars => [Queue!Next]_<<Contents, popped>>
  <2> SUFFICES ASSUME HeapInv, [HeapNext]_heapVars PROVE [Queue!Next]_<<Contents, popped>>
    OBVIOUS
  <2>1. PICK n \in Nat : heap \in Heaps(n) /\ HeapOrdered(n, heap)
    BY DEF HeapInv
  <2>2. SizeOf(heap) = n /\ Contents = Tally(heap, Positions(n))
    BY <1>3, <2>1, HeapSize
  <2>3. ASSUME NEW e \in Entries, Push(e) PROVE Queue!Push(e)
    <3>1. heap' \in Heaps(n + 1) /\ heap' = Pushed(heap, e) /\ popped' = popped
      BY <2>1, <2>3, PushedKeeps DEF Push
    <3>2. Contents' = Tally(heap', Positions(n + 1))
      BY <1>4, <3>1
    <3>3. Contents' = Contents (+) SetToBag({e})
      BY <2>1, <2>2, <3>1, <3>2, TallyGrows
    <3> QED
      BY <3>1, <3>3 DEF Queue!Push, Queue!(+), Queue!SetToBag, (+), SetToBag
  <2>4. CASE Pop
    <3>1. n \in Nat \ {0} /\ n - 1 \in Nat /\ popped' = heap[0] /\ heap' = Rest(heap)
      BY <2>2, <2>4 DEF Pop
    <3>2. heap' \in Heaps(n - 1)
      BY <2>1, <3>1, RestKeeps
    <3>3. Contents' = Tally(heap', Positions(n - 1))
      BY <1>4, <3>1, <3>2
    <3>4. Contents' = Contents (-) SetToBag({heap[0]})
      BY <2>1, <2>2, <3>1, <3>3, TallyShrinks
    <3>5. BagToSet(Contents) = {heap[i] : i \in Positions(n)}
      BY <2>2 DEF BagToSet, Tally
    <3>6. heap[0] \in BagToSet(Contents)
      BY <3>1, <3>5 DEF Positions
    <3>7. \A f \in BagToSet(Contents) : PriorityField(heap[0]) <= PriorityField(f)
      BY <2>1, <3>5, RootLeast DEF PriorityField
    <3>8. Contents # EmptyBag
      BY <3>6 DEF BagToSet, EmptyBag, SetToBag
    <3>9. Queue!Pop
      BY <3>1, <3>4, <3>6, <3>7, <3>8 DEF Queue!Pop, Queue!(-), Queue!SetToBag, Queue!BagToSet, Queue!EmptyBag, (-), SetToBag, BagToSet, EmptyBag
    <3> QED
      BY <3>9 DEF Queue!Next
  <2>5. CASE PopEmpty
    <3>1. n = 0 /\ popped' = Nothing /\ heap' = heap
      BY <2>2, <2>5 DEF PopEmpty
    <3>2. Contents' = Contents
      BY <1>4, <2>1, <2>2, <3>1
    <3>3. Contents = [e \in {} |-> 1]
      <4>1. Positions(0) = {}
        BY DEF Positions
      <4> QED
        BY <2>2, <3>1, <4>1 DEF Tally
    <3>4. Contents = EmptyBag
      BY <3>3 DEF EmptyBag, SetToBag
    <3>5. Queue!Pop
      BY <3>1, <3>2, <3>4 DEF Queue!Pop, Queue!EmptyBag, Queue!SetToBag, EmptyBag, SetToBag
    <3> QED
      BY <3>5 DEF Queue!Next
  <2>6. CASE UNCHANGED heapVars
    <3>1. heap' = heap /\ popped' = popped
      BY <2>6 DEF heapVars
    <3>2. Contents' = Contents
      BY <1>4, <2>1, <2>2, <3>1
    <3> QED
      BY <3>1, <3>2
  <2> QED
    BY <2>3, <2>4, <2>5, <2>6 DEF HeapNext, Queue!Next
<1> QED
  BY <1>1, <1>2, <1>5, <1>6, PTL DEF HeapSpec, ImplementsQueue, Queue!Spec
=============================================================================
