-------------------------- MODULE Placement_proofs --------------------------
(***************************************************************************)
(* Proofs about the placement stage: placements stay legal through every   *)
(* move, decisions are taken on what the placement costs, the result is    *)
(* the best that was passed, and only infeasible designs are refused.      *)
(* Then about the evaluator of moves: the incremental update of the caches *)
(* and of the cost is what a full evaluation of the placement gives.       *)
(***************************************************************************)
EXTENDS Placement, PlacementEvaluator, LeastElements

Phases == {"prepare", "initial", "anneal", "refine", "solved", "done", "failed"}

(* What the variables hold. *)
PlacementTypes ==
  /\ phase \in Phases
  /\ request \in Requests
  /\ phase \in {"prepare", "initial"} =>
       DOMAIN state = {"current", "trial", "occupancy", "total"}
  /\ slots \in [Clusters -> Nat \union {None}]
  /\ step \in Nat /\ stall \in Nat /\ pass \in Nat /\ index \in Nat \ {0}

(* Everything is placed. *)
Solving == phase \in {"anneal", "refine", "solved", "done"}

(* The requests were found to be possible. *)
RequestsAccepted ==
  phase \notin {"prepare", "failed"} => ~BramsRefused /\ ~LogicRefused /\ ~FixedRefused

(* On the way to the initial placement. *)
PartlyPlaced ==
  phase = "initial" =>
    /\ state.current \in [Clusters -> Sites \union {None}]
    /\ state.occupancy = OccupancyMap(state.current)
    /\ Legal(state.current)

(* The annealer's two placements are one, and what goes with it. *)
StateSound(s) ==
  /\ s.current \in [Clusters -> Sites] /\ Legal(s.current)
  /\ s.trial = s.current
  /\ s.occupancy = OccupancyMap(s.current)
  /\ s.total = Cost(s.current)

BestSound(b) ==
  /\ b.placements \in [Clusters -> Sites] /\ Legal(b.placements)
  /\ b.total = Cost(b.placements)

LoopsSound ==
  /\ Solving => StateSound(state) /\ BestSound(best)
  /\ phase = "anneal" => best.total <= state.total

(* Slots are given at the end, and those of fixed clusters from the start. *)
SlotsSound ==
  /\ \A c \in Fixed : slots[c] = request[c].slot
  /\ phase = "done" =>
       /\ \A c \in Clusters : slots[c] \in Slots
       /\ \A c, d \in Clusters :
            c # d /\ state.current[c] = state.current[d] => slots[c] # slots[d]

PlacementInv ==
  PlacementTypes /\ RequestsAccepted /\ PartlyPlaced /\ LoopsSound /\ SlotsSound

-----------------------------------------------------------------------------
(* Two clusters on a site of both kinds are of one kind.                   *)
LEMMA KindsApart ==
  ASSUME NEW c \in Clusters, NEW d \in Clusters, NEW s \in KindSites(c), s \in KindSites(d)
  PROVE  /\ KindSites(c) = KindSites(d) /\ KindCapacity(c) = KindCapacity(d)
         /\ s \in Sites
BY PlacementAssumption DEF Clusters, Sites, KindSites, KindCapacity

LEMMA CapacityNatural ==
  ASSUME NEW c \in Clusters
  PROVE  KindCapacity(c) \in Nat /\ KindCapacity(c) <= SlicesPerTile
BY PlacementAssumption DEF KindCapacity

(* The clusters of a site are finitely many.                               *)
LEMMA HeldFinite ==
  ASSUME NEW p, NEW s
  PROVE  /\ IsFiniteSet({c \in Clusters : p[c] = s})
         /\ Cardinality({c \in Clusters : p[c] = s}) \in Nat
<1>1. {c \in Clusters : p[c] = s} \subseteq Clusters /\ IsFiniteSet(Clusters)
  BY PlacementAssumption
<1> QED
  BY <1>1, FS_Subset, FS_CardinalityType

(* A movable cluster goes to a site with a place to spare.                 *)
LEMMA MoveLegal ==
  ASSUME NEW p \in [Clusters -> Sites \union {None}], Legal(p),
         NEW focus \in Movable, NEW t \in KindSites(focus), p[focus] # t,
         Cardinality({c \in Clusters : p[c] = t}) < KindCapacity(focus)
  PROVE  Legal([p EXCEPT ![focus] = t])
<1> DEFINE q == [p EXCEPT ![focus] = t]
           Held(r, s) == {d \in Clusters : r[d] = s}
<1>1. focus \in Clusters /\ focus \notin Fixed
  BY DEF Movable
<1>2. t \in Sites /\ t # None
  BY <1>1, KindsApart, PlacementAssumption
<1>3. \A s : IsFiniteSet(Held(p, s)) /\ Cardinality(Held(p, s)) \in Nat
             /\ IsFiniteSet(Held(q, s)) /\ Cardinality(Held(q, s)) \in Nat
  BY HeldFinite, ZenonT(40)
<1>4. Cardinality(Held(q, t)) <= KindCapacity(focus)
  <2>1. Held(q, t) = Held(p, t) \union {focus}
    BY <1>1
  <2>2. focus \notin Held(p, t) /\ Cardinality(Held(p, t)) < KindCapacity(focus)
    OBVIOUS
  <2>3. KindCapacity(focus) \in Nat
    BY <1>1, CapacityNatural
  <2> HIDE DEF Held
  <2>4. Cardinality(Held(q, t)) = Cardinality(Held(p, t)) + 1
    BY <2>1, <2>2, <1>3, FS_AddElement
  <2> QED
    BY <2>2, <2>3, <2>4, <1>3
<1>5. ASSUME NEW c \in Clusters, q[c] # None
      PROVE  q[c] \in KindSites(c) /\ Cardinality(Held(q, q[c])) <= KindCapacity(c)
  <2>1. CASE c = focus
    BY <2>1, <1>1, <1>4
  <2>2. CASE c # focus /\ p[c] = t
    <3>1. p[c] \in KindSites(c) /\ q[c] = t
      BY <2>2, <1>2 DEF Legal
    <3>2. KindCapacity(c) = KindCapacity(focus)
      BY <3>1, <2>2, <1>1, KindsApart
    <3> QED
      BY <3>1, <3>2, <2>2, <1>4
  <2>3. CASE c # focus /\ p[c] # t
    <3>1. q[c] = p[c] /\ p[c] # None
      BY <2>3, <1>5
    <3>2. p[c] \in KindSites(c) /\ Cardinality(Held(p, p[c])) <= KindCapacity(c)
      BY <3>1 DEF Legal
    <3>3. Held(q, p[c]) \subseteq Held(p, p[c])
      BY <2>3
    <3>4. Cardinality(Held(q, p[c])) <= Cardinality(Held(p, p[c]))
      BY <3>3, <1>3, FS_Subset, ZenonT(40)
    <3> QED
      BY <3>1, <3>2, <3>4, <1>3, CapacityNatural
  <2> QED
    BY <2>1, <2>2, <2>3
<1>6. \A c \in Fixed : q[c] = request[c].site
  BY <1>1, PlacementAssumption DEF Legal
<1> QED
  BY <1>5, <1>6 DEF Legal

(* What a legal placement of every cluster says of one of them.            *)
LEMMA LegalAt ==
  ASSUME NEW p \in [Clusters -> Sites], Legal(p), NEW c \in Clusters
  PROVE  /\ p[c] # None /\ p[c] \in KindSites(c)
         /\ Cardinality({d \in Clusters : p[d] = p[c]}) <= KindCapacity(c)
BY PlacementAssumption DEF Legal

(* Two movable clusters of a kind change places.                           *)
LEMMA SwapLegal ==
  ASSUME NEW p \in [Clusters -> Sites], Legal(p),
         NEW a \in Movable, NEW b \in Movable, a # b,
         p[b] \in KindSites(a), p[a] \in KindSites(b)
  PROVE  Legal([p EXCEPT ![a] = p[b], ![b] = p[a]])
<1> DEFINE q == [p EXCEPT ![a] = p[b], ![b] = p[a]]
           Held(r, s) == {d \in Clusters : r[d] = s}
<1>1. a \in Clusters /\ b \in Clusters /\ a \notin Fixed /\ b \notin Fixed
  BY DEF Movable
<1>2. \A c \in Clusters : p[c] # None /\ p[c] \in KindSites(c)
                          /\ Cardinality(Held(p, p[c])) <= KindCapacity(c)
  BY LegalAt
<1>3. \A s : IsFiniteSet(Held(p, s)) /\ Cardinality(Held(p, s)) \in Nat
             /\ IsFiniteSet(Held(q, s)) /\ Cardinality(Held(q, s)) \in Nat
  BY HeldFinite
<1>4. ASSUME NEW x \in Clusters, NEW y \in Clusters, NEW s, x # y, p[x] = s, p[y] # s,
             Held(q, s) = (Held(p, s) \ {x}) \union {y}
      PROVE  Cardinality(Held(q, s)) = Cardinality(Held(p, s))
  <2>1. x \in Held(p, s) /\ y \notin Held(p, s) \ {x}
    BY <1>4
  <2> HIDE DEF Held
  <2>2. /\ IsFiniteSet(Held(p, s) \ {x})
        /\ Cardinality(Held(p, s) \ {x}) = Cardinality(Held(p, s)) - 1
    BY <2>1, <1>3, FS_RemoveElement, ZenonT(40)
  <2>3. Cardinality(Held(q, s)) = (Cardinality(Held(p, s)) - 1) + 1
    BY <2>1, <2>2, <1>4, FS_AddElement, ZenonT(40)
  <2> QED
    BY <2>3, <1>3
<1>5. ASSUME NEW s PROVE Cardinality(Held(q, s)) = Cardinality(Held(p, s))
  <2>1. CASE p[a] = s /\ p[b] # s
    <3>1. Held(q, s) = (Held(p, s) \ {a}) \union {b}
      BY <2>1, <1>1
    <3> QED
      BY <3>1, <2>1, <1>1, <1>4
  <2>2. CASE p[b] = s /\ p[a] # s
    <3>1. Held(q, s) = (Held(p, s) \ {b}) \union {a}
      BY <2>2, <1>1
    <3> QED
      BY <3>1, <2>2, <1>1, <1>4
  <2>3. CASE (p[a] = s) <=> (p[b] = s)
    <3>1. Held(q, s) = Held(p, s)
      BY <2>3, <1>1
    <3> QED
      BY <3>1
  <2> QED
    BY <2>1, <2>2, <2>3
<1>6. \A c \in Clusters : q[c] \in KindSites(c)
  BY <1>1, <1>2
<1>7. \A c \in Clusters : \E d \in Clusters : q[c] = p[d] /\ KindCapacity(d) = KindCapacity(c)
  <2>1. KindCapacity(a) = KindCapacity(b)
    BY <1>1, <1>2, KindsApart
  <2> QED
    BY <2>1, <1>1
<1>8. \A c \in Fixed : q[c] = request[c].site
  BY <1>1, PlacementAssumption DEF Legal
<1>9. \A c \in Clusters : Cardinality(Held(q, q[c])) <= KindCapacity(c)
  <2> HIDE DEF Held, q
  <2> QED
    BY <1>2, <1>5, <1>7
<1> QED
  BY <1>6, <1>8, <1>9 DEF Legal

-----------------------------------------------------------------------------
(* Moves and swaps.                                                        *)

(* What one update makes of a placement.                                   *)
LEMMA OneMove ==
  ASSUME NEW p \in [Clusters -> Sites], NEW c \in Clusters, NEW t
  PROVE  Apply(p, [x \in {c} |-> t]) = [p EXCEPT ![c] = t]
BY DEF Apply

LEMMA TwoMoves ==
  ASSUME NEW p \in [Clusters -> Sites], NEW a \in Clusters, NEW b \in Clusters, a # b,
         NEW u, DOMAIN u = {a, b}
  PROVE  Apply(p, u) = [p EXCEPT ![a] = u[a], ![b] = u[b]]
BY DEF Apply

(* An update that plan_target_updates plans keeps a placement legal.       *)
LEMMA TargetUpdateLegal ==
  ASSUME NEW s, StateSound(s), NEW focus \in Movable, NEW t,
         NEW u \in PlanTargetUpdates(s, focus, t)
  PROVE  Apply(s.current, u) \in [Clusters -> Sites] /\ Legal(Apply(s.current, u))
<1> DEFINE p == s.current
           Held(x) == {d \in Clusters : p[d] = x}
<1>1. p \in [Clusters -> Sites] /\ Legal(p) /\ s.occupancy = OccupancyMap(p)
  BY DEF StateSound
<1>2. focus \in Clusters /\ focus \notin Fixed
  BY DEF Movable
<1>3. CASE p[focus] = t
  <2>1. Apply(p, u) = p
    BY <1>1, <1>3 DEF PlanTargetUpdates, NoUpdate, Apply
  <2> QED
    BY <1>1, <2>1
<1>4. ASSUME p[focus] # t, t \in KindSites(focus), Cardinality(s.occupancy[t]) < KindCapacity(focus)
      PROVE  Apply(p, u) \in [Clusters -> Sites] /\ Legal(Apply(p, u))
  <2>1. t \in Sites
    BY <1>2, <1>4, KindsApart
  <2>2. u = [c \in {focus} |-> t]
    BY <1>4 DEF PlanTargetUpdates
  <2>3. Apply(p, u) = [p EXCEPT ![focus] = t]
    BY <1>1, <1>2, <2>2, OneMove
  <2>4. s.occupancy[t] = Held(t)
    BY <1>1, <2>1 DEF OccupancyMap
  <2>5. Legal([p EXCEPT ![focus] = t])
    <3>1. p \in [Clusters -> Sites \union {None}]
      BY <1>1
    <3> QED
      BY <1>1, <1>4, <2>4, <3>1, MoveLegal
  <2> QED
    BY <1>1, <1>2, <2>1, <2>3, <2>5
<1>5. ASSUME p[focus] # t, t \in KindSites(focus), ~(Cardinality(s.occupancy[t]) < KindCapacity(focus))
      PROVE  Apply(p, u) \in [Clusters -> Sites] /\ Legal(Apply(p, u))
  <2> DEFINE D == Displaceable(s, focus, t)
             b == Min(D)
  <2>1. t \in Sites
    BY <1>2, <1>5, KindsApart
  <2>2. D # {} /\ u = [c \in {focus, b} |-> IF c = focus THEN t ELSE p[focus]]
    BY <1>5 DEF PlanTargetUpdates
  <2>3. D = (Held(t) \ {focus}) \ Fixed
    BY <1>1, <2>1 DEF Displaceable, OccupancyMap
  <2>4. D \in SUBSET Nat
    BY <2>3, PlacementAssumption
  <2>5. b \in D
    BY <2>2, <2>4, MinInNat
  <2>6. b \in Movable /\ b # focus /\ p[b] = t
    BY <2>3, <2>5 DEF Movable
  <2>7. b \in Clusters /\ u[focus] = p[b] /\ u[b] = p[focus] /\ DOMAIN u = {focus, b}
    BY <2>2, <2>6 DEF Movable
  <2>8. Apply(p, u) = [p EXCEPT ![focus] = p[b], ![b] = p[focus]]
    <3> HIDE DEF b, p
    <3> QED
      BY <1>1, <1>2, <2>6, <2>7, TwoMoves
  <2>9. p[focus] \in KindSites(focus) /\ p[b] \in KindSites(b)
    <3> HIDE DEF b, p
    <3> QED
      BY <1>1, <1>2, <2>7, LegalAt
  <2>10. p[focus] \in KindSites(b) /\ p[b] \in KindSites(focus)
    BY <1>2, <1>5, <2>6, <2>7, <2>9, KindsApart
  <2>11. Legal([p EXCEPT ![focus] = p[b], ![b] = p[focus]])
    <3> HIDE DEF b, p
    <3> QED
      BY <1>1, <2>6, <2>10, SwapLegal
  <2> QED
    BY <1>1, <1>2, <2>7, <2>8, <2>11
<1> QED
  BY <1>3, <1>4, <1>5 DEF PlanTargetUpdates

(* So does a swap of clusters of a kind.                                   *)
LEMMA SwapUpdateLegal ==
  ASSUME NEW s, StateSound(s), NEW u \in SwapUpdates(s)
  PROVE  Apply(s.current, u) \in [Clusters -> Sites] /\ Legal(Apply(s.current, u))
<1> DEFINE p == s.current
<1>1. p \in [Clusters -> Sites] /\ Legal(p)
  BY DEF StateSound
<1>2. PICK a \in Movable, b \in Movable :
        /\ a # b /\ b \in SameKind(a)
        /\ u = [c \in {a, b} |-> p[IF c = a THEN b ELSE a]]
  BY DEF SwapUpdates
<1>3. a \in Clusters /\ b \in Clusters
  BY DEF Movable
<1>4. u[a] = p[b] /\ u[b] = p[a] /\ DOMAIN u = {a, b}
  BY <1>2
<1>5. Apply(p, u) = [p EXCEPT ![a] = p[b], ![b] = p[a]]
  <2> HIDE DEF p
  <2> QED
    BY <1>1, <1>2, <1>3, <1>4, TwoMoves
<1>6. KindSites(a) = KindSites(b)
  BY <1>2, <1>3, PlacementAssumption DEF SameKind, KindSites, Clusters
<1>7. p[a] \in KindSites(a) /\ p[b] \in KindSites(b)
  <2> HIDE DEF p
  <2> QED
    BY <1>1, <1>3, LegalAt
<1>8. Legal([p EXCEPT ![a] = p[b], ![b] = p[a]])
  <2> HIDE DEF p
  <2> QED
    BY <1>1, <1>2, <1>6, <1>7, SwapLegal
<1> QED
  BY <1>1, <1>3, <1>5, <1>8

(* The state follows an update, total and occupancy included.              *)
LEMMA MovedSound ==
  ASSUME NEW s, StateSound(s), NEW u,
         Apply(s.current, u) \in [Clusters -> Sites], Legal(Apply(s.current, u))
  PROVE  StateSound(Moved(s, u)) /\ Moved(s, u).total = Cost(Apply(s.trial, u))
BY DEF StateSound, Moved

LEMMA BestKept ==
  ASSUME NEW s, StateSound(s), NEW b, BestSound(b)
  PROVE  /\ BestSound(UpdateBest(b, s))
         /\ UpdateBest(b, s).total <= b.total /\ UpdateBest(b, s).total <= s.total
         /\ s.total \in Int /\ b.total \in Int
<1>1. s.total \in Int /\ b.total \in Int
  BY PlacementAssumption DEF StateSound, BestSound
<1> QED
  BY <1>1 DEF StateSound, BestSound, UpdateBest

-----------------------------------------------------------------------------
(* The steps of the loops.                                                 *)

(* Any update that was planned for a target may be made.                   *)
LEMMA PlannedSound ==
  ASSUME NEW s, StateSound(s), NEW focus \in Movable, NEW targets,
         NEW u \in Planned(s, focus, targets)
  PROVE  StateSound(Moved(s, u)) /\ Moved(s, u).total = Cost(Apply(s.trial, u))
<1>1. PICK t \in targets : u \in PlanTargetUpdates(s, focus, t)
  BY DEF Planned
<1>2. Apply(s.current, u) \in [Clusters -> Sites] /\ Legal(Apply(s.current, u))
  BY <1>1, TargetUpdateLegal
<1> QED
  BY <1>2, MovedSound

(* A swap, kept or not.                                                    *)
LEMMA SwapSound ==
  ASSUME NEW s, StateSound(s), NEW r \in AfterSwap(s)
  PROVE  StateSound(r)
<1>1. CASE r = s
  BY <1>1
<1>2. CASE \E u \in SwapUpdates(s) : r = Moved(s, u)
  <2>1. PICK u \in SwapUpdates(s) : r = Moved(s, u)
    BY <1>2
  <2>2. Apply(s.current, u) \in [Clusters -> Sites] /\ Legal(Apply(s.current, u))
    BY <2>1, SwapUpdateLegal
  <2> QED
    BY <2>1, <2>2, MovedSound
<1> QED
  BY <1>1, <1>2 DEF AfterSwap

(* The end of a trial whose update and verdict are chosen.                 *)
Outcome(update, accept) ==
  LET after == AfterTrial(update, accept) IN
  IF after.stall > StallLimit
  THEN /\ state' \in AfterSwap(after.state)
       /\ best' = UpdateBest(after.best, state')
       /\ stall' = 0
  ELSE state' = after.state /\ best' = after.best /\ stall' = after.stall

(* What a trial leaves, with or without a swap: a sound state, and the     *)
(* best of what was passed.                                                *)
LEMMA TrialSound ==
  ASSUME StateSound(state), BestSound(best), stall \in Nat, Trial
  PROVE  /\ StateSound(state') /\ BestSound(best') /\ stall' \in Nat
         /\ best'.total <= state'.total /\ best'.total <= best.total
<1>1. PICK focus \in Movable : \E targets \in CandidateTargets(state, focus) :
      \E update \in Cheapest(state, Planned(state, focus, targets)) :
      \E accept \in AcceptTrial(state, update) : Outcome(update, accept)
  BY DEF Trial, Outcome
<1>2. PICK targets \in CandidateTargets(state, focus) :
      \E update \in Cheapest(state, Planned(state, focus, targets)) :
      \E accept \in AcceptTrial(state, update) : Outcome(update, accept)
  BY <1>1
<1>3. PICK update \in Planned(state, focus, targets), accept \in BOOLEAN :
      Outcome(update, accept)
  BY <1>2 DEF Cheapest, AcceptTrial
<1> DEFINE moved == IF accept THEN Moved(state, update) ELSE state
           after == AfterTrial(update, accept)
<1>4. StateSound(moved)
  BY <1>3, PlannedSound
<1>5. after.state = moved /\ after.best = UpdateBest(best, moved) /\ after.stall \in Nat
  BY DEF AfterTrial
<1>6. /\ BestSound(after.best) /\ after.best.total <= best.total
      /\ after.best.total <= moved.total /\ moved.total \in Int /\ best.total \in Int
  BY <1>4, <1>5, BestKept
<1>7. CASE after.stall > StallLimit
  <2>1. state' \in AfterSwap(moved) /\ best' = UpdateBest(after.best, state') /\ stall' = 0
    BY <1>3, <1>5, <1>7 DEF Outcome
  <2>2. StateSound(state')
    BY <1>4, <2>1, SwapSound
  <2>3. /\ BestSound(best') /\ best'.total <= after.best.total /\ best'.total <= state'.total
        /\ after.best.total \in Int /\ state'.total \in Int
    BY <1>6, <2>1, <2>2, BestKept
  <2>4. best'.total \in Int
    BY <2>3, PlacementAssumption DEF BestSound
  <2> QED
    BY <1>6, <2>1, <2>2, <2>3, <2>4
<1>8. CASE ~(after.stall > StallLimit)
  <2>1. state' = moved /\ best' = after.best /\ stall' = after.stall
    BY <1>3, <1>5, <1>8 DEF Outcome
  <2> QED
    BY <1>4, <1>5, <1>6, <2>1
<1> QED
  BY <1>7, <1>8

(* The refinement starts from a sound state.                               *)
LEMMA BestStateSound ==
  ASSUME NEW p \in [Clusters -> Sites], Legal(p)
  PROVE  StateSound(StateOf(p))
BY DEF StateSound, StateOf

(* A refinement move makes the placement cheaper.                          *)
LEMMA RefineSound ==
  ASSUME StateSound(state), index \in Nat \ {0}, RefineFocus
  PROVE  StateSound(state') /\ state'.total <= state.total
<1> DEFINE focus == FocusOrder[index]
<1>1. focus \in Movable
  BY PlacementAssumption DEF RefineFocus
<1>2. state.total \in Int
  BY PlacementAssumption DEF StateSound
<1>3. CASE state' = state
  BY <1>2, <1>3
<1>4. CASE \E targets \in RefinementTargets(state, focus) :
           \E update \in Cheapest(state, Improving(state, Planned(state, focus, targets))) :
             state' = Moved(state, update)
  <2>1. PICK targets \in RefinementTargets(state, focus) :
        \E update \in Planned(state, focus, targets) :
          /\ Cost(Apply(state.trial, update)) < state.total
          /\ state' = Moved(state, update)
    BY <1>4 DEF Cheapest, Improving
  <2> HIDE DEF focus
  <2>2. StateSound(state') /\ state'.total < state.total
    BY <1>1, <2>1, PlannedSound
  <2>3. state'.total \in Int
    BY <2>2, PlacementAssumption DEF StateSound
  <2> QED
    BY <1>2, <2>1, <2>2, <2>3
<1> QED
  BY <1>3, <1>4 DEF RefineFocus

-----------------------------------------------------------------------------
(* Slots.                                                                  *)

(* Every place of a ranking is somebody's: if no element had k smaller     *)
(* ones, the ranks of all would fit into one number too few.               *)
LEMMA RankExists ==
  ASSUME NEW S \in SUBSET Nat, IsFiniteSet(S), NEW k \in Nat, k < Cardinality(S)
  PROVE  \E n \in S : Cardinality({m \in S : m < n}) = k
<1> DEFINE Below(n) == {m \in S : m < n}
           C == Cardinality(S)
           T == (0 .. C - 1) \ {k}
           rank == [n \in S |-> Cardinality(Below(n))]
<1>1. C \in Nat /\ k < C
  BY FS_CardinalityType
<1>2. \A n \in S : IsFiniteSet(Below(n)) /\ Cardinality(Below(n)) \in Nat
  <2>1. \A n \in S : Below(n) \subseteq S
    OBVIOUS
  <2> QED
    BY <2>1, FS_Subset, FS_CardinalityType
<1>3. \A n \in S : Cardinality(Below(n)) < C
  <2> TAKE n \in S
  <2>1. Below(n) \subseteq S /\ Below(n) # S
    OBVIOUS
  <2> HIDE DEF Below
  <2>2. Cardinality(Below(n)) <= C /\ Cardinality(Below(n)) # C
    BY <2>1, FS_Subset
  <2> QED
    BY <2>2, <1>1, <1>2
<1>4. \A a, b \in S : a < b => Cardinality(Below(a)) # Cardinality(Below(b))
  <2> SUFFICES ASSUME NEW a \in S, NEW b \in S, a < b
               PROVE  Cardinality(Below(a)) # Cardinality(Below(b))
    OBVIOUS
  <2>1. Below(a) \subseteq Below(b)
    <3>1. \A m \in S : m < a => m < b
      OBVIOUS
    <3> QED
      BY <3>1
  <2>2. a \in Below(b) /\ a \notin Below(a)
    OBVIOUS
  <2> HIDE DEF Below
  <2> QED
    BY <2>1, <2>2, <1>2, FS_Subset
<1>5. IsFiniteSet(T) /\ Cardinality(T) = C - 1
  <2> HIDE DEF C
  <2>1. IsFiniteSet(0 .. C - 1) /\ Cardinality(0 .. C - 1) = C
    <3>1. 0 \in Int /\ C - 1 \in Int
      BY <1>1
    <3>2. IsFiniteSet(0 .. C - 1) /\ Cardinality(0 .. C - 1) = IF 0 > C - 1 THEN 0 ELSE C - 1 - 0 + 1
      BY <3>1, FS_Interval
    <3> QED
      BY <1>1, <3>2
  <2>2. k \in 0 .. C - 1
    BY <1>1
  <2> QED
    BY <2>1, <2>2, FS_RemoveElement, ZenonT(40)
<1> SUFFICES ASSUME \A n \in S : Cardinality(Below(n)) # k
             PROVE  FALSE
  OBVIOUS
<1>6. rank \in [S -> T]
  BY <1>1, <1>2, <1>3
<1>7. Cardinality(T) < Cardinality(S)
  BY <1>1, <1>5
<1>8. PICK a \in S, b \in S : a # b /\ rank[a] = rank[b]
  <2> HIDE DEF T, rank
  <2> QED
    BY <1>5, <1>6, <1>7, FS_PigeonHole
<1>9. a < b \/ b < a
  BY <1>8
<1> QED
  BY <1>4, <1>8, <1>9

(* Distinct clusters want distinct slots, or no more slots are wanted than *)
(* there are clusters.                                                     *)
LEMMA ImageNoLarger ==
  ASSUME NEW S, IsFiniteSet(S), NEW f, S \subseteq DOMAIN f
  PROVE  /\ IsFiniteSet({f[x] : x \in S})
         /\ Cardinality({f[x] : x \in S}) <= Cardinality(S)
<1> DEFINE g == [x \in S |-> f[x]]
           T == {f[x] : x \in S}
<1>1. g \in Surjection(S, T)
  BY DEF Surjection
<1> QED
  BY <1>1, FS_Surjection

(* A site that is not refused has a free slot for every movable cluster,   *)
(* and FirstFree is the one with the right rank.                           *)
LEMMA FirstFreeRank ==
  ASSUME state.current \in [Clusters -> Sites],
         slots \in [Clusters -> Nat \union {None}],
         NEW c \in Clusters \ Fixed,
         ~SlotsRefused(state.current[c])
  PROVE  LET s == state.current[c]
             free == Slots \ TakenSlots(s)
         IN /\ FirstFree(c) \in free
            /\ Cardinality({m \in free : m < FirstFree(c)})
                 = Cardinality({d \in At(s) \ Fixed : d < c})
<1> DEFINE s == state.current[c]
           taken == TakenSlots(s)
           free == Slots \ taken
           others == At(s) \ Fixed
           before == {d \in others : d < c}
           pinned == At(s) \intersect Fixed
<1>1. SlicesPerTile \in Nat \ {0} /\ IsFiniteSet(Clusters)
  BY PlacementAssumption
<1>2. IsFiniteSet(Slots) /\ Cardinality(Slots) = SlicesPerTile
  BY <1>1, FS_Interval, SMTT(30) DEF Slots
<1>3. IsFiniteSet(At(s)) /\ Cardinality(At(s)) \in Nat /\ Cardinality(At(s)) <= SlicesPerTile
  <2>1. IsFiniteSet(At(s)) /\ Cardinality(At(s)) \in Nat
    BY HeldFinite DEF At
  <2>2. ~(Cardinality(At(s)) > SlicesPerTile)
    BY DEF SlotsRefused
  <2> QED
    BY <1>1, <2>1, <2>2
<1>4. /\ IsFiniteSet(others) /\ IsFiniteSet(pinned)
      /\ Cardinality(others) \in Nat /\ Cardinality(pinned) \in Nat
      /\ Cardinality(others) = Cardinality(At(s)) - Cardinality(pinned)
  <2>1. IsFiniteSet(others) /\ Cardinality(others) = Cardinality(At(s)) - Cardinality(pinned)
    BY <1>3, FS_Difference
  <2>2. IsFiniteSet(pinned)
    BY <1>3, FS_Intersection
  <2> QED
    BY <2>1, <2>2, FS_CardinalityType
<1>5. taken \subseteq Slots /\ Cardinality(taken) <= Cardinality(pinned)
  <2>1. taken = {slots[d] : d \in pinned}
    BY DEF TakenSlots
  <2>2. \A d \in pinned : slots[d] \in Slots
    BY DEF SlotsRefused
  <2>3. pinned \subseteq DOMAIN slots
    BY DEF At
  <2> HIDE DEF taken, pinned
  <2>4. Cardinality(taken) <= Cardinality(pinned)
    BY <1>4, <2>1, <2>3, ImageNoLarger
  <2> QED
    BY <2>1, <2>2, <2>4
<1>6. IsFiniteSet(free) /\ Cardinality(free) = SlicesPerTile - Cardinality(taken)
      /\ Cardinality(taken) \in Nat
  <2> HIDE DEF taken
  <2>1. Slots \intersect taken = taken /\ IsFiniteSet(taken)
    BY <1>2, <1>5, FS_Subset
  <2> QED
    BY <1>2, <2>1, FS_Difference, FS_CardinalityType
<1>7. /\ before \subseteq others /\ before # others
      /\ IsFiniteSet(before) /\ Cardinality(before) \in Nat
      /\ Cardinality(before) < Cardinality(others)
  <2>1. c \in others /\ c \notin before /\ before \subseteq others
    BY PlacementAssumption DEF At
  <2> HIDE DEF before, others
  <2>2. IsFiniteSet(before) /\ Cardinality(before) <= Cardinality(others)
        /\ Cardinality(before) # Cardinality(others)
    BY <1>4, <2>1, FS_Subset
  <2>3. Cardinality(before) \in Nat
    BY <2>2, FS_CardinalityType
  <2> QED
    BY <1>4, <2>1, <2>2, <2>3
<1>8. Cardinality(before) < Cardinality(free)
  <2> HIDE DEF before, others, free, taken, pinned, s
  <2> QED
    BY <1>1, <1>3, <1>4, <1>5, <1>6, <1>7
<1>9. \E n \in free : Cardinality({m \in free : m < n}) = Cardinality(before)
  <2>1. free \in SUBSET Nat
    BY <1>1 DEF Slots
  <2> HIDE DEF before, free
  <2> QED
    BY <1>6, <1>7, <1>8, <2>1, RankExists
<1>10. FirstFree(c) = CHOOSE n \in free : Cardinality({m \in free : m < n}) = Cardinality(before)
  BY DEF FirstFree
<1> QED
  <2> HIDE DEF before
  <2> SUFFICES /\ FirstFree(c) \in free
               /\ Cardinality({m \in free : m < FirstFree(c)}) = Cardinality(before)
    BY DEF before
  <2> HIDE DEF free
  <2> QED
    BY <1>9, <1>10

(* The slots given are distinct at every site.                             *)
LEMMA SlotsGivenSound ==
  ASSUME state.current \in [Clusters -> Sites],
         slots \in [Clusters -> Nat \union {None}],
         AssignSlots
  PROVE  /\ slots' \in [Clusters -> Nat \union {None}]
         /\ \A c \in Clusters : slots'[c] \in Slots
         /\ \A c, d \in Clusters :
              c # d /\ state.current[c] = state.current[d] => slots'[c] # slots'[d]
         /\ \A c \in Fixed : slots'[c] = slots[c]
<1> DEFINE site(c) == state.current[c]
<1>1. slots' = [c \in Clusters |-> IF c \in Fixed THEN slots[c] ELSE FirstFree(c)]
  BY DEF AssignSlots
<1>2. \A c \in Clusters : ~SlotsRefused(site(c)) /\ c \in At(site(c))
  BY DEF AssignSlots, At
<1>3. Fixed \subseteq Clusters /\ Slots \subseteq Nat
  BY PlacementAssumption DEF Slots
<1>4. \A c \in Fixed : slots[c] \in Slots /\ slots[c] \in TakenSlots(site(c))
  BY <1>2, <1>3 DEF SlotsRefused, TakenSlots
<1>5. \A c \in Clusters \ Fixed :
        LET free == Slots \ TakenSlots(site(c))
        IN /\ FirstFree(c) \in free
           /\ Cardinality({m \in free : m < FirstFree(c)})
                = Cardinality({d \in At(site(c)) \ Fixed : d < c})
  BY <1>2, FirstFreeRank
<1>6. \A c \in Clusters : slots'[c] \in Slots
  BY <1>1, <1>3, <1>4, <1>5
<1>7. ASSUME NEW c \in Clusters, NEW d \in Clusters, c # d, site(c) = site(d),
             slots'[c] = slots'[d]
      PROVE  FALSE
  <2>1. CASE c \in Fixed /\ d \in Fixed
    <3>1. slots[c] = slots[d]
      BY <1>1, <1>7, <2>1
    <3> QED
      BY <1>2, <1>7, <2>1, <3>1 DEF SlotsRefused
  <2>2. CASE c \in Fixed /\ d \notin Fixed
    <3>1. slots'[c] \in TakenSlots(site(c))
      BY <1>1, <1>4, <2>2
    <3>2. slots'[d] \notin TakenSlots(site(d))
      BY <1>1, <1>5, <2>2
    <3> QED
      BY <1>7, <3>1, <3>2
  <2>3. CASE c \notin Fixed /\ d \in Fixed
    <3>1. slots'[d] \in TakenSlots(site(d))
      BY <1>1, <1>4, <2>3
    <3>2. slots'[c] \notin TakenSlots(site(c))
      BY <1>1, <1>5, <2>3
    <3> QED
      BY <1>7, <3>1, <3>2
  <2>4. CASE c \notin Fixed /\ d \notin Fixed
    <3> DEFINE others == At(site(c)) \ Fixed
               Before(x) == {y \in others : y < x}
    <3>1. FirstFree(c) = FirstFree(d)
      BY <1>1, <1>7, <2>4
    <3>2. Cardinality(Before(c)) = Cardinality(Before(d))
      BY <1>5, <1>7, <2>4, <3>1
    <3>3. others \subseteq Nat /\ c \in others /\ d \in others
      BY <1>2, <1>7, <2>4, PlacementAssumption DEF At
    <3>4. IsFiniteSet(others)
      <4>1. others \subseteq Clusters
        BY DEF At
      <4> QED
        BY <4>1, FS_Subset, PlacementAssumption
    <3> HIDE DEF others
    <3>5. ASSUME NEW x \in others, NEW y \in others, x < y
          PROVE  Cardinality(Before(x)) # Cardinality(Before(y))
      <4>1. Before(x) \subseteq Before(y)
        <5>1. \A z \in others : z < x => z < y
          BY <3>3, <3>5
        <5> QED
          BY <5>1
      <4>2. x \in Before(y) /\ x \notin Before(x) /\ Before(y) \subseteq others
        BY <3>3, <3>5
      <4>3. IsFiniteSet(Before(y))
        BY <3>4, <4>2, FS_Subset
      <4> HIDE DEF Before
      <4> QED
        BY <4>1, <4>2, <4>3, FS_Subset
    <3>6. c < d \/ d < c
      BY <1>7, <3>3
    <3> QED
      BY <3>2, <3>3, <3>5, <3>6
  <2> QED
    BY <2>1, <2>2, <2>3, <2>4
<1>8. \A c \in Fixed : slots'[c] = slots[c]
  BY <1>1, <1>3
<1>9. slots' \in [Clusters -> Nat \union {None}]
  BY <1>1, <1>3, <1>6
<1> QED
  BY <1>6, <1>7, <1>8, <1>9

-----------------------------------------------------------------------------
(* Refusals.                                                               *)

(* A place for every cluster, which a feasible design has.                 *)
Plan(at) ==
  /\ at \in [Clusters -> Sites \X Slots]
  /\ \A c \in Clusters : at[c][1] \in KindSites(c)
  /\ \A c \in Fixed : at[c] = <<request[c].site, request[c].slot>>
  /\ \A c, d \in Clusters : c # d =>
       at[c] # at[d] /\ (c \in BramClusters => at[c][1] # at[d][1])

LEMMA FeasiblePlan ==
  ASSUME request \in Requests, Feasible
  PROVE  \E at : Plan(at)
<1>1. PICK p \in [Movable -> Sites \X Slots] :
        LET at(c) == IF c \in Fixed THEN <<request[c].site, request[c].slot>> ELSE p[c] IN
        /\ \A c \in Movable : p[c][1] \in KindSites(c)
        /\ \A c, d \in Clusters : c # d =>
             /\ at(c) # at(d)
             /\ c \in BramClusters => at(c)[1] # at(d)[1]
  BY DEF Feasible
<1> DEFINE at == [c \in Clusters |->
                    IF c \in Fixed THEN <<request[c].site, request[c].slot>> ELSE p[c]]
<1>2. \A c \in Fixed : request[c].site \in KindSites(c) /\ request[c].slot \in Slots
                       /\ request[c].site \in Sites /\ c \in Clusters
  BY PlacementAssumption DEF Feasible
<1>3. at \in [Clusters -> Sites \X Slots]
  BY <1>2 DEF Movable
<1>4. \A c \in Clusters : at[c][1] \in KindSites(c)
  BY <1>1, <1>2 DEF Movable
<1>5. \A c \in Fixed : at[c] = <<request[c].site, request[c].slot>>
  BY <1>2
<1>6. \A c, d \in Clusters : c # d =>
        at[c] # at[d] /\ (c \in BramClusters => at[c][1] # at[d][1])
  BY <1>1
<1> HIDE DEF at
<1>7. Plan(at)
  BY <1>3, <1>4, <1>5, <1>6 DEF Plan
<1> QED
  BY <1>7

(* The kinds' sets are finite, and a site has as many slots as it holds.   *)
LEMMA KindsFinite ==
  /\ IsFiniteSet(BramClusters) /\ IsFiniteSet(LogicClusters) /\ IsFiniteSet(Fixed)
  /\ IsFiniteSet(BramSites) /\ IsFiniteSet(LogicSites)
  /\ IsFiniteSet(Slots) /\ Cardinality(Slots) = SlicesPerTile
<1>1. /\ BramClusters \subseteq Clusters /\ LogicClusters \subseteq Clusters
      /\ BramSites \subseteq Sites /\ LogicSites \subseteq Sites
  BY DEF Clusters, Sites
<1>2. IsFiniteSet(Slots) /\ Cardinality(Slots) = SlicesPerTile
  BY FS_Interval, PlacementAssumption DEF Slots
<1> QED
  BY <1>1, <1>2, FS_Subset, PlacementAssumption

(* More block RAMs than sites, or fixed ones where they cannot be.         *)
LEMMA BramsRefusedRightly ==
  ASSUME request \in Requests, BramsRefused
  PROVE  ~Feasible
<1> SUFFICES ASSUME Feasible PROVE FALSE
  OBVIOUS
<1>1. PICK at : Plan(at)
  BY FeasiblePlan
<1>2. BramClusters \subseteq Clusters /\ Fixed \subseteq Clusters
  BY PlacementAssumption DEF Clusters
<1>3. CASE Cardinality(BramClusters) > Cardinality(BramSites)
  <2> DEFINE f == [c \in BramClusters |-> at[c][1]]
  <2>1. f \in [BramClusters -> BramSites]
    BY <1>1, <1>2 DEF Plan, KindSites
  <2>2. Cardinality(BramSites) < Cardinality(BramClusters)
    BY <1>3, KindsFinite, FS_CardinalityType
  <2> HIDE DEF f
  <2>3. PICK c \in BramClusters, d \in BramClusters : c # d /\ f[c] = f[d]
    BY <2>1, <2>2, KindsFinite, FS_PigeonHole
  <2> USE DEF f
  <2> QED
    BY <1>1, <1>2, <2>3 DEF Plan
<1>4. CASE \E c \in FixedBrams : request[c].site \notin BramSites
  BY <1>4 DEF Feasible, KindSites, FixedBrams
<1>5. CASE \E c, d \in FixedBrams : c # d /\ request[c].site = request[d].site
  <2>1. PICK c \in FixedBrams, d \in FixedBrams : c # d /\ request[c].site = request[d].site
    BY <1>5
  <2>2. at[c][1] = request[c].site /\ at[d][1] = request[d].site
    BY <1>1 DEF Plan, FixedBrams
  <2>3. c \in BramClusters /\ c \in Clusters /\ d \in Clusters
    BY <1>2 DEF FixedBrams
  <2> QED
    BY <1>1, <2>1, <2>2, <2>3 DEF Plan
<1> QED
  BY <1>3, <1>4, <1>5 DEF BramsRefused

(* More logic clusters than slots.                                         *)
LEMMA LogicRefusedRightly ==
  ASSUME request \in Requests, LogicRefused
  PROVE  ~Feasible
<1> SUFFICES ASSUME Feasible PROVE FALSE
  OBVIOUS
<1>1. PICK at : Plan(at)
  BY FeasiblePlan
<1> DEFINE T == LogicSites \X Slots
<1>2. IsFiniteSet(T) /\ Cardinality(T) = Cardinality(LogicSites) * SlicesPerTile
  BY KindsFinite, FS_Product
<1>3. Cardinality(T) < Cardinality(LogicClusters)
  <2>1. Cardinality(LogicClusters) \in Nat /\ Cardinality(T) \in Nat
    BY <1>2, KindsFinite, FS_CardinalityType
  <2> QED
    BY <1>2, <2>1 DEF LogicRefused
<1>4. \A c \in LogicClusters : c \in Clusters /\ KindSites(c) = LogicSites
  BY PlacementAssumption DEF Clusters, KindSites
<1> DEFINE f == [c \in LogicClusters |-> at[c]]
<1>5. f \in [LogicClusters -> T]
  <2>1. \A c \in LogicClusters : at[c] \in Sites \X Slots /\ at[c][1] \in LogicSites
    BY <1>1, <1>4 DEF Plan
  <2> QED
    BY <2>1
<1>6. PICK c \in LogicClusters, d \in LogicClusters : c # d /\ f[c] = f[d]
  <2> HIDE DEF f, T
  <2> QED
    BY <1>2, <1>3, <1>5, KindsFinite, FS_PigeonHole
<1> QED
  BY <1>1, <1>4, <1>6 DEF Plan

(* A fixed cluster on a site of another kind, or too many at a site.       *)
LEMMA FixedRefusedRightly ==
  ASSUME request \in Requests, FixedRefused
  PROVE  ~Feasible
<1> SUFFICES ASSUME Feasible PROVE FALSE
  OBVIOUS
<1>1. PICK at : Plan(at)
  BY FeasiblePlan
<1>2. PICK c \in Fixed :
        Cardinality({d \in Fixed : request[d].site = request[c].site}) > KindCapacity(c)
  BY DEF FixedRefused, Feasible
<1> DEFINE S == {d \in Fixed : request[d].site = request[c].site}
<1>3. IsFiniteSet(S) /\ Cardinality(S) \in Nat
  <2>1. S \subseteq Fixed
    OBVIOUS
  <2> HIDE DEF S
  <2> QED
    BY <2>1, KindsFinite, FS_Subset, FS_CardinalityType
<1>4. \A d \in S : d \in Fixed /\ d \in Clusters /\ at[d][1] = request[c].site
  BY <1>1, PlacementAssumption DEF Plan
<1>5. c \in S /\ c \in Clusters
  BY PlacementAssumption
<1>6. CASE c \in BramClusters
  <2>1. S \subseteq {c}
    BY <1>1, <1>4, <1>5, <1>6 DEF Plan
  <2>2. IsFiniteSet({c}) /\ Cardinality({c}) = 1
    BY FS_Singleton
  <2>3. Cardinality(S) <= 1
    <3> HIDE DEF S
    <3>1. S \in SUBSET {c}
      BY <2>1
    <3>2. Cardinality(S) <= Cardinality({c})
      BY <2>2, <3>1, FS_Subset
    <3> QED
      BY <2>2, <3>2
  <2> QED
    BY <1>2, <1>3, <1>6, <2>3 DEF KindCapacity
<1>7. CASE c \notin BramClusters
  <2> DEFINE f == [d \in S |-> at[d][2]]
  <2>1. f \in [S -> Slots]
    BY <1>1, <1>4 DEF Plan
  <2>2. Cardinality(Slots) < Cardinality(S)
    <3>1. KindCapacity(c) = SlicesPerTile
      BY <1>7 DEF KindCapacity
    <3> QED
      BY <1>2, <1>3, <3>1, KindsFinite, PlacementAssumption
  <2>3. PICK d \in S, e \in S : d # e /\ f[d] = f[e]
    <3> HIDE DEF f, S
    <3> QED
      BY <1>3, <2>1, <2>2, KindsFinite, FS_PigeonHole
  <2>4. at[d] = at[e]
    <3>1. at[d] \in Sites \X Slots /\ at[e] \in Sites \X Slots
      BY <1>1, <1>4 DEF Plan
    <3>2. at[d][1] = at[e][1] /\ at[d][2] = at[e][2]
      BY <1>4, <2>3
    <3> QED
      BY <3>1, <3>2
  <2> QED
    BY <1>1, <1>4, <2>3, <2>4 DEF Plan
<1> QED
  BY <1>6, <1>7

(* Slots that cannot be given to the clusters of a legal placement.        *)
LEMMA SlotsRefusedRightly ==
  ASSUME request \in Requests,
         state.current \in [Clusters -> Sites], Legal(state.current),
         \A c \in Fixed : slots[c] = request[c].slot,
         NEW s \in Sites, SlotsRefused(s)
  PROVE  ~Feasible
<1> SUFFICES ASSUME Feasible PROVE FALSE
  OBVIOUS
<1>1. PICK at : Plan(at)
  BY FeasiblePlan
<1>2. \A c \in At(s) \intersect Fixed : at[c] = <<s, slots[c]>> /\ c \in Clusters
                                        /\ slots[c] \in Slots
  BY <1>1, PlacementAssumption DEF Plan, At, Legal, Feasible
<1>3. CASE Cardinality(At(s)) > SlicesPerTile
  <2>1. Cardinality(At(s)) \in Nat /\ IsFiniteSet(At(s))
    BY HeldFinite DEF At
  <2>2. At(s) # {}
    <3> SUFFICES ASSUME At(s) = {} PROVE FALSE
      OBVIOUS
    <3>1. Cardinality(At(s)) = 0
      BY FS_EmptySet
    <3> QED
      BY <1>3, <3>1, PlacementAssumption
  <2>3. PICK c \in At(s) : TRUE
    BY <2>2
  <2>4. c \in Clusters /\ state.current[c] = s
    BY <2>3 DEF At
  <2>5. At(s) = {d \in Clusters : state.current[d] = state.current[c]}
    BY <2>4 DEF At
  <2>6. Cardinality(At(s)) <= KindCapacity(c)
    BY <2>4, <2>5, LegalAt
  <2> QED
    BY <1>3, <2>1, <2>4, <2>6, CapacityNatural, PlacementAssumption
<1>4. CASE \E c \in At(s) \intersect Fixed : slots[c] \notin Slots
  BY <1>2, <1>4
<1>5. CASE \E c, d \in At(s) \intersect Fixed : c # d /\ slots[c] = slots[d]
  BY <1>1, <1>2, <1>5 DEF Plan
<1> QED
  BY <1>3, <1>4, <1>5 DEF SlotsRefused

-----------------------------------------------------------------------------
(* The inductive invariant: what PlacementInv says, and that a failure was *)
(* justified when it was declared.                                         *)
RefusedRightly == phase = "failed" => ~Feasible

IPlacement == PlacementInv /\ RefusedRightly

(* The parts of the invariant follow a step that keeps the requests.       *)
LEMMA SoundAfter ==
  ASSUME request' = request
  PROVE  /\ StateSound(state') => StateSound(state)'
         /\ BestSound(best') => BestSound(best)'
BY DEF StateSound, BestSound, Legal

(* And what does not change stays as it was found.                         *)
LEMMA RefusalsKept ==
  ASSUME request' = request, slots' = slots
  PROVE  /\ BramsRefused' = BramsRefused /\ LogicRefused' = LogicRefused
         /\ FixedRefused' = FixedRefused /\ Feasible' = Feasible
BY DEF BramsRefused, FixedBrams, LogicRefused, FixedRefused, Feasible

LEMMA InitSound == Init => IPlacement
<1> SUFFICES ASSUME Init PROVE IPlacement
  OBVIOUS
<1>1. slots \in [Clusters -> Nat \union {None}]
      /\ \A c \in Fixed : slots[c] = request[c].slot
  BY PlacementAssumption DEF Init
<1>2. PlacementTypes
  BY <1>1 DEF Init, PlacementTypes, Phases
<1> QED
  BY <1>1, <1>2 DEF Init, IPlacement, PlacementInv, RequestsAccepted, PartlyPlaced,
     LoopsSound, Solving, SlotsSound, RefusedRightly

(* The fixed clusters' sites are a legal beginning.                        *)
LEMMA PrepareSound ==
  ASSUME IPlacement, Prepare
  PROVE  IPlacement'
<1> DEFINE p == [c \in Clusters |-> IF c \in Fixed THEN request[c].site ELSE None]
<1>1. /\ phase = "prepare" /\ phase' = "initial"
      /\ ~BramsRefused /\ ~LogicRefused /\ ~FixedRefused
      /\ state' = [state EXCEPT !.current = p, !.occupancy = OccupancyMap(p)]
      /\ request' = request /\ slots' = slots
      /\ UNCHANGED <<best, step, stall, pass, index, improved>>
  BY DEF Prepare
<1>2. PlacementTypes /\ SlotsSound
  BY DEF IPlacement, PlacementInv
<1>3. /\ state'.current = p /\ state'.occupancy = OccupancyMap(p)
      /\ DOMAIN state' = {"current", "trial", "occupancy", "total"}
  BY <1>1, <1>2 DEF PlacementTypes
<1>4. \A c \in Fixed : request[c].site \in Sites /\ c \in Clusters
  BY <1>2, PlacementAssumption DEF PlacementTypes
<1>5. p \in [Clusters -> Sites \union {None}]
  BY <1>4
<1>6. Legal(p)
  <2>1. \A c \in Fixed : p[c] = request[c].site
    BY <1>4
  <2>2. ASSUME NEW c \in Clusters, p[c] # None
        PROVE  /\ p[c] \in KindSites(c)
               /\ Cardinality({d \in Clusters : p[d] = p[c]}) <= KindCapacity(c)
    <3>1. c \in Fixed
      BY <2>2
    <3>2. /\ request[c].site \in KindSites(c)
          /\ ~(Cardinality({d \in Fixed : request[d].site = request[c].site}) > KindCapacity(c))
      BY <1>1, <3>1 DEF FixedRefused
    <3>3. {d \in Clusters : p[d] = p[c]} = {d \in Fixed : request[d].site = request[c].site}
      BY <1>4, <2>2, <3>1, PlacementAssumption
    <3>4. Cardinality({d \in Clusters : p[d] = p[c]}) \in Nat /\ KindCapacity(c) \in Nat
      BY HeldFinite, CapacityNatural
    <3> DEFINE held == Cardinality({d \in Clusters : p[d] = p[c]})
    <3>5. ~(held > KindCapacity(c)) /\ held \in Nat
      BY <3>2, <3>3, <3>4
    <3>6. p[c] \in KindSites(c)
      BY <2>1, <3>1, <3>2
    <3> HIDE DEF held
    <3>7. held <= KindCapacity(c)
      BY <3>4, <3>5
    <3> QED
      BY <3>6, <3>7 DEF held
  <2> HIDE DEF p
  <2> QED
    BY <2>1, <2>2 DEF Legal
<1>7. PlacementTypes'
  BY <1>1, <1>2, <1>3 DEF PlacementTypes, Phases
<1>8. RequestsAccepted'
  BY <1>1, RefusalsKept DEF RequestsAccepted
<1>9. PartlyPlaced'
  <2> HIDE DEF p
  <2> QED
    BY <1>1, <1>3, <1>5, <1>6 DEF PartlyPlaced, Legal
<1> QED
  BY <1>1, <1>2, <1>7, <1>8, <1>9 DEF IPlacement, PlacementInv, LoopsSound, Solving,
     SlotsSound, RefusedRightly

LEMMA PrepareFailsSound ==
  ASSUME IPlacement, PrepareFails
  PROVE  IPlacement'
<1>1. /\ BramsRefused \/ LogicRefused \/ FixedRefused
      /\ request \in Requests
  BY DEF PrepareFails, IPlacement, PlacementInv, PlacementTypes
<1>2. ~Feasible
  BY <1>1, BramsRefusedRightly, LogicRefusedRightly, FixedRefusedRightly
<1>3. RefusedRightly'
  BY <1>2, RefusalsKept DEF PrepareFails, RefusedRightly
<1> QED
  BY <1>3 DEF PrepareFails, IPlacement, PlacementInv, PlacementTypes, Phases, RequestsAccepted,
     PartlyPlaced, LoopsSound, Solving, SlotsSound

(* An available site has a place to spare.                                 *)
LEMMA PlaceClusterSound ==
  ASSUME IPlacement, PlaceCluster
  PROVE  IPlacement'
<1>1. PICK c \in Waiting : \E s \in Available(c) :
        state' = [state EXCEPT !.current = [state.current EXCEPT ![c] = s],
                               !.occupancy = OccupancyMap([state.current EXCEPT ![c] = s])]
  BY DEF PlaceCluster
<1>2. PICK s \in Available(c) :
        state' = [state EXCEPT !.current = [state.current EXCEPT ![c] = s],
                               !.occupancy = OccupancyMap([state.current EXCEPT ![c] = s])]
  BY <1>1
<1> DEFINE p == state.current
           q == [p EXCEPT ![c] = s]
<1>3. PlacementTypes /\ SlotsSound /\ RequestsAccepted /\ phase = "initial"
      /\ UNCHANGED <<phase, request, best, step, stall, pass, index, improved, slots>>
  BY DEF PlaceCluster, IPlacement, PlacementInv
<1>4. /\ p \in [Clusters -> Sites \union {None}] /\ Legal(p)
      /\ state.occupancy = OccupancyMap(p)
  BY <1>3 DEF IPlacement, PlacementInv, PartlyPlaced
<1>5. c \in Movable /\ c \in Clusters /\ p[c] = None
  BY DEF Waiting, Movable
<1>6. s \in KindSites(c) /\ s \in Sites /\ Cardinality(state.occupancy[s]) < KindCapacity(c)
  BY <1>5, KindsApart DEF Available
<1>7. p[c] # s /\ Cardinality({d \in Clusters : p[d] = s}) < KindCapacity(c)
  BY <1>4, <1>5, <1>6, PlacementAssumption DEF OccupancyMap
<1>8. q \in [Clusters -> Sites \union {None}] /\ Legal(q)
  <2> HIDE DEF p
  <2> QED
    BY <1>4, <1>5, <1>6, <1>7, MoveLegal
<1>9. /\ state'.current = q /\ state'.occupancy = OccupancyMap(q)
      /\ DOMAIN state' = {"current", "trial", "occupancy", "total"}
  BY <1>2, <1>3 DEF PlacementTypes
<1>10. PlacementTypes'
  BY <1>3, <1>9 DEF PlacementTypes
<1>11. RequestsAccepted'
  BY <1>3, RefusalsKept DEF RequestsAccepted
<1>12. PartlyPlaced'
  <2> HIDE DEF q
  <2> QED
    BY <1>3, <1>8, <1>9 DEF PartlyPlaced, Legal
<1> QED
  BY <1>3, <1>10, <1>11, <1>12 DEF IPlacement, PlacementInv, LoopsSound, Solving,
     SlotsSound, RefusedRightly

(* A step of the loops.                                                    *)
LEMMA LoopStepSound ==
  ASSUME IPlacement, phase \in {"initial", "anneal", "refine"},
         phase' \in {"anneal", "refine", "solved"},
         request' = request, slots' = slots,
         StateSound(state'), BestSound(best'),
         phase' = "anneal" => best'.total <= state'.total,
         step' \in Nat, stall' \in Nat, pass' \in Nat, index' \in Nat \ {0}
  PROVE  IPlacement'
<1>1. PlacementTypes /\ RequestsAccepted /\ SlotsSound
  BY DEF IPlacement, PlacementInv
<1>2. PlacementTypes'
  BY <1>1 DEF PlacementTypes, Phases
<1>3. RequestsAccepted'
  BY <1>1, RefusalsKept DEF RequestsAccepted
<1>4. LoopsSound'
  BY SoundAfter DEF LoopsSound
<1> QED
  BY <1>1, <1>2, <1>3, <1>4 DEF IPlacement, PlacementInv, PartlyPlaced, SlotsSound, RefusedRightly

(* Everything placed, evaluated from scratch, is the first best solution.  *)
LEMMA BeginAnnealSound ==
  ASSUME IPlacement, BeginAnneal
  PROVE  IPlacement'
<1> DEFINE p == state.current
<1>1. PlacementTypes /\ PartlyPlaced /\ phase = "initial" /\ Waiting = {}
      /\ UNCHANGED <<request, step, stall, pass, index, improved, slots>>
      /\ phase' \in {"anneal", "solved"}
      /\ state' = StateOf(p) /\ best' = [placements |-> p, total |-> Cost(p)]
  BY DEF IPlacement, PlacementInv, BeginAnneal
<1>2. p \in [Clusters -> Sites \union {None}] /\ Legal(p)
  BY <1>1 DEF PartlyPlaced
<1>3. \A c \in Clusters : p[c] # None
  <2>1. \A c \in Fixed : request[c].site \in Sites /\ p[c] = request[c].site
    BY <1>1, <1>2, PlacementAssumption DEF PlacementTypes, Legal
  <2> QED
    BY <1>1, <2>1, PlacementAssumption DEF Waiting, Movable
<1>4. p \in [Clusters -> Sites]
  BY <1>2, <1>3
<1>5. StateSound(state')
  <2> HIDE DEF p
  <2> QED
    BY <1>1, <1>2, <1>4, BestStateSound
<1>6. BestSound(best')
  BY <1>1, <1>2, <1>4 DEF BestSound
<1>7. best'.total <= state'.total
  BY <1>1, <1>4, PlacementAssumption DEF StateOf
<1> QED
  BY <1>1, <1>5, <1>6, <1>7, LoopStepSound DEF PlacementTypes

LEMMA AnnealStepSound ==
  ASSUME IPlacement, AnnealStep
  PROVE  IPlacement' /\ best'.total <= best.total
<1>1. /\ phase = "anneal" /\ step' = step + 1 /\ Trial
      /\ UNCHANGED <<phase, request, pass, index, improved, slots>>
      /\ PlacementTypes /\ StateSound(state) /\ BestSound(best)
  BY DEF AnnealStep, Trial, IPlacement, PlacementInv, LoopsSound, Solving
<1>2. stall \in Nat /\ step' \in Nat /\ pass \in Nat /\ index \in Nat \ {0}
  BY <1>1 DEF PlacementTypes
<1>3. /\ StateSound(state') /\ BestSound(best') /\ stall' \in Nat
      /\ best'.total <= state'.total /\ best'.total <= best.total
  BY <1>1, <1>2, TrialSound
<1> QED
  BY <1>1, <1>2, <1>3, LoopStepSound

LEMMA BeginRefinementSound ==
  ASSUME IPlacement, BeginRefinement
  PROVE  IPlacement' /\ state'.total <= best.total
<1>1. /\ phase = "anneal" /\ phase' \in {"refine", "solved"}
      /\ state' = StateOf(best.placements)
      /\ UNCHANGED <<request, best, step, stall, pass, index, improved, slots>>
      /\ PlacementTypes /\ BestSound(best)
  BY DEF BeginRefinement, IPlacement, PlacementInv, LoopsSound, Solving
<1>2. best.placements \in [Clusters -> Sites] /\ Legal(best.placements)
      /\ best.total = Cost(best.placements) /\ best.total \in Int
  BY <1>1, PlacementAssumption DEF BestSound
<1>3. StateSound(state')
  BY <1>1, <1>2, BestStateSound
<1>4. state'.total <= best.total
  BY <1>1, <1>2 DEF StateOf
<1> QED
  BY <1>1, <1>3, <1>4, LoopStepSound DEF PlacementTypes

LEMMA RefineFocusSound ==
  ASSUME IPlacement, RefineFocus
  PROVE  IPlacement' /\ state'.total <= state.total
<1>1. /\ phase = "refine" /\ index' = index + 1
      /\ UNCHANGED <<phase, request, best, step, stall, pass, slots>>
      /\ PlacementTypes /\ StateSound(state) /\ BestSound(best)
  BY DEF RefineFocus, IPlacement, PlacementInv, LoopsSound, Solving
<1>2. StateSound(state') /\ state'.total <= state.total
  BY <1>1, RefineSound DEF PlacementTypes
<1> QED
  BY <1>1, <1>2, LoopStepSound DEF PlacementTypes

LEMMA NextPassSound ==
  ASSUME IPlacement, NextPass
  PROVE  IPlacement' /\ state'.total <= state.total
<1>1. /\ phase = "refine" /\ phase' \in {"refine", "solved"}
      /\ UNCHANGED <<request, state, best, step, stall, slots>>
      /\ PlacementTypes /\ StateSound(state) /\ BestSound(best)
  BY DEF NextPass, IPlacement, PlacementInv, LoopsSound, Solving
<1>2. pass' \in Nat /\ index' \in Nat \ {0}
  BY <1>1 DEF NextPass, PlacementTypes
<1>3. state.total \in Int
  BY <1>1, PlacementAssumption DEF StateSound
<1> QED
  BY <1>1, <1>2, <1>3, LoopStepSound DEF PlacementTypes

LEMMA AssignSlotsSound ==
  ASSUME IPlacement, AssignSlots
  PROVE  IPlacement'
<1>1. /\ phase = "solved" /\ phase' = "done"
      /\ UNCHANGED <<request, state, best, step, stall, pass, index, improved>>
      /\ PlacementTypes /\ SlotsSound /\ StateSound(state) /\ BestSound(best)
  BY DEF AssignSlots, IPlacement, PlacementInv, LoopsSound, Solving
<1>2. /\ slots' \in [Clusters -> Nat \union {None}]
      /\ \A c \in Clusters : slots'[c] \in Slots
      /\ \A c, d \in Clusters :
           c # d /\ state.current[c] = state.current[d] => slots'[c] # slots'[d]
      /\ \A c \in Fixed : slots'[c] = slots[c]
  BY <1>1, SlotsGivenSound DEF PlacementTypes, StateSound
<1>3. SlotsSound'
  BY <1>1, <1>2 DEF SlotsSound
<1>4. RequestsAccepted'
  BY <1>1 DEF IPlacement, PlacementInv, RequestsAccepted, BramsRefused, FixedBrams,
     LogicRefused, FixedRefused
<1>5. LoopsSound'
  BY <1>1, SoundAfter DEF LoopsSound
<1>6. PlacementTypes'
  BY <1>1, <1>2 DEF PlacementTypes, Phases
<1> QED
  BY <1>1, <1>3, <1>4, <1>5, <1>6 DEF IPlacement, PlacementInv, PartlyPlaced, RefusedRightly

LEMMA AssignSlotsFailsSound ==
  ASSUME IPlacement, AssignSlotsFails
  PROVE  IPlacement'
<1>1. PICK s \in Sites : SlotsRefused(s)
  BY DEF AssignSlotsFails
<1>2. /\ phase = "solved" /\ phase' = "failed"
      /\ UNCHANGED <<request, state, best, step, stall, pass, index, improved, slots>>
      /\ PlacementTypes /\ SlotsSound /\ StateSound(state)
  BY DEF AssignSlotsFails, IPlacement, PlacementInv, LoopsSound, Solving
<1>3. ~Feasible
  BY <1>1, <1>2, SlotsRefusedRightly DEF PlacementTypes, SlotsSound, StateSound
<1>4. RefusedRightly'
  BY <1>2, <1>3, RefusalsKept DEF RefusedRightly
<1> QED
  BY <1>2, <1>4 DEF IPlacement, PlacementInv, PlacementTypes, Phases, RequestsAccepted,
     PartlyPlaced, LoopsSound, Solving, SlotsSound

(* What does not move the variables keeps what is said of them.            *)
LEMMA StutterSound ==
  ASSUME IPlacement, UNCHANGED vars
  PROVE  IPlacement'
<1>1. UNCHANGED <<phase, request, state, best, step, stall, pass, index, improved, slots>>
  BY DEF vars
<1>2. RequestsAccepted' /\ RefusedRightly'
  BY <1>1, RefusalsKept DEF IPlacement, PlacementInv, RequestsAccepted, RefusedRightly
<1>3. LoopsSound'
  BY <1>1, SoundAfter DEF IPlacement, PlacementInv, LoopsSound, Solving
<1>4. PartlyPlaced'
  BY <1>1 DEF IPlacement, PlacementInv, PartlyPlaced, Legal
<1>5. PlacementTypes' /\ SlotsSound'
  BY <1>1 DEF IPlacement, PlacementInv, PlacementTypes, SlotsSound
<1> QED
  BY <1>2, <1>3, <1>4, <1>5 DEF IPlacement, PlacementInv

(* Every step of the stage keeps the invariant, whatever cost function and *)
(* architecture it is given.                                               *)
THEOREM PlacementInvariant == Spec => []IPlacement
<1>1. IPlacement /\ [Next]_vars => IPlacement'
  <2> SUFFICES ASSUME IPlacement, [Next]_vars
               PROVE  IPlacement'
    OBVIOUS
  <2>1. CASE Prepare
    BY <2>1, PrepareSound
  <2>2. CASE PrepareFails
    BY <2>2, PrepareFailsSound
  <2>3. CASE PlaceCluster
    BY <2>3, PlaceClusterSound
  <2>4. CASE BeginAnneal
    BY <2>4, BeginAnnealSound
  <2>5. CASE AnnealStep
    BY <2>5, AnnealStepSound
  <2>6. CASE BeginRefinement
    BY <2>6, BeginRefinementSound
  <2>7. CASE RefineFocus
    BY <2>7, RefineFocusSound
  <2>8. CASE NextPass
    BY <2>8, NextPassSound
  <2>9. CASE AssignSlots
    BY <2>9, AssignSlotsSound
  <2>10. CASE AssignSlotsFails
    BY <2>10, AssignSlotsFailsSound
  <2>11. CASE Finished
    BY <2>11, StutterSound DEF Finished
  <2>12. CASE UNCHANGED vars
    BY <2>12, StutterSound
  <2> QED
    BY <2>1, <2>2, <2>3, <2>4, <2>5, <2>6, <2>7, <2>8, <2>9, <2>10, <2>11, <2>12 DEF Next
<1> QED
  BY InitSound, <1>1, PTL DEF Spec

(* Clusters are on sites of their kind that hold them all, fixed ones      *)
(* where they asked to be, in the current and in the best placement; slots *)
(* are given apart.                                                        *)
THEOREM PlacementLegalHolds == Spec => []PlacementLegal
<1>1. IPlacement => PlacementLegal
  <2> SUFFICES ASSUME IPlacement PROVE PlacementLegal
    OBVIOUS
  <2>1. phase \in Phases /\ PartlyPlaced /\ LoopsSound /\ SlotsSound
    BY DEF IPlacement, PlacementInv, PlacementTypes
  <2>2. phase \notin {"prepare", "failed"} => Legal(state.current)
    BY <2>1 DEF Phases, PartlyPlaced, LoopsSound, Solving, StateSound
  <2>3. phase \in {"anneal", "refine", "solved", "done"} => Legal(best.placements)
    BY <2>1 DEF LoopsSound, Solving, BestSound
  <2> QED
    BY <2>1, <2>2, <2>3 DEF PlacementLegal, SlotsSound
<1> QED
  BY <1>1, PlacementInvariant, PTL

(* Decisions are taken on the cost and the occupancy of the placement.     *)
THEOREM StateCurrentHolds == Spec => []StateCurrent
<1>1. IPlacement => StateCurrent
  BY DEF IPlacement, PlacementInv, LoopsSound, Solving, StateSound, StateCurrent
<1> QED
  BY <1>1, PlacementInvariant, PTL

(* Only designs without a legal placement are refused, before the solver   *)
(* (more clusters than places, by counting) or after it (slots).           *)
THEOREM FailsOnlyIfInfeasibleHolds == Spec => []FailsOnlyIfInfeasible
<1>1. IPlacement => FailsOnlyIfInfeasible
  BY DEF IPlacement, RefusedRightly, FailsOnlyIfInfeasible
<1> QED
  BY <1>1, PlacementInvariant, PTL

(* No step forgets the cheapest placement passed so far.                   *)
THEOREM NeverWorseHolds == Spec => NeverWorse
<1> DEFINE Kept ==
      /\ phase = "anneal" => best.total = Cost(best.placements) /\ best.total <= state.total
      /\ phase = "anneal" => best'.total <= best.total
      /\ phase \in {"anneal", "refine"} /\ phase' \in {"refine", "solved"} =>
           state'.total <= IF phase = "anneal" THEN best.total ELSE state.total
<1>1. IPlacement /\ [Next]_vars => [Kept]_vars
  <2> SUFFICES ASSUME IPlacement, Next PROVE Kept
    OBVIOUS
  <2>1. phase = "anneal" => best.total = Cost(best.placements) /\ best.total <= state.total
                            /\ best.total \in Int
    BY PlacementAssumption DEF IPlacement, PlacementInv, LoopsSound, Solving, BestSound
  <2>2. CASE AnnealStep
    <3>1. phase = "anneal" /\ phase' = "anneal"
      BY <2>2 DEF AnnealStep, Trial
    <3> QED
      BY <2>1, <2>2, <3>1, AnnealStepSound
  <2>3. CASE BeginRefinement
    <3>1. phase = "anneal" /\ best' = best
      BY <2>3 DEF BeginRefinement
    <3> QED
      BY <2>1, <2>3, <3>1, BeginRefinementSound
  <2>4. CASE RefineFocus
    <3>1. phase = "refine"
      BY <2>4 DEF RefineFocus
    <3> QED
      BY <2>4, <3>1, RefineFocusSound
  <2>5. CASE NextPass
    <3>1. phase = "refine"
      BY <2>5 DEF NextPass
    <3> QED
      BY <2>5, <3>1, NextPassSound
  <2>6. CASE ~(AnnealStep \/ BeginRefinement \/ RefineFocus \/ NextPass)
    <3>1. phase \notin {"anneal", "refine"}
      BY <2>6 DEF Next, Prepare, PrepareFails, PlaceCluster, BeginAnneal, AssignSlots,
         AssignSlotsFails, Finished
    <3> QED
      BY <3>1
  <2> QED
    BY <2>2, <2>3, <2>4, <2>5, <2>6
<1> QED
  BY <1>1, PlacementInvariant, PTL DEF Spec, NeverWorse

-----------------------------------------------------------------------------
(***************************************************************************)
(* Sums over finite sets: they may be taken in any order, and change by    *)
(* the differences of what changes.                                        *)
(***************************************************************************)
AnyOf(S) == CHOOSE x \in S : TRUE

Adds(f, sums) ==
  sums = [S \in SUBSET DOMAIN f |->
            IF S = {} THEN 0 ELSE f[AnyOf(S)] + sums[S \ {AnyOf(S)}]]

LEMMA SumIs ==
    ASSUME NEW f
    PROVE  Sum(f) = (CHOOSE sums : Adds(f, sums))[DOMAIN f]
  BY DEF Sum, MapThenSumSet, MapThenFoldSet, Adds, AnyOf

\* Without an element a finite set has one less.
LEMMA OneLess ==
    ASSUME NEW D, IsFiniteSet(D), NEW S \in SUBSET D
    PROVE  /\ IsFiniteSet(S) /\ Cardinality(S) \in Nat /\ Cardinality(S) <= Cardinality(D)
           /\ S # {} => AnyOf(S) \in S
           /\ \A x \in S : Cardinality(S \ {x}) = Cardinality(S) - 1
<1>1. IsFiniteSet(S) /\ Cardinality(S) <= Cardinality(D)
  BY FS_Subset
<1>2. Cardinality(S) \in Nat
  BY <1>1, FS_CardinalityType
<1>3. ASSUME NEW x \in S PROVE Cardinality(S \ {x}) = Cardinality(S) - 1
  BY <1>1, FS_RemoveElement
<1> QED
  BY <1>1, <1>2, <1>3 DEF AnyOf

LEMMA SumsExist ==
    ASSUME NEW D, IsFiniteSet(D), NEW f \in [D -> Int]
    PROVE  \E sums \in [SUBSET D -> Int] : Adds(f, sums)
<1> DEFINE N == Cardinality(D) + 1
           F == [SUBSET D -> Int]
           first == [S \in SUBSET D |-> 0]
           Next1(s, S) == IF S = {} THEN 0 ELSE f[AnyOf(S)] + s[S \ {AnyOf(S)}]
           next == [s \in F |-> [S \in SUBSET D |-> Next1(s, S)]]
           onward == [k \in 2 .. N |-> next]
           Settled(h) == {k \in 1 .. N :
                            \A S \in SUBSET D : Cardinality(S) < k => next[h[k]][S] = h[k][S]}
<1>1. N \in Nat \ {0} /\ first \in F
  BY FS_CardinalityType
<1>2. ASSUME NEW s \in F, NEW S \in SUBSET D PROVE Next1(s, S) \in Int
  <2>1. CASE S = {}
    BY <2>1
  <2>2. CASE S # {}
    <3>1. AnyOf(S) \in D /\ S \ {AnyOf(S)} \in SUBSET D
      BY <2>2, OneLess
    <3>2. f[AnyOf(S)] \in Int /\ s[S \ {AnyOf(S)}] \in Int
      BY <3>1
    <3> HIDE DEF F
    <3> QED
      BY <2>2, <3>2
  <2> QED
    BY <2>1, <2>2
<1>3. next \in [F -> F]
  BY <1>2
<1>4. Stepwise(F, N, first, onward)
  BY <1>1, <1>3 DEF Stepwise
<1>5. PICK h : StepsTo(h, F, N, first, onward)
  <2> HIDE DEF F, N, first, onward
  <2> QED
    BY <1>4, StepByStep
<1>6. /\ h \in [1 .. N -> F] /\ h[1] = first
      /\ \A k \in 2 .. N : h[k] = next[h[k - 1]]
  BY <1>5 DEF StepsTo
<1>7. \A s \in F : \A S \in SUBSET D : next[s][S] = Next1(s, S)
  OBVIOUS
<1>8. 1 \in Settled(h)
  <2>3. 1 \in 1 .. N
    BY <1>1
  <2> SUFFICES ASSUME NEW S \in SUBSET D, Cardinality(S) < 1
               PROVE  next[h[1]][S] = h[1][S]
    BY <2>3
  <2>1. S = {}
    <3>1. IsFiniteSet(S) /\ Cardinality(S) = 0
      BY OneLess
    <3> QED
      BY <3>1, FS_EmptySet
  <2>2. next[h[1]][S] = 0
    BY <1>1, <1>6, <1>7, <2>1
  <2> QED
    BY <1>6, <2>2
<1>9. ASSUME NEW k \in 2 .. N, k - 1 \in Settled(h) PROVE k \in Settled(h)
  <2>1. k \in 1 .. N /\ k - 1 \in 1 .. N
    BY <1>1
  <2>2. h[k] \in F /\ h[k - 1] \in F /\ h[k] = next[h[k - 1]]
    BY <1>6, <2>1
  <2> SUFFICES ASSUME NEW S \in SUBSET D, Cardinality(S) < k
               PROVE  next[h[k]][S] = h[k][S]
    BY <2>1
  <2>3. next[h[k]][S] = Next1(h[k], S) /\ h[k][S] = Next1(h[k - 1], S)
    BY <1>7, <2>2
  <2>4. CASE S = {}
    BY <2>3, <2>4
  <2>5. CASE S # {}
    <3> DEFINE T == S \ {AnyOf(S)}
    <3>1. T \in SUBSET D /\ Cardinality(T) = Cardinality(S) - 1 /\ Cardinality(S) \in Nat
      BY <2>5, OneLess
    <3>2. Cardinality(T) < k - 1
      BY <3>1, <2>1
    <3>3. next[h[k - 1]][T] = h[k - 1][T]
      BY <1>9, <3>1, <3>2
    <3>4. h[k][T] = h[k - 1][T]
      BY <2>2, <3>3
    <3> HIDE DEF T, next
    <3> QED
      BY <2>3, <2>5, <3>4 DEF T
  <2> QED
    BY <2>4, <2>5
<1>10. N \in Settled(h)
  <2> HIDE DEF N, Settled
  <2>1. 1 .. N \subseteq Settled(h)
    BY <1>1, <1>8, <1>9, Climb
  <2> QED
    BY <1>1, <2>1
<1>11. h[N] \in F
  <2> HIDE DEF F, N
  <2>1. N \in 1 .. N
    BY <1>1
  <2> QED
    BY <1>6, <2>1
<1>12. ASSUME NEW S \in SUBSET D PROVE next[h[N]][S] = h[N][S]
  <2>1. Cardinality(S) < N
    BY OneLess, FS_CardinalityType
  <2> QED
    BY <1>10, <2>1
<1>13. h[N] = [S \in SUBSET D |-> Next1(h[N], S)]
  <2>1. \A S \in SUBSET D : h[N][S] = Next1(h[N], S)
    BY <1>7, <1>11, <1>12
  <2> QED
    BY <1>11, <2>1
<1> QED
  BY <1>11, <1>13 DEF Adds

\* Sums of two functions that agree on a finite set agree on its subsets.
LEMMA SumsAgree ==
    ASSUME NEW D, NEW E, E \subseteq D, IsFiniteSet(E), NEW f, NEW g,
           DOMAIN f = D, DOMAIN g = E, \A x \in E : f[x] = g[x],
           NEW s, NEW t, Adds(f, s), Adds(g, t)
    PROVE  \A S \in SUBSET E : s[S] = t[S]
<1> DEFINE Differ == {S \in SUBSET E : s[S] # t[S]}
           Sizes == {Cardinality(S) : S \in Differ}
<1> SUFFICES ASSUME Differ # {} PROVE FALSE
  OBVIOUS
<1>1. Sizes \in SUBSET Nat /\ Sizes # {}
  BY OneLess
<1>2. PICK m \in Sizes : \A k \in Sizes : m <= k
  BY <1>1, LeastNatural
<1>3. PICK S \in Differ : m = Cardinality(S)
  BY <1>2
<1>4. S \in SUBSET E /\ S \in SUBSET D /\ s[S] # t[S]
  OBVIOUS
<1>5. /\ s[S] = IF S = {} THEN 0 ELSE f[AnyOf(S)] + s[S \ {AnyOf(S)}]
      /\ t[S] = IF S = {} THEN 0 ELSE g[AnyOf(S)] + t[S \ {AnyOf(S)}]
  BY <1>4 DEF Adds
<1>6. S # {}
  BY <1>4, <1>5
<1> DEFINE T == S \ {AnyOf(S)}
<1>7. /\ T \in SUBSET E /\ AnyOf(S) \in E
      /\ Cardinality(T) = m - 1 /\ m \in Nat
  BY <1>3, <1>4, <1>6, OneLess
<1>8. T \notin Differ
  <2> SUFFICES ASSUME T \in Differ PROVE FALSE
    OBVIOUS
  <2>1. m - 1 \in Sizes
    BY <1>7
  <2>2. m <= m - 1
    BY <1>2, <2>1
  <2> QED
    BY <1>7, <2>2
<1>9. s[T] = t[T]
  BY <1>7, <1>8
<1> QED
  BY <1>4, <1>5, <1>6, <1>7, <1>9

LEMMA SumOfEmpty ==
    ASSUME NEW f \in [{} -> Int]
    PROVE  Sum(f) = 0
<1>1. \E sums \in [SUBSET {} -> Int] : Adds(f, sums)
  BY FS_EmptySet, SumsExist
<1>2. Adds(f, CHOOSE sums : Adds(f, sums))
  BY <1>1
<1>3. (CHOOSE sums : Adds(f, sums))[DOMAIN f] = 0
  BY <1>2 DEF Adds
<1> QED
  BY <1>3, SumIs

\* A sum may begin anywhere.
LEMMA SumStep ==
    ASSUME NEW D, IsFiniteSet(D), NEW f \in [D -> Int]
    PROVE  /\ Sum(f) \in Int
           /\ \A x \in D : Sum(f) = f[x] + Sum([y \in D \ {x} |-> f[y]])
<1>1. PICK s \in [SUBSET D -> Int] : Adds(f, s)
  BY SumsExist
<1>2. Sum(f) = s[D]
  <2>1. Adds(f, CHOOSE sums : Adds(f, sums))
    BY <1>1
  <2>2. \A S \in SUBSET D : (CHOOSE sums : Adds(f, sums))[S] = s[S]
    BY <1>1, <2>1, SumsAgree
  <2> QED
    BY <2>2, SumIs
<1> DEFINE Odd == {S \in SUBSET D : \E x \in S : s[S] # f[x] + s[S \ {x}]}
           Sizes == {Cardinality(S) : S \in Odd}
<1>3. ASSUME Odd # {} PROVE FALSE
  <2>1. Sizes \in SUBSET Nat /\ Sizes # {}
    <3>1. \A S \in Odd : Cardinality(S) \in Nat
      BY OneLess
    <3> HIDE DEF Odd
    <3> QED
      BY <1>3, <3>1
  <2>2. PICK m \in Sizes : \A k \in Sizes : m <= k
    BY <2>1, LeastNatural
  <2>3. PICK S \in Odd : m = Cardinality(S)
    BY <2>2
  <2>4. S \in SUBSET D
    OBVIOUS
  <2>5. PICK x \in S : s[S] # f[x] + s[S \ {x}]
    OBVIOUS
  <2> DEFINE a == AnyOf(S)
             A == S \ {a}
             X == S \ {x}
             B == X \ {a}
  <2>6. a \in S /\ a \in D /\ x \in D
    BY <2>4, <2>5, OneLess
  <2>7. s[S] = f[a] + s[A]
    BY <1>1, <2>4, <2>5 DEF Adds
  <2>8. x # a
    BY <2>5, <2>7
  <2>9. /\ A \in SUBSET D /\ X \in SUBSET D /\ B \in SUBSET D /\ m \in Nat
        /\ Cardinality(A) = m - 1 /\ Cardinality(X) = m - 1
    BY <2>3, <2>4, <2>6, OneLess
  <2>10. A \notin Odd /\ X \notin Odd
    <3>1. m - 1 \notin Sizes
      BY <2>2, <2>9
    <3> HIDE DEF Odd, A, X
    <3> QED
      BY <2>9, <3>1
  <2>11. s[A] = f[x] + s[A \ {x}] /\ s[X] = f[a] + s[B]
    <3>1. x \in A /\ a \in X
      BY <2>6, <2>8
    <3> HIDE DEF A, X, a
    <3>2. s[A] = f[x] + s[A \ {x}]
      BY <2>9, <2>10, <3>1
    <3>3. s[X] = f[a] + s[X \ {a}]
      BY <2>9, <2>10, <3>1
    <3> QED
      BY <3>2, <3>3
  <2>12. A \ {x} = B
    OBVIOUS
  <2>13. f[a] \in Int /\ f[x] \in Int /\ s[B] \in Int
    BY <1>1, <2>6, <2>9
  <2>14. s[S] # f[x] + s[X]
    BY <2>5
  <2> HIDE DEF A, X, B, a
  <2>15. s[S] = f[a] + (f[x] + s[B])
    BY <2>7, <2>11, <2>12
  <2>16. s[S] # f[x] + (f[a] + s[B])
    BY <2>11, <2>14
  <2> QED
    BY <2>13, <2>15, <2>16
<1>4. ASSUME NEW x \in D PROVE Sum(f) = f[x] + Sum([y \in D \ {x} |-> f[y]])
  <2> DEFINE E == D \ {x}
             g == [y \in E |-> f[y]]
  <2>1. s[D] = f[x] + s[E]
    BY <1>3
  <2>2. IsFiniteSet(E) /\ E \subseteq D /\ g \in [E -> Int]
    BY FS_Subset
  <2>3. PICK t \in [SUBSET E -> Int] : Adds(g, t)
    BY <2>2, SumsExist
  <2>4. Adds(g, CHOOSE sums : Adds(g, sums))
    BY <2>3
  <2>5. (CHOOSE sums : Adds(g, sums))[E] = s[E]
    <3> DEFINE u == CHOOSE sums : Adds(g, sums)
    <3>1. DOMAIN f = D /\ DOMAIN g = E /\ \A y \in E : f[y] = g[y]
      OBVIOUS
    <3>2. Adds(g, u)
      BY <2>4
    <3> HIDE DEF E, g, u
    <3>3. \A S \in SUBSET E : s[S] = u[S]
      BY ONLY <1>1, <2>2, <3>1, <3>2, SumsAgree, SMTT(60)
    <3>4. E \in SUBSET E
      OBVIOUS
    <3>5. u[E] = s[E]
      BY ONLY <3>3, <3>4
    <3> QED
      BY <3>5 DEF u
  <2>6. Sum(g) = s[E]
    BY <2>5, SumIs
  <2> QED
    BY <1>2, <2>1, <2>6
<1> QED
  BY <1>1, <1>2, <1>4

Without(f, x) == [y \in DOMAIN f \ {x} |-> f[y]]

LEMMA SumWithout ==
    ASSUME NEW D, IsFiniteSet(D), NEW f \in [D -> Int], NEW x \in D
    PROVE  Sum(f) = f[x] + Sum(Without(f, x))
<1>1. Without(f, x) = [y \in D \ {x} |-> f[y]]
  BY DEF Without
<1>2. Sum(f) = f[x] + Sum([y \in D \ {x} |-> f[y]])
  BY SumStep, ZenonT(30)
<1> QED
  BY <1>1, <1>2

(* What changes between two functions, and by how much. *)
Changes(D, E, f, g, d) ==
  /\ IsFiniteSet(D) /\ E \subseteq D /\ f \in [D -> Int] /\ g \in [D -> Int]
  /\ d \in [E -> Int]
  /\ \A x \in E : d[x] = g[x] - f[x]
  /\ \A x \in D \ E : g[x] = f[x]

LEMMA OneMoreChanged ==
    ASSUME NEW D, NEW E, NEW f, NEW g, NEW d, Changes(D, E, f, g, d), NEW x \in D,
           Sum(Without(g, x)) = Sum(Without(f, x)) + Sum(Without(d, x))
    PROVE  Sum(g) = Sum(f) + Sum(d)
<1>1. /\ IsFiniteSet(D) /\ f \in [D -> Int] /\ g \in [D -> Int] /\ d \in [E -> Int]
      /\ IsFiniteSet(E)
  BY FS_Subset DEF Changes
<1>2. Sum(f) = f[x] + Sum(Without(f, x)) /\ Sum(g) = g[x] + Sum(Without(g, x))
  BY <1>1, SumWithout
<1>3. /\ Without(f, x) \in [D \ {x} -> Int] /\ Without(g, x) \in [D \ {x} -> Int]
      /\ Without(d, x) \in [E \ {x} -> Int]
      /\ IsFiniteSet(D \ {x}) /\ IsFiniteSet(E \ {x})
  BY <1>1, FS_Subset DEF Without
<1>4. /\ Sum(Without(f, x)) \in Int /\ Sum(Without(g, x)) \in Int /\ Sum(Without(d, x)) \in Int
      /\ f[x] \in Int /\ g[x] \in Int
  BY <1>1, <1>3, SumStep
<1>5. \A i, j, k, l, m \in Int :
        /\ k = l + m => j + k = (i + l) + ((j - i) + m)
        /\ k = l + m => i + k = (i + l) + m
  OBVIOUS
<1>6. CASE x \in E
  <2>1. Sum(d) = (g[x] - f[x]) + Sum(Without(d, x))
    <3>1. d[x] = g[x] - f[x]
      BY <1>6 DEF Changes
    <3> QED
      BY <1>1, <1>6, <3>1, SumWithout
  <2>2. g[x] + Sum(Without(g, x))
          = (f[x] + Sum(Without(f, x))) + ((g[x] - f[x]) + Sum(Without(d, x)))
    BY <1>4, <1>5
  <2> QED
    BY <1>2, <2>1, <2>2
<1>7. CASE x \notin E
  <2>1. g[x] = f[x]
    BY <1>7 DEF Changes
  <2>2. Without(d, x) = d
    BY <1>1, <1>7 DEF Without
  <2>3. f[x] + Sum(Without(g, x)) = (f[x] + Sum(Without(f, x))) + Sum(Without(d, x))
    BY <1>4, <1>5
  <2> QED
    BY <1>2, <2>1, <2>2, <2>3
<1> QED
  BY <1>6, <1>7

\* A sum changes by the differences of the terms that change.
LEMMA SumOfChanged ==
    ASSUME NEW D, NEW E, NEW f, NEW g, NEW d, Changes(D, E, f, g, d)
    PROVE  Sum(g) = Sum(f) + Sum(d)
<1> DEFINE Wrong(A, B, u, v, c) == Changes(A, B, u, v, c) /\ Sum(v) # Sum(u) + Sum(c)
           Sizes == {n \in Nat : \E A, B, u, v, c : Wrong(A, B, u, v, c) /\ Cardinality(A) = n}
<1> SUFFICES ASSUME Wrong(D, E, f, g, d) PROVE FALSE
  OBVIOUS
<1>1. Sizes \in SUBSET Nat /\ Sizes # {}
  <2>1. IsFiniteSet(D) /\ Wrong(D, E, f, g, d)
    BY DEF Changes
  <2>2. Cardinality(D) \in Nat
    BY ONLY <2>1, FS_CardinalityType
  <2> HIDE DEF Wrong
  <2>3. Cardinality(D) \in Sizes
    BY ONLY <2>1, <2>2 DEF Sizes
  <2> QED
    BY ONLY <2>3 DEF Sizes
<1>2. PICK m \in Sizes : \A k \in Sizes : m <= k
  BY <1>1, LeastNatural
<1>3. PICK A, B, u, v, c : Wrong(A, B, u, v, c) /\ Cardinality(A) = m
  OBVIOUS
<1>4. /\ IsFiniteSet(A) /\ B \subseteq A /\ u \in [A -> Int] /\ v \in [A -> Int]
      /\ c \in [B -> Int] /\ Changes(A, B, u, v, c)
  BY <1>3 DEF Changes
<1>5. CASE A = {}
  <2>1. Sum(u) = 0 /\ Sum(v) = 0 /\ Sum(c) = 0
    BY <1>4, <1>5, SumOfEmpty
  <2> QED
    BY <1>3, <2>1
<1>6. CASE A # {}
  <2>1. PICK x \in A : TRUE
    BY <1>6
  <2> DEFINE A1 == A \ {x}
             B1 == B \ {x}
             u1 == Without(u, x)
             v1 == Without(v, x)
             c1 == Without(c, x)
  <2>2. IsFiniteSet(A1) /\ Cardinality(A1) = m - 1 /\ m \in Nat /\ m - 1 \in Nat
    <3>1. Cardinality(A) = m /\ m \in Nat
      BY <1>3, <1>4, FS_CardinalityType
    <3>2. IsFiniteSet(A1) /\ Cardinality(A1) = Cardinality(A) - 1
      BY <1>4, FS_RemoveElement
    <3>3. Cardinality(A1) \in Nat
      BY <3>2, FS_CardinalityType
    <3> QED
      BY <3>1, <3>2, <3>3
  <2>3. Changes(A1, B1, u1, v1, c1)
    <3>1. /\ \A y \in B : c[y] = v[y] - u[y]
          /\ \A y \in A \ B : v[y] = u[y]
      BY <1>4 DEF Changes
    <3>2. /\ u1 \in [A1 -> Int] /\ v1 \in [A1 -> Int] /\ c1 \in [B1 -> Int]
          /\ \A y \in A1 : u1[y] = u[y] /\ v1[y] = v[y]
          /\ \A y \in B1 : c1[y] = c[y]
      BY <1>4 DEF Without
    <3>3. B1 \subseteq A1 /\ (\A y \in B1 : y \in B /\ y \in A1) /\ (\A y \in A1 \ B1 : y \in A \ B)
      BY <1>4
    <3> HIDE DEF A1, B1, u1, v1, c1
    <3> QED
      BY <2>2, <3>1, <3>2, <3>3 DEF Changes
  <2>4. ~Wrong(A1, B1, u1, v1, c1)
    <3>1. m - 1 \notin Sizes
      BY <1>2, <2>2
    <3> HIDE DEF Wrong
    <3> QED
      BY <2>2, <3>1
  <2>5. Sum(v1) = Sum(u1) + Sum(c1)
    BY <2>3, <2>4
  <2>6. Sum(v) = Sum(u) + Sum(c)
    BY <1>4, <2>5, OneMoreChanged
  <2> QED
    BY <1>3, <2>6
<1> QED
  BY <1>5, <1>6

LEMMA SumOfZeros ==
    ASSUME NEW D, IsFiniteSet(D)
    PROVE  Sum([x \in D |-> 0]) = 0
<1> DEFINE z == [x \in D |-> 0]
<1>1. z \in [D -> Int] /\ Changes(D, D, z, z, z)
  BY DEF Changes
<1>2. Sum(z) = 0
  <2> HIDE DEF z
  <2>1. Sum(z) = Sum(z) + Sum(z)
    BY <1>1, SumOfChanged
  <2>2. Sum(z) \in Int
    BY <1>1, SumStep
  <2>3. \A n \in Int : n = n + n => n = 0
    OBVIOUS
  <2> QED
    BY <2>1, <2>2, <2>3, ZenonT(30)
<1> QED
  BY <1>2

-----------------------------------------------------------------------------
(***************************************************************************)
(* What a placement costs, net by net, point by point and cluster by       *)
(* cluster.                                                                *)
(***************************************************************************)
NetAt(n, p) == NetModel(n, p, NoOverride)
NetsAt(p) == [n \in Nets |-> NetAt(n, p)]
WiresAt(p) == [n \in Nets |-> Wire(n, NetAt(n, p))]
TimesAt(p) == [n \in Nets |-> Timing(n, NetAt(n, p))]
LoadsOn(t, p) == [n \in Nets |-> LoadOn(n, NetAt(n, p), t)]
LoadsAt(p) == [t \in Points |-> Sum(LoadsOn(t, p))]
ScoresAt(p) == [t \in Points |-> OverflowScore(LoadsAt(p)[t])]
TermsAt(p) == [c \in GridClusters |-> LocalityTerm(c, p, NoOverride)]

MetricsAt(p) ==
  [wire |-> Sum(WiresAt(p)), timing |-> Sum(TimesAt(p)),
   congestion |-> Sum(ScoresAt(p)), locality |-> Sum(TermsAt(p))]

LEMMA BuildIs ==
    ASSUME NEW p
    PROVE  Build(p) = [placements |-> p, net_models |-> NetsAt(p), loads |-> LoadsAt(p),
                       locality_terms |-> TermsAt(p), metrics |-> MetricsAt(p)]
<1> DEFINE models == NetsAt(p)
           loads == [t \in Points |-> Sum([n \in Nets |-> LoadOn(n, models[n], t)])]
           metrics == [wire |-> Sum([n \in Nets |-> Wire(n, models[n])]),
                       timing |-> Sum([n \in Nets |-> Timing(n, models[n])]),
                       congestion |-> Sum([t \in Points |-> OverflowScore(loads[t])]),
                       locality |-> Sum(TermsAt(p))]
<1>1. Build(p) = [placements |-> p, net_models |-> models, loads |-> loads,
                  locality_terms |-> TermsAt(p), metrics |-> metrics]
  BY DEF Build, NetsAt, NetAt, TermsAt
<1>2. \A n \in Nets : models[n] = NetAt(n, p)
  BY DEF NetsAt
<1> HIDE DEF models
<1>3. \A t : [n \in Nets |-> LoadOn(n, models[n], t)] = LoadsOn(t, p)
  BY <1>2 DEF LoadsOn
<1>4. loads = LoadsAt(p)
  BY <1>3 DEF LoadsAt
<1>5. /\ [n \in Nets |-> Wire(n, models[n])] = WiresAt(p)
      /\ [n \in Nets |-> Timing(n, models[n])] = TimesAt(p)
  BY <1>2 DEF WiresAt, TimesAt
<1>6. [t \in Points |-> OverflowScore(loads[t])] = ScoresAt(p)
  BY <1>4 DEF ScoresAt
<1>7. metrics = MetricsAt(p)
  BY <1>5, <1>6 DEF MetricsAt
<1> QED
  BY <1>1, <1>4, <1>7 DEF models

\* What a placement costs is exact, and its nets, points and clusters are finite.
LEMMA CostsExact ==
    ASSUME NEW p \in [GridClusters -> Points]
    PROVE  /\ WiresAt(p) \in [Nets -> Int] /\ TimesAt(p) \in [Nets -> Int]
           /\ \A t \in Points : LoadsOn(t, p) \in [Nets -> Int]
           /\ LoadsAt(p) \in [Points -> Int] /\ ScoresAt(p) \in [Points -> Int]
           /\ TermsAt(p) \in [GridClusters -> Int]
<1> DEFINE e == Build(p)
<1>1. /\ \A n \in Nets : /\ Wire(n, e.net_models[n]) \in Int /\ Timing(n, e.net_models[n]) \in Int
                         /\ \A t \in Points : LoadOn(n, e.net_models[n], t) \in Int
      /\ \A t \in Points : OverflowScore(e.loads[t]) \in Int
      /\ \A c \in GridClusters : e.locality_terms[c] \in Int
  BY ExactAssumption
<1>2. e.net_models = NetsAt(p) /\ e.loads = LoadsAt(p) /\ e.locality_terms = TermsAt(p)
  BY BuildIs
<1> HIDE DEF e
<1>3. \A n \in Nets : e.net_models[n] = NetAt(n, p)
  BY <1>2 DEF NetsAt
<1>4. WiresAt(p) \in [Nets -> Int] /\ TimesAt(p) \in [Nets -> Int]
  BY <1>1, <1>3 DEF WiresAt, TimesAt
<1>5. \A t \in Points : LoadsOn(t, p) \in [Nets -> Int]
  BY <1>1, <1>3 DEF LoadsOn
<1>6. \A t \in Points : Sum(LoadsOn(t, p)) \in Int
  BY <1>5, EvaluatorAssumption, SumStep
<1>7. LoadsAt(p) \in [Points -> Int]
  BY <1>6 DEF LoadsAt
<1>8. ScoresAt(p) \in [Points -> Int]
  BY <1>1, <1>2 DEF ScoresAt
<1>9. TermsAt(p) \in [GridClusters -> Int]
  BY <1>1, <1>2 DEF TermsAt
<1> QED
  BY <1>4, <1>5, <1>7, <1>8, <1>9

-----------------------------------------------------------------------------
(***************************************************************************)
(* What a candidate affects.                                               *)
(***************************************************************************)
\* A net is as its points are.
LEMMA SamePoints ==
    ASSUME NEW n \in Nets, NEW p, NEW u, NEW q, NEW w,
           PointFor(Driver[n], p, u) = PointFor(Driver[n], q, w),
           \A e \in Sinks[n] : PointFor(e, p, u) = PointFor(e, q, w)
    PROVE  NetModel(n, p, u) = NetModel(n, q, w)
<1> DEFINE P == {PointFor(e, p, u) : e \in Sinks[n]}
           Q == {PointFor(e, q, w) : e \in Sinks[n]}
<1>1. P = Q
  OBVIOUS
<1>2. CASE Driver[n] = Absent \/ Sinks[n] = {}
  BY <1>2 DEF NetModel
<1>3. CASE ~(Driver[n] = Absent \/ Sinks[n] = {})
  BY <1>1, <1>3 DEF NetModel
<1> QED
  BY <1>2, <1>3

LEMMA SameNeighborhood ==
    ASSUME NEW c \in GridClusters, NEW p, NEW u, NEW q, NEW w,
           PointFor(c, p, u) = PointFor(c, q, w),
           \A d \in Neighbors[c] : PointFor(d, p, u) = PointFor(d, q, w)
    PROVE  LocalityTerm(c, p, u) = LocalityTerm(c, q, w)
<1>1. {<<d, PointFor(d, p, u)>> : d \in Neighbors[c]} = {<<d, PointFor(d, q, w)>> : d \in Neighbors[c]}
  OBVIOUS
<1> QED
  BY <1>1 DEF LocalityTerm

(* The placement a candidate is tried on, and the one it leads to. *)
Now == evaluator.placements
Then(u) == Override(Now, u)

(* The caches as they should be, and a move of one or two clusters. *)
Fresh == Now \in [GridClusters -> Points] /\ evaluator = Build(Now)

Moves(u) == DOMAIN u \subseteq GridClusters /\ \A c \in DOMAIN u : u[c] \in Points

AffectedBy(u) == AffectedNets(DOMAIN u, {})
NearBy(u) == AffectedLocality(DOMAIN u, {})
TouchedBy(u) == TouchedLoads(AffectedBy(u), u)

LEMMA UpdatesMove ==
    ASSUME Fresh, NEW u \in Updates
    PROVE  Moves(u)
<1> DEFINE Pairs == {s \in GridClusters \X GridClusters : s[1] # s[2]}
<1>1. \A c \in GridClusters : Now[c] \in Points
  BY DEF Fresh
<1>2. CASE u \in Relocations
  <2>1. PICK c \in GridClusters : u \in {[d \in {c} |-> p] : p \in Points \ {evaluator.placements[c]}}
    BY <1>2 DEF Relocations
  <2>2. PICK p \in Points : u = [d \in {c} |-> p]
    BY <2>1
  <2> QED
    BY <2>2 DEF Moves
<1>3. CASE u \in {Swapped(s) : s \in Pairs}
  <2>1. PICK s \in Pairs : u = Swapped(s)
    BY <1>3
  <2>2. s[1] \in GridClusters /\ s[2] \in GridClusters /\ DOMAIN u = {s[1], s[2]}
    BY <2>1 DEF Swapped
  <2>3. u[s[1]] = Now[s[2]] /\ u[s[2]] \in {Now[s[1]], Now[s[2]]}
    BY <2>1 DEF Swapped, Now
  <2> QED
    BY <1>1, <2>2, <2>3 DEF Moves
<1>4. u \in Relocations \union {Swapped(s) : s \in Pairs}
  BY DEF Updates
<1> QED
  BY <1>2, <1>3, <1>4

LEMMA ThenTyped ==
    ASSUME Fresh, NEW u, Moves(u)
    PROVE  /\ Then(u) \in [GridClusters -> Points]
           /\ \A e : PointFor(e, Now, u) = PointFor(e, Then(u), NoOverride)
           /\ \A e : e \notin DOMAIN u => PointFor(e, Now, NoOverride) = PointFor(e, Then(u), NoOverride)
<1>1. /\ Then(u) = [c \in GridClusters |-> IF c \in DOMAIN u THEN u[c] ELSE Now[c]]
      /\ \A c \in GridClusters : Now[c] \in Points
  BY DEF Then, Override, Fresh
<1>2. Then(u) \in [GridClusters -> Points]
  BY <1>1 DEF Moves
<1>3. \A e : e \notin DOMAIN NoOverride
  BY DEF NoOverride
<1>4. ASSUME NEW e PROVE PointFor(e, Now, u) = PointFor(e, Then(u), NoOverride)
  BY <1>1, <1>3 DEF PointFor, Moves
<1>5. ASSUME NEW e, e \notin DOMAIN u
      PROVE  PointFor(e, Now, NoOverride) = PointFor(e, Then(u), NoOverride)
  BY <1>1, <1>3, <1>5 DEF PointFor, Moves
<1> QED
  BY <1>2, <1>4, <1>5

\* Nets a candidate affects are as they will be, and no others will be different.
LEMMA NetsThen ==
    ASSUME Fresh, NEW u, Moves(u), NEW n \in Nets
    PROVE  /\ evaluator.net_models[n] = NetAt(n, Now)
           /\ NextModel(n, u) = NetAt(n, Then(u))
           /\ n \notin AffectedBy(u) => NetAt(n, Then(u)) = NetAt(n, Now)
<1>1. evaluator.net_models[n] = NetAt(n, Now)
  BY BuildIs DEF Fresh, NetsAt
<1>2. NextModel(n, u) = NetAt(n, Then(u))
  BY ThenTyped, SamePoints DEF NextModel, NetAt, Now
<1>3. ASSUME n \notin AffectedBy(u) PROVE NetAt(n, Then(u)) = NetAt(n, Now)
  <2>1. \A c \in DOMAIN u : n \notin NetsForCluster(c)
    BY <1>3 DEF AffectedBy, AffectedNets
  <2>2. \A c \in DOMAIN u : c # Driver[n] /\ c \notin Sinks[n]
    BY <2>1 DEF NetsForCluster
  <2>3. Driver[n] \notin DOMAIN u /\ \A e \in Sinks[n] : e \notin DOMAIN u
    BY <2>2
  <2>4. /\ PointFor(Driver[n], Now, NoOverride) = PointFor(Driver[n], Then(u), NoOverride)
        /\ \A e \in Sinks[n] : PointFor(e, Now, NoOverride) = PointFor(e, Then(u), NoOverride)
    BY <2>3, ThenTyped
  <2> QED
    BY <2>4, SamePoints DEF NetAt
<1> QED
  BY <1>1, <1>2, <1>3

LEMMA TermsThen ==
    ASSUME Fresh, NEW u, Moves(u), NEW c \in GridClusters
    PROVE  /\ evaluator.locality_terms[c] = TermsAt(Now)[c]
           /\ LocalityTerm(c, Now, u) = TermsAt(Then(u))[c]
           /\ c \notin NearBy(u) => TermsAt(Then(u))[c] = TermsAt(Now)[c]
<1>1. evaluator.locality_terms[c] = TermsAt(Now)[c]
  BY BuildIs DEF Fresh
<1>2. LocalityTerm(c, Now, u) = TermsAt(Then(u))[c]
  BY ThenTyped, SameNeighborhood DEF TermsAt
<1>3. ASSUME c \notin NearBy(u) PROVE TermsAt(Then(u))[c] = TermsAt(Now)[c]
  <2>1. c \notin DOMAIN u /\ \A d \in DOMAIN u : c \notin Neighbors[d]
    BY <1>3 DEF NearBy, AffectedLocality
  <2>2. \A d \in Neighbors[c] : d \notin DOMAIN u
    BY <2>1, EvaluatorAssumption
  <2>3. /\ PointFor(c, Now, NoOverride) = PointFor(c, Then(u), NoOverride)
        /\ \A d \in Neighbors[c] : PointFor(d, Now, NoOverride) = PointFor(d, Then(u), NoOverride)
    BY <2>1, <2>2, ThenTyped
  <2> QED
    BY <2>3, SameNeighborhood DEF TermsAt
<1> QED
  BY <1>1, <1>2, <1>3

\* All that is affected is finite, and part of the design and its grid.
LEMMA AffectedTyped ==
    ASSUME Fresh, NEW u, Moves(u)
    PROVE  /\ AffectedBy(u) \subseteq Nets /\ IsFiniteSet(AffectedBy(u))
           /\ NearBy(u) \subseteq GridClusters
           /\ TouchedBy(u) \subseteq Points
<1>1. AffectedBy(u) \subseteq Nets
  BY DEF AffectedBy, AffectedNets, NetsForCluster
<1>2. NearBy(u) \subseteq GridClusters
  <2>1. \A c \in DOMAIN u : c \in GridClusters /\ Neighbors[c] \subseteq GridClusters
    BY EvaluatorAssumption DEF Moves
  <2> QED
    BY <2>1 DEF NearBy, AffectedLocality
<1>3. TouchedBy(u) \subseteq Points
  <2>1. \A m : Box(m) \subseteq Points
    BY DEF Box
  <2> QED
    BY <2>1 DEF TouchedBy, TouchedLoads
<1>4. IsFiniteSet(AffectedBy(u))
  BY <1>1, EvaluatorAssumption, FS_Subset
<1> QED
  BY <1>1, <1>2, <1>3, <1>4

-----------------------------------------------------------------------------
(***************************************************************************)
(* The differences a candidate is scored by add up.                        *)
(***************************************************************************)
\* The load of every point, worked out from the nets affected, and no change
\* where none of their boxes was or will be.
LEMMA LoadsAddUp ==
    ASSUME Fresh, NEW u, Moves(u), NEW t \in Points
    PROVE  /\ evaluator.loads[t] + LoadDeltas(u, CleanScratch)[t] = LoadsAt(Then(u))[t]
           /\ t \notin TouchedBy(u) => LoadDeltas(u, CleanScratch)[t] = 0
           /\ evaluator.loads[t] = LoadsAt(Now)[t]
           /\ LoadDeltas(u, CleanScratch)[t] \in Int
<1> DEFINE nets == AffectedBy(u)
           d == [n \in nets |-> LoadOn(n, NextModel(n, u), t) - LoadOn(n, evaluator.net_models[n], t)]
           f == LoadsOn(t, Now)
           g == LoadsOn(t, Then(u))
<1>1. LoadDeltas(u, CleanScratch)[t] = 0 + Sum(d)
  BY DEF LoadDeltas, CleanScratch, AffectedBy
<1>2. f \in [Nets -> Int] /\ g \in [Nets -> Int] /\ nets \subseteq Nets /\ IsFiniteSet(nets)
  BY ThenTyped, CostsExact, AffectedTyped DEF Fresh
<1>3. ASSUME NEW n \in nets
      PROVE  /\ LoadOn(n, NextModel(n, u), t) = g[n] /\ LoadOn(n, evaluator.net_models[n], t) = f[n]
             /\ g[n] \in Int /\ f[n] \in Int
  <2>1. n \in Nets
    BY <1>2
  <2>2. evaluator.net_models[n] = NetAt(n, Now) /\ NextModel(n, u) = NetAt(n, Then(u))
    BY <2>1, NetsThen
  <2>3. g[n] \in Int /\ f[n] \in Int
    BY <1>2, <2>1
  <2> QED
    BY <2>1, <2>2, <2>3 DEF LoadsOn
<1>4. ASSUME NEW n \in Nets \ nets PROVE g[n] = f[n]
  <2>1. NetAt(n, Then(u)) = NetAt(n, Now)
    BY NetsThen
  <2> QED
    BY <2>1 DEF LoadsOn
<1>5. d \in [nets -> Int] /\ \A n \in nets : d[n] = g[n] - f[n]
  BY <1>3
<1>6. Changes(Nets, nets, f, g, d)
  <2> HIDE DEF f, g, d, nets
  <2> QED
    BY <1>2, <1>4, <1>5, EvaluatorAssumption DEF Changes
<1>7. Sum(g) = Sum(f) + Sum(d)
  BY <1>6, SumOfChanged
<1>8. Sum(d) \in Int
  <2> HIDE DEF d, nets
  <2> QED
    BY <1>2, <1>5, SumStep
<1>9. evaluator.loads[t] = Sum(f) /\ LoadsAt(Now)[t] = Sum(f) /\ LoadsAt(Then(u))[t] = Sum(g)
  BY BuildIs DEF Fresh, LoadsAt
<1>10. Sum(f) \in Int
  BY <1>2, EvaluatorAssumption, SumStep
<1>11. 0 + Sum(d) = Sum(d)
  <2>1. \A i \in Int : 0 + i = i
    OBVIOUS
  <2> QED
    BY <1>8, <2>1
<1>12. ASSUME t \notin TouchedBy(u) PROVE Sum(d) = 0
  <2>1. ASSUME NEW n \in nets PROVE d[n] = 0
    <3>1. t \notin Box(evaluator.net_models[n]) /\ t \notin Box(NextModel(n, u))
      BY <1>12 DEF TouchedBy, TouchedLoads
    <3>2. LoadOn(n, NextModel(n, u), t) = 0 /\ LoadOn(n, evaluator.net_models[n], t) = 0
      BY <3>1 DEF LoadOn
    <3> QED
      BY <3>2
  <2>2. d = [n \in nets |-> 0]
    BY <2>1
  <2> HIDE DEF d, nets
  <2> QED
    BY <1>2, <2>2, SumOfZeros
<1> QED
  BY <1>1, <1>7, <1>8, <1>9, <1>11, <1>12

\* A sum over nets changes by the differences over the nets affected.
LEMMA MetricsAddUp ==
    ASSUME Fresh, NEW u, Moves(u)
    PROVE  CandidateMetrics(u, CleanScratch) = MetricsAt(Then(u))
<1> DEFINE nets == AffectedBy(u)
           near == NearBy(u)
           touched == TouchedBy(u)
           deltas == LoadDeltas(u, CleanScratch)
           q == Then(u)
           wires == [n \in nets |-> Wire(n, NextModel(n, u)) - Wire(n, evaluator.net_models[n])]
           times == [n \in nets |-> Timing(n, NextModel(n, u)) - Timing(n, evaluator.net_models[n])]
           scores == [t \in touched |-> OverflowScore(evaluator.loads[t] + deltas[t])
                                          - OverflowScore(evaluator.loads[t])]
           terms == [c \in near |-> LocalityTerm(c, Now, u) - evaluator.locality_terms[c]]
<1>1. CandidateMetrics(u, CleanScratch) =
        [wire |-> evaluator.metrics.wire + Sum(wires),
         timing |-> evaluator.metrics.timing + Sum(times),
         congestion |-> evaluator.metrics.congestion + Sum(scores),
         locality |-> evaluator.metrics.locality + Sum(terms)]
  BY DEF CandidateMetrics, CleanScratch, AffectedBy, NearBy, TouchedBy, Now
<1>2. evaluator.metrics = MetricsAt(Now)
  BY BuildIs DEF Fresh
<1>3. /\ nets \subseteq Nets /\ near \subseteq GridClusters /\ touched \subseteq Points
      /\ Now \in [GridClusters -> Points] /\ q \in [GridClusters -> Points]
      /\ IsFiniteSet(Nets) /\ IsFiniteSet(Points) /\ IsFiniteSet(GridClusters)
  BY AffectedTyped, ThenTyped, EvaluatorAssumption DEF Fresh
<1> HIDE DEF nets, near, touched, deltas, q
<1>4. \A n \in nets : evaluator.net_models[n] = NetAt(n, Now) /\ NextModel(n, u) = NetAt(n, q)
  BY <1>3, NetsThen DEF q
<1>5. \A n \in Nets \ nets : NetAt(n, q) = NetAt(n, Now)
  BY <1>3, NetsThen DEF q, nets
<1>6. Sum(WiresAt(q)) = Sum(WiresAt(Now)) + Sum(wires)
  <2>1. WiresAt(Now) \in [Nets -> Int] /\ WiresAt(q) \in [Nets -> Int]
    BY <1>3, CostsExact
  <2>2. \A n \in nets : wires[n] = WiresAt(q)[n] - WiresAt(Now)[n]
    BY <1>3, <1>4 DEF WiresAt
  <2>3. \A n \in Nets \ nets : WiresAt(q)[n] = WiresAt(Now)[n]
    BY <1>5 DEF WiresAt
  <2>4. wires \in [nets -> Int]
    <3>1. \A n \in nets : WiresAt(q)[n] - WiresAt(Now)[n] \in Int
      BY <1>3, <2>1
    <3>2. wires = [n \in nets |-> wires[n]]
      OBVIOUS
    <3> HIDE DEF wires
    <3> QED
      BY <2>2, <3>1, <3>2
  <2> HIDE DEF wires
  <2>5. Changes(Nets, nets, WiresAt(Now), WiresAt(q), wires)
    BY <1>3, <2>1, <2>2, <2>3, <2>4 DEF Changes
  <2> QED
    BY <2>5, SumOfChanged
<1>7. Sum(TimesAt(q)) = Sum(TimesAt(Now)) + Sum(times)
  <2>1. TimesAt(Now) \in [Nets -> Int] /\ TimesAt(q) \in [Nets -> Int]
    BY <1>3, CostsExact
  <2>2. \A n \in nets : times[n] = TimesAt(q)[n] - TimesAt(Now)[n]
    BY <1>3, <1>4 DEF TimesAt
  <2>3. \A n \in Nets \ nets : TimesAt(q)[n] = TimesAt(Now)[n]
    BY <1>5 DEF TimesAt
  <2>4. times \in [nets -> Int]
    <3>1. \A n \in nets : TimesAt(q)[n] - TimesAt(Now)[n] \in Int
      BY <1>3, <2>1
    <3>2. times = [n \in nets |-> times[n]]
      OBVIOUS
    <3> HIDE DEF times
    <3> QED
      BY <2>2, <3>1, <3>2
  <2> HIDE DEF times
  <2>5. Changes(Nets, nets, TimesAt(Now), TimesAt(q), times)
    BY <1>3, <2>1, <2>2, <2>3, <2>4 DEF Changes
  <2> QED
    BY <2>5, SumOfChanged
<1>8. Sum(ScoresAt(q)) = Sum(ScoresAt(Now)) + Sum(scores)
  <2>1. ScoresAt(Now) \in [Points -> Int] /\ ScoresAt(q) \in [Points -> Int]
    BY <1>3, CostsExact
  <2>2. ASSUME NEW t \in Points
        PROVE  /\ evaluator.loads[t] + deltas[t] = LoadsAt(q)[t]
               /\ evaluator.loads[t] = LoadsAt(Now)[t]
    BY LoadsAddUp DEF deltas, q
  <2>3. \A t \in touched : scores[t] = ScoresAt(q)[t] - ScoresAt(Now)[t]
    BY <1>3, <2>2 DEF ScoresAt
  <2>4. ASSUME NEW t \in Points \ touched PROVE ScoresAt(q)[t] = ScoresAt(Now)[t]
    <3>1. deltas[t] = 0
      BY LoadsAddUp DEF deltas, touched
    <3>2. LoadsAt(Now) \in [Points -> Int]
      BY <1>3, CostsExact
    <3>3. evaluator.loads[t] + 0 = evaluator.loads[t]
      BY <2>2, <3>2
    <3>4. LoadsAt(q)[t] = LoadsAt(Now)[t]
      BY <2>2, <3>1, <3>3
    <3> QED
      BY <3>4 DEF ScoresAt
  <2>5. scores \in [touched -> Int]
    <3>1. \A t \in touched : ScoresAt(q)[t] - ScoresAt(Now)[t] \in Int
      BY <1>3, <2>1
    <3>2. scores = [t \in touched |-> scores[t]]
      OBVIOUS
    <3> HIDE DEF scores
    <3> QED
      BY <2>3, <3>1, <3>2
  <2> HIDE DEF scores
  <2>6. Changes(Points, touched, ScoresAt(Now), ScoresAt(q), scores)
    BY <1>3, <2>1, <2>3, <2>4, <2>5 DEF Changes
  <2> QED
    BY <2>6, SumOfChanged
<1>9. Sum(TermsAt(q)) = Sum(TermsAt(Now)) + Sum(terms)
  <2>1. TermsAt(Now) \in [GridClusters -> Int] /\ TermsAt(q) \in [GridClusters -> Int]
    BY <1>3, CostsExact
  <2>2. ASSUME NEW c \in near PROVE terms[c] = TermsAt(q)[c] - TermsAt(Now)[c]
    <3>1. evaluator.locality_terms[c] = TermsAt(Now)[c] /\ LocalityTerm(c, Now, u) = TermsAt(q)[c]
      BY <1>3, TermsThen DEF q
    <3> QED
      BY <3>1
  <2>3. \A c \in GridClusters \ near : TermsAt(q)[c] = TermsAt(Now)[c]
    BY TermsThen DEF near, q
  <2>4. terms \in [near -> Int]
    <3>1. \A c \in near : TermsAt(q)[c] - TermsAt(Now)[c] \in Int
      BY <1>3, <2>1
    <3>2. terms = [c \in near |-> terms[c]]
      OBVIOUS
    <3> HIDE DEF terms
    <3> QED
      BY <2>2, <3>1, <3>2
  <2> HIDE DEF terms
  <2>5. Changes(GridClusters, near, TermsAt(Now), TermsAt(q), terms)
    BY <1>3, <2>1, <2>2, <2>3, <2>4 DEF Changes
  <2> QED
    BY <2>5, SumOfChanged
<1> QED
  BY <1>1, <1>2, <1>6, <1>7, <1>8, <1>9 DEF MetricsAt, q

\* Only what was touched is reset, and that is all there is.
LEMMA ScratchClean ==
    ASSUME Fresh, NEW u, Moves(u)
    PROVE  ClearScratch(CleanScratch, u) = CleanScratch
<1> DEFINE deltas == [t \in Points |-> IF t \in TouchedBy(u) THEN 0 ELSE LoadDeltas(u, CleanScratch)[t]]
<1>1. ClearScratch(CleanScratch, u) = [nets |-> {} \ AffectedBy(u), deltas |-> deltas,
                                       clusters |-> {} \ NearBy(u)]
  BY DEF ClearScratch, CleanScratch, AffectedBy, NearBy, TouchedBy
<1>2. \A t \in Points : deltas[t] = 0
  BY LoadsAddUp
<1>3. deltas = [t \in Points |-> 0]
  BY <1>2
<1>4. {} \ AffectedBy(u) = {} /\ {} \ NearBy(u) = {}
  OBVIOUS
<1> HIDE DEF deltas
<1> QED
  BY <1>1, <1>3, <1>4 DEF CleanScratch

(* The candidate of a move, worked out in clean scratch vectors. *)
CandidateOf(u) ==
  [updates |-> u,
   score |-> CandidateMetrics(u, CleanScratch),
   metrics |-> CandidateMetrics(u, CleanScratch),
   net_updates |-> [n \in AffectedBy(u) |-> NextModel(n, u)],
   load_deltas |-> LoadDeltas(u, CleanScratch),
   locality_updates |-> [c \in NearBy(u) |-> LocalityTerm(c, Now, u)]]

\* An applied candidate leaves what a full evaluation would.
LEMMA AppliedIsBuilt ==
    ASSUME Fresh, NEW u, Moves(u)
    PROVE  Applied(CandidateOf(u)) = Build(Then(u))
<1> DEFINE c == CandidateOf(u)
           q == Then(u)
           nets == Override(evaluator.net_models, c.net_updates)
           loads == [t \in Points |-> evaluator.loads[t] + c.load_deltas[t]]
           terms == Override(evaluator.locality_terms, c.locality_updates)
<1>1. /\ c.updates = u /\ c.metrics = CandidateMetrics(u, CleanScratch)
      /\ c.net_updates = [n \in AffectedBy(u) |-> NextModel(n, u)]
      /\ c.load_deltas = LoadDeltas(u, CleanScratch)
      /\ c.locality_updates = [d \in NearBy(u) |-> LocalityTerm(d, Now, u)]
  BY DEF CandidateOf
<1> HIDE DEF c
<1>2. Applied(c) = [placements |-> q, net_models |-> nets, loads |-> loads,
                    locality_terms |-> terms, metrics |-> c.metrics]
  BY <1>1 DEF Applied, Then, Now
<1>3. nets = NetsAt(q)
  <2>1. DOMAIN evaluator.net_models = Nets
    BY BuildIs DEF Fresh, NetsAt
  <2>2. nets = [n \in Nets |-> IF n \in AffectedBy(u) THEN NextModel(n, u) ELSE evaluator.net_models[n]]
    BY <1>1, <2>1 DEF Override
  <2>3. \A n \in Nets : nets[n] = NetAt(n, q)
    BY <2>2, NetsThen
  <2> HIDE DEF nets
  <2> QED
    BY <2>2, <2>3 DEF NetsAt
<1>4. loads = LoadsAt(q)
  <2>1. \A t \in Points : evaluator.loads[t] + c.load_deltas[t] = LoadsAt(q)[t]
    BY <1>1, LoadsAddUp
  <2> QED
    BY <2>1 DEF LoadsAt
<1>5. terms = TermsAt(q)
  <2>1. DOMAIN evaluator.locality_terms = GridClusters
    BY BuildIs DEF Fresh, TermsAt
  <2>2. terms = [d \in GridClusters |-> IF d \in NearBy(u) THEN LocalityTerm(d, Now, u)
                                        ELSE evaluator.locality_terms[d]]
    BY <1>1, <2>1 DEF Override
  <2>3. \A d \in GridClusters : terms[d] = TermsAt(q)[d]
    BY <2>2, TermsThen
  <2> HIDE DEF terms
  <2> QED
    BY <2>2, <2>3 DEF TermsAt
<1>6. c.metrics = MetricsAt(q)
  BY <1>1, MetricsAddUp
<1> HIDE DEF nets, loads, terms, q
<1>7. Applied(c) = Build(q)
  BY <1>2, <1>3, <1>4, <1>5, <1>6, BuildIs
<1> QED
  BY <1>7 DEF c, q

-----------------------------------------------------------------------------
(***************************************************************************)
(* The caches are fresh, the scratch vectors clean between candidates, and *)
(* a candidate is that of a move of what is placed now.                    *)
(***************************************************************************)
EvaluatorInv ==
  /\ Fresh
  /\ scratch = CleanScratch
  /\ candidate # Absent => \E u \in Updates : candidate = CandidateOf(u)

LEMMA EvaluatorInitInv == EvaluatorInit => EvaluatorInv
<1> SUFFICES ASSUME EvaluatorInit PROVE EvaluatorInv
  OBVIOUS
<1>1. PICK p \in [GridClusters -> Points] : evaluator = Build(p)
  BY DEF EvaluatorInit
<1>2. evaluator.placements = p
  BY <1>1, BuildIs
<1> QED
  BY <1>1, <1>2 DEF EvaluatorInit, EvaluatorInv, Fresh, Now

LEMMA EvaluatorNextInv == EvaluatorInv /\ [EvaluatorNext]_evaluatorVars => EvaluatorInv'
<1> SUFFICES ASSUME EvaluatorInv, [EvaluatorNext]_evaluatorVars PROVE EvaluatorInv'
  OBVIOUS
<1>1. ASSUME evaluator' = evaluator
      PROVE  /\ Fresh' /\ Updates' = Updates
             /\ \A u : CandidateOf(u)' = CandidateOf(u)
  BY <1>1 DEF EvaluatorInv, Fresh, Now, Updates, Relocations, Swapped, CandidateOf, CandidateMetrics, LoadDeltas,
       TouchedLoads, NextModel, AffectedBy, NearBy
<1>2. CASE UNCHANGED evaluatorVars
  <2>1. evaluator' = evaluator /\ scratch' = scratch /\ candidate' = candidate
    BY <1>2 DEF evaluatorVars
  <2> QED
    BY <1>1, <2>1 DEF EvaluatorInv
<1>3. CASE Evaluate
  <2>1. PICK u \in Updates, parallel \in BOOLEAN :
          LET first == IF parallel THEN CleanScratch ELSE scratch
              second == IF parallel THEN scratch ELSE ClearScratch(scratch, u)
              nets == AffectedNets(DOMAIN u, second.nets)
              clusters == AffectedLocality(DOMAIN u, second.clusters)
          IN /\ candidate' =
                  [updates |-> u,
                   score |-> CandidateMetrics(u, first),
                   metrics |-> CandidateMetrics(u, second),
                   net_updates |-> [n \in nets |-> NextModel(n, u)],
                   load_deltas |-> LoadDeltas(u, second),
                   locality_updates |->
                     [c \in clusters |-> LocalityTerm(c, evaluator.placements, u)]]
             /\ scratch' = ClearScratch(second, u)
    BY <1>3 DEF Evaluate
  <2>2. Fresh /\ Moves(u) /\ scratch = CleanScratch
    BY UpdatesMove DEF EvaluatorInv
  <2>3. ClearScratch(CleanScratch, u) = CleanScratch
    BY <2>2, ScratchClean
  <2>4. CleanScratch.nets = {} /\ CleanScratch.clusters = {}
    BY DEF CleanScratch
  <2>5. candidate' = CandidateOf(u) /\ scratch' = CleanScratch
    BY <2>1, <2>2, <2>3, <2>4 DEF CandidateOf, AffectedBy, NearBy, Now
  <2>6. evaluator' = evaluator /\ CleanScratch' = CleanScratch
    BY <1>3 DEF Evaluate, CleanScratch
  <2>7. candidate' = CandidateOf(u)' /\ u \in Updates' /\ Fresh' /\ scratch' = CleanScratch'
    BY <1>1, <2>5, <2>6
  <2> QED
    BY <2>7 DEF EvaluatorInv
<1>4. CASE ApplyCandidate
  <2>1. PICK u \in Updates : candidate = CandidateOf(u)
    BY <1>4 DEF ApplyCandidate, EvaluatorInv
  <2>2. Fresh /\ Moves(u)
    BY UpdatesMove DEF EvaluatorInv
  <2>3. evaluator' = Build(Then(u)) /\ candidate' = Absent /\ scratch' = scratch
    BY <1>4, <2>1, <2>2, AppliedIsBuilt DEF ApplyCandidate
  <2>4. Then(u) \in [GridClusters -> Points]
    BY <2>2, ThenTyped
  <2>5. Build(Then(u)).placements = Then(u)
    BY BuildIs
  <2>6. Now' = Then(u) /\ evaluator' = Build(Now')
    BY <2>3, <2>5 DEF Now
  <2> QED
    BY <2>3, <2>4, <2>6 DEF EvaluatorInv, Fresh
<1>5. CASE DropCandidate
  <2>1. evaluator' = evaluator /\ scratch' = scratch /\ candidate' = Absent
    BY <1>5 DEF DropCandidate
  <2> QED
    BY <1>1, <2>1 DEF EvaluatorInv
<1> QED
  BY <1>2, <1>3, <1>4, <1>5 DEF EvaluatorNext

\* The caches, loads and terms kept over any number of applied and dropped
\* candidates are those of a full evaluation (cost.rs, apply_candidate).
THEOREM EvaluatorInvariant == EvaluatorSpec => []EvaluatorInv
  BY EvaluatorInitInv, EvaluatorNextInv, PTL DEF EvaluatorSpec

\* A candidate's score is what it would cost, and what is applied is what was
\* scored (cost.rs).
THEOREM EvaluatorTrueHolds == EvaluatorSpec => []EvaluatorTrue
<1>1. EvaluatorInv => EvaluatorTrue
  <2> SUFFICES ASSUME EvaluatorInv PROVE EvaluatorTrue
    OBVIOUS
  <2>1. Fresh
    BY DEF EvaluatorInv
  <2>2. CachesCurrent
    BY <2>1 DEF Fresh, CachesCurrent, Now
  <2>3. ASSUME candidate # Absent PROVE CandidateTrue
    <3>1. PICK u \in Updates : candidate = CandidateOf(u)
      BY <2>3 DEF EvaluatorInv
    <3>2. CandidateMetrics(u, CleanScratch) = MetricsAt(Then(u))
      BY <2>1, <3>1, UpdatesMove, MetricsAddUp
    <3>3. /\ candidate.score = MetricsAt(Then(u)) /\ candidate.metrics = MetricsAt(Then(u))
          /\ candidate.updates = u
      BY <3>1, <3>2 DEF CandidateOf
    <3>4. Build(Then(u)).metrics = MetricsAt(Then(u))
      BY BuildIs
    <3> QED
      BY <3>3, <3>4 DEF CandidateTrue, Then, Now
  <2>4. CandidateTrue
    BY <2>3 DEF CandidateTrue
  <2> QED
    BY <2>2, <2>4 DEF EvaluatorTrue
<1> QED
  BY <1>1, EvaluatorInvariant, PTL
=============================================================================
