----------------------------- MODULE Placement -----------------------------
(***************************************************************************)
(* The placement stage (stages/place): requests of the fixed clusters are  *)
(* checked, the other clusters get an initial site, an annealing loop and  *)
(* a refinement loop improve the placement, and every site's clusters are  *)
(* given distinct slice slots.                                             *)
(*                                                                         *)
(* Clusters are numbered as in the design.  What a placement costs is the  *)
(* operator Cost: module PlacementEvaluator is about how it is computed.   *)
(* Which sites a centroid or a random draw proposes is nondeterministic,   *)
(* and so is the acceptance of a worse trial, whose probability is never   *)
(* zero.                                                                   *)
(***************************************************************************)
EXTENDS Integers, FiniteSets, FiniteSetsExt, Sequences, Functions

CONSTANTS
  LogicClusters, BramClusters,  \* the clusters, by kind (numbers)
  Fixed,                        \* the clusters that arrive with a site
  LogicSites, BramSites,        \* the sites the architecture exposes, by kind
  SlicesPerTile,                \* clusters a logic site holds
  Requests,                     \* possible site and slot requests of Fixed
  FocusOrder,                   \* the movable clusters by falling weight
  None,                         \* no site, no slot
  Cost(_),                      \* cost of a placement
  Iterations,                   \* bound of the annealing loop
  MinCompletion,                \* iterations before an early stop
  StallLimit,                   \* steps without a new best before a swap
  PassLimit                     \* refinement passes

Clusters == LogicClusters \union BramClusters
Movable == Clusters \ Fixed
Sites == LogicSites \union BramSites

ASSUME PlacementAssumption ==
  /\ Clusters \subseteq Nat /\ IsFiniteSet(Clusters) /\ Fixed \subseteq Clusters
  /\ LogicClusters \intersect BramClusters = {}
  /\ LogicSites \intersect BramSites = {}
  /\ IsFiniteSet(Sites) /\ None \notin Sites \union Nat
  /\ SlicesPerTile \in Nat \ {0}
  /\ Requests \subseteq [Fixed -> [site : Sites, slot : Nat]]
  /\ FocusOrder \in Seq(Movable) /\ Range(FocusOrder) = Movable
  /\ \A p \in [Clusters -> Sites] : Cost(p) \in Int
  /\ Iterations \in Nat /\ MinCompletion \in 0 .. Iterations
  /\ StallLimit \in Nat /\ PassLimit \in Nat \ {0}

VARIABLES
  phase,    \* where the stage is
  request,  \* the requests of the fixed clusters
  state,    \* the annealer's current and trial placements, occupancy and cost
  best,     \* the best solution so far
  step,     \* iterations done
  stall,    \* iterations since the best solution improved
  pass,     \* refinement pass
  index,    \* next entry of FocusOrder in this pass
  improved, \* has this pass improved the placement?
  slots     \* the slot of each cluster

vars == <<phase, request, state, best, step, stall, pass, index, improved, slots>>

KindSites(c) == IF c \in BramClusters THEN BramSites ELSE LogicSites
KindCapacity(c) == IF c \in BramClusters THEN 1 ELSE SlicesPerTile
SameKind(c) == IF c \in BramClusters THEN BramClusters ELSE LogicClusters

(* The clusters at every site of a placement. *)
OccupancyMap(placements) ==
  [s \in Sites |-> {c \in Clusters : placements[c] = s}]

(* The state of the loops for a placement, evaluated from scratch. *)
StateOf(placements) ==
  [current |-> placements, trial |-> placements,
   occupancy |-> OccupancyMap(placements), total |-> Cost(placements)]

Unplaced == [c \in Clusters |-> None]

Init ==
  /\ phase = "prepare"
  /\ request \in Requests
  /\ state = [current |-> Unplaced, trial |-> Unplaced,
              occupancy |-> OccupancyMap(Unplaced), total |-> 0]
  /\ best = [placements |-> Unplaced, total |-> 0]
  /\ step = 0 /\ stall = 0 /\ pass = 1 /\ index = 1 /\ improved = FALSE
  /\ slots = [c \in Clusters |-> IF c \in Fixed THEN request[c].slot ELSE None]

(***************************************************************************)
(* Checks before the solver, and the initial placement.                    *)
(***************************************************************************)
FixedBrams == Fixed \intersect BramClusters

(* assign_block_ram_clusters *)
BramsRefused ==
  \/ Cardinality(BramClusters) > Cardinality(BramSites)
  \/ \E c \in FixedBrams : request[c].site \notin BramSites
  \/ \E c, d \in FixedBrams : c # d /\ request[c].site = request[d].site

(* More logic clusters than slots, even with every site full. *)
LogicRefused ==
  Cardinality(LogicClusters) > Cardinality(LogicSites) * SlicesPerTile

(* Mutant: a site that is just full is refused to fixed clusters. *)
FixedRefused_AtCapacity ==
  \E c \in Fixed :
    \/ request[c].site \notin KindSites(c)
    \/ Cardinality({d \in Fixed : request[d].site = request[c].site}) >= KindCapacity(c)

(* A fixed cluster on a site of another kind, or too many at one site. *)
FixedRefused ==
  \E c \in Fixed :
    \/ request[c].site \notin KindSites(c)
    \/ Cardinality({d \in Fixed : request[d].site = request[c].site}) > KindCapacity(c)

Prepare ==
  /\ phase = "prepare"
  /\ ~BramsRefused /\ ~LogicRefused /\ ~FixedRefused
  /\ LET placements == [c \in Clusters |-> IF c \in Fixed THEN request[c].site ELSE None]
     IN state' = [state EXCEPT !.current = placements,
                               !.occupancy = OccupancyMap(placements)]
  /\ phase' = "initial"
  /\ UNCHANGED <<request, best, step, stall, pass, index, improved, slots>>

PrepareFails ==
  /\ phase = "prepare"
  /\ BramsRefused \/ LogicRefused \/ FixedRefused
  /\ phase' = "failed"
  /\ UNCHANGED <<request, state, best, step, stall, pass, index, improved, slots>>

Waiting == {c \in Movable : state.current[c] = None}
Available(c) == {s \in KindSites(c) : Cardinality(state.occupancy[s]) < KindCapacity(c)}

(* The next cluster goes to an available site, the nearest to some point. *)
PlaceCluster ==
  /\ phase = "initial"
  /\ \E c \in Waiting : \E s \in Available(c) :
       LET placements == [state.current EXCEPT ![c] = s]
       IN state' = [state EXCEPT !.current = placements,
                                 !.occupancy = OccupancyMap(placements)]
  /\ UNCHANGED <<phase, request, best, step, stall, pass, index, improved, slots>>

(* With at most one movable cluster the initial placement is the solution. *)
BeginAnneal ==
  /\ phase = "initial" /\ Waiting = {}
  /\ state' = StateOf(state.current)
  /\ best' = [placements |-> state.current, total |-> Cost(state.current)]
  /\ phase' = IF Cardinality(Movable) <= 1 THEN "solved" ELSE "anneal"
  /\ UNCHANGED <<request, step, stall, pass, index, improved, slots>>

(***************************************************************************)
(* Moves.  An update is a function from the moved clusters to their sites. *)
(***************************************************************************)
Apply(placements, update) ==
  [c \in Clusters |-> IF c \in DOMAIN update THEN update[c] ELSE placements[c]]

NoUpdate == [c \in {} |-> None]

(* The movable occupants of a full site the focus may change places with;  *)
(* the code takes the first.                                               *)
Displaceable(s, focus, target) == (s.occupancy[target] \ {focus}) \ Fixed

(* Mutant: the kind of the target site is not looked at. *)
PlanTargetUpdates_NoMask(s, focus, target) ==
  IF s.current[focus] = target THEN {NoUpdate}
  ELSE IF Cardinality(s.occupancy[target]) < KindCapacity(focus)
         THEN {[c \in {focus} |-> target]}
  ELSE {}

(* plan_target_updates: the update that brings the focus to the target, as *)
(* a set that is empty when there is none.                                 *)
PlanTargetUpdates(s, focus, target) ==
  IF s.current[focus] = target THEN {NoUpdate}
  ELSE IF target \notin KindSites(focus) THEN {}
  ELSE IF Cardinality(s.occupancy[target]) < KindCapacity(focus)
         THEN {[c \in {focus} |-> target]}
  ELSE IF Displaceable(s, focus, target) = {} THEN {}
  ELSE LET occupant == Min(Displaceable(s, focus, target))
       IN {[c \in {focus, occupant} |-> IF c = focus THEN target ELSE s.current[focus]]}

(* The sites nobody but the focus is on. *)
FreeFor(s, focus) == {t \in KindSites(focus) : s.occupancy[t] \ {focus} = {}}

(* candidate_targets: free sites only for a relocation, when there are any *)
(* near; otherwise the present site and sites near the neighbours, whose   *)
(* own sites are proposed whatever their kind.  A block RAM tries all.     *)
(* Which sites are near is nondeterministic.  One of them at a time is     *)
(* enough: the cheapest of a larger set is also the cheapest of a set with *)
(* it as the only proposal.                                                *)
Near(s) == LogicSites \union {s.current[c] : c \in Clusters}

CandidateTargets(s, focus) ==
  IF focus \in BramClusters
  THEN {BramSites} \union ({FreeFor(s, focus)} \ {{}})
  ELSE {{t} : t \in FreeFor(s, focus)} \union {{t, s.current[focus]} : t \in Near(s)}

(* The cheapest of some updates, each evaluated on the trial placement. *)
Cheapest(s, updates) ==
  {u \in updates : \A v \in updates : Cost(Apply(s.trial, u)) <= Cost(Apply(s.trial, v))}

Planned(s, focus, targets) == UNION {PlanTargetUpdates(s, focus, t) : t \in targets}

(* Mutant: the trial placement does not follow an accepted move. *)
Moved_TrialKept(s, update) ==
  [current   |-> Apply(s.current, update),
   trial     |-> s.trial,
   occupancy |-> OccupancyMap(Apply(s.current, update)),
   total     |-> Cost(Apply(s.trial, update))]

(* The current and the trial placement both take an accepted update. *)
Moved(s, update) ==
  [current   |-> Apply(s.current, update),
   trial     |-> Apply(s.trial, update),
   occupancy |-> OccupancyMap(Apply(s.current, update)),
   total     |-> Cost(Apply(s.trial, update))]

UpdateBest(b, s) ==
  IF s.total < b.total THEN [placements |-> s.current, total |-> s.total] ELSE b

(* accept_trial: a worse trial may be accepted, any other one is. *)
AcceptTrial(s, update) ==
  IF Cost(Apply(s.trial, update)) <= s.total THEN {TRUE} ELSE BOOLEAN

(* Two movable clusters of a kind that change places. *)
SwapUpdates(s) ==
  {[c \in {pair[1], pair[2]} |-> s.current[IF c = pair[1] THEN pair[2] ELSE pair[1]]] :
     pair \in {p \in Movable \X Movable : p[1] # p[2] /\ p[2] \in SameKind(p[1])}}

LonelyMovable == \E c \in Movable : SameKind(c) \intersect Movable = {c}

(* maybe_apply_full_swap: the states a random swap may lead to; a swap is  *)
(* kept only when it makes the placement cheaper.                          *)
AfterSwap(s) ==
  {IF Cost(Apply(s.trial, u)) < s.total THEN Moved(s, u) ELSE s : u \in SwapUpdates(s)}
    \union (IF LonelyMovable THEN {s} ELSE {})

(***************************************************************************)
(* The annealing loop.                                                     *)
(***************************************************************************)
(* The state and the best solution after a trial, and the stall counter.   *)
AfterTrial(update, accept) ==
  LET moved == IF accept THEN Moved(state, update) ELSE state
  IN [state |-> moved, best |-> UpdateBest(best, moved),
      stall |-> IF moved.total < best.total THEN 0 ELSE stall + 1]

Trial ==
  /\ phase = "anneal"
  /\ \E focus \in Movable : \E targets \in CandidateTargets(state, focus) :
     \E update \in Cheapest(state, Planned(state, focus, targets)) :
     \E accept \in AcceptTrial(state, update) :
       LET after == AfterTrial(update, accept) IN
       IF after.stall > StallLimit
       THEN /\ state' \in AfterSwap(after.state)
            /\ best' = UpdateBest(after.best, state')
            /\ stall' = 0
       ELSE state' = after.state /\ best' = after.best /\ stall' = after.stall
  /\ step' = step + 1
  /\ UNCHANGED <<phase, request, pass, index, improved, slots>>

AnnealStep == step < Iterations /\ Trial

(* Mutant: refinement starts from where the annealer stopped. *)
BeginRefinement_FromCurrent ==
  /\ phase = "anneal" /\ step >= MinCompletion
  /\ state' = StateOf(state.current) /\ phase' = "refine"
  /\ UNCHANGED <<request, best, step, stall, pass, index, improved, slots>>

(* The loop ends at its bound or, on a plateau, before it.  The refinement *)
(* starts from the best solution, evaluated anew; should that turn out to  *)
(* cost more than it was recorded with, it is returned as it is.           *)
BeginRefinement ==
  /\ phase = "anneal" /\ step >= MinCompletion
  /\ state' = StateOf(best.placements)
  /\ phase' = IF Cost(best.placements) > best.total THEN "solved" ELSE "refine"
  /\ UNCHANGED <<request, best, step, stall, pass, index, improved, slots>>

(***************************************************************************)
(* The refinement loop.                                                    *)
(***************************************************************************)
RefinementTargets(s, focus) ==
  IF focus \in BramClusters THEN {BramSites}
  ELSE {{t, s.current[focus]} : t \in Near(s)}

Improving(s, updates) == {u \in updates : Cost(Apply(s.trial, u)) < s.total}

(* Mutant: the flag tells of the last cluster, not of the pass. *)
RefineFocus_FlagOfLast ==
  /\ phase = "refine" /\ index <= Len(FocusOrder)
  /\ LET focus == FocusOrder[index] IN
     \E targets \in RefinementTargets(state, focus) :
       LET better == Improving(state, Planned(state, focus, targets)) IN
       /\ IF better = {} THEN UNCHANGED state
          ELSE \E update \in Cheapest(state, better) : state' = Moved(state, update)
       /\ improved' = (better # {})
  /\ index' = index + 1
  /\ UNCHANGED <<phase, request, best, step, stall, pass, slots>>

RefineFocus ==
  /\ phase = "refine" /\ index <= Len(FocusOrder)
  /\ LET focus == FocusOrder[index] IN
     \E targets \in RefinementTargets(state, focus) :
       LET better == Improving(state, Planned(state, focus, targets)) IN
       IF better = {} THEN UNCHANGED <<state, improved>>
       ELSE /\ \E update \in Cheapest(state, better) : state' = Moved(state, update)
            /\ improved' = TRUE
  /\ index' = index + 1
  /\ UNCHANGED <<phase, request, best, step, stall, pass, slots>>

NextPass ==
  /\ phase = "refine" /\ index > Len(FocusOrder)
  /\ IF improved /\ pass < PassLimit
     THEN pass' = pass + 1 /\ index' = 1 /\ improved' = FALSE /\ phase' = phase
     ELSE phase' = "solved" /\ UNCHANGED <<pass, index, improved>>
  /\ UNCHANGED <<request, state, best, step, stall, slots>>

(***************************************************************************)
(* assign_cluster_slots.                                                   *)
(***************************************************************************)
At(s) == {c \in Clusters : state.current[c] = s}
Slots == 0 .. SlicesPerTile - 1
TakenSlots(s) == {slots[c] : c \in At(s) \intersect Fixed}

SlotsRefused(s) ==
  \/ Cardinality(At(s)) > SlicesPerTile
  \/ \E c \in At(s) \intersect Fixed : slots[c] \notin Slots
  \/ \E c, d \in At(s) \intersect Fixed : c # d /\ slots[c] = slots[d]

(* The first free slot, after those the clusters before c have taken. *)
FirstFree(c) ==
  LET s == state.current[c]
      free == Slots \ TakenSlots(s)
      before == {d \in At(s) \ Fixed : d < c}
  IN CHOOSE n \in free : Cardinality({m \in free : m < n}) = Cardinality(before)

AssignSlots ==
  /\ phase = "solved" /\ \A s \in Sites : ~SlotsRefused(s)
  /\ slots' = [c \in Clusters |-> IF c \in Fixed THEN slots[c] ELSE FirstFree(c)]
  /\ phase' = "done"
  /\ UNCHANGED <<request, state, best, step, stall, pass, index, improved>>

AssignSlotsFails ==
  /\ phase = "solved" /\ \E s \in Sites : SlotsRefused(s)
  /\ phase' = "failed"
  /\ UNCHANGED <<request, state, best, step, stall, pass, index, improved, slots>>

Finished ==
  /\ phase \in {"done", "failed"}
  /\ UNCHANGED vars

Next ==
  \/ Prepare \/ PrepareFails \/ PlaceCluster \/ BeginAnneal
  \/ AnnealStep \/ BeginRefinement \/ RefineFocus \/ NextPass
  \/ AssignSlots \/ AssignSlotsFails \/ Finished

Spec == Init /\ [][Next]_vars

(***************************************************************************)
(* Properties.                                                             *)
(***************************************************************************)
Legal(placements) ==
  /\ \A c \in Clusters : placements[c] # None =>
       /\ placements[c] \in KindSites(c)
       /\ Cardinality({d \in Clusters : placements[d] = placements[c]}) <= KindCapacity(c)
  /\ \A c \in Fixed : placements[c] = request[c].site

(* From the initial placement to the last refinement move, and whatever    *)
(* swaps displaced whom: clusters are on sites of their kind, no site      *)
(* holds more than its capacity, and fixed clusters stay where they were   *)
(* asked to be; so in the best solution, which refinement starts from.  At *)
(* the end the clusters of a site have slots of their own, and a fixed one *)
(* the slot it asked for.                                                  *)
PlacementLegal ==
  /\ phase \notin {"prepare", "failed"} => Legal(state.current)
  /\ phase \in {"anneal", "refine", "solved", "done"} => Legal(best.placements)
  /\ phase = "done" =>
       /\ \A c \in Clusters : slots[c] \in Slots
       /\ \A c, d \in Clusters :
            c # d /\ state.current[c] = state.current[d] => slots[c] # slots[d]
       /\ \A c \in Fixed : slots[c] = request[c].slot

(* The total every decision is compared with is what the current placement *)
(* costs, although it was computed on the trial placement, and the         *)
(* occupancy moves are planned with is that of the current placement.      *)
StateCurrent ==
  phase \in {"anneal", "refine", "solved"} =>
    /\ state.total = Cost(state.current)
    /\ state.occupancy = OccupancyMap(state.current)

(* What is returned costs no more than any placement passed on the way:    *)
(* the best is never worse than the current one, its total is its cost and *)
(* only falls, and refinement starts from it and only falls.               *)
NeverWorse ==
  [][/\ phase = "anneal" => best.total = Cost(best.placements) /\ best.total <= state.total
     /\ phase = "anneal" => best'.total <= best.total
     /\ phase \in {"anneal", "refine"} /\ phase' \in {"refine", "solved"} =>
          state'.total <= IF phase = "anneal" THEN best.total ELSE state.total]_vars

(* Refinement tries every cluster against placements the others go on      *)
(* changing, and a block RAM on every site of its kind: a refinement that  *)
(* ends because a pass improved nothing ends where no block RAM could move *)
(* to a cheaper site, free or held by one it may change places with.       *)
NoCheaperRamSite ==
  phase \in {"solved", "done"} /\ ~improved /\ Cardinality(Movable) > 1 =>
    \A c \in BramClusters \ Fixed :
      \A update \in Planned(state, c, BramSites) :
        Cost(Apply(state.current, update)) >= Cost(state.current)

(* A placement with slots that honours the requests exists. *)
Feasible ==
  /\ \A c \in Fixed : request[c].site \in KindSites(c) /\ request[c].slot \in Slots
  /\ \E p \in [Movable -> Sites \X Slots] :
       LET at(c) == IF c \in Fixed THEN <<request[c].site, request[c].slot>> ELSE p[c] IN
       /\ \A c \in Movable : p[c][1] \in KindSites(c)
       /\ \A c, d \in Clusters : c # d =>
            /\ at(c) # at(d)
            /\ c \in BramClusters => at(c)[1] # at(d)[1]

(* Placement fails only on designs that have no legal placement.           *)
FailsOnlyIfInfeasible == phase = "failed" => ~Feasible
=============================================================================
