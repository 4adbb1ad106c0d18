------------------------- MODULE PlacementEvaluator -------------------------
(***************************************************************************)
(* The placement evaluator (stages/place/cost.rs).  It caches the bounding *)
(* box of every net, the load of every grid cell and the locality term of  *)
(* every cluster, and works out what a candidate costs from the nets and   *)
(* clusters the candidate affects only, in scratch vectors it reuses.      *)
(*                                                                         *)
(* The numbers a box, a load or a position stands for are operators of     *)
(* integers; the rounding of floating point sums is left out.              *)
(***************************************************************************)
EXTENDS Integers, FiniteSets, FiniteSetsExt

CONSTANTS
  GridClusters, Nets,
  Driver,           \* the driver of each net: a cluster, a port's point or Absent
  Sinks,            \* the clusters and port points each net drives
  Neighbors,        \* the neighbours of each cluster in the cluster graph
  Points,           \* grid points <<x, y>>
  Absent,
  WireCost(_, _), TimingCost(_, _),  \* of a net with its box
  CellLoad(_, _),                    \* what a net adds to every cell of its box
  OverflowScore(_),                  \* of the load of a cell
  LocalityCost(_, _)                 \* of a cluster with the points around it

(* What a model of a design gives. *)
ASSUME EvaluatorAssumption ==
  /\ IsFiniteSet(GridClusters) /\ IsFiniteSet(Nets) /\ IsFiniteSet(Points)
  /\ GridClusters \intersect Points = {} /\ Absent \notin GridClusters \union Points
  /\ Driver \in [Nets -> GridClusters \union Points \union {Absent}]
  /\ Sinks \in [Nets -> SUBSET (GridClusters \union Points)]
  /\ Neighbors \in [GridClusters -> SUBSET GridClusters]
  /\ \A c, d \in GridClusters : d \in Neighbors[c] => c \in Neighbors[d]

VARIABLES
  evaluator,  \* placements, caches and metrics
  scratch,    \* the reused vectors: seen nets and clusters, load deltas
  candidate   \* the candidate last evaluated, or Absent

evaluatorVars == <<evaluator, scratch, candidate>>

Sum(f) == MapThenSumSet(LAMBDA x : f[x], DOMAIN f)

(***************************************************************************)
(* Boxes, loads and locality under a set of position overrides.            *)
(***************************************************************************)
NoOverride == [c \in {} |-> Absent]

(* Mutant: the overrides are not looked at. *)
PointFor_OldPlace(e, placements, updates) == IF e \in GridClusters THEN placements[e] ELSE e

(* OverrideLookup: the overridden, else the current point of an endpoint. *)
PointFor(e, placements, updates) ==
  IF e \in DOMAIN updates THEN updates[e]
  ELSE IF e \in GridClusters THEN placements[e] ELSE e

(* The model of a net without a driver or without a sink is Absent. *)
NetModel(n, placements, updates) ==
  IF Driver[n] = Absent \/ Sinks[n] = {} THEN Absent
  ELSE LET src == PointFor(Driver[n], placements, updates)
           points == {src} \union {PointFor(e, placements, updates) : e \in Sinks[n]}
           xs == {p[1] : p \in points}
           ys == {p[2] : p \in points}
       IN [min |-> <<Min(xs), Min(ys)>>, max |-> <<Max(xs), Max(ys)>>, src |-> src]

(* The cells of a net's box, and the load it puts on each of them. *)
Box(m) == IF m = Absent THEN {} ELSE
  {p \in Points : /\ m.min[1] <= p[1] /\ p[1] <= m.max[1]
                  /\ m.min[2] <= p[2] /\ p[2] <= m.max[2]}
LoadOn(n, m, p) == IF p \in Box(m) THEN CellLoad(n, m) ELSE 0
Wire(n, m) == IF m = Absent THEN 0 ELSE WireCost(n, m)
Timing(n, m) == IF m = Absent THEN 0 ELSE TimingCost(n, m)

LocalityTerm(c, placements, updates) ==
  LocalityCost(PointFor(c, placements, updates),
               {<<d, PointFor(d, placements, updates)>> : d \in Neighbors[c]})

(***************************************************************************)
(* build_evaluation_state: everything from the placements alone.           *)
(***************************************************************************)
Build(placements) ==
  LET models == [n \in Nets |-> NetModel(n, placements, NoOverride)]
      terms == [c \in GridClusters |-> LocalityTerm(c, placements, NoOverride)]
      loads == [p \in Points |-> Sum([n \in Nets |-> LoadOn(n, models[n], p)])]
  IN [placements |-> placements, net_models |-> models, loads |-> loads,
      locality_terms |-> terms,
      metrics |-> [wire       |-> Sum([n \in Nets |-> Wire(n, models[n])]),
                   timing     |-> Sum([n \in Nets |-> Timing(n, models[n])]),
                   congestion |-> Sum([p \in Points |-> OverflowScore(loads[p])]),
                   locality   |-> Sum(terms)]]

(* What a placement costs is made of exact numbers. *)
ASSUME ExactAssumption ==
  \A placements \in [GridClusters -> Points] :
    LET e == Build(placements) IN
    /\ \A n \in Nets : /\ Wire(n, e.net_models[n]) \in Int /\ Timing(n, e.net_models[n]) \in Int
                       /\ \A p \in Points : LoadOn(n, e.net_models[n], p) \in Int
    /\ \A p \in Points : OverflowScore(e.loads[p]) \in Int
    /\ \A c \in GridClusters : e.locality_terms[c] \in Int

CleanScratch == [nets |-> {}, deltas |-> [p \in Points |-> 0], clusters |-> {}]

EvaluatorInit ==
  /\ evaluator \in {Build(placements) : placements \in [GridClusters -> Points]}
  /\ scratch = CleanScratch
  /\ candidate = Absent

(***************************************************************************)
(* A candidate: the nets of the moved clusters, each once, and the terms   *)
(* of the moved clusters and their neighbours.                             *)
(***************************************************************************)
NetsForCluster(c) == {n \in Nets : c = Driver[n] \/ c \in Sinks[n]}
AffectedNets(moved, seen) == UNION {NetsForCluster(c) : c \in moved} \ seen

(* Mutant: the moved clusters' neighbours are left out. *)
AffectedLocality_MovedOnly(moved, seen) == moved \ seen

AffectedLocality(moved, seen) ==
  (moved \union UNION {Neighbors[c] : c \in moved}) \ seen

NextModel(n, updates) == NetModel(n, evaluator.placements, updates)

(* The cells the affected nets leave or enter. *)
TouchedLoads(nets, updates) ==
  UNION {Box(evaluator.net_models[n]) \union Box(NextModel(n, updates)) : n \in nets}

LoadDeltas(updates, sc) ==
  [p \in Points |-> sc.deltas[p] +
     Sum([n \in AffectedNets(DOMAIN updates, sc.nets) |->
            LoadOn(n, NextModel(n, updates), p) - LoadOn(n, evaluator.net_models[n], p)])]

(* What the placement would cost: the present metrics and the differences. *)
CandidateMetrics(updates, sc) ==
  LET nets == AffectedNets(DOMAIN updates, sc.nets)
      clusters == AffectedLocality(DOMAIN updates, sc.clusters)
      deltas == LoadDeltas(updates, sc)
      next(n) == NextModel(n, updates)
      prev(n) == evaluator.net_models[n]
      loads == evaluator.loads
      was == evaluator.metrics
  IN [wire       |-> was.wire + Sum([n \in nets |-> Wire(n, next(n)) - Wire(n, prev(n))]),
      timing     |-> was.timing + Sum([n \in nets |-> Timing(n, next(n)) - Timing(n, prev(n))]),
      congestion |-> was.congestion
        + Sum([p \in TouchedLoads(nets, updates) |->
                 OverflowScore(loads[p] + deltas[p]) - OverflowScore(loads[p])]),
      locality   |-> was.locality
        + Sum([c \in clusters |-> LocalityTerm(c, evaluator.placements, updates)
                                   - evaluator.locality_terms[c]])]

(* Only the entries that were touched are reset. *)
ClearScratch(sc, updates) ==
  LET nets == AffectedNets(DOMAIN updates, sc.nets) IN
  [nets |-> sc.nets \ nets,
   deltas |-> [p \in Points |-> IF p \in TouchedLoads(nets, updates) THEN 0
                                ELSE LoadDeltas(updates, sc)[p]],
   clusters |-> sc.clusters \ AffectedLocality(DOMAIN updates, sc.clusters)]

(* The moves of the solver: one cluster to another point, or two clusters  *)
(* that change places.                                                     *)
Relocations ==
  UNION {{[d \in {c} |-> p] : p \in Points \ {evaluator.placements[c]}} : c \in GridClusters}

Swapped(s) ==
  [d \in {s[1], s[2]} |-> evaluator.placements[IF d = s[1] THEN s[2] ELSE s[1]]]

Updates ==
  Relocations \union {Swapped(s) : s \in {s \in GridClusters \X GridClusters : s[1] # s[2]}}

(* A trial is scored, in the evaluator's scratch or, in parallel, in one   *)
(* of its own, and then evaluated in full with the evaluator's scratch.    *)
Evaluate ==
  /\ candidate = Absent
  /\ \E updates \in Updates, parallel \in BOOLEAN :
       LET first == IF parallel THEN CleanScratch ELSE scratch
           second == IF parallel THEN scratch ELSE ClearScratch(scratch, updates)
           nets == AffectedNets(DOMAIN updates, second.nets)
           clusters == AffectedLocality(DOMAIN updates, second.clusters)
       IN /\ candidate' =
               [updates |-> updates,
                score |-> CandidateMetrics(updates, first),
                metrics |-> CandidateMetrics(updates, second),
                net_updates |-> [n \in nets |-> NextModel(n, updates)],
                load_deltas |-> LoadDeltas(updates, second),
                locality_updates |->
                  [c \in clusters |-> LocalityTerm(c, evaluator.placements, updates)]]
          /\ scratch' = ClearScratch(second, updates)
  /\ UNCHANGED evaluator

Override(f, g) == [x \in DOMAIN f |-> IF x \in DOMAIN g THEN g[x] ELSE f[x]]

Applied(c) ==
  [placements     |-> Override(evaluator.placements, c.updates),
   net_models     |-> Override(evaluator.net_models, c.net_updates),
   loads          |-> [p \in Points |-> evaluator.loads[p] + c.load_deltas[p]],
   locality_terms |-> Override(evaluator.locality_terms, c.locality_updates),
   metrics        |-> c.metrics]

ApplyCandidate ==
  /\ candidate # Absent
  /\ evaluator' = Applied(candidate)
  /\ candidate' = Absent
  /\ UNCHANGED scratch

(* The annealer does not accept the candidate. *)
DropCandidate ==
  /\ candidate # Absent
  /\ candidate' = Absent
  /\ UNCHANGED <<evaluator, scratch>>

EvaluatorNext == Evaluate \/ ApplyCandidate \/ DropCandidate

EvaluatorSpec == EvaluatorInit /\ [][EvaluatorNext]_evaluatorVars

(***************************************************************************)
(* Properties.                                                             *)
(***************************************************************************)
(* After any sequence of applied and dropped candidates every cache, every *)
(* load and every metric is what a full evaluation of the placement gives: *)
(* nothing the candidates did not affect was affected, and what they did   *)
(* affect was counted once.                                                *)
CachesCurrent == evaluator = Build(evaluator.placements)

(* The score a candidate was chosen by, the metrics it is applied with and *)
(* a full evaluation of the placement it leads to agree.                   *)
CandidateTrue ==
  candidate # Absent =>
    LET metrics == Build(Override(evaluator.placements, candidate.updates)).metrics
    IN candidate.score = metrics /\ candidate.metrics = metrics

(***************************************************************************)
(* The caches of the evaluator are those of the placement, and the score   *)
(* of a candidate is what it would cost (cost.rs).                         *)
(***************************************************************************)
EvaluatorTrue == CachesCurrent /\ CandidateTrue
=============================================================================
