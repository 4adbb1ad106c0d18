# TLA+ models of fde-rs

fde-rs turns an EDIF netlist into an FPGA bitstream. One process runs six stages
one after the other (map, pack, place, route, static timing analysis, bitgen);
every stage takes a design, returns a design and a stage report, and the
orchestrator writes the artifacts. Only the placer computes in parallel, reading
shared state and nothing else (`place/cost.rs` 211, 776). What is hard in this program is therefore not threads
but long sequences of steps over state that is kept several times: a claim index
in two directions, a current and a trial placement with caches, a frontier with
stale entries, a report built from events heard before a failure. The models here
are about those.

Paths below are relative to the repository's `src/`.

## 1. Inventory

| part | state it keeps | operations | what makes it correct |
|---|---|---|---|
| `stages/route/occupancy.rs` claim index | claims by resource, resources by net, reserved channels | reserve, rip up, clear, overuse, blocked | both directions agree; the overuse count and the pairwise sharing rule agree |
| `stages/route/router.rs` negotiation | routes, failed nets, pending nets, history, pass, hard blocking | rip up, route a net sink by sink, renegotiate, legalize, validate | success means a legal complete image; kept routes never conflict; a sink is given up only for want of a way |
| `stages/route/router.rs` sink search | frontier, best costs, parents, guide in force | seed, pop, expand, relax the guide, give up | nothing reachable is missed; parents are acyclic; a path leaves the tree once |
| `stages/route/heap.rs` | a binary heap in an array | push, pop through a hole | a priority queue |
| `stages/route/escape.rs` | owners of block RAM exits | group, assign by augmenting, reserve | saturated groups get a complete exclusive assignment or none exists |
| `stages/route/guide.rs`, `cost.rs`, `policy.rs` | none (tables per net) | advance along a guide, price and block a step | a guide admits the route it was made of |
| `stages/route/lowering/`, `mapping.rs`, `wire/`, `api.rs` | the device design, the routed image | lower, name wires, write pips and delays back | the image is the committed routes |
| `stages/place/mod.rs`, `support.rs`, `solver.rs` | current and trial placement, occupancy, best solution, slots | initial placement, moves, swaps, refinement, slots | sites and slots legal; the totals belong to the placements; refinement stops where nothing improves; fails only when infeasible |
| `stages/place/cost.rs`, `model.rs` | cached net boxes, loads, locality terms, metrics, scratch | score a candidate, apply it | caches equal a full evaluation |
| `stages/pack/api.rs` | lanes, clusters | pair LUTs with flip-flops, grow clusters | every cell once; clusters fit a slice |
| `stages/sta/arrival.rs`, `graph.rs` | arrivals, required times | relax forward and backward, trace | longest paths; loops and only loops refused; the trace adds up |
| `stages/sta/constraints.rs`, `report` | requirements, coverage | compile constraints, verdict | every endpoint gets the right requirement |
| `stages/map/`, `stages/import.rs`, `stages/normalize*` | the netlist (pins and net endpoints) | merge LUT inputs, gate flip-flops, constants, prune | the function of the design is kept; both sides of connectivity agree |
| `core/ir/`, `stages/bitgen/` | bindings, tile bits, frames, words | bind slices, program sites, collect bits, encode | the slot routed for is the slot programmed; no bit lost or moved twice |
| `infra/io/xml/` and the stage commands of `app` | the design, saved and loaded after every stage | export and import instances, nets, configs, pips | the stages one by one give the bitstream of the whole flow |
| `app/orchestrator/` | stage results, live report, files on disk | stages, artifacts, report, failure report | exit code, report and files agree |
| `infra/` (EDIF, constraints, XML, CIL, resources) | none after loading | parse and format | what is written reads back |
| `cli`, terminal, `scripts/`, `tools/` | none another part reads | parse options, draw progress, test boards | not a matter of state |

Interactions. `Pack` decides which cells share a slice, `Placement` where the
slice is, lowering and `infer_slice_bindings` which slot a cell has; the escape
stage reserves channels in the claim index before the negotiation starts;
the negotiation calls a search per sink, which pops from the heap and asks the
index whether a step is blocked; the orchestrator calls all stages and hears
their events through a reporter.

## 2. Modules

```
LegalRouting  <== refined by ==  RouteNegotiation --extends--> ClaimIndex
                                    | takes as the result of any search
                                 RouteSearch     (its frontier is the bag of PriorityQueue)
PriorityQueue <== refined by ==  FrontierHeap
RouteGuide         makes the guides whose allowed steps RouteSearch takes
EscapeAssignment   reserves what RouteNegotiation takes as Escapes
Placement          takes a cost function;  PlacementEvaluator  is how it is computed
MapRewrite <--extends-- LutSite   (what its LUTs become on their sites)
Pins <-- SliceSlots <-- PhysicalXml, DeviceLowering <-- SiteProgramming <-- StagedFlow
ConfigImage        takes requests for sites and pips;  FrameBitstream  takes tile bits
StaTiming          gives delays;  TimingConstraints  what they are held against
Pack   FlowOrchestrator
```

`*_proofs` modules hold theorems, and so does `LeastElements`, which has the lemmas
several of them share: every non-empty set with natural measures has a least
element, functions given step by step exist (loops, folds, what is reached in so many
steps), and where entries are when lists are joined. `MC*` modules give the
constants small values. Parts that never run at the same time share a run: its
MC module then starts in one of them and lets only that one move. Operators
called `X_Something` next to an operator `X` are mutants: plausible bugs of that
code, used to see that the property on it can fail at all. They are part of no
specification.

### ClaimIndex (`stages/route/occupancy.rs`)
`by_resource` and `by_net` are the two maps of the code, `reserved` the channels
of the escape stage. A resource is a stitched component (`Node`) or the wire a
pip drives (`Sink`). The actions are `ReserveEndpoint`, `ReserveRoutePath`,
`RipUp`, `Clear`. `Overuse` counts as the code does, by groups of claims with the
same incoming wire, and `Blocked` is the pairwise test.

### RouteNegotiation (`stages/route/router.rs`)
One action per step of `route_device_design_internal`: rip up all pending nets,
then for every net in order skip it, find nothing to route, or prepare its tree
and route its sinks one by one; at the end of a pass converge, renegotiate, or
clear everything and make the legalizing pass with hard blocking; validate. A
search may return any path that `RoutablePaths` allows, so what holds here holds
for every cost and tie-break. A step is allowed if the wire is `Enterable`
(`neighbor_congestion_cost`: reserved channels, in the legalizing pass other nets'
claims) and `AllowClockNeighbor` (`route/policy.rs` 170-189) lets the net of a clock
buffer take it: when all goals are clock pins (`StrictClockSink`) it goes from clock
wire to clock wire, and into the clock pin of a block RAM from a wire made for
clocks. Because of this filter a search may not come by every wire of the tree it
starts from: `TreeStarts` are the wires it starts at and `SearchReaches` those it
comes by. History and present factor are kept because
`Renegotiate` updates them, although no path choice depends on them.

### LegalRouting
Abstract: routing fails, or delivers an image in which every net that has to be
routed reaches all sinks, is a tree from its roots, and meets other nets only
where sharing is allowed. `RouteNegotiation!DeliversLegalRouting` is the
refinement (`delivered` is the committed paths once the outcome is `ok`).

### RouteSearch (`router.rs` 990-1334)
The ladder of guide modes is a sequence of attempts; an attempt is a set of
allowed steps with costs and estimates. The frontier is a set of entries that
may be stale; `PopGoal`, `PopStale`, `Expand`, `NextAttempt`, `GiveUp`. Popping
follows the priority, ties are free.

### RouteGuide (`stages/route/lowering/nets.rs`, `guide.rs`)
The tiles a net is led along when it is routed again. `Trivial`, `NotOnRoute`,
`StartTrace`, `TraceOn`, `TraceDone` make the guide of a sink, a breadth-first
search over segments of the old route; `StartSpread`, `Spread`, `SpreadDone` are
`GuideDistances`; `Enter` and `Follow` take wires in the order of the guide with
the rule for linear runs, `Leave` drops the order for a distance. The queue of
each search is the one of the code; neighbours enter it in any order, as
the maps of the code do not fix one.

### FrontierHeap and PriorityQueue (`stages/route/heap.rs`)
The array heap with its sinking hole and sift-up, against a bag from which a
least entry is taken. `Risen` and `Sunk` are the bodies of the two loops; their
results are recursive functions of the number of rounds.

### EscapeAssignment (`stages/route/escape.rs`)
Requests are grouped by shared exits; a group with exactly one exit per request
is assigned with the recursive augmentation over a shared visited set.

### Placement (`stages/place/mod.rs`, `support.rs`, `solver.rs`)
Feasibility checks, initial placement, annealing steps with targets, swaps and
plateaus, refinement passes, slot assignment. `state.current` and `state.trial`
are the two vectors of the solver, `state.occupancy` the map moves are planned
with, `best` the recorded solution. Random choices are nondeterministic.

### PlacementEvaluator (`stages/place/cost.rs`)
`Build` is the full evaluation, `Evaluate` scores a candidate by the score-only
computation and by the separate one whose metrics are applied, with the scratch
vectors between them; `ApplyCandidate` and `DropCandidate`.

### StaTiming (`stages/sta/arrival.rs`, `graph.rs`)
Passes over the cells in design order until nothing changes or the limit is
reached, then the end points, the required times, and `TracePath`.

### TimingConstraints (`infra/constraints`, `stages/sta/constraints.rs`, `graph.rs`)
`LoadFiles` merges the clocks of the constraint file and of the SDC file and
refuses files that do not agree on a clock, `Validate` refuses what names no clock or port, `CompileCell` goes over the
synchronous cells in design order and gives every capturing net its requirement,
`ConstrainOutputs` refuses clocks without effect and constrains the outputs,
`Judge` is the status of the report. `back` is the walk back over buffers,
which may go in a circle, `SourcePort` what it finds, and `ClocksAt` the clocks it finds for a register.

### Pack (`stages/pack/api.rs`)
Lanes of flip-flops with their LUT in any order, the lanes of the rest, then
clusters grown from any seed by the candidates the code would choose among.

### MapRewrite (`infra/edif/builder.rs`, `stages/map/rewrite.rs`, `lut.rs`)
`Import` decides which end of every net drives it and gives the cells their pins;
one action per rewriting pass follows, with `InsertGate` once per planned gate.
`cells` (pins with net names) and `nets` (ends with cell names) are the two sides
of the connections, each pass changes them as the code does and
`SyncedSinks` stands for `sync_cell_input_sinks`. A truth table is the set of
addresses at which the LUT is 1. `imported` keeps the design as the builder left
it, to compare functions with.

### LutSite (`route/mapping/slice.rs`, `bitgen/literal.rs`)
No state of its own: which site inputs the router brings the nets of a mapped LUT
to, and which table bitgen programs there.

### StagedFlow and what it is composed of
The program can hand a design from stage to stage in memory (`fde impl`) or save
and load it as physical XML after every stage (`fde place`, `route`, `sta`,
`bitgen`). `StagedFlow` takes one packed design both ways at once: `whole` is the
design in memory, `staged` the other one, `kept` the device and the pips that the
whole flow carries from routing to bit generation. `Place`, `Route`, `Sta` and
`Program` move both, `SaveAndLoad` only `staged`; `Done` is the end. What it calls:

* `Pins` (`core/domain`): roles and spellings of pins and wires.
* `SliceSlots` (`core/ir/slice_assignment.rs`, `design.rs`): slots from bindings or,
  when a cell has none, from the order of the members; bindings read off
  routed wires.
* `PhysicalXml` (`infra/io/xml`): `Export` and `Import`, with the clock buffers and pads the
  writer adds, the configs of slices, the references it leaves out because a
  connection is local, and how the import puts cells, nets and slots back.
* `DeviceLowering` (`stages/route/lowering`, `mapping`, `image.rs`, `infra/constraints`):
  pads of ports, device cells and nets with synthetic clock buffers, the wires of
  every endpoint, routed pips back into the nets.
* `SiteProgramming` (`stages/bitgen/programming`): the program of every site and its
  requests.

### ConfigImage (`bitgen/config_image`, `frame_bitstream/layout`)
`EncodeItem` puts the bits of one request of a site or of one pip in the image,
moved to the tile that owns them, and ends the process (phase `panic`) when two
values meet; `EncodeUnknown` is a site or pip the library does not know, which
leaves a note. After `ItemsDone` the frames are made tile by tile: `ApplyDefaults`
lays the fill and the defaults of sites and transmissions, `ApplyAssignments` the
bits of the image on top, `TilesDone` ends. The owner of a bit is worked out in
both passes, by different functions, from the site's definition and from its name.

### FrameBitstream (`bitgen/frame_bitstream`)
`EncodeMajor`, `EncodeMemory` and `EmitCommand` (with `MajorsDone`, `MemoriesDone`,
`CommandsDone` between them) make words of the bits of tiles: columns, bits reversed in groups, padding, block RAM contents in chunks with their addresses,
command streams. `Decode` is the reference decoder of the code's own tests.

### FlowOrchestrator (`app/orchestrator/modern.rs`, `report.rs`, `app/report`)
`Succeed` and `Fail` are one action per operation that may fail: creating the
directory, loading, lowering, the stages, the artifact files, the three run
files. `disk` maps files to what they hold (nothing, an earlier run's, half a
write, this run's). A failing write leaves any of those.


## 3. Runs

Every run ends within minutes on two workers; counts are of distinct states.

* **negotiation** (10 709). The net of a clock buffer with a logic pin and the clock
  pin of a block RAM, the clock from a pad to a buffer, a crossing net and a net
  that needs no routing on a fabric with a stitched pair and detours, one of them
  through the root of another net and over no wire made for clocks; five choices of
  reserved channels; three passes (`MaxPasses`) and a capped factor (`FactorCap`). All
  paths that enter no wire twice are given to the searches. Conflicts, convergence
  after one or two reroutes, the legalizing pass with success, with a sink that
  congestion blocks and with a conflict at a root all occur, and so does a clock pin
  that is reached from a branch of the logic pin.
  `KeptRoutesLegal`, `ClaimsMatchRoutes`, `RoutesAreTrees`, `BlockedWiresAvoided`
  (a conflict left after legalizing is at a root, reserved channels are entered by
  their nets only), `NegotiationFailuresAreStructural` (a sink is given up only if no
  path to it exists on an empty device), `OnlyContestedRoutesDropped` and the
  refinement `DeliversLegalRouting`.
* **route_parts** (68 074). The parts of the router below the negotiation, one at a
  time.
  Searches: three pip sets over a tree, a stitched pair and a goal, every cost of 1
  or 3, two estimates, an attempt under a guide and one without: `ParentsAcyclic`,
  `FoundPathLegal` (the path returned leaves the tree once, goes over allowed
  steps only, enters wires it may enter and ends at a goal), `NothingMissed`,
  `Returns`.
  Claims: two clocks and two logical nets, a stitched pair of wires, both able to
  drive a shared sink, one path that drives it twice, in all orders of all
  operations: `IndexInverse`, `OveruseIsConflict`, `BlockedIsExact`,
  `ClaimsAreImmutable`. Four nets give every mix of clocks and logic on a
  resource with two sources; a fifth adds no new case of the sharing rule.
  Guides: a chip of 3x3 tiles with a missing one, old routes over up to three tiles
  and two long ones that come to tiles again: `GuidesHold` (guides are shortest,
  distances are true, a guide admits its own route and no short cut) and
  `AttemptsWiden`.
  Heaps of up to eight entries in four levels with ties: `ImplementsQueue`; the
  pop order that the code's own test expects is evaluated with the assumptions.
  Escapes: every list of four requests for one or two of four exits and every
  list of up to three requests of two nets: `ReservationsComplete`.
* **flow** (10 712). Every run with at most two faults (the second one can hit the
  failure report), in a fresh and in a used directory, with both options:
  `RunTellsTheTruth` (the report tells how far the run got, warnings included;
  exit code and files agree) and `AdvertisedArtifactsExist`.
* **placement** (87 584). Solver: six clusters of two kinds, one of each fixed and
  asked for at legal and illegal sites and slots, on sites that six clusters nearly
  fill, three of them for the two block RAMs; the cost function has local minima, so swaps and refinement matter;
  `Iterations` 4, `MinCompletion` 2, `StallLimit` 1, `PassLimit` 2. Evaluator: three
  clusters, three nets (one without driver, one with a port), a chain of
  neighbours, a 3x2 grid, every placement and every candidate of one move or swap.
  `PlacementLegal`, `StateCurrent` (the solver's totals, best and occupancy are those
  of the placement at hand), `EvaluatorTrue` (so are the evaluator's caches and
  scores),
  `FailsOnlyIfInfeasible`, `NeverWorse`, `NoCheaperRamSite` (where refinement stops because
  a pass improved nothing, no block RAM has a cheaper site).
* **timing** (256 716). Every design of three cells with at most two inputs each, so
  chains against the design order, reconvergence and loops: `PassesSettle`,
  `TraceReconciles`, `Termination`. Constraints on two flip-flops and a block RAM,
  one register behind a buffer, a gate, a ring of buffers or another clock, clocks
  in either file, both or none, delays for data, outputs or clocks:
  `RequirementsTrue`, `StatusTrue`.
* **pack_and_map** (119 584). Mapping of a LUT3 whose inputs repeat, are missing,
  see the clock or an undriven net, with a LUT2 that has the name of a gate to be
  inserted, two registers that may share their data and differ in their clocks, a
  constant or a generic cell, and a block RAM whose new pin names are old ones:
  `DesignKept` (every LUT output and register input gives the same for all values of
  the other nets, both sides of the connections agree, registers are gated).
  Packing of ten cells of every kind, three flip-flops with shared data drivers, two
  control sets, slices of two capacities, every order of seeds:
  `ClustersFitSlice`, `PackingComplete`.
* **bitstream** (207 922). Image: a row of four tiles in two orders, one whose bits
  are in the tile before it (in one order that tile is missing), one the
  library does not know; sites with named, addressed and computed functions, two
  elements that share a cell, a cell without a place: `ImageFaithful` (the frames hold
  what was programmed, and what was lost or in conflict shows). Frames: two columns
  with block RAMs, words of five bits, groups of one, three and four bits, either
  order of the majors, streams with dummy, unknown and repeated commands:
  `StreamFaithful` (decoding gives the frames back, contents reach their RAM).
* **staged_flow** (297). Registers behind a LUT or a port, a second lane, another
  slice, enable and reset, LUTs with two uses and with a pin map, a block RAM of
  either kind, a clock on a clock pad, on an ordinary pad or unconstrained: `StagedProgramMatches` (the
  stages one by one program what the whole flow programs) and `DecisionsAgree` (the
  muxes derived in three places and the slots derived in two are the same). The
  states are few because a flow is a line; the designs make the cases.
* **flow_artifact_fault**, **timing_met**, **lut_site**, **staged_fanout**:
  disagreements of code and text, see section 6.

Deadlock is checked everywhere but in `lut_site`, where mapping ends with no
closing step; models that end have a step that says so.

## 4. Fairness

The router, the search and the timing passes are loops of one thread that wait for
nothing, so they have weak fairness of their next step: whenever the loop has a
step, it is taken. No fairness chooses among paths or orders, so termination never
rests on luck. It is checked where it could fail: the search and the backward relaxation
have no limit of their own, and `DeliversLegalRouting` asks that routing delivers or fails
at last. The other modules have no liveness property: they are loops with
fixed bounds, such as those of the placer, straight sequences, or operations called by
others.

## 5. What is proved

The theorems hold for every fabric, netlist, order, number of passes and of faults.
The assumptions are those named in the modules: nets are finitely many and the
synthetic clocks among them, `OccupancyKey` maps wires to wires, paths are
sequences of wires (`ClaimIndex`); the net order lists nets, sink groups and
roots are wires, at least one pass, clock pins and clock
wires are wires (`ClockAssumption`) (`RouteNegotiation`); paths of searches enter no wire
twice, and a part of a path is one that the last, unguided attempt of a search is
free to find (`SearchAssumption`); finitely many nodes, attempts with
natural costs (`RouteSearch`); entries of the heap have natural priorities (`FrontierHeap`); the chip is finitely many points of a plane, on which old routes may lie anywhere
(`RouteGuide`); cells have the kinds packing knows (`Pack`); clusters and sites are
finitely many and of one kind each, annealing takes the movable clusters in some
order, each once, and costs are integers (`Placement`); clusters, nets and points are
finitely many, neighbours are so of each other, and what a placement costs is made of
integers (`PlacementEvaluator`); cells, ports and nets are finitely
many with names of their own, and a pin belongs to one clock domain of one cell
(`TimingConstraints`); finitely many start and end points, natural delays, those of cells
positive (`StaTiming`); tiles are finitely many in a row, what a site or a tile lists is
a list, and the library is faithful as section 7 says (`ConfigImage`). TLC evaluates them in the runs.

* `RouteNegotiation_proofs`, the claim index. `IndexInv` is the type invariant, `IndexInverse` and
  `OneClaimPerNet`. The last is needed because rip-up finds a net's claim by its
  list of resources. `OveruseIsConflictHolds` and `BlockedIsExactHolds` need
  no history: by `OveruseZero`, for any finite set of well-formed claims the
  widest legal group is everything exactly when any two claims share legally. That
  claims on components carry no incoming wire and claims on sinks do (`ClaimsOn`)
  makes count and pairwise test agree. `ClaimsAreImmutableHolds` is an action
  property from the same invariant.
* `RouteNegotiation_proofs`, the negotiation. `KeptRoutesLegal` is not inductive by itself: that
  the pending set is right when nets are ripped up follows from the contested
  resources it was computed from, and these are about routes only because
  `ClaimsMatchRoutes`. `NegotiationInv` therefore adds `PendingIsContested` (what
  is about to be ripped up is exactly the claimants of contested resources) and
  `Scheduled` (only a due net is being routed). Initially everything is pending
  and nothing is kept; `CommitRoutedPath` claims for a pending net only;
  `Renegotiate` uses `UncontestedLegal`, i.e. `OveruseZero`, to keep the rest.
  `OnlyContestedRoutesDroppedHolds` is an action property from the same invariant.

  On top of `NegotiationInv`, `ContractInv` says that a net
  not yet routed in this pass has no route (`LaterAreFresh`), that the tree of the
  net in work is its roots and its route (`TreeIsRoute`), that routes hang on roots
  with one driver per wire (`RoutesHang`), and what the passes have settled so far
  (`Progress`). `PathJoinsOnce` and `CommitHangs` are the heart: a path that leaves the
  tree once keeps both. `BlockedWiresAvoidedHolds` follows, and `RoutingKeepsContract`:
  the negotiation implements the safety part of `LegalRouting`. That it also ends,
  the rest of `DeliversLegalRouting`, is model-checked.

  `RoutesAreTreesHolds` asks for more: every sink is reached from a root over
  pips of the net's own route. `PrefixesLead` says so of every prefix of every committed
  path, since later paths join earlier ones in the middle. `PipsHopByHop` unfolds the
  pips of a path, which the model computes wire by wire, and `LeadsOn` appends a
  path to the one that leads to its first wire.

  `FailuresAreStructural` needs `FailedForGood`: a sink given up in a pass without
  hard blocking was tried from a tree that held the roots. If a path to it from a root
  were open, the search would come along it to its last tree wire, and its part from
  there on would be one the search may take, since in such a pass nothing but the
  reserved channels and, for clock pins, the kinds of wires closes a step.
  This is what `SearchAssumption` says about parts of paths.
* `RouteSearch_proofs`. `ParentsAcyclic` needs `CostsOrdered`: no node is cheaper
  than its parent and no entry cheaper than its node. Stitches cost nothing in
  both directions, so costs do not grow strictly along parents; the lemma
  `NewParentsAcyclic` argues over a closed set of nodes rather than over a path,
  and needs that a replaced node strictly improves. `NothingMissed` needs
  `Explored`: a reached node waits in the frontier at its best cost or has all
  its successors reached. `FoundPathLegalHolds` is about the path computed along the
  parents when a goal is popped: every parent is an allowed step that was reached
  (`ParentsLegal`), so each stretch of the path is.
  `OrderedKeepsToGuide` is about `RouteGuide`: `AttemptsWiden` from `FieldInv`, that the
  tiles of a guide have distance 0 in the field from the first step of its making.

  `GuidesHoldAlways` needs `GuideInv`. While a guide is searched, every tile
  seen has a way to it over the old route, the queue is in the order of the lengths of
  these ways, which differ by one at most, and what has left the queue has
  its neighbours seen and none farther by more than one (`Traced`). So when the sink
  is found no shorter way leads to it (`FoundIsShortest`): a set that takes in all
  that is within k steps of the source, step by step, does not have it. The
  search reaches it at all because the tiles of a route are one list of neighbours
  (`ClosedIsAll`). Distances spread by the same argument from all tiles of the guide at
  once (`DistanceInv`). That a wire walks the guide tile by tile is `StraightRun`: the
  tiles between the ends of a straight run of a guide are those of the run, one by one. And the old route of a net that comes to no tile twice is its own
  guide, as a shortest way from one end of such a list to the other is all of it
  (`ShortestIsWhole`). What the source computes with flattened and
  deduplicated lists is unfolded entry by entry (`FlattenLaid`, `DedupedMerges`).

  `HeapIsQueue` is a refinement: the heap, for entries of any
  priorities, implements `PriorityQueue`. A sinking hole leaves a copy of what it moved up
  behind, so the array stays ordered all the way (`Sinking`), and is a leaf after at most
  as many rounds as there are entries; an entry that rises is out of order with its
  parent only (`HeapOrderedBut`). That nothing is lost is a bijection of positions
  which every round composes with a swap (`SwapShuffles`); `TallyGrows` and `TallyShrinks` count it
  as bags. `LoopRuns` and `LoopEnds` stand for induction over the rounds.
* `Pack_proofs`. `PackInv` says what lanes are, that no cell is in two (`LanesSound`),
  what each phase leaves behind (`PhasesInOrder`), and that a cluster is a block
  RAM or at most two lanes that are in no other cluster (`ClustersApart`).
  `ClustersFitSliceHolds` is a part of it. `PackingCompleteHolds` takes two parts:
  each cell ends in one cluster, and two clusters of one lane could not have been one,
  because what a seed leaves alone at its turn stays apart later (`LeftAlone`): lanes
  only leave the waiting set.
* `Placement_proofs`. `IPlacement` is `PlacementInv`, that the passed placements are legal,
  the solver's totals are true and `best` is least, with what each phase knows about
  the clusters placed so far, and `RefusedRightly`. Legality of a step needs the
  occupancy to be that of the current placement, not of the trial; `NeverWorse`
  needs the total to be the cost of it. `FailsOnlyIfInfeasibleHolds` is
  a counting argument: more clusters than places, or a fixed cluster at an impossible
  place, admit no legal placement, and otherwise the initial placement and the
  assignment of slots always find a free place. Slots are told apart by their rank among
  the clusters of a site.
* `Placement_proofs`, the evaluator. `EvaluatorInv` says that the caches are those of
  the placement (`Fresh`), that the scratch is clean between candidates, and that a
  candidate is a move evaluated on the placement at hand. The heart is `SumOfChanged`:
  a sum over a finite set changes by the differences of the terms that change, in
  whatever order they are added (`SumsExist`, `SumsAgree`; finite sets are taken apart one
  by one by a least counterexample). It applies to the nets of the moved clusters
  (`NetsThen`), to the moved clusters and their neighbours (`TermsThen`, which needs
  neighbours to be so of each other) and, with the loads as sums themselves
  (`LoadsAddUp`), to the cells in the old or new box of an affected net. Resetting just those
  cells cleans the scratch because every other difference is zero (`ScratchClean`).
* `FlowOrchestrator_proofs`. `AdvertisedArtifactsExistHolds` for any `MaxFaults`:
  nothing is reported before the pipeline ends (`ReportsBorne`), the files of
  finished stages are this run's (`ArtifactsOwn`), and the names of the run files
  and of artifacts are apart (`RunFilesApart`). `RunTellsTheTruthHolds` adds what the
  reporter has been told (`RunInv`), and that the diagnostics of a report, filtered
  as the code filters them, list each one that was raised and none twice
  (`DistinctOnce`, `Flattened`).
* `Timing_proofs`, propagation. `PassesInv` says why the pass limit tells of loops and of
  nothing else: a cell that pass k has yet to raise is at the end of a walk of at least
  k cells (`RaisesAreLedTo`), so a change in the last pass has a walk longer than there are
  cells behind it, which comes back to a cell; the shortest way round is a cycle of
  distinct cells (`BackToACell`). Conversely arrivals that have settled grow along every
  edge, which rules cycles out (`SettledIsAcyclic`). Arrivals stay below the longest path
  since each is that of some walk (`Attained`) and walks without a cycle are paths
  (`WalkIsPath`); they reach it because a settled design bounds every path
  (`WalkBelow`). The sums of paths and traces are recursive functions: `RunningSumsUnfold`
  shows that they exist and unfold. A trace is a chain of latest inputs
  (`TracePathIs`) that cannot come back to a cell (`ChainIsShort`), and every arc of it is the
  difference of two settled arrivals (`ChainAddsUp`).
* `Timing_proofs`, constraints. Two facts carry it. `SourceReaches`: the walk back over
  buffers, with the set of nets it has seen, finds a port exactly when that port reaches
  the net over buffers. That the recursive function exists is `BackUnfolds` (the simple
  ways to a net satisfy its equation); what it finds is a way by a least
  counterexample in the nets left to see (`FoundIsOrigin`), and it follows every way
  because a way from a port cannot go in a circle (`WayIsSimple`, `WalkFollowsWay`).
  `OneKeyEach`: as many keys as entries are a key for each, which is how the code
  validates names and ports, so that at most one clock reaches a domain.
  `ConstraintsInv` carries along what `Validate` has checked and what the compiled cells
  have got. Compiling a later cell or an output takes no requirement away again because
  a pin belongs to one domain and is no port. `RequirementsTrueHolds` follows; for
  `StatusTrueHolds` the counts that `Incomplete` compares are turned into the sets they
  count (`CoveredByCount`), which for inputs holds only when delays are given for
  data inputs alone: the rest of it is the finding of `timing_met`.
* `ConfigImage_proofs`. `IInv` says between which two ends the bits travel: the image holds
  only bits of the requests encoded so far (`ImageOfEncoded`) and all of those that
  land on a tile (`EncodedInImage`); a cell of a frame holds a bit applied to it,
  else the default of a site, else the fill (`FramesHold`); a bit that led nowhere left a note
  (`LossesNoted`). The owner of a bit is worked out twice. A bit that was moved
  to its owner in the first pass is not moved again in the second (`AssignmentWriteOf`),
  because the owner has no element of its name; two bits with one place are one bit
  of one value, or the process ends before there is an image (`SamePlaceSameBit`), so that the
  order of writes within a tile does not matter (`CellAfterWrites`), and a bit that leads off the
  chip is in the way of none that is set before it (`InTheWay`). That the code sorts the places of an image is what
  makes the list of writes one of each (`Ordered`).

Only model-checked: all liveness (outside the prover's reach); everything about
recursive operators (`EscapeAssignment`); and the modules `MapRewrite`, `LutSite`, `FrameBitstream` and
`StagedFlow` with what it is composed of.

## 6. Findings and remarks

* **Report after a failed artifact write.** `docs/reporting.md` says that in the
  report of a failed flow the failing and remaining stages are marked failed or
  skipped. A stage is reported as a success before its artifacts are written
  (`orchestrator/modern.rs` 598-653), so when that write fails the report lists
  the stage as a success, the later ones as skipped and none as failed. Run
  `flow_artifact_fault`.
* **LUTs with merged inputs.** Where mapping merges inputs of a LUT or moves them up,
  the cell keeps a pin map, and the router follows it to the site inputs
  (`route/mapping/slice.rs` 41-48). `core/domain/routing.rs` 295 describes the
  property as the physical inputs and has XML writer and router agree on it; bitgen repeats
  the narrow table over the site without it (`bitgen/literal.rs` 76). A LUT3
  with inputs a, a, b and the default table becomes a LUT2 with table 0x8 and is
  programmed 0x8888: the site gives a where the cell gives a AND b. Run `lut_site`.
  It concerns tables given as `lut_init` or by default; a table given as a raw
  `init` text is programmed by the convention of `docs/board-debug-history.md`
  and is left out.
* **A register fed from another slice.** When the stages run one by one, the XML
  writer leaves out the data reference of a register that its slot's LUT drives.
  `register_uses_local_lut` (`infra/io/xml/physical/nets.rs` 423) compares slots and not
  slices, so a register in the same slot of another slice loses its data
  reference too and nothing is routed to it; the router itself compares the sites
  (`route/mapping/slice.rs` 86) and its test expects the data on BX/BY. Run
  `staged_fanout`; the run `staged_flow` has no such fan-out.
* **MET with an unconstrained input.** The input delays are counted, those on clock
  ports included, and compared with the number of data inputs (`sta/graph.rs` 202),
  so that a delay on a clock port makes up for a missing one. `docs/reporting.md` 84
  and the README's "missing I/O delays produce PARTIALLY CONSTRAINED" say
  otherwise. Run `timing_met`; `StatusTrue` holds when delays are given for data
  inputs only.
* The minimum period of a register is taken from its worst arrival, less the delay
  of the port this starts from (`sta/graph.rs` 80-100): where a path from a delayed
  port is the worst, a slower path between registers to the same pin does not
  show.
* The builder says that a net without source is driven by the first of its sinks,
  which so loses its input pin. `DesignKept` compares with the design after this
  step.
* When writing `report.json` succeeds and a later run file and then the failure
  report cannot be written, `report.json` may keep its success although the exit
  code is 1. `AdvertisedArtifactsExist` still holds of it.
* A failed run in the directory of an earlier one advertises the earlier run's
  files if they exist; those of a success are always its own.
* The legalizing pass never checks the root a search starts from. A conflict it
  leaves is always at a root (proved, `BlockedWiresAvoidedHolds`) and validation
  turns it into an error.
* A guide with a diagonal step, which joined segments can give, is never followed
  in order; the wider attempts take over.
* A bit whose owner would lie off the chip is kept in the image under its own tile,
  although the frames drop it. If it is set after a bit of that place with the same
  value, it replaces that bit there, and both are lost; `LibraryAssumption` excludes such places.
* Trials of equal cost are always accepted by the annealer; termination rests on
  the step count.

## 7. Abstractions and assumptions

* Router: what a search returns to the negotiation is any path it may find, costs
  are any numbers to the search, and a guide is the set of steps it allows. A
  search enters no wire twice (`FoundPathLegal`) as long as its guide comes to no tile
  twice, which the negotiation takes for granted. The classes of wires a clock may
  take are sets; how they follow from the names of wires is left out. Stitching
  is an equivalence given by `OccupancyKey`. Guided nets have a driver; the
  neighbours of a tile are queued in any order; the guide's part in costs is left
  out.
* Placement costs are exact numbers: floating-point rounding is left out, and
  with it the drift of sums kept by differences. The annealer's temperature is
  a nondeterministic acceptance; leaving the loop on a plateau is a
  nondeterministic stop after `MinCompletion` steps. A design with at most one
  movable cluster, which skips annealing, is not in the instance.
* Timing: cell delays are positive and a worst path that starts at an undriven
  net is not modelled; an undriven input counts as zero, as in the code. Under
  `TimingConstraints` an end point is reached from one start, times are whole
  numbers, and delays and uncertainties name clocks of the SDC file only, since the
  code refuses others. Fmax and path groups are left out.
* Mapping: truth tables are sets of addresses, so that parsing and printing `lut_init` is
  left out. Which block RAM pins are renamed is an input (`renames`), not the
  table of names in `rewrite/block_ram.rs`. Every net has at most one source: several
  drivers on one net are not in the instance.
* `StagedFlow` takes designs as mapping and packing leave them: constants folded,
  nets that a port drives named like the port and no others so, flip-flops of a
  slice with equal shared settings, every output of a flip-flop used or its cluster
  as packing built it, and a clock port that clocks a flip-flop (a port on a GCLK
  pad that clocks only a dual-port RAM gets no buffer in the lowering). Clock pads
  carry no data, dual RAMs say how port B is organised, clock buffers are named by
  their port. Both flows get equal placements and routes. Inverted clocks (CKINV) and the
  SRMUX value that only the first export writes are not compared; the environment flags
  that skip parts of bit generation are off.
* `ConfigImage`: tiles are points of a line; `LibraryAssumption` says what a library
  is: an element names its owner and the way there together, no two elements have
  one place, the owner has no element of the same name, the sites of a tile have names of
  their own, and the defaults of one SRAM agree. `FrameBitstream`: one block RAM per tile, an
  element of the site for each INIT word, the extra words of a command filled with
  its blank.
* Bindings read off routed wires only matter to the circuit of bit generation and
  its sidecar, which is why they are compared with the slots and with nothing else.
* Bounds named in the configurations: `MaxPasses`, `FactorCap`, `Capacity`,
  `MaxFaults`, `Iterations`, `MinCompletion`, `StallLimit`, `PassLimit`, `CellCount`,
  `WordBits`, `InitWords`.

## 8. Not modelled

* Terminal and CLI (`cli`, progress drawing), scripts and the wave probe: layout, input
  and output, no state another part reads.
* Bitgen payload and sidecar: serialization and digests of what the other parts
  decided. The CIL library: read once into tables, then constant; what its tables
  mean for bits is the constants of `ConfigImage`.
* Net criticality: a heuristic that weights placement and on which no
  correctness rests.
* Of parts that are modelled in part: the parsers of EDIF, XML and constraint text and
  their writers' layout, the logical view of XML, loading of architectures, the
  Verilog export, tables of wire lengths and edge tiles, numeric routing
  costs, the classes of wires by name, route delays, cluster renaming, and the rendering of reports.

These are conversions of data without a protocol: what could go wrong in them is in
single tables and formats, which the code's own tests compare with examples. What
more could be proved: that mapping keeps the design (`DesignKept`; it rests on the names
that are made for new cells being new, which is about the text of numbers), and that
decoding inverts the frames for every width of word.
