-------------------------- MODULE RouteNegotiation --------------------------
(***************************************************************************)
(* Negotiated-congestion routing of a device design (route/router.rs).     *)
(*                                                                         *)
(* Up to MaxPasses times, the nets that are pending are ripped up together *)
(* and routed again, in a fixed order and sharing resources at a price;    *)
(* then only the claimants of contested resources are pending again.  When *)
(* the passes run out everything is ripped up and routed once more with    *)
(* other nets' claims blocking the search.  The result is delivered only   *)
(* if nothing is contested and no net failed.                              *)
(*                                                                         *)
(* Which path the search takes among those it may take depends on costs    *)
(* and guides; here it is any of them (RouteSearch models the search).     *)
(* Which wires the net of a clock buffer may take is part of what the      *)
(* search may take: to a clock sink it keeps to the clock's own wires.     *)
(***************************************************************************)
EXTENDS ClaimIndex

CONSTANTS
    StitchArc,     \* pairs of wires of different tiles that are one component
    NetOrder,      \* the nets in route_net_order
    Routed,        \* should_route_device_net
    Roots,         \* source wires of a net's driver; none: prepare_route_net gives up
    SinkGroups,    \* wire groups to reach in sink order; an empty one has no mapping
    Escapes,       \* the endpoint reservations that may have been made
    DedicatedClock,      \* the nets whose driver is a Gclk cell
    ClockSink,           \* is_clock_sink: the clock pins of the sites,
    BlockRamClockSink,   \*   and is_block_ram_clock_sink: those of block RAMs
    ClockRoute,          \* is_clock_route_wire_metadata: wires a clock may take,
    DedicatedClockWire,  \*   and is_dedicated_clock: those made for clocks
    MaxPasses,     \* MAX_NEGOTIATION_PASSES
    FactorCap,     \* PRESENT_FACTOR_CAP
    NoImage

ASSUME NetOrderAssumption ==
    /\ NetOrder \in Seq(Nets)
    /\ \A n \in Nets : \E i \in 1 .. Len(NetOrder) : NetOrder[i] = n
    /\ \A i, j \in 1 .. Len(NetOrder) : NetOrder[i] = NetOrder[j] => i = j

ASSUME DesignAssumption ==
    /\ Routed \subseteq Nets
    /\ Roots \in [Nets -> SUBSET Node]
    /\ SinkGroups \in [Nets -> Seq(SUBSET Node)]
    /\ Escapes \subseteq [Node -> Nets \cup {NoNet}]
    /\ StitchArc \subseteq Node \X Node
    /\ \A arc \in StitchArc : OccupancyKey[arc[1]] = OccupancyKey[arc[2]]

ASSUME ClockAssumption ==
    /\ DedicatedClock \subseteq Nets
    /\ BlockRamClockSink \subseteq ClockSink
    /\ DedicatedClockWire \subseteq ClockRoute
    /\ ClockSink \cup ClockRoute \subseteq Node

\* A search enters no wire twice: each step lowers the cost of the wire it
\* enters and the parents form chains (RouteSearch); for a guided search this
\* needs a guide that visits no tile twice, as those of trace_route_path.
\* And what lies on a path is one: the last attempt of a search is free to
\* find it.
ASSUME SearchAssumption ==
    \A p \in Paths :
        /\ \A i, j \in 1 .. Len(p) : p[i] = p[j] => i = j
        /\ \A i, j \in 1 .. Len(p) : i <= j => SubSeq(p, i, j) \in Paths

ASSUME ScheduleAssumption == MaxPasses \in Nat \ {0} /\ FactorCap \in Nat

PRESENT_FACTOR_INITIAL == 2
PRESENT_FACTOR_GROWTH == 2
HISTORY_INCREMENT == 1

VARIABLES
    phase,          \* ripup, net, sink, validate, done
    pass,           \* the current negotiation pass
    pending,        \* the nets to rip up and reroute in this pass
    position,       \* the next net of NetOrder
    group,          \* the next sink group of the net being routed
    tree_nodes,     \* wires the net being routed has reached
    tree_paths,     \* for each of them, the pips that lead to it from a root
    segments,       \* RoutingState.routes: the paths committed for each net,
    sink_paths,     \*   the complete pip list published for each sink group,
    failed,         \*   and whether a sink was not reached
    history,        \* how often each resource was contested
    present_factor, \* the price of sharing
    hard_block,     \* the legalizing pass is running
    converged,
    outcome         \* running, ok, error

netVars == <<group, tree_nodes, tree_paths>>
routeVars == <<segments, sink_paths, failed>>
scheduleVars == <<pass, pending, history, present_factor, hard_block, converged>>
vars == <<indexVars, phase, position, netVars, routeVars, scheduleVars, outcome>>

NoRoute == {}

TypeOK ==
    /\ IndexTypeOK
    /\ phase \in {"ripup", "net", "sink", "validate", "done"}
    /\ pass \in 1 .. MaxPasses
    /\ pending \subseteq Nets
    /\ position \in 1 .. Len(NetOrder) + 1
    /\ group \in Nat
    /\ tree_nodes \subseteq Node
    /\ DOMAIN tree_paths = tree_nodes
    /\ segments \in [Nets -> SUBSET Paths]
    /\ sink_paths \in [Nets -> SUBSET [group : Nat, pips : Seq(LocalArc)]]
    /\ failed \in [Nets -> BOOLEAN]
    /\ history \in [RouteResource -> Nat]
    /\ present_factor \in Nat
    /\ hard_block \in BOOLEAN
    /\ converged \in BOOLEAN
    /\ outcome \in {"running", "ok", "error"}

Init ==
    /\ by_resource = [r \in RouteResource |-> {}]
    /\ by_net = [n \in Nets |-> {}]
    /\ reserved \in Escapes
    /\ phase = "ripup"
    /\ pass = 1
    /\ pending = Nets
    /\ position = 1
    /\ group = 0 /\ tree_nodes = {} /\ tree_paths = <<>>
    /\ segments = [n \in Nets |-> NoRoute]
    /\ sink_paths = [n \in Nets |-> {}]
    /\ failed = [n \in Nets |-> FALSE]
    /\ history = [r \in RouteResource |-> 0]
    /\ present_factor = PRESENT_FACTOR_INITIAL
    /\ hard_block = FALSE
    /\ converged = FALSE
    /\ outcome = "running"

-----------------------------------------------------------------------------
\* What a search may do.

\* Mutant: every sink of a clock buffer's net is searched for strictly.
StrictClockSink_Any(n, goals) == n \in DedicatedClock

\* strict_clock_sink: the net of a clock buffer has only clock pins to reach
StrictClockSink(n, goals) == n \in DedicatedClock /\ goals \subseteq ClockSink

\* allow_clock_neighbor_metadata, which the search asks about pips and stitches
AllowClockNeighbor(n, goals, x, y) ==
    StrictClockSink(n, goals) =>
        /\ x \in ClockRoute
        /\ y \in ClockSink => (y \in BlockRamClockSink => x \in DedicatedClockWire)
        /\ y \notin ClockSink => y \in ClockRoute

\* Mutants: only the component is checked for other nets' claims,
\* reservations are ignored, or bind their owner as well.
Enterable_NodesOnly(n, x, y) ==
    /\ ~ReservedForOther(n, y)
    /\ hard_block /\ y \notin tree_nodes => ~Blocked(n, NodeResource(y), NoWire)

Enterable_Unreserved(n, x, y) ==
    hard_block /\ y \notin tree_nodes =>
        /\ ~Blocked(n, NodeResource(y), NoWire)
        /\ <<x, y>> \in LocalArc => ~Blocked(n, SinkResource(y), x)

Enterable_OwnerBound(n, x, y) ==
    /\ reserved[OccupancyKey[y]] = NoNet
    /\ hard_block /\ y \notin tree_nodes => ~Blocked(n, NodeResource(y), NoWire)

\* neighbor_congestion_cost: only a reserved wire is closed to a net that has
\* it on its tree already
Enterable(n, x, y) ==
    /\ ~ReservedForOther(n, y)
    /\ hard_block /\ y \notin tree_nodes =>
          /\ ~Blocked(n, NodeResource(y), NoWire)
          /\ <<x, y>> \in LocalArc => ~Blocked(n, SinkResource(y), x)

\* Whether the search for goals may go on from wire x to wire y.
Expands(n, goals, x, y) ==
    /\ <<x, y>> \in LocalArc \cup StitchArc
    /\ AllowClockNeighbor(n, goals, x, y)
    /\ Enterable(n, x, y)

\* tree_starts: a search starts at the roots and on every committed path, but
\* not at the wire the path ends with.
TreeStarts(n) ==
    Roots[n] \cup UNION {{p[i] : i \in 1 .. Len(p) - 1} : p \in segments[n]}

\* The search comes by wire x before it has found a goal.
SearchReaches(n, goals, x) ==
    \E p \in Paths :
        /\ p[Len(p)] = x
        /\ p[1] \in TreeStarts(n)
        /\ \A i \in 2 .. Len(p) : p[i - 1] \notin goals /\ Expands(n, goals, p[i - 1], p[i])

\* A path leaves the tree once, at its first wire, and ends at the first goal
\* it meets: where the search comes back to the tree it starts a path anew.
RoutablePaths(n, goals) ==
    {p \in Paths :
        /\ p[1] \in tree_nodes
        /\ \A i \in 1 .. Len(p) : p[i] \in goals <=> i = Len(p)
        /\ \A i \in 2 .. Len(p) : Expands(n, goals, p[i - 1], p[i]) /\ p[i] \notin tree_nodes
        /\ SearchReaches(n, goals, p[1])}

\* The pips of a path up to its k-th wire, in order; stitches are not pips.
PipsUpTo(p, k) ==
    LET upto[i \in 1 .. Len(p)] ==
          IF i = 1 THEN <<>>
          ELSE IF <<p[i - 1], p[i]>> \notin LocalArc THEN upto[i - 1]
          ELSE Append(upto[i - 1], <<p[i - 1], p[i]>>)
    IN  upto[k]

\* Mutant: the prefix of the branch is forgotten.
FullPath_NoPrefix(p, k) == PipsUpTo(p, k)

\* complete_sink_path and the prefixes update_tree_state records
FullPath(p, k) == tree_paths[p[1]] \o PipsUpTo(p, k)

-----------------------------------------------------------------------------

\* Remove the whole affected set before routing any of it.
RipUpPending ==
    /\ phase = "ripup"
    /\ RipUp(pending)
    /\ segments' = [n \in Nets |-> IF n \in pending THEN NoRoute ELSE segments[n]]
    /\ sink_paths' = [n \in Nets |-> IF n \in pending THEN {} ELSE sink_paths[n]]
    /\ failed' = [n \in Nets |-> n \notin pending /\ failed[n]]
    /\ phase' = "net"
    /\ UNCHANGED <<position, netVars, scheduleVars, outcome>>

CurrentNet == NetOrder[position]

\* The legalizing pass routes every net, a negotiation pass the pending ones.
Due(n) == hard_block \/ n \in pending

SkipNet ==
    /\ phase = "net" /\ position <= Len(NetOrder)
    /\ ~Due(CurrentNet)
    /\ position' = position + 1
    /\ UNCHANGED <<indexVars, phase, netVars, routeVars, scheduleVars, outcome>>

\* prepare_route_net finds nothing to route: that is a failure only for a net
\* that needs routing.
NothingToRoute ==
    /\ phase = "net" /\ position <= Len(NetOrder)
    /\ Due(CurrentNet)
    /\ CurrentNet \notin Routed \/ Roots[CurrentNet] = {}
    /\ failed' = [failed EXCEPT ![CurrentNet] = CurrentNet \in Routed]
    /\ position' = position + 1
    /\ UNCHANGED <<indexVars, phase, netVars, segments, sink_paths, scheduleVars, outcome>>

PrepareRouteNet ==
    /\ phase = "net" /\ position <= Len(NetOrder)
    /\ Due(CurrentNet)
    /\ CurrentNet \in Routed /\ Roots[CurrentNet] # {}
    /\ phase' = "sink"
    /\ group' = 1
    /\ tree_nodes' = Roots[CurrentNet]
    /\ tree_paths' = [x \in Roots[CurrentNet] |-> <<>>]
    /\ UNCHANGED <<indexVars, position, routeVars, scheduleVars, outcome>>

Goals == SinkGroups[CurrentNet][group]

\* route_net_sink found a path: commit_routed_path claims it, publishes the
\* sink's complete path and extends the tree.
CommitRoutedPath ==
    /\ phase = "sink" /\ group <= Len(SinkGroups[CurrentNet])
    /\ \E p \in RoutablePaths(CurrentNet, Goals) :
          /\ ReserveRoutePath(CurrentNet, p)
          /\ segments' = [segments EXCEPT ![CurrentNet] = @ \cup {p}]
          /\ sink_paths' = [sink_paths EXCEPT
               ![CurrentNet] = @ \cup {[group |-> group, pips |-> FullPath(p, Len(p))]}]
          /\ tree_nodes' = tree_nodes \cup PathNodes(p)
          /\ tree_paths' = [x \in tree_nodes \cup PathNodes(p) |->
               IF x \in tree_nodes THEN tree_paths[x]
               ELSE FullPath(p, CHOOSE k \in 2 .. Len(p) : p[k] = x)]
    /\ group' = group + 1
    /\ UNCHANGED <<phase, position, failed, scheduleVars, outcome>>

\* No path, or no wire to route to: the net has failed, its other sinks are
\* still routed.
RouteSinkFails ==
    /\ phase = "sink" /\ group <= Len(SinkGroups[CurrentNet])
    /\ RoutablePaths(CurrentNet, Goals) = {}
    /\ failed' = [failed EXCEPT ![CurrentNet] = TRUE]
    /\ group' = group + 1
    /\ UNCHANGED <<indexVars, phase, position, tree_nodes, tree_paths, segments,
                   sink_paths, scheduleVars, outcome>>

FinishNet ==
    /\ phase = "sink" /\ group > Len(SinkGroups[CurrentNet])
    /\ phase' = "net"
    /\ position' = position + 1
    /\ group' = 0 /\ tree_nodes' = {} /\ tree_paths' = <<>>
    /\ UNCHANGED <<indexVars, routeVars, scheduleVars, outcome>>

PassRouted == phase = "net" /\ position > Len(NetOrder)

Converge ==
    /\ PassRouted /\ ~hard_block
    /\ ContestedResources = {}
    /\ converged' = TRUE
    /\ phase' = "validate"
    /\ UNCHANGED <<indexVars, position, netVars, routeVars, pass, pending, history,
                   present_factor, hard_block, outcome>>

\* Mutants: only the first claimant in net order is rerouted, or every net is.
NextPending_FirstClaimant ==
    {n \in Nets : \E r \in ContestedResources :
        \E i \in 1 .. Len(NetOrder) :
            /\ NetOrder[i] = n /\ n \in ClaimantNets(r)
            /\ \A j \in 1 .. i - 1 : NetOrder[j] \notin ClaimantNets(r)}

NextPending_Everyone == Nets

NextPending == UNION {ClaimantNets(r) : r \in ContestedResources}

\* The claimants of contested resources are rerouted, at a higher price; after
\* the last pass everything is, with hard blocking.
Renegotiate ==
    /\ PassRouted /\ ~hard_block
    /\ ContestedResources # {}
    /\ pending' = NextPending
    /\ history' = [r \in RouteResource |->
         IF r \in ContestedResources THEN history[r] + HISTORY_INCREMENT ELSE history[r]]
    /\ present_factor' =
         IF present_factor * PRESENT_FACTOR_GROWTH > FactorCap THEN FactorCap
         ELSE present_factor * PRESENT_FACTOR_GROWTH
    /\ position' = 1
    /\ \/ /\ pass < MaxPasses
          /\ pass' = pass + 1
          /\ phase' = "ripup"
          /\ UNCHANGED <<indexVars, routeVars, hard_block>>
       \/ /\ pass = MaxPasses
          /\ Clear
          /\ segments' = [n \in Nets |-> NoRoute]
          /\ sink_paths' = [n \in Nets |-> {}]
          /\ failed' = [n \in Nets |-> FALSE]
          /\ hard_block' = TRUE
          /\ phase' = "net"
          /\ UNCHANGED pass
    /\ UNCHANGED <<netVars, converged, outcome>>

EndLegalization ==
    /\ PassRouted /\ hard_block
    /\ hard_block' = FALSE
    /\ phase' = "validate"
    /\ UNCHANGED <<indexVars, position, netVars, routeVars, pass, pending, history,
                   present_factor, converged, outcome>>

ValidateFinalRouting ==
    /\ phase = "validate"
    /\ outcome' = IF ContestedResources = {} /\ \A n \in Nets : ~failed[n]
                  THEN "ok" ELSE "error"
    /\ phase' = "done"
    /\ UNCHANGED <<indexVars, position, netVars, routeVars, scheduleVars>>

\* The router has returned.
Terminated == phase = "done" /\ UNCHANGED vars

Next ==
    \/ RipUpPending
    \/ SkipNet
    \/ NothingToRoute
    \/ PrepareRouteNet
    \/ CommitRoutedPath
    \/ RouteSinkFails
    \/ FinishNet
    \/ Converge
    \/ Renegotiate
    \/ EndLegalization
    \/ ValidateFinalRouting
    \/ Terminated

\* The router is one loop of a single thread that waits for nothing.
Spec == Init /\ [][Next]_vars /\ WF_vars(Next)

-----------------------------------------------------------------------------

\* Ripping up only the claimants of contested resources is enough: while a
\* negotiation pass routes, the routes it kept from earlier passes never
\* conflict with each other.
KeptRoutesLegal ==
    phase \in {"net", "sink"} /\ ~hard_block =>
        \A r \in RouteResource :
            PairwiseLegal({c \in by_resource[r] : c.net \notin pending})

\* And no more than that is given up: before the legalizing pass a route is
\* only dropped because one of the resources it claims is contested.
OnlyContestedRoutesDropped ==
    [][\A n \in Nets :
          ~hard_block' /\ segments[n] # {} /\ segments'[n] = {} =>
              \E r \in by_net[n] : r \in ContestedResources]_vars

\* The claims are those of the committed routes, and of nothing else, so a
\* conflict between routes is a conflict in the index and no claim outlives
\* its route.
ClaimsMatchRoutes ==
    /\ \A n \in Nets :
          by_net[n] = {r \in RouteResource :
                         \E p \in segments[n] : PathClaims(n, p, r) # {}}
    /\ \A r \in RouteResource : \A c \in by_resource[r] :
          \E p \in segments[c.net] : c \in PathClaims(c.net, p, r)

\* The comment on the legalizing pass says no two nets share a resource after
\* it.  A search checks every wire it enters, but not the root it starts from:
\* a conflict the pass leaves is always on the component of a root.
LegalizedConflictsOnlyAtRoots ==
    hard_block =>
        \A r \in RouteResource : \A c, d \in by_resource[r] :
            c.net # d.net /\ ~SharesLegally(c, d) =>
                /\ r.kind = "Node"
                /\ \E x \in Roots[c.net] \cup Roots[d.net] : OccupancyKey[x] = r.at

\* A saturated block RAM channel is used by its owner alone, unless it is the
\* very wire another net starts from.
ReservedChannelsRespected ==
    \A n \in Nets, x \in Node :
        NodeResource(x) \in by_net[n] /\ ReservedForOther(n, x) =>
            \E root \in Roots[n] : OccupancyKey[root] = OccupancyKey[x]

\* What a search may not enter is entered by no route (neighbor_congestion_cost
\* blocks one wire after the other): the roots of nets are the only exception,
\* for reserved channels and, in the legalizing pass, for other nets' claims.
BlockedWiresAvoided == LegalizedConflictsOnlyAtRoots /\ ReservedChannelsRespected

\* A path for net n to the goals that disregards what other nets claim: over
\* wires that are not reserved, and for a clock buffer's net that has only
\* clock pins to reach, from one clock wire to the next, and into the clock pin
\* of a block RAM from a wire made for clocks.
UncongestedPath(n, goals) ==
    \E p \in Paths :
        /\ p[1] \in Roots[n]
        /\ p[Len(p)] \in goals
        /\ \A i \in 2 .. Len(p) : /\ <<p[i - 1], p[i]>> \in LocalArc \cup StitchArc
                                  /\ ~ReservedForOther(n, p[i])
        /\ n \in DedicatedClock /\ goals \subseteq ClockSink =>
              \A i \in 2 .. Len(p) :
                  /\ p[i - 1] \in ClockRoute
                  /\ p[i] \in ClockSink \cup ClockRoute
                  /\ p[i] \in BlockRamClockSink => p[i - 1] \in DedicatedClockWire

\* Negotiation never fails a net because of congestion, nor because of the
\* branches it routed before: a net that is kept as failed would fail on an
\* empty device too, so not retrying it loses nothing.  Only the device, the
\* reserved channels, the net's roots and, for the clock pins of a clock
\* buffer's net, the wires a clock may take stand in a sink's way.
NegotiationFailuresAreStructural ==
    (phase \in {"ripup", "net", "sink"} /\ ~hard_block) \/ converged =>
        \A n \in Routed :
            failed[n] => \/ Roots[n] = {}
                         \/ \E g \in 1 .. Len(SinkGroups[n]) :
                               ~UncongestedPath(n, SinkGroups[n][g])

SameComponent(x, Y) == \E y \in Y : OccupancyKey[x] = OccupancyKey[y]

\* No wire of net n is driven by two pips: paths that meet the tree join it.
OneDriverPerWire(n) ==
    \A a, b \in UNION {PathPips(p) : p \in segments[n]} : a[2] = b[2] => a = b

\* The pips lead from a root of n to one of the goals.
UnbrokenPath(n, goals, pips) ==
    IF pips = <<>>
    THEN \E x \in Roots[n] : SameComponent(x, goals)
    ELSE /\ SameComponent(pips[1][1], Roots[n])
         /\ SameComponent(pips[Len(pips)][2], goals)
         /\ \A i \in 2 .. Len(pips) : SameComponent(pips[i - 1][2], {pips[i][1]})

\* The routes of a net make a tree although they were found one by one: no wire
\* has two drivers, and every published sink path is an unbroken chain of the
\* tree's own pips from a root to a wire of the sink, whatever branch it
\* continues: delay is computed from it (apply_route_image).
RoutesAreTrees ==
    \A n \in Nets :
        /\ OneDriverPerWire(n)
        /\ \A s \in sink_paths[n] :
              /\ UnbrokenPath(n, SinkGroups[n][s.group], s.pips)
              /\ \A i \in DOMAIN s.pips : \E p \in segments[n] : s.pips[i] \in PathPips(p)

\* Routing implements its contract: success means a legal, complete image.
Contract ==
    INSTANCE LegalRouting
    WITH result <- IF outcome = "running" THEN "pending" ELSE outcome,
         delivered <- IF outcome = "ok" THEN segments ELSE NoImage

DeliversLegalRouting == Contract!Spec
=============================================================================
