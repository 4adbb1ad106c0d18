----------------------------- MODULE ClaimIndex -----------------------------
(***************************************************************************)
(* The bidirectional index of routing claims of the negotiated-congestion  *)
(* router (route/occupancy.rs).                                            *)
(*                                                                         *)
(* A net that is routed claims, for every pip it turns on, the wire the    *)
(* pip drives (a Sink resource, with the wire the pip comes from), and,    *)
(* for every wire it uses, the stitched component the wire belongs to (a   *)
(* Node resource).  by_resource tells who must be ripped up when a         *)
(* resource is contested, by_net what ripping up one net must release,     *)
(* and reserved holds the block RAM endpoint channels that are assigned    *)
(* before routing and are never released.                                  *)
(***************************************************************************)
EXTENDS Integers, Sequences, FiniteSets

CONSTANTS
    Nets,           \* the nets of the device design (their indices)
    Node,           \* RouteNode: a wire of a tile of the device
    SyntheticGclk,  \* the nets whose origin is NetOrigin::SyntheticGclk
    OccupancyKey,   \* the representative of a node's stitched component
    LocalArc,       \* pairs <<from, to>> of wires joined by a pip of their tile
    Paths,          \* the node sequences a search may return
    NoWire,         \* Option::None, for the `from` of a claim on a Node
    NoNet           \* no net has reserved the node

ASSUME NetsAssumption == IsFiniteSet(Nets) /\ SyntheticGclk \subseteq Nets

ASSUME FabricAssumption ==
    /\ OccupancyKey \in [Node -> Node]
    /\ LocalArc \subseteq Node \X Node
    /\ NoWire \notin Node
    /\ NoNet \notin Nets

\* A path may enter a wire twice (a guided search whose guide visits a tile
\* twice finds such paths); the index does not mind.
ASSUME PathsAssumption ==
    /\ Paths \subseteq Seq(Node)
    /\ \A p \in Paths : Len(p) > 0

-----------------------------------------------------------------------------

RouteResource == [kind : {"Node", "Sink"}, at : Node]

NodeResource(x) == [kind |-> "Node", at |-> OccupancyKey[x]]
SinkResource(x) == [kind |-> "Sink", at |-> x]

Claim == [net : Nets, from : Node \cup {NoWire}]

Synthetic(c) == c.net \in SyntheticGclk

\* Mutant: clocks share a sink whatever wire they enter it from.
SharesLegally_AnySource(lhs, rhs) == Synthetic(lhs) \/ Synthetic(rhs)

SharesLegally(lhs, rhs) ==
    /\ Synthetic(lhs) \/ Synthetic(rhs)
    /\ lhs.from = NoWire \/ lhs.from = rhs.from

\* Mutant: the incoming wire is not looked at when counting overuse.
SameSource_Any(C, c) == C

\* The claims of a set with the incoming wire of c: the synthetic clocks
\* among them may all stay, and one logical net besides.
SameSource(C, c) == {d \in C : d.from = c.from}

\* Mutant: every logical net of a group is counted as legal.
LegalGroupSize_AllLogical(C, c) == Cardinality(SameSource(C, c))

LegalGroupSize(C, c) ==
    LET group == SameSource(C, c)
        synthetic == {d \in group : Synthetic(d)}
    IN  Cardinality(synthetic) + (IF group = synthetic THEN 0 ELSE 1)

Overuse(C) ==
    IF C = {} THEN 0
    ELSE LET widest == CHOOSE c \in C :
                         \A d \in C : LegalGroupSize(C, d) <= LegalGroupSize(C, c)
         IN  Cardinality(C) - LegalGroupSize(C, widest)

Foreign(C, claim) ==
    {d \in C : d.net # claim.net /\ ~SharesLegally(d, claim)}

-----------------------------------------------------------------------------

VARIABLES
    by_resource,  \* the claims on each resource (none: the entry is absent)
    by_net,       \* the resources each net has a claim on
    reserved      \* the net each node is reserved for

indexVars == <<by_resource, by_net, reserved>>

\* Only the claims on sinks name an incoming wire; the sharing rule and the
\* grouping by source of `overuse` agree only because of this.
ClaimsOn(r) == {c \in Claim : c.from = NoWire <=> r.kind = "Node"}

IndexTypeOK ==
    /\ by_resource \in [RouteResource -> SUBSET Claim]
    /\ \A r \in RouteResource : by_resource[r] \subseteq ClaimsOn(r)
    /\ by_net \in [Nets -> SUBSET RouteResource]
    /\ reserved \in [Node -> Nets \cup {NoNet}]

PathNodes(p) == {p[i] : i \in 1 .. Len(p)}

PathPips(p) == {<<p[i - 1], p[i]>> : i \in 2 .. Len(p)} \cap LocalArc

\* The hops of p that enter wire x through a pip, and the first of them.
PipsInto(p, x) == {i \in 2 .. Len(p) : p[i] = x /\ <<p[i - 1], p[i]>> \in LocalArc}

FirstPipInto(p, x) == {i \in PipsInto(p, x) : \A j \in PipsInto(p, x) : i <= j}

\* The claims that reserving path p for net n asks of resource r: of several
\* pips into a wire, the first.
PathClaims(n, p, r) ==
    IF r.kind = "Sink"
    THEN {[net |-> n, from |-> p[i - 1]] : i \in FirstPipInto(p, r.at)}
    ELSE {[net |-> n, from |-> NoWire] : x \in {y \in PathNodes(p) : OccupancyKey[y] = r.at}}

Holds(n, r) == \E c \in by_resource[r] : c.net = n

ContestedResources == {r \in RouteResource : Overuse(by_resource[r]) > 0}

ClaimantNets(r) == {c.net : c \in by_resource[r]}

Blocked(n, r, from) == Foreign(by_resource[r], [net |-> n, from |-> from]) # {}

ReservedForOther(n, x) == reserved[OccupancyKey[x]] \notin {n, NoNet}

-----------------------------------------------------------------------------

IndexInit ==
    /\ by_resource = [r \in RouteResource |-> {}]
    /\ by_net = [n \in Nets |-> {}]
    /\ reserved = [x \in Node |-> NoNet]

ReserveEndpoint(x, n) ==
    /\ reserved' = [reserved EXCEPT ![OccupancyKey[x]] = n]
    /\ UNCHANGED <<by_resource, by_net>>

\* Mutants: `insert` replaces an earlier claim of the net, or only nodes are
\* claimed.
ReserveRoutePath_Replaces(n, p) ==
    /\ by_resource' = [r \in RouteResource |->
                         IF PathClaims(n, p, r) = {} THEN by_resource[r]
                         ELSE {c \in by_resource[r] : c.net # n} \cup PathClaims(n, p, r)]
    /\ by_net' = [by_net EXCEPT
                    ![n] = @ \cup {r \in RouteResource : PathClaims(n, p, r) # {}}]
    /\ UNCHANGED reserved

ReserveRoutePath_NodesOnly(n, p) ==
    /\ by_resource' = [r \in RouteResource |->
                         IF Holds(n, r) \/ r.kind = "Sink" THEN by_resource[r]
                         ELSE by_resource[r] \cup PathClaims(n, p, r)]
    /\ by_net' = [by_net EXCEPT
                    ![n] = @ \cup {r \in RouteResource :
                                     r.kind = "Node" /\ PathClaims(n, p, r) # {}}]
    /\ UNCHANGED reserved

\* reserve_route_path: a net that already holds a resource claims nothing more.
ReserveRoutePath(n, p) ==
    /\ by_resource' = [r \in RouteResource |->
                         IF Holds(n, r) THEN by_resource[r]
                         ELSE by_resource[r] \cup PathClaims(n, p, r)]
    /\ by_net' = [by_net EXCEPT
                    ![n] = @ \cup {r \in RouteResource : PathClaims(n, p, r) # {}}]
    /\ UNCHANGED reserved

\* Mutant: the list of the net is read instead of taken.
RipUp_KeepsList(N) ==
    /\ by_resource' = [r \in RouteResource |->
                         {c \in by_resource[r] : c.net \notin N \/ r \notin by_net[c.net]}]
    /\ UNCHANGED <<by_net, reserved>>

\* rip_up of every net of a set, one after the other.
RipUp(N) ==
    /\ by_resource' = [r \in RouteResource |->
                         {c \in by_resource[r] : c.net \notin N \/ r \notin by_net[c.net]}]
    /\ by_net' = [n \in Nets |-> IF n \in N THEN {} ELSE by_net[n]]
    /\ UNCHANGED reserved

Clear ==
    /\ by_resource' = [r \in RouteResource |-> {}]
    /\ by_net' = [n \in Nets |-> {}]
    /\ UNCHANGED reserved

IndexNext ==
    \/ \E x \in Node, n \in Nets : ReserveEndpoint(x, n)
    \/ \E n \in Nets, p \in Paths : ReserveRoutePath(n, p)
    \/ \E n \in Nets : RipUp({n})
    \/ Clear

IndexSpec == IndexInit /\ [][IndexNext]_indexVars

-----------------------------------------------------------------------------

\* by_net is the inverse of by_resource: what rip_up releases is exactly what
\* the net claims, so no claim outlives its route and none is released twice.
IndexInverse ==
    \A n \in Nets : by_net[n] = {r \in RouteResource : Holds(n, r)}

\* A net counts once on a resource however many of its paths use it
\* (ResourceClaims::insert), so that a net never contends with itself.
OneClaimPerNet ==
    \A r \in RouteResource : \A c, d \in by_resource[r] : c.net = d.net => c = d

PairwiseLegal(C) ==
    \A c, d \in C : c.net # d.net => SharesLegally(c, d)

\* The overuse count that decides convergence and the pairwise rule that
\* prices and blocks a search step agree: a resource is contested exactly
\* when two of its claims may not share it.
OveruseIsConflict ==
    \A r \in RouteResource : Overuse(by_resource[r]) = 0 <=> PairwiseLegal(by_resource[r])

\* Hard blocking is exact: on a resource nobody contends for, a claim of a net
\* that has none is blocked exactly when adding it would make it contested.
BlockedIsExact ==
    \A r \in RouteResource, n \in Nets :
        \A from \in (IF r.kind = "Node" THEN {NoWire} ELSE Node) :
            Overuse(by_resource[r]) = 0 /\ ~Holds(n, r) =>
                (Blocked(n, r, from)
                   <=> Overuse(by_resource[r] \cup {[net |-> n, from |-> from]}) > 0)

\* Reserving a second path through a wire the net already drives keeps the
\* first claim: a claim is kept as it is until it is released, so the incoming
\* wire that other nets were priced and blocked against never changes.
ClaimsAreImmutable ==
    [][\A r \in RouteResource : \A c \in by_resource[r], d \in by_resource'[r] :
          c.net = d.net => c = d]_indexVars
=============================================================================
