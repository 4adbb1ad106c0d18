---------------------------- MODULE MCRouteParts ----------------------------
(***************************************************************************)
(* The parts of the router below the negotiation, in one run.  Nothing     *)
(* interleaves them, so that one of them moves: searches, the claim index, *)
(* the guides, the heap of a search or the escape stage.                   *)
(*                                                                         *)
(* Searches from the tree {root, tap, leaf} of a net over the wires s1, s2 *)
(* and the goal g: s1 and s2 are stitched (no cost in either direction),   *)
(* leaf is a sink reached before, and pips have every cost of StepCosts.   *)
(* One search follows a guide that leads over the sink's tile twice: there *)
(* the wire g is another node, early, when it is come by first.            *)
(*                                                                         *)
(* Claims: two clocks and two logical nets on a fabric of three wires, two *)
(* of them stitched into one component and both able to drive the third;   *)
(* one path drives it twice.                                               *)
(*                                                                         *)
(* Guides: a chip of three by three tiles, one missing, and old routes     *)
(* over up to three tiles, straight or not, and two long ones that come to *)
(* tiles again.                                                            *)
(*                                                                         *)
(* Heaps of up to eight entries, four levels, with ties.                   *)
(*                                                                         *)
(* Escapes: every list of four requests for one or two of four exits, each *)
(* for a net of its own, and every list of up to three requests of two     *)
(* nets for any of three exits.                                            *)
(***************************************************************************)
EXTENDS ClaimIndex, RouteGuide, RouteSearch, FrontierHeap

CONSTANTS
    root, tap, leaf, s1, s2, g, early,              \* of the search
    clk1, clk2, net1, net2, w1, w2, w3, none, nobody,  \* of the claim index
    EscapeNets, Exits, RequestLists, Nobody         \* of the escape stage

VARIABLES
    part,
    requests, visited, group, owners, assignments, outcome

escape_vars == <<requests, visited, group, owners, assignments, outcome>>

Escape == INSTANCE EscapeAssignment WITH Nets <- EscapeNets

ASSUME RequestsSorted == Escape!RequestsAssumption

SearchIdle ==
    /\ problem = CHOOSE P \in Problems : TRUE
    /\ attempt = 1 /\ frontier = {} /\ best_cost = <<>> /\ parent = <<>>
    /\ result = "idle" /\ path = <<>>

GuideIdle ==
    /\ phase = "lowered" /\ net = CHOOSE n \in GuidedNets : TRUE
    /\ queue = <<>> /\ came_from = <<>> /\ guide = <<>> /\ field = <<>>
    /\ index = 0 /\ trail = <<>>

EscapeIdle ==
    /\ requests = <<>> /\ visited = {} /\ group = {} /\ owners = Escape!Unowned
    /\ assignments = {} /\ outcome = "running"

PartsInit ==
    /\ IndexInit /\ HeapInit
    /\ \/ part = "search" /\ Init /\ GuideIdle /\ EscapeIdle
       \/ part \in {"claims", "heap"} /\ SearchIdle /\ GuideIdle /\ EscapeIdle
       \/ part = "guides" /\ SearchIdle /\ GuideInit /\ EscapeIdle
       \/ part = "escapes" /\ SearchIdle /\ GuideIdle /\ Escape!Init

SearchStep ==
    part = "search" /\ Next /\ UNCHANGED <<part, indexVars, guideVars, heapVars, escape_vars>>

PartsNext ==
    \/ SearchStep
    \/ part = "claims" /\ IndexNext /\ UNCHANGED <<part, vars, guideVars, heapVars, escape_vars>>
    \/ part = "guides" /\ GuideNext /\ UNCHANGED <<part, vars, indexVars, heapVars, escape_vars>>
    \/ part = "heap" /\ HeapNext /\ UNCHANGED <<part, vars, indexVars, guideVars, escape_vars>>
    \/ part = "escapes" /\ Escape!Next /\ UNCHANGED <<part, vars, indexVars, guideVars, heapVars>>

PartsSpec ==
    /\ PartsInit /\ [][PartsNext]_<<part, vars, indexVars, guideVars, heapVars, escape_vars>>
    /\ WF_vars(SearchStep)

\* What escape.rs promises of a crossbar without exits to spare (see
\* EscapeAssignment).
ReservationsComplete == Escape!ReservationsComplete

-----------------------------------------------------------------------------

MCWire == {root, tap, leaf, s1, s2, g}
MCSearchNode == MCWire \cup {early}
MCTree == {root, tap, leaf}
MCRouteNodeOf == [n \in MCSearchNode |-> IF n = early THEN g ELSE n]

StepCosts == {1, 3}
Stitches == {<<s1, s2>>, <<s2, s1>>}
TreeSteps == {<<root, tap>>, <<tap, leaf>>}

\* The pips beside those of the tree: some are blocked or off the guide.
PipSets == {{<<root, s1>>, <<tap, s2>>, <<s1, tap>>, <<s1, g>>, <<s2, leaf>>, <<leaf, g>>},
            {<<root, s1>>, <<tap, s1>>, <<s2, leaf>>, <<s2, g>>},
            {<<root, s2>>, <<s1, leaf>>, <<leaf, s2>>}}

SearchOver(pips, costs, penalty) ==
    [steps |-> pips \cup Stitches \cup TreeSteps,
     cost |-> [s \in MCSearchNode \X MCSearchNode |->
                 IF s \in DOMAIN costs THEN costs[s] ELSE IF s \in Stitches THEN 0 ELSE 1],
     starts |-> {root, tap},
     start_cost |-> [n \in MCSearchNode |-> IF n = tap THEN 2 ELSE 0],
     start_priority |-> [n \in MCSearchNode |-> IF n = tap THEN 2 ELSE 0],
     estimate |-> [n \in MCSearchNode |-> IF n = s2 THEN penalty ELSE 0],
     goals |-> {g}]

Limited(search) == [search EXCEPT !.steps = {s \in @ : s[2] # s2}]

Circling ==
    [SearchOver({<<root, s1>>, <<s1, early>>, <<early, s2>>, <<s2, g>>}, <<>>, 0)
        EXCEPT !.steps = @ \ Stitches]

MCProblems ==
    {<<Circling>>} \cup
    UNION {{<<Limited(SearchOver(P, costs, e)), SearchOver(P, costs, e)>> :
              costs \in [P -> StepCosts], e \in {0, 2}} : P \in PipSets}

MCNets == {clk1, clk2, net1, net2}
MCSynthetic == {clk1, clk2}
MCNode == {w1, w2, w3}
MCOccupancyKey == [n \in MCNode |-> IF n = w2 THEN w1 ELSE n]
MCLocalArc == {<<w1, w3>>, <<w2, w3>>}
MCPaths == {<<w1, w3>>, <<w2, w3>>, <<w1, w2>>, <<w2, w3, w1, w3>>}

Chip == (0 .. 2) \X (0 .. 2)
MCTiles == Chip \ {<<1, 2>>}

Long == {<<<<0, 2>>, <<0, 0>>, <<2, 0>>, <<2, 2>>, <<0, 2>>, <<0, 1>>, <<2, 1>>>>,
         <<<<1, 0>>, <<1, 1>>, <<1, 2>>, <<1, 1>>, <<0, 1>>, <<2, 1>>, <<2, 2>>>>}
Short == {p \in UNION {[1 .. n -> Chip] : n \in 0 .. 3} : p # <<>> => p[1] \in {<<0, 0>>, <<1, 1>>}}

MCGuidedNets ==
    {[pips |-> p, source |-> s, sink |-> t] :
        p \in Long \cup Short, s \in {<<0, 0>>, <<2, 0>>}, t \in {<<2, 2>>, <<2, 1>>}}

MCEntries == [priority : 0 .. 3, tag : {0}]

RECURSIVE HeapOfTags(_), Drained(_)
HeapOfTags(n) ==
    IF n = 0 THEN <<>> ELSE Pushed(HeapOfTags(n - 1), [priority |-> 1, tag |-> n - 1])

Drained(h) == IF SizeOf(h) = 0 THEN <<>> ELSE <<h[0].tag>> \o Drained(Rest(h))

\* The order in which frontier_heap_has_stable_equal_cost_pop_order finds eight
\* entries of equal priority, pushed as 0 to 7, popped again.
ASSUME TestedOrder == Drained(HeapOfTags(8)) = <<0, 1, 3, 7, 6, 5, 4, 2>>

MCExits == 1 .. 4
MCEscapeNets == 1 .. 4

Sorted(R) ==
    \A i, j \in 1 .. Len(R) : i < j => Cardinality(R[i].exits) <= Cardinality(R[j].exits)

Pairs == {X \in SUBSET MCExits : Cardinality(X) \in {1, 2}}

MCRequestLists ==
    {R \in {[i \in 1 .. 4 |-> [net |-> i, exits |-> X[i]]] : X \in [1 .. 4 -> Pairs]}
        : Sorted(R)}
    \cup
    {R \in UNION {[1 .. n -> [net : {1, 2}, exits : SUBSET (1 .. 3) \ {{}}]] : n \in 0 .. 3}
        : Sorted(R)}
=============================================================================
