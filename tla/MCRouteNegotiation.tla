------------------------- MODULE MCRouteNegotiation -------------------------
(***************************************************************************)
(* A small fabric for RouteNegotiation.                                    *)
(***************************************************************************)
EXTENDS RouteNegotiation, TLC

CONSTANTS a, b, k, u, none, nobody, noimage,
          ra, rb, rk, m, w, d, e, ga, ha, gb, gk

\* All paths of a fabric that enter no wire twice.
RECURSIVE Extensions(_, _)
Extensions(arcs, P) ==
    LET longer == {Append(p, arc[2]) : p \in P, arc \in arcs}
        next == {q \in longer : /\ <<q[Len(q) - 1], q[Len(q)]>> \in arcs
                                /\ \A i, j \in 1 .. Len(q) : q[i] = q[j] => i = j}
    IN  IF next = {} THEN P ELSE P \cup Extensions(arcs, next)

SimplePaths(nodes, arcs) == Extensions(arcs, {<<x>> : x \in nodes})

NobodyReserves(nodes) == [x \in nodes |-> nobody]

-----------------------------------------------------------------------------
\* The nets a and b and the clock k from a pad to a buffer meet on the stitched
\* wire m ~ w, which k can drive at either end.  Both a and b have a detour;
\* that of a continues through the root of b.  The net u needs no programmable
\* routing.  The net a is that of a clock buffer, with a logic pin and the clock
\* pin of a block RAM to reach: its detour is no wire made for clocks, so that
\* it leads to the clock pin by way of m only.  The escape stage reserved nothing, the wires a and b meet on for a
\* and the detour of b for b, that detour for a, the component a starts on and
\* its detour, or the wires a and b meet on for b.

MCNode == {ra, rb, rk, m, w, d, e, ga, ha, gb, gk}
MCLocalArc ==
    {<<ra, m>>, <<ra, d>>, <<rk, m>>, <<rk, w>>, <<rb, m>>, <<rb, e>>,
     <<d, ga>>, <<d, ha>>, <<d, rb>>, <<d, m>>, <<e, gb>>, <<w, ga>>, <<w, ha>>, <<w, gb>>, <<w, gk>>}
MCStitchArc == {<<m, w>>, <<w, m>>}
MCKey == [x \in MCNode |-> IF x = w THEN m ELSE x]
MCPaths == SimplePaths(MCNode, MCLocalArc \cup MCStitchArc)
MCNets == {a, b, k, u}
MCOrder == <<k, a, u, b>>
MCRoots == a :> {ra} @@ b :> {rb} @@ k :> {rk} @@ u :> {}
MCSinks == a :> <<{ga}, {ha}>> @@ b :> <<{gb}>> @@ k :> <<{gk}>> @@ u :> <<>>
MCSynthetic == {k}
MCRouted == {a, b, k}
MCEscapes ==
    LET free == NobodyReserves(MCNode)
    IN  {free,
         [free EXCEPT ![m] = a, ![e] = b],
         [free EXCEPT ![e] = a],
         [free EXCEPT ![ra] = b, ![d] = a],
         [free EXCEPT ![m] = b]}
MCDedicatedClock == {a}
MCClockSink == {ha}
MCClockRoute == {ra, m, w, d}
MCDedicatedClockWire == {ra, m, w}
=============================================================================
