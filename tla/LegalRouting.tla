---------------------------- MODULE LegalRouting ----------------------------
(***************************************************************************)
(* What routing a device design promises: it either fails, or delivers an  *)
(* image in which every net that has to be routed reaches all of its sinks *)
(* and no two nets use the same wire against the sharing rules.            *)
(*                                                                         *)
(* The image maps each net to the set of committed paths, node sequences   *)
(* of the fabric.                                                          *)
(***************************************************************************)
EXTENDS Integers, Sequences

CONSTANTS
    Node,             \* the wires
    Nets, Routed,     \* all nets, and those that need programmable routing
    SyntheticGclk,    \* the synthetic clock nets
    OccupancyKey,     \* the stitched component of a wire
    LocalArc,         \* the pips
    Roots,            \* the wires a net's driver can start from
    SinkGroups,       \* for every net, the alternative wires of each sink
    Paths, NoImage

VARIABLES
    result,   \* "pending", then "ok" or "error"
    delivered \* the routed image, NoImage before success

WiresOf(P) == UNION {{p[i] : i \in 1 .. Len(p)} : p \in P}

PipsOf(P) == UNION {{<<p[i - 1], p[i]>> : i \in 2 .. Len(p)} \cap LocalArc : p \in P}

\* Two nets may meet on a component only if one is a synthetic clock, and may
\* both drive a wire only from the same wire.
NetsCompatible(n, P, m, Q) ==
    /\ \A x \in WiresOf(P), y \in WiresOf(Q) :
           OccupancyKey[x] = OccupancyKey[y] => n \in SyntheticGclk \/ m \in SyntheticGclk
    /\ \A a \in PipsOf(P), b \in PipsOf(Q) :
           a[2] = b[2] => a[1] = b[1] /\ (n \in SyntheticGclk \/ m \in SyntheticGclk)

\* No wire of a net is driven by two of its pips.
OneDriver(P) ==
    \A a, b \in PipsOf(P) : a[2] = b[2] => a = b

\* Every wire of a net is reached from its roots by the net's own steps: a set
\* of wires that holds the roots and is closed under the steps holds them all.
Rooted(n, P) ==
    \A X \in SUBSET Node :
        /\ Roots[n] \subseteq X
        /\ \A p \in P : \A i \in 2 .. Len(p) : p[i - 1] \in X => p[i] \in X
        => WiresOf(P) \subseteq X

ReachesAllSinks(n, P) ==
    \A g \in 1 .. Len(SinkGroups[n]) :
        \E p \in P : p[Len(p)] \in SinkGroups[n][g]

Legal(image) ==
    /\ \A n, m \in Nets : n # m => NetsCompatible(n, image[n], m, image[m])
    /\ \A n \in Nets : OneDriver(image[n]) /\ Rooted(n, image[n])
    /\ \A n \in Routed : ReachesAllSinks(n, image[n])
    /\ \A n \in Nets \ Routed : image[n] = {}

Init == result = "pending" /\ delivered = NoImage

Deliver ==
    /\ result = "pending"
    /\ result' = "ok"
    /\ delivered' \in [Nets -> SUBSET Paths]
    /\ Legal(delivered')

Fail ==
    /\ result = "pending"
    /\ result' = "error"
    /\ UNCHANGED delivered

Next == Fail \/ Deliver

vars == <<result, delivered>>

\* What is never delivered, and that routing does end.
SafeSpec == Init /\ [][Next]_vars

Spec == SafeSpec /\ WF_vars(Next)
=============================================================================
