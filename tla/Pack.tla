-------------------------------- MODULE Pack --------------------------------
(***************************************************************************)
(* The packing stage (stages/pack/api.rs): flip-flops are joined with the  *)
(* LUTs that drive their data pins into lanes, and lanes, two at most, are *)
(* joined into clusters of a slice.  A block RAM is a cluster by itself.   *)
(*                                                                         *)
(* Cells are numbered in packing order (by class and rule rank).  Which    *)
(* lane is the next seed and which of the connected lanes scores best      *)
(* depends on counts over the netlist; both are nondeterministic here.     *)
(***************************************************************************)
EXTENDS Integers, FiniteSets, FiniteSetsExt

CONSTANTS
  CellCount,
  Kind,         \* "bram", "ff", "lut", "other" or "constant", of each cell
  ControlSets,  \* clock, clock polarity, clock enable and set/reset nets
  Designs,      \* what drives the flip-flops, their controls, the nets that
                \* build_lane_topology counts (all but those of a cell without
                \* lane, such as a block RAM), and the capacity option
  None

Cells == 1 .. CellCount
OfKind(k) == {c \in Cells : Kind[c] = k}

(* What a list of cells in packing order is. *)
PackAssumption ==
  /\ CellCount \in Nat
  /\ Kind \in [Cells -> {"bram", "ff", "lut", "other", "constant"}]
  /\ None \notin ControlSets \union Cells
  /\ Designs \subseteq [driver  : [OfKind("ff") -> Cells \union {None}],
                        control : [OfKind("ff") -> ControlSets],
                        nets    : SUBSET (SUBSET Cells),
                        capacity : Nat]

VARIABLES
  phase,     \* "ffs", "cells", "clusters" or "done"
  design,
  lanes,     \* the lanes built
  clusters,  \* the clusters built, each with its lanes
  open       \* the lanes of the cluster that is being built

pack_vars == <<phase, design, lanes, clusters, open>>

Capacity == Max({design.capacity, 2})

PackInit ==
  /\ phase = "ffs"
  /\ design \in Designs
  /\ lanes = {} /\ open = {}
  /\ clusters = {}

(***************************************************************************)
(* build_lanes.                                                            *)
(***************************************************************************)
Used == UNION {lane.members : lane \in lanes}

(* Mutant: a LUT in a lane already is taken again. *)
PairedLut_Shared(ff) == {design.driver[ff]} \intersect OfKind("lut")

(* The LUT behind a flip-flop's data pin, unless a lane has it already. *)
PairedLut(ff) == ({design.driver[ff]} \intersect OfKind("lut")) \ Used

FfLane(ff) ==
  [kind    |-> IF PairedLut(ff) = {} THEN "ff" ELSE "lutff",
   members |-> {ff} \union PairedLut(ff),
   control |-> design.control[ff]]

AddFfLane ==
  /\ phase = "ffs"
  /\ OfKind("ff") \ Used # {}
  /\ lanes' = lanes \union {FfLane(Min(OfKind("ff") \ Used))}
  /\ UNCHANGED <<phase, design, clusters, open>>

FfsDone ==
  /\ phase = "ffs" /\ OfKind("ff") \subseteq Used
  /\ phase' = "cells"
  /\ UNCHANGED <<design, lanes, clusters, open>>

(* Constant sources need no slice, block RAMs are no lanes. *)
AddOtherLanes ==
  /\ phase = "cells"
  /\ lanes' = lanes \union
       {[kind |-> Kind[c], members |-> {c}, control |-> None] :
          c \in (OfKind("lut") \union OfKind("other")) \ Used}
  /\ clusters' = {{[kind |-> "bram", members |-> {c}, control |-> None]} : c \in OfKind("bram")}
  /\ phase' = "clusters"
  /\ UNCHANGED <<design, open>>

(***************************************************************************)
(* build_cluster_plans.                                                    *)
(***************************************************************************)
Free == lanes \ UNION (clusters \union {open})

CellsIn(cluster) == UNION {lane.members : lane \in cluster}
Luts(cluster) == CellsIn(cluster) \intersect OfKind("lut")
Ffs(cluster) == CellsIn(cluster) \intersect OfKind("ff")
Controls(cluster) == {lane.control : lane \in cluster} \ {None}

(* Mutant: control sets are not compared. *)
CanAccept_AnyControl(cluster, lane) ==
  /\ Cardinality(cluster) < 2
  /\ \A first \in cluster : lane.kind = first.kind
  /\ Cardinality(CellsIn(cluster \union {lane})) <= Capacity

(* cluster_can_accept_lane *)
CanAccept(cluster, lane) ==
  /\ Cardinality(cluster) < 2
  /\ \A first \in cluster : lane.kind = first.kind
  /\ Cardinality(CellsIn(cluster \union {lane})) <= Capacity
  /\ Cardinality(Luts(cluster \union {lane})) <= 2
  /\ Cardinality(Ffs(cluster \union {lane})) <= 2
  /\ Cardinality(Controls(cluster \union {lane})) <= 1

(* A net that counts for the lanes touches cells of both. *)
Connected(cluster, lane) ==
  \E net \in design.nets :
    net \intersect CellsIn(cluster) # {} /\ net \intersect lane.members # {}

Acceptable(cluster) ==
  {lane \in Free : lane.kind # "other" /\ CanAccept(cluster, lane)}

(* Mutant: lanes without a common net are no candidates. *)
Candidates_ConnectedOnly(cluster) ==
  {lane \in Acceptable(cluster) : Connected(cluster, lane)}

(* best_cluster_candidate: a connected lane; failing that, for LUTs, any. *)
Candidates(cluster) ==
  LET connected == {lane \in Acceptable(cluster) : Connected(cluster, lane)}
  IN IF connected = {} /\ \E lane \in cluster : lane.kind = "lut"
     THEN Acceptable(cluster) ELSE connected

Seed ==
  /\ phase = "clusters" /\ open = {}
  /\ \E lane \in Free : open' = {lane}
  /\ UNCHANGED <<phase, design, lanes, clusters>>

Extends(cluster) == \A lane \in cluster : lane.kind # "other"

ExtendCluster ==
  /\ phase = "clusters" /\ open # {} /\ Extends(open)
  /\ \E lane \in Candidates(open) : open' = open \union {lane}
  /\ UNCHANGED <<phase, design, lanes, clusters>>

CloseCluster ==
  /\ phase = "clusters" /\ open # {}
  /\ Extends(open) => Candidates(open) = {}
  /\ clusters' = clusters \union {open}
  /\ open' = {}
  /\ UNCHANGED <<phase, design, lanes>>

(* The clusters replace those of the design and their cells refer to them. *)
Packed ==
  /\ phase = "clusters" /\ open = {} /\ Free = {}
  /\ phase' = "done"
  /\ UNCHANGED <<design, lanes, clusters, open>>

Finished == phase = "done" /\ UNCHANGED pack_vars

PackNext ==
  \/ AddFfLane \/ FfsDone \/ AddOtherLanes
  \/ Seed \/ ExtendCluster \/ CloseCluster \/ Packed \/ Finished

PackSpec == PackInit /\ [][PackNext]_pack_vars

(***************************************************************************)
(* Properties.                                                             *)
(***************************************************************************)
(* At the end every cell is in exactly one cluster, constants in none,     *)
(* although a LUT may drive several flip-flops and be paired with one.     *)
CellsOnce ==
  phase = "done" =>
    \A c \in Cells :
      Cardinality({cluster \in clusters : c \in CellsIn(cluster)})
        = IF Kind[c] = "constant" THEN 0 ELSE 1

(* Every cluster fits a slice: at most two LUTs, two flip-flops and        *)
(* Capacity cells, one control set, and block RAMs alone; no later joining *)
(* of lanes that were legal by themselves breaks it.                       *)
ClustersFitSlice ==
  \A cluster \in clusters \union {open} :
    /\ Cardinality(Luts(cluster)) <= 2 /\ Cardinality(Ffs(cluster)) <= 2
    /\ Cardinality(CellsIn(cluster)) <= Capacity
    /\ \A f, g \in Ffs(cluster) : design.control[f] = design.control[g]
    /\ CellsIn(cluster) \intersect OfKind("bram") # {} => Cardinality(CellsIn(cluster)) = 1

(* Whatever the order of the seeds, two clusters of one lane each could    *)
(* not have been one: lanes of a kind that share a net and a control set   *)
(* and fit a slice are not left apart, and at most one LUT is alone.       *)
NothingLeftApart ==
  phase = "done" =>
    \A c, d \in clusters : \A a, b \in lanes :
      c = {a} /\ d = {b} /\ a # b /\ a.kind = b.kind /\ a.kind # "other" =>
        /\ a.kind # "lut"
        /\ \/ ~\E net \in design.nets : net \intersect a.members # {} /\ net \intersect b.members # {}
           \/ a.control # b.control
           \/ Cardinality(a.members) + Cardinality(b.members) > Capacity

(* The clusters partition the cells and none of them could be saved.       *)
PackingComplete == CellsOnce /\ NothingLeftApart
=============================================================================
