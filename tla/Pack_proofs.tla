----------------------------- MODULE Pack_proofs -----------------------------
(***************************************************************************)
(* Proofs about packing, for every list of cells, every pairing of LUTs    *)
(* with flip-flops and every order in which the clusters are grown: each   *)
(* cell ends in one cluster, and each cluster fits a slice.                *)
(***************************************************************************)
EXTENDS Pack, LeastElements

Ram(c) == {[kind |-> "bram", members |-> {c}, control |-> None]}

RegisterLane(lane) ==
  \E f \in OfKind("ff"), S \in SUBSET OfKind("lut") :
    /\ lane.kind = IF S = {} THEN "ff" ELSE "lutff"
    /\ lane.members = {f} \union S
    /\ S # {} => S = {design.driver[f]}
    /\ lane.control = design.control[f]

SingleLane(lane) ==
  \E c \in OfKind("lut") \union OfKind("other") :
    lane.kind = Kind[c] /\ lane.members = {c} /\ lane.control = None

(* Every lane is one of the two, and no cell is in two lanes. *)
LanesSound ==
  /\ \A lane \in lanes : RegisterLane(lane) \/ SingleLane(lane)
  /\ \A a, b \in lanes : a # b => a.members \intersect b.members = {}

(* What each phase leaves behind it. *)
PhasesInOrder ==
  /\ phase \in {"ffs", "cells", "clusters", "done"}
  /\ phase \in {"ffs", "cells"} => clusters = {} /\ open = {}
  /\ phase # "ffs" => OfKind("ff") \subseteq Used
  /\ phase \in {"clusters", "done"} =>
       /\ OfKind("lut") \union OfKind("other") \subseteq Used
       /\ \A c \in OfKind("bram") : Ram(c) \in clusters
  /\ phase = "done" => open = {} /\ Free = {}

(* A cluster is a block RAM or some of the lanes, and no lane is in two. *)
ClustersApart ==
  /\ open \subseteq lanes
  /\ open # {} => \E a, b \in lanes : open = {a, b}
  /\ \A cluster \in clusters :
       \/ \E c \in OfKind("bram") : cluster = Ram(c)
       \/ cluster # {} /\ cluster \subseteq lanes /\ cluster \intersect open = {}
  /\ \A c, d \in clusters : c # d => c \intersect d = {}

PackInv ==
  /\ design \in Designs
  /\ LanesSound
  /\ PhasesInOrder
  /\ ClustersApart
  /\ ClustersFitSlice

-----------------------------------------------------------------------------
LEMMA CapacityAtLeastTwo ==
  ASSUME PackAssumption, design \in Designs
  PROVE  Capacity \in Nat /\ Capacity >= 2
<1>1. design.capacity \in Nat
  BY DEF PackAssumption
<1>2. PICK m \in {design.capacity, 2} : \A y \in {design.capacity, 2} : m >= y
  BY <1>1
<1>3. /\ Max({design.capacity, 2}) \in {design.capacity, 2}
      /\ \A y \in {design.capacity, 2} : Max({design.capacity, 2}) >= y
  BY <1>2 DEF Max
<1> QED
  BY <1>1, <1>3 DEF Capacity

LEMMA PairCardinality ==
  ASSUME NEW a, NEW b
  PROVE  /\ IsFiniteSet({a, b})
         /\ Cardinality({a, b}) = IF a = b THEN 1 ELSE 2
<1>1. IsFiniteSet({a}) /\ Cardinality({a}) = 1
  BY FS_Singleton
<1>2. {a, b} = {a} \union {b}
  OBVIOUS
<1> QED
  BY <1>1, <1>2, FS_AddElement

(* Fewer than two lanes of one or two are one. *)
LEMMA OneLane ==
  ASSUME NEW a, NEW b, Cardinality({a, b}) < 2
  PROVE  a = b
<1>1. Cardinality({a, b}) = IF a = b THEN 1 ELSE 2
  BY PairCardinality
<1> QED
  BY <1>1

LEMMA SmallSubset ==
  ASSUME NEW a, NEW b, NEW S \in SUBSET {a, b}
  PROVE  IsFiniteSet(S) /\ Cardinality(S) \in Nat /\ Cardinality(S) <= 2
<1>1. IsFiniteSet({a, b}) /\ Cardinality({a, b}) <= 2
  <2>1. IsFiniteSet({a, b}) /\ Cardinality({a, b}) = IF a = b THEN 1 ELSE 2
    BY PairCardinality
  <2> QED
    BY <2>1
<1>2. IsFiniteSet(S) /\ Cardinality(S) <= Cardinality({a, b})
  BY <1>1, FS_Subset
<1> QED
  BY <1>1, <1>2, FS_CardinalityType

LEMMA AtMostOne ==
  ASSUME NEW S, IsFiniteSet(S), Cardinality(S) <= 1, NEW x \in S, NEW y \in S
  PROVE  x = y
<1>1. CASE x # y
  <2>1. IsFiniteSet({x, y}) /\ Cardinality({x, y}) = 2
    BY <1>1, PairCardinality
  <2>2. Cardinality({x, y}) <= Cardinality(S) /\ Cardinality(S) \in Nat
    BY FS_Subset, FS_CardinalityType
  <2> QED
    BY <2>1, <2>2
<1> QED
  BY <1>1

LEMMA MinIn ==
  ASSUME PackAssumption, NEW S \in SUBSET Cells, S # {}
  PROVE  Min(S) \in S
<1>1. S \in SUBSET Nat
  BY DEF Cells, PackAssumption
<1>2. \E x \in S : \A y \in S : x <= y
  BY <1>1, LeastNatural
<1> QED
  BY <1>2 DEF Min

-----------------------------------------------------------------------------
(* One lane fits a slice. *)
LEMMA LaneFits ==
  ASSUME PackAssumption, PackInv, NEW lane \in lanes
  PROVE  /\ lane.members # {}
         /\ Luts({lane}) \union Ffs({lane}) \subseteq lane.members
         /\ Cardinality(Luts({lane})) <= 2 /\ Cardinality(Ffs({lane})) <= 2
         /\ Cardinality(CellsIn({lane})) <= Capacity
         /\ \A f \in Ffs({lane}) : lane.control = design.control[f]
         /\ CellsIn({lane}) \intersect OfKind("bram") = {}
<1>1. CellsIn({lane}) = lane.members
  BY DEF CellsIn
<1>2. Capacity \in Nat /\ Capacity >= 2
  BY CapacityAtLeastTwo DEF PackInv
<1>3. CASE RegisterLane(lane)
  <2>1. PICK f \in OfKind("ff"), S \in SUBSET OfKind("lut") :
          /\ lane.members = {f} \union S
          /\ S # {} => S = {design.driver[f]}
          /\ lane.control = design.control[f]
    BY <1>3 DEF RegisterLane
  <2>2. lane.members \subseteq {f, design.driver[f]}
    BY <2>1
  <2>3. \A T \in SUBSET lane.members : Cardinality(T) \in Nat /\ Cardinality(T) <= 2
    BY <2>2, SmallSubset
  <2>4. \A g \in Ffs({lane}) : g = f
    BY <1>1, <2>1 DEF Ffs, OfKind
  <2>5. lane.members \intersect OfKind("bram") = {}
    BY <2>1 DEF OfKind
  <2> QED
    BY <1>1, <1>2, <2>1, <2>3, <2>4, <2>5, SMTT(30) DEF Luts, Ffs
<1>4. CASE SingleLane(lane)
  <2>1. PICK c \in OfKind("lut") \union OfKind("other") : lane.members = {c}
    BY <1>4 DEF SingleLane
  <2>2. \A T \in SUBSET lane.members : Cardinality(T) \in Nat /\ Cardinality(T) <= 2
    BY <2>1, SmallSubset
  <2>3. Ffs({lane}) = {} /\ lane.members \intersect OfKind("bram") = {}
    BY <1>1, <2>1 DEF Ffs, OfKind
  <2> QED
    BY <1>1, <1>2, <2>1, <2>2, <2>3, SMTT(30) DEF Luts, Ffs
<1> QED
  BY <1>3, <1>4 DEF PackInv, LanesSound

(* What a cluster of the lanes a and b is made of. *)
LEMMA PairedCells ==
  ASSUME NEW a, NEW b
  PROVE  /\ CellsIn({a, b}) = a.members \union b.members
         /\ Controls({a, b}) = {a.control, b.control} \ {None}
BY DEF CellsIn, Controls

(* No lanes fit, too. *)
LEMMA NoneFit ==
  /\ CellsIn({}) = {} /\ Ffs({}) = {} /\ Luts({}) = {}
  /\ Cardinality(CellsIn({})) = 0 /\ Cardinality(Luts({})) = 0 /\ Cardinality(Ffs({})) = 0
<1>1. CellsIn({}) = {} /\ Ffs({}) = {} /\ Luts({}) = {}
  BY DEF CellsIn, Ffs, Luts
<1> QED
  BY <1>1, FS_EmptySet

LEMMA InitPacked == ASSUME PackAssumption, PackInit PROVE PackInv
<1>1. /\ design \in Designs /\ phase = "ffs"
      /\ lanes = {} /\ open = {} /\ clusters = {}
  BY DEF PackInit
<1>2. LanesSound /\ PhasesInOrder /\ ClustersApart
  BY <1>1 DEF LanesSound, PhasesInOrder, ClustersApart
<1>3. ClustersFitSlice
  BY <1>1, NoneFit, CapacityAtLeastTwo DEF ClustersFitSlice
<1> QED
  BY <1>1, <1>2, <1>3 DEF PackInv

(* A lane that shares no cell with the others can be added before the     *)
(* clusters are made.                                                      *)
LEMMA StepAddFfLane ==
  ASSUME PackAssumption, PackInv, AddFfLane
  PROVE  PackInv'
<1> DEFINE f == Min(OfKind("ff") \ Used)
           lane == FfLane(f)
<1>1. f \in OfKind("ff") /\ f \notin Used
  BY MinIn DEF AddFfLane, OfKind
<1>2. lane.members = {f} \union PairedLut(f) /\ lane.control = design.control[f]
      /\ lane.kind = IF PairedLut(f) = {} THEN "ff" ELSE "lutff"
  BY DEF FfLane
<1>3. PairedLut(f) \subseteq OfKind("lut") /\ PairedLut(f) \intersect Used = {}
      /\ (PairedLut(f) # {} => PairedLut(f) = {design.driver[f]})
  BY DEF PairedLut
<1>4. RegisterLane(lane)
  BY <1>1, <1>2, <1>3 DEF RegisterLane
<1>6. /\ lanes' = lanes \union {lane} /\ design' = design
      /\ phase' = "ffs" /\ phase = "ffs" /\ clusters' = {} /\ open' = {}
  BY DEF AddFfLane, PackInv, PhasesInOrder
<1> HIDE DEF lane, f
<1>5. \A a \in lanes : a.members \intersect lane.members = {}
  <2>1. \A a \in lanes : a.members \subseteq Used
    BY DEF Used
  <2> QED
    BY <1>1, <1>2, <1>3, <2>1
<1>7. LanesSound'
  <2>1. \A a \in lanes' : RegisterLane(a)' \/ SingleLane(a)'
    BY <1>4, <1>6 DEF PackInv, LanesSound, RegisterLane, SingleLane
  <2>2. \A a, b \in lanes' : a # b => a.members \intersect b.members = {}
    BY <1>5, <1>6 DEF PackInv, LanesSound
  <2> QED
    BY <2>1, <2>2 DEF LanesSound
<1>8. PhasesInOrder' /\ ClustersApart'
  BY <1>6 DEF PhasesInOrder, ClustersApart
<1>9. ClustersFitSlice'
  BY <1>6, NoneFit, CapacityAtLeastTwo DEF PackInv, ClustersFitSlice, Capacity
<1> QED
  BY <1>6, <1>7, <1>8, <1>9 DEF PackInv

LEMMA StepAddOtherLanes ==
  ASSUME PackAssumption, PackInv, AddOtherLanes
  PROVE  PackInv'
<1> DEFINE rest == (OfKind("lut") \union OfKind("other")) \ Used
           single(c) == [kind |-> Kind[c], members |-> {c}, control |-> None]
<1>1. /\ lanes' = lanes \union {single(c) : c \in rest}
      /\ clusters' = {Ram(c) : c \in OfKind("bram")}
      /\ phase' = "clusters" /\ design' = design /\ open' = {} /\ phase = "cells"
  BY DEF AddOtherLanes, PackInv, PhasesInOrder, Ram
<1>2. LanesSound'
  <2>1. \A a \in lanes' : RegisterLane(a)' \/ SingleLane(a)'
    <3>1. \A a \in lanes : RegisterLane(a)' \/ SingleLane(a)'
      BY <1>1 DEF PackInv, LanesSound, RegisterLane, SingleLane
    <3>2. \A c \in rest : SingleLane(single(c))'
      BY DEF SingleLane
    <3> QED
      BY <1>1, <3>1, <3>2
  <2>2. ASSUME NEW a \in lanes', NEW b \in lanes', a # b
        PROVE  a.members \intersect b.members = {}
    BY <1>1, <2>2 DEF PackInv, LanesSound, Used
  <2> QED
    BY <2>1, <2>2 DEF LanesSound
<1>3. PhasesInOrder'
  <2>1. Used \union rest \subseteq Used'
    <3>1. \A c \in rest : single(c) \in lanes' /\ c \in single(c).members
      BY <1>1
    <3>2. \A a \in lanes : a \in lanes'
      BY <1>1
    <3> QED
      BY <3>1, <3>2 DEF Used
  <2> QED
    BY <1>1, <2>1 DEF PackInv, PhasesInOrder
<1>4. \A c, d \in OfKind("bram") : Ram(c) # Ram(d) => Ram(c) \intersect Ram(d) = {}
  BY DEF Ram
<1>5. ClustersApart'
  BY <1>1, <1>4 DEF ClustersApart
<1>6. ClustersFitSlice'
  <2>1. Capacity' = Capacity /\ Capacity \in Nat /\ Capacity >= 2
    BY <1>1, CapacityAtLeastTwo DEF Capacity, PackInv
  <2>2. ASSUME NEW c \in OfKind("bram")
        PROVE  CellsIn(Ram(c)) = {c} /\ Ffs(Ram(c)) = {} /\ Luts(Ram(c)) = {}
    BY DEF CellsIn, Ram, Ffs, Luts, OfKind
  <2>3. Cardinality({}) = 0 /\ \A c : Cardinality({c}) = 1
    BY FS_EmptySet, FS_Singleton
  <2> DEFINE Fits(cluster) ==
        /\ Cardinality(Luts(cluster)) <= 2 /\ Cardinality(Ffs(cluster)) <= 2
        /\ Cardinality(CellsIn(cluster)) <= Capacity
        /\ \A f, g \in Ffs(cluster) : design.control[f] = design.control[g]
        /\ CellsIn(cluster) \intersect OfKind("bram") # {} => Cardinality(CellsIn(cluster)) = 1
  <2>4. ASSUME NEW c \in OfKind("bram")
        PROVE  Fits(Ram(c))
    <3>1. /\ CellsIn(Ram(c)) = {c} /\ Ffs(Ram(c)) = {} /\ Luts(Ram(c)) = {}
          /\ Cardinality(CellsIn(Ram(c))) = 1
          /\ Cardinality(Ffs(Ram(c))) = 0 /\ Cardinality(Luts(Ram(c))) = 0
      BY <2>2, <2>3
    <3> QED
      BY <2>1, <3>1
  <2>5. Fits({})
    BY <2>1, NoneFit
  <2>6. \A cluster \in clusters' \union {open'} : Fits(cluster)
    BY <1>1, <2>4, <2>5, ZenonT(40)
  <2> QED
    BY <1>1, <2>1, <2>6 DEF ClustersFitSlice
<1> QED
  BY <1>1, <1>2, <1>3, <1>5, <1>6 DEF PackInv

LEMMA StepSeed ==
  ASSUME PackAssumption, PackInv, Seed
  PROVE  PackInv'
<1>1. PICK lane \in Free : open' = {lane}
  BY DEF Seed
<1>2. UNCHANGED <<phase, design, lanes, clusters>> /\ phase = "clusters"
  BY DEF Seed
<1>3. lane \in lanes /\ \A cluster \in clusters : lane \notin cluster
  BY <1>1 DEF Free
<1>4. LanesSound' /\ PhasesInOrder'
  BY <1>2 DEF PackInv, LanesSound, PhasesInOrder, RegisterLane, SingleLane, Used
<1>5. ClustersApart'
  BY <1>1, <1>2, <1>3 DEF PackInv, ClustersApart
<1>6. ClustersFitSlice'
  <2>1. /\ Cardinality(Luts({lane})) <= 2 /\ Cardinality(Ffs({lane})) <= 2
        /\ Cardinality(CellsIn({lane})) <= Capacity
        /\ \A f \in Ffs({lane}) : lane.control = design.control[f]
        /\ CellsIn({lane}) \intersect OfKind("bram") = {}
    BY <1>3, LaneFits
  <2>2. Capacity' = Capacity
    BY <1>2 DEF Capacity
  <2> QED
    BY <1>1, <1>2, <2>1, <2>2 DEF PackInv, ClustersFitSlice
<1> QED
  BY <1>2, <1>4, <1>5, <1>6 DEF PackInv

LEMMA StepExtendCluster ==
  ASSUME PackAssumption, PackInv, ExtendCluster
  PROVE  PackInv'
<1>1. PICK lane \in Candidates(open) : open' = open \union {lane}
  BY DEF ExtendCluster
<1>2. /\ UNCHANGED <<phase, design, lanes, clusters>> /\ phase = "clusters" /\ open # {}
  BY DEF ExtendCluster
<1>3. lane \in Free /\ CanAccept(open, lane)
  BY <1>1 DEF Candidates, Acceptable
<1>4. PICK a \in lanes : open = {a}
  <2>1. PICK a \in lanes, b \in lanes : open = {a, b}
    BY <1>2 DEF PackInv, ClustersApart
  <2>2. Cardinality({a, b}) < 2
    BY <1>3, <2>1 DEF CanAccept
  <2>3. a = b
    BY <2>2, OneLane
  <2> QED
    BY <2>1, <2>3
<1>5. /\ lane \in lanes /\ \A cluster \in clusters : lane \notin cluster
      /\ open' = {a, lane}
  BY <1>1, <1>3, <1>4 DEF Free
<1>6. LanesSound' /\ PhasesInOrder'
  BY <1>2 DEF PackInv, LanesSound, PhasesInOrder, RegisterLane, SingleLane, Used
<1>7. ClustersApart'
  BY <1>2, <1>4, <1>5 DEF PackInv, ClustersApart
<1>8. /\ Cardinality(CellsIn(open')) <= Capacity
      /\ Cardinality(Luts(open')) <= 2 /\ Cardinality(Ffs(open')) <= 2
      /\ Cardinality(Controls(open')) <= 1
  BY <1>1, <1>3 DEF CanAccept
<1>9. CellsIn(open') \intersect OfKind("bram") = {}
  <2>1. CellsIn(open') = CellsIn({a}) \union CellsIn({lane})
    BY <1>5 DEF CellsIn
  <2>2. /\ CellsIn({a}) \intersect OfKind("bram") = {}
        /\ CellsIn({lane}) \intersect OfKind("bram") = {}
    BY <1>4, <1>5, LaneFits
  <2> QED
    BY <2>1, <2>2
<1>10. ASSUME NEW f \in Ffs(open'), NEW g \in Ffs(open')
       PROVE  design.control[f] = design.control[g]
  <2>1. \A h \in Ffs(open') : h \in OfKind("ff") /\ (h \in Ffs({a}) \/ h \in Ffs({lane}))
    BY <1>5, PairedCells DEF Ffs, CellsIn
  <2>2. \A h \in Ffs(open') : design.control[h] \in {a.control, lane.control}
    BY <1>4, <1>5, <2>1, LaneFits
  <2>3. \A h \in Ffs(open') : design.control[h] # None
    BY <2>1 DEF PackAssumption, PackInv
  <2>4. \A h \in Ffs(open') : design.control[h] \in Controls(open')
    <3>1. Controls(open') = {a.control, lane.control} \ {None}
      BY <1>5, PairedCells
    <3> QED
      BY <2>2, <2>3, <3>1
  <2>5. IsFiniteSet(Controls(open'))
    BY <1>5, PairedCells, SmallSubset
  <2> QED
    BY <1>8, <2>4, <2>5, AtMostOne
<1>11. ClustersFitSlice'
  BY <1>2, <1>8, <1>9, <1>10 DEF PackInv, ClustersFitSlice, Capacity
<1> QED
  BY <1>2, <1>6, <1>7, <1>11 DEF PackInv

LEMMA StepCloseCluster ==
  ASSUME PackAssumption, PackInv, CloseCluster
  PROVE  PackInv'
<1>1. /\ UNCHANGED <<phase, design, lanes>> /\ phase = "clusters" /\ open # {}
      /\ clusters' = clusters \union {open} /\ open' = {}
  BY DEF CloseCluster
<1>2. LanesSound' /\ PhasesInOrder'
  BY <1>1 DEF PackInv, LanesSound, PhasesInOrder, RegisterLane, SingleLane, Used
<1>3. ASSUME NEW c \in OfKind("bram")
      PROVE  Ram(c) \intersect open = {}
  <2>1. ASSUME NEW lane \in lanes
        PROVE  lane.kind # "bram"
    BY DEF PackInv, LanesSound, RegisterLane, SingleLane, OfKind
  <2>2. \A lane \in Ram(c) : lane.kind = "bram"
    BY DEF Ram
  <2> QED
    BY <2>1, <2>2 DEF PackInv, ClustersApart
<1>4. ClustersApart'
  BY <1>1, <1>3 DEF PackInv, ClustersApart
<1>5. ClustersFitSlice'
  <2>1. Capacity' = Capacity /\ Capacity \in Nat
    BY <1>1, CapacityAtLeastTwo DEF Capacity, PackInv
  <2> QED
    BY <1>1, <2>1, NoneFit, SMTT(30) DEF PackInv, ClustersFitSlice
<1> QED
  BY <1>1, <1>2, <1>4, <1>5 DEF PackInv

LEMMA StepPhase ==
  ASSUME PackAssumption, PackInv, FfsDone \/ Packed \/ UNCHANGED pack_vars
  PROVE  PackInv'
<1>1. UNCHANGED <<design, lanes, clusters, open>>
  BY DEF FfsDone, Packed, pack_vars
<1>2. LanesSound' /\ ClustersApart'
  BY <1>1 DEF PackInv, LanesSound, ClustersApart, RegisterLane, SingleLane
<1>4. ClustersFitSlice'
  BY <1>1 DEF PackInv, ClustersFitSlice, Capacity
<1>3. PhasesInOrder'
  BY <1>1 DEF PackInv, PhasesInOrder, FfsDone, Packed, pack_vars, Used, Free
<1> QED
  BY <1>1, <1>2, <1>3, <1>4 DEF PackInv

-----------------------------------------------------------------------------
(* Lanes and clusters are sound in every state of packing (build_lanes and *)
(* build_cluster_plans).                                                   *)
THEOREM PackInvariant == ASSUME PackAssumption PROVE PackSpec => []PackInv
<1>1. PackInit => PackInv
  BY InitPacked
<1>2. PackInv /\ [PackNext]_pack_vars => PackInv'
  BY StepAddFfLane, StepAddOtherLanes, StepSeed, StepExtendCluster, StepCloseCluster, StepPhase
  DEF PackNext, Finished
<1> QED
  BY <1>1, <1>2, PTL DEF PackSpec

(* No cluster holds more than a slice or mixes control sets or block RAMs  *)
(* with other cells, however lanes are joined (cluster_can_accept_lane).   *)
THEOREM ClustersFitSliceHolds == ASSUME PackAssumption PROVE PackSpec => []ClustersFitSlice
<1>1. PackInv => ClustersFitSlice
  BY DEF PackInv
<1> QED
  BY <1>1, PackInvariant, PTL

(* No lane holds a block RAM or a constant. *)
LEMMA LaneCells ==
  ASSUME PackInv, NEW lane \in lanes, NEW c \in lane.members
  PROVE  lane.kind # "bram" /\ Kind[c] \in {"ff", "lut", "other"}
<1>1. CASE RegisterLane(lane)
  BY <1>1 DEF RegisterLane, OfKind
<1>2. CASE SingleLane(lane)
  BY <1>2 DEF SingleLane, OfKind
<1> QED
  BY <1>1, <1>2 DEF PackInv, LanesSound

(* Every cell that needs a slice or a block RAM ends in exactly one        *)
(* cluster, and a constant in none (build_lanes, build_cluster_plans).     *)
THEOREM CellsOnceHolds == ASSUME PackAssumption PROVE PackSpec => []CellsOnce
<1>1. ASSUME PackInv, phase = "done", NEW c \in Cells
      PROVE  Cardinality({cluster \in clusters : c \in CellsIn(cluster)})
               = IF Kind[c] = "constant" THEN 0 ELSE 1
  <2> DEFINE holders == {cluster \in clusters : c \in CellsIn(cluster)}
  <2>1. \A d \in OfKind("bram") : CellsIn(Ram(d)) = {d}
    BY DEF CellsIn, Ram
  <2>2. ASSUME NEW cluster \in holders
        PROVE  \/ cluster = Ram(c) /\ Kind[c] = "bram"
               \/ /\ cluster \subseteq lanes /\ Kind[c] \in {"ff", "lut", "other"}
                  /\ \E lane \in cluster : c \in lane.members
    <3>1. CASE \E d \in OfKind("bram") : cluster = Ram(d)
      BY <2>1, <3>1 DEF OfKind
    <3>2. CASE cluster \subseteq lanes
      <4>1. PICK lane \in cluster : c \in lane.members
        BY DEF CellsIn
      <4> QED
        BY <1>1, <3>2, <4>1, LaneCells
    <3> QED
      BY <1>1, <3>1, <3>2 DEF PackInv, ClustersApart
  <2>3. CASE Kind[c] = "constant"
    <3>1. holders = {}
      BY <2>2, <2>3
    <3> QED
      BY <2>3, <3>1, FS_EmptySet
  <2>4. CASE Kind[c] = "bram"
    <3>1. c \in OfKind("bram") /\ Ram(c) \in clusters
      BY <1>1, <2>4 DEF PackInv, PhasesInOrder, OfKind
    <3>2. holders = {Ram(c)}
      BY <2>1, <2>2, <2>4, <3>1
    <3> QED
      BY <2>4, <3>2, FS_Singleton
  <2>5. CASE Kind[c] \in {"ff", "lut", "other"}
    <3>1. c \in Used
      BY <1>1, <2>5 DEF PackInv, PhasesInOrder, OfKind
    <3>2. PICK a \in lanes : c \in a.members
      BY <3>1 DEF Used
    <3>3. PICK K \in clusters : a \in K
      BY <1>1 DEF PackInv, PhasesInOrder, Free
    <3>4. K \in holders
      BY <3>2, <3>3 DEF CellsIn
    <3>5. ASSUME NEW L \in holders
          PROVE  L = K
      <4>1. PICK b \in L : b \in lanes /\ c \in b.members
        BY <2>2, <2>5
      <4>2. a = b
        BY <1>1, <3>2, <4>1 DEF PackInv, LanesSound
      <4> QED
        BY <1>1, <3>3, <4>1, <4>2 DEF PackInv, ClustersApart
    <3>6. holders = {K}
      BY <3>4, <3>5
    <3> QED
      BY <2>5, <3>6, FS_Singleton
  <2> QED
    BY <2>3, <2>4, <2>5 DEF PackAssumption
<1>2. PackInv => CellsOnce
  BY <1>1 DEF CellsOnce
<1> QED
  BY <1>2, PackInvariant, PTL

-----------------------------------------------------------------------------
(* Clusters that could have been one.                                      *)

(* No reason to join two lanes: they differ in kind, or are not joined by  *)
(* a net, or do not fit together.                                          *)
KeptApart(a, b) ==
  a.kind = b.kind /\ a.kind # "other" =>
    /\ a.kind # "lut"
    /\ \/ ~\E net \in design.nets : net \intersect a.members # {} /\ net \intersect b.members # {}
       \/ a.control # b.control
       \/ Cardinality(a.members) + Cardinality(b.members) > Capacity

(* A lane that was left alone had no reason to take any lane that was      *)
(* there when its cluster was closed: the free ones, those that are being  *)
(* joined now and those left alone since.                                  *)
LeftAlone ==
  \A a \in lanes : {a} \in clusters =>
    \A b \in lanes : b # a /\ (b \in Free \union open \/ {b} \in clusters) => KeptApart(a, b)

(* A register lane holds one flip-flop and at most one LUT.                *)
LEMMA RegisterLaneCells ==
  ASSUME NEW lane, RegisterLane(lane)
  PROVE  \E f \in OfKind("ff") : \E d :
           /\ f \in lane.members /\ lane.members \subseteq {f, d}
           /\ Ffs({lane}) \subseteq {f} /\ Luts({lane}) \subseteq {d}
<1>1. PICK f \in OfKind("ff"), S \in SUBSET OfKind("lut") :
        lane.members = {f} \union S /\ (S # {} => S = {design.driver[f]})
  BY DEF RegisterLane
<1>2. CellsIn({lane}) = lane.members
  BY DEF CellsIn
<1>3. f \in lane.members /\ lane.members \subseteq {f, design.driver[f]}
  BY <1>1
<1>4. Ffs({lane}) \subseteq {f} /\ Luts({lane}) \subseteq {design.driver[f]}
  BY <1>1, <1>2 DEF Ffs, Luts, OfKind
<1> QED
  BY <1>3, <1>4

(* Two lanes of a kind and a control set that fit a slice are acceptable.  *)
LEMMA LanesAccepted ==
  ASSUME PackAssumption, PackInv, NEW a \in lanes, NEW b \in lanes, a # b,
         a.kind = b.kind, a.kind # "other",
         a.kind # "lut" =>
           /\ a.control = b.control
           /\ ~(Cardinality(a.members) + Cardinality(b.members) > Capacity)
  PROVE  CanAccept({a}, b)
<1>1. /\ CellsIn({a, b}) = a.members \union b.members
      /\ Controls({a, b}) = {a.control, b.control} \ {None}
  BY PairedCells
<1>2. {a} \union {b} = {a, b} /\ Cardinality({a}) = 1
  BY FS_Singleton
<1>3. Capacity \in Nat /\ Capacity >= 2
  BY CapacityAtLeastTwo DEF PackInv
<1>4. /\ Ffs({a, b}) = Ffs({a}) \union Ffs({b})
      /\ Luts({a, b}) = Luts({a}) \union Luts({b})
  BY DEF Ffs, Luts, CellsIn
<1>5. CASE a.kind = "lut"
  <2>1. SingleLane(a) /\ SingleLane(b)
    BY <1>5 DEF PackInv, LanesSound, RegisterLane
  <2>2. PICK c \in OfKind("lut") \union OfKind("other") : a.members = {c} /\ a.control = None
    BY <2>1 DEF SingleLane
  <2>3. PICK d \in OfKind("lut") \union OfKind("other") : b.members = {d} /\ b.control = None
    BY <2>1 DEF SingleLane
  <2>4. CellsIn({a, b}) \subseteq {c, d}
    BY <1>1, <2>2, <2>3
  <2>5. \A T \in SUBSET CellsIn({a, b}) : Cardinality(T) \in Nat /\ Cardinality(T) <= 2
    BY <2>4, SmallSubset
  <2>6. Luts({a, b}) \subseteq CellsIn({a, b}) /\ Ffs({a, b}) \subseteq CellsIn({a, b})
    BY DEF Luts, Ffs
  <2>7. Cardinality(Luts({a, b})) <= 2 /\ Cardinality(Ffs({a, b})) <= 2
    BY <2>5, <2>6
  <2>8. Cardinality(CellsIn({a, b})) <= Capacity
    <3>1. Cardinality(CellsIn({a, b})) \in Nat /\ Cardinality(CellsIn({a, b})) <= 2
      BY <2>5
    <3> QED
      BY <1>3, <3>1
  <2>9. Cardinality(Controls({a, b})) <= 1
    <3>1. Controls({a, b}) = {}
      BY <1>1, <2>2, <2>3
    <3> QED
      BY <3>1, FS_EmptySet
  <2> QED
    BY <1>2, <2>7, <2>8, <2>9 DEF CanAccept
<1>6. CASE a.kind # "lut"
  <2>1. RegisterLane(a) /\ RegisterLane(b)
    BY <1>6 DEF PackInv, LanesSound, SingleLane, OfKind
  <2>2. PICK f, d : /\ a.members \subseteq {f, d}
                  /\ Ffs({a}) \subseteq {f} /\ Luts({a}) \subseteq {d}
    BY <2>1, RegisterLaneCells
  <2>3. PICK g, e : /\ b.members \subseteq {g, e}
                  /\ Ffs({b}) \subseteq {g} /\ Luts({b}) \subseteq {e}
    BY <2>1, RegisterLaneCells
  <2>4. Ffs({a, b}) \subseteq {f, g} /\ Luts({a, b}) \subseteq {d, e}
    BY <1>4, <2>2, <2>3
  <2>5. Cardinality(Ffs({a, b})) <= 2 /\ Cardinality(Luts({a, b})) <= 2
    BY <2>4, SmallSubset
  <2>6. Cardinality(CellsIn({a, b})) <= Capacity
    <3>1. IsFiniteSet(a.members) /\ IsFiniteSet(b.members)
          /\ Cardinality(a.members) \in Nat /\ Cardinality(b.members) \in Nat
      BY <2>2, <2>3, SmallSubset
    <3>2. Cardinality(a.members \intersect b.members) = 0
      BY FS_EmptySet DEF PackInv, LanesSound
    <3>3. Cardinality(a.members \union b.members)
            = Cardinality(a.members) + Cardinality(b.members)
              - Cardinality(a.members \intersect b.members)
      BY <3>1, FS_Union
    <3>4. Cardinality(CellsIn({a, b})) = Cardinality(a.members) + Cardinality(b.members)
      <4> DEFINE m == Cardinality(a.members)
                 n == Cardinality(b.members)
                 both == Cardinality(a.members \intersect b.members)
                 all == Cardinality(CellsIn({a, b}))
      <4>1. m \in Nat /\ n \in Nat /\ both = 0
        BY <3>1, <3>2
      <4>2. all = m + n - both
        BY <1>1, <3>3, Zenon
      <4> HIDE DEF m, n, both, all
      <4>3. all = m + n
        BY <4>1, <4>2
      <4> QED
        BY <4>3 DEF m, n, all
    <3>5. ~(Cardinality(a.members) + Cardinality(b.members) > Capacity)
      BY <1>6
    <3> QED
      BY <1>3, <3>1, <3>4, <3>5
  <2>7. Cardinality(Controls({a, b})) <= 1
    <3>1. Controls({a, b}) \subseteq {a.control}
      BY <1>1, <1>6
    <3>2. IsFiniteSet({a.control}) /\ Cardinality({a.control}) = 1
      BY FS_Singleton
    <3>3. Cardinality(Controls({a, b})) <= Cardinality({a.control})
      BY <3>1, <3>2, FS_Subset
    <3> QED
      BY <3>2, <3>3
  <2> QED
    BY <1>2, <2>5, <2>6, <2>7 DEF CanAccept
<1> QED
  BY <1>5, <1>6

(* A lane whose cluster closes on it alone had no reason to take another.  *)
LEMMA ClosedAlone ==
  ASSUME PackAssumption, PackInv, NEW a \in lanes, NEW b \in Free, a # b, open = {a},
         Extends(open) => Candidates(open) = {}
  PROVE  KeptApart(a, b)
<1> SUFFICES ASSUME a.kind = b.kind, a.kind # "other"
             PROVE  /\ a.kind # "lut"
                    /\ \/ ~\E net \in design.nets :
                             net \intersect a.members # {} /\ net \intersect b.members # {}
                       \/ a.control # b.control
                       \/ Cardinality(a.members) + Cardinality(b.members) > Capacity
  BY DEF KeptApart
<1>1. b \in lanes
  BY DEF Free
<1>2. Candidates({a}) = {}
  BY DEF Extends
<1>3. CanAccept({a}, b) => b \in Acceptable({a})
  BY DEF Acceptable
<1>4. a.kind # "lut"
  <2> SUFFICES ASSUME a.kind = "lut" PROVE FALSE
    OBVIOUS
  <2>1. b \in Acceptable({a})
    BY <1>1, <1>3, LanesAccepted
  <2> QED
    BY <1>2, <2>1 DEF Candidates
<1>5. ASSUME NEW net \in design.nets, net \intersect a.members # {}, net \intersect b.members # {},
             a.control = b.control, ~(Cardinality(a.members) + Cardinality(b.members) > Capacity)
      PROVE  FALSE
  <2>1. b \in Acceptable({a})
    BY <1>1, <1>3, <1>5, LanesAccepted
  <2>2. Connected({a}, b)
    BY <1>5 DEF Connected, CellsIn
  <2> QED
    BY <1>2, <2>1, <2>2 DEF Candidates
<1> QED
  BY <1>4, <1>5

(* Which of the two is asked makes no difference.                          *)
LEMMA ApartBothWays ==
  ASSUME PackAssumption, PackInv, NEW a \in lanes, NEW b \in lanes, KeptApart(a, b)
  PROVE  KeptApart(b, a)
<1>1. \A lane \in lanes : Cardinality(lane.members) \in Nat
  <2> TAKE lane \in lanes
  <2>1. CASE RegisterLane(lane)
    BY <2>1, RegisterLaneCells, SmallSubset
  <2>2. CASE SingleLane(lane)
    BY <2>2, FS_Singleton DEF SingleLane
  <2> QED
    BY <2>1, <2>2 DEF PackInv, LanesSound
<1> QED
  BY <1>1 DEF KeptApart

LEMMA LeftAloneKept ==
  ASSUME PackAssumption, PackInv, LeftAlone, [PackNext]_pack_vars
  PROVE  LeftAlone'
<1>1. CASE AddFfLane
  <2>1. clusters' = {}
    BY <1>1 DEF AddFfLane, PackInv, PhasesInOrder
  <2> QED
    BY <2>1 DEF LeftAlone
<1>2. CASE AddOtherLanes
  <2>1. PackInv'
    BY <1>2, StepAddOtherLanes
  <2>2. \A cluster \in clusters' : \A lane \in cluster : lane.kind = "bram"
    BY <1>2 DEF AddOtherLanes
  <2>3. \A lane \in lanes' : lane.kind # "bram"
    BY <2>1 DEF PackInv, LanesSound, RegisterLane, SingleLane, OfKind
  <2> QED
    BY <2>2, <2>3 DEF LeftAlone
<1>3. CASE Seed \/ ExtendCluster
  <2>1. /\ UNCHANGED <<design, lanes, clusters>>
        /\ open' \subseteq open \union Free
        /\ Free' \subseteq Free \union open
    BY <1>3 DEF Seed, ExtendCluster, Candidates, Acceptable, Free
  <2> QED
    BY <2>1 DEF LeftAlone, KeptApart, Capacity
<1>4. CASE CloseCluster
  <2>1. /\ UNCHANGED <<design, lanes>> /\ clusters' = clusters \union {open} /\ open' = {}
        /\ Extends(open) => Candidates(open) = {}
    BY <1>4 DEF CloseCluster
  <2>2. Free' = Free
    BY <2>1 DEF Free
  <2>3. \A a, b \in lanes : KeptApart(a, b)' <=> KeptApart(a, b)
    BY <2>1 DEF KeptApart, Capacity
  <2>4. ASSUME NEW a \in lanes, {a} \in clusters', NEW b \in lanes, b # a,
               b \in Free \/ {b} \in clusters'
        PROVE  KeptApart(a, b)
    <3>1. CASE {a} = open /\ b \in Free
      BY <2>1, <2>4, <3>1, ClosedAlone
    <3>2. CASE {a} = open /\ {b} \in clusters'
      <4>1. {b} \in clusters /\ a \in open
        BY <2>1, <2>4, <3>2
      <4>2. KeptApart(b, a)
        BY <2>4, <4>1 DEF LeftAlone
      <4> QED
        BY <4>2, ApartBothWays
    <3>3. CASE {a} \in clusters /\ b \in Free
      BY <2>4, <3>3 DEF LeftAlone
    <3>4. CASE {a} \in clusters /\ {b} \in clusters'
      <4>1. {b} \in clusters \/ b \in open
        BY <2>1, <3>4
      <4> QED
        BY <2>4, <3>4, <4>1 DEF LeftAlone
    <3> QED
      BY <2>1, <2>4, <3>1, <3>2, <3>3, <3>4
  <2> QED
    BY <2>1, <2>2, <2>3, <2>4 DEF LeftAlone
<1>5. CASE FfsDone \/ Packed \/ Finished \/ UNCHANGED pack_vars
  <2>1. UNCHANGED <<design, lanes, clusters, open>>
    BY <1>5 DEF FfsDone, Packed, Finished, pack_vars
  <2> QED
    BY <2>1 DEF LeftAlone, KeptApart, Capacity, Free
<1> QED
  BY <1>1, <1>2, <1>3, <1>4, <1>5 DEF PackNext

(* Whatever the order of the seeds, no two clusters of one lane each could *)
(* have been one (best_cluster_candidate).                                 *)
THEOREM NothingLeftApartHolds == ASSUME PackAssumption PROVE PackSpec => []NothingLeftApart
<1>1. PackInit => LeftAlone
  BY DEF PackInit, LeftAlone
<1>2. PackInv /\ LeftAlone /\ [PackNext]_pack_vars => LeftAlone'
  BY LeftAloneKept
<1>3. PackInv /\ LeftAlone => NothingLeftApart
  <2> SUFFICES ASSUME PackInv, LeftAlone, NEW a \in lanes, NEW b \in lanes,
                      {a} \in clusters, {b} \in clusters, a # b,
                      a.kind = b.kind, a.kind # "other"
               PROVE  /\ a.kind # "lut"
                      /\ \/ ~\E net \in design.nets :
                               net \intersect a.members # {} /\ net \intersect b.members # {}
                         \/ a.control # b.control
                         \/ Cardinality(a.members) + Cardinality(b.members) > Capacity
    BY DEF NothingLeftApart
  <2> QED
    BY DEF LeftAlone, KeptApart
<1> QED
  BY <1>1, <1>2, <1>3, PackInvariant, PTL DEF PackSpec

(* The clusters partition the cells, and none of them could be saved.      *)
THEOREM PackingCompleteHolds == ASSUME PackAssumption PROVE PackSpec => []PackingComplete
BY CellsOnceHolds, NothingLeftApartHolds, PTL DEF PackingComplete
=============================================================================
