----------------------- MODULE RouteNegotiation_proofs -----------------------
(***************************************************************************)
(* Proofs about RouteNegotiation, for every fabric, design and number of   *)
(* passes: the claims are those of the routes, the routes a pass keeps     *)
(* never conflict, and only contested routes are given up.  An image is    *)
(* delivered only when it is complete and legal; the wires a search is     *)
(* barred from are on no route but at its roots; routes are trees, and     *)
(* what negotiation cannot route could not be routed at all.               *)
(***************************************************************************)
EXTENDS RouteNegotiation, LeastElements, SequenceTheorems

-----------------------------------------------------------------------------
(* The claim index, for any fabric, any nets and any paths: its two         *)
(* directions stay inverse to each other, a net holds a resource at most    *)
(* once, and the overuse count is zero exactly when all claims on the       *)
(* resource may share it.                                                   *)

\* What holds of the claims on one resource: they fit its kind, and no net has two.
ClaimSet(r, C) ==
    /\ C \subseteq ClaimsOn(r)
    /\ \A c, d \in C : c.net = d.net => c = d

\* There are at most as many claims on a resource as there are nets.
LEMMA ClaimSetFinite ==
    ASSUME NEW r \in RouteResource, NEW C, ClaimSet(r, C)
    PROVE  IsFiniteSet(C)
<1> DEFINE N == {c.net : c \in C}
           claimOf == [n \in N |-> CHOOSE c \in C : c.net = n]
<1>1. IsFiniteSet(N)
  <2>1. N \subseteq Nets
    BY DEF ClaimSet, ClaimsOn, Claim
  <2> QED
    BY <2>1, NetsAssumption, FS_Subset
<1>2. claimOf \in Surjection(N, C)
  <2>1. \A n \in N : claimOf[n] \in C
    OBVIOUS
  <2>2. \A c \in C : claimOf[c.net] = c
    BY DEF ClaimSet
  <2>3. \A c \in C : c.net \in N
    OBVIOUS
  <2> HIDE DEF claimOf
  <2> HIDE DEF N
  <2>4. claimOf \in [N -> C]
    BY <2>1 DEF claimOf
  <2> QED
    BY <2>2, <2>3, <2>4 DEF Surjection
<1> HIDE DEF N, claimOf
<1> QED
  BY <1>1, <1>2, FS_Surjection

\* A legal group never exceeds the claims there are.
LEMMA GroupBound ==
    ASSUME NEW C, IsFiniteSet(C), NEW c \in C
    PROVE  /\ LegalGroupSize(C, c) \in Nat
           /\ LegalGroupSize(C, c) <= Cardinality(C)
<1> DEFINE alike == SameSource(C, c)
           synthetic == {d \in alike : Synthetic(d)}
<1>1. alike \subseteq C /\ synthetic \subseteq alike
  BY DEF SameSource
<1>2. IsFiniteSet(alike) /\ Cardinality(alike) <= Cardinality(C)
  BY <1>1, FS_Subset
<1>3. /\ IsFiniteSet(synthetic)
      /\ Cardinality(synthetic) <= Cardinality(alike)
      /\ Cardinality(synthetic) = Cardinality(alike) => synthetic = alike
  BY <1>1, <1>2, FS_Subset
<1>4. /\ Cardinality(C) \in Nat
      /\ Cardinality(alike) \in Nat
      /\ Cardinality(synthetic) \in Nat
  BY <1>2, <1>3, FS_CardinalityType
<1>5. LegalGroupSize(C, c) = Cardinality(synthetic) + (IF alike = synthetic THEN 0 ELSE 1)
  BY DEF LegalGroupSize
<1> HIDE DEF alike, synthetic
<1> QED
  BY <1>2, <1>3, <1>4, <1>5

\* The widest group exists, so the overuse of a nonempty set of claims is the
\* number of claims outside some group, and the least such number.
LEMMA WidestGroup ==
    ASSUME NEW C, IsFiniteSet(C), C # {}
    PROVE  \E w \in C : /\ Overuse(C) = Cardinality(C) - LegalGroupSize(C, w)
                        /\ \A d \in C : LegalGroupSize(C, d) <= LegalGroupSize(C, w)
<1> DEFINE Left(c) == Cardinality(C) - LegalGroupSize(C, c)
           S == {Left(c) : c \in C}
           Widest(w) == \A d \in C : LegalGroupSize(C, d) <= LegalGroupSize(C, w)
<1>1. Cardinality(C) \in Nat
  BY FS_CardinalityType
<1>2. S \in SUBSET Nat /\ S # {}
  BY <1>1, GroupBound
<1>3. PICK m \in S : \A k \in S : m <= k
  <2> HIDE DEF S
  <2> QED
    BY <1>2, LeastNatural
<1>4. PICK w \in C : m = Left(w)
  OBVIOUS
<1>5. Widest(w)
  <2> TAKE d \in C
  <2>1. Left(w) <= Left(d)
    BY <1>3, <1>4
  <2> QED
    BY <2>1, <1>1, GroupBound
<1>6. \E v \in C : Widest(v)
  BY <1>5
<1> DEFINE v == CHOOSE u \in C : Widest(u)
<1>7. v \in C /\ Widest(v)
  BY <1>6
<1>8. Overuse(C) = Cardinality(C) - LegalGroupSize(C, v)
  BY DEF Overuse
<1> HIDE DEF v
<1> QED
  BY <1>7, <1>8

\* Leaving no claim outside the widest group is the same as every two claims
\* sharing the resource legally.
LEMMA OveruseZero ==
    ASSUME NEW r \in RouteResource, NEW C, ClaimSet(r, C)
    PROVE  Overuse(C) = 0 <=> PairwiseLegal(C)
<1>1. IsFiniteSet(C)
  BY ClaimSetFinite
<1>2. Cardinality(C) \in Nat
  BY <1>1, FS_CardinalityType
<1>3. CASE C = {}
  BY <1>3 DEF Overuse, PairwiseLegal
<1>4. CASE C # {}
  <2>1. PICK w \in C : /\ Overuse(C) = Cardinality(C) - LegalGroupSize(C, w)
                       /\ \A d \in C : LegalGroupSize(C, d) <= LegalGroupSize(C, w)
    BY <1>1, <1>4, WidestGroup
  <2>2. \A d \in C : LegalGroupSize(C, d) \in Nat /\ LegalGroupSize(C, d) <= Cardinality(C)
    BY <1>1, GroupBound
  <2>3. ASSUME Overuse(C) = 0
        PROVE  PairwiseLegal(C)
    <3> DEFINE alike == SameSource(C, w)
               synthetic == {d \in alike : Synthetic(d)}
    <3>1. alike \subseteq C /\ synthetic \subseteq alike
      BY DEF SameSource
    <3>2. LegalGroupSize(C, w) = Cardinality(C)
      BY <1>2, <2>1, <2>2, <2>3
    <3>3. LegalGroupSize(C, w) = Cardinality(synthetic) + (IF alike = synthetic THEN 0 ELSE 1)
      BY DEF LegalGroupSize
    <3>4. /\ IsFiniteSet(alike) /\ Cardinality(alike) \in Nat
          /\ Cardinality(alike) <= Cardinality(C)
          /\ Cardinality(C) = Cardinality(alike) => C = alike
      BY <1>1, <3>1, FS_Subset, FS_CardinalityType
    <3>5. /\ IsFiniteSet(synthetic) /\ Cardinality(synthetic) \in Nat
          /\ Cardinality(synthetic) <= Cardinality(alike)
          /\ Cardinality(alike) = Cardinality(synthetic) => alike = synthetic
      BY <3>1, <3>4, FS_Subset, FS_CardinalityType
    <3>6. C = alike
      <4> HIDE DEF alike, synthetic
      <4> QED
        BY <1>2, <3>2, <3>3, <3>4, <3>5
    <3>7. ASSUME NEW c \in C, NEW d \in C, c # d, ~Synthetic(c), ~Synthetic(d)
          PROVE  FALSE
      <4> DEFINE rest == C \ {c}
                 fewer == rest \ {d}
      <4>1. IsFiniteSet(rest) /\ Cardinality(rest) = Cardinality(C) - 1
        BY <1>1, FS_RemoveElement
      <4>2. IsFiniteSet(fewer) /\ Cardinality(fewer) = Cardinality(rest) - 1
        BY <3>7, <4>1, FS_RemoveElement
      <4>3. synthetic \subseteq fewer
        BY <3>1, <3>7
      <4>4. Cardinality(synthetic) <= Cardinality(fewer)
        BY <4>2, <4>3, FS_Subset
      <4>5. Cardinality(C) <= Cardinality(synthetic) + 1
        <5> HIDE DEF synthetic, alike
        <5> QED
          BY <1>2, <3>2, <3>3, <3>5
      <4>6. Cardinality(fewer) = Cardinality(C) - 2
        <5> HIDE DEF rest, fewer
        <5> QED
          BY <1>2, <4>1, <4>2
      <4> HIDE DEF rest, fewer, synthetic, alike
      <4> QED
        BY <1>2, <3>5, <4>4, <4>5, <4>6
    <3> HIDE DEF synthetic
    <3>8. \A c, d \in C : c.from = d.from
      BY <3>6 DEF SameSource
    <3> QED
      BY <3>7, <3>8 DEF PairwiseLegal, SharesLegally
  <2>4. ASSUME PairwiseLegal(C)
        PROVE  Overuse(C) = 0
    <3>1. ASSUME NEW c \in C, NEW d \in C
          PROVE  c.from = d.from
      <4>1. CASE c.net = d.net
        BY <4>1 DEF ClaimSet
      <4>2. CASE c.net # d.net
        <5>1. c.from = NoWire \/ c.from = d.from
          BY <2>4, <4>2 DEF PairwiseLegal, SharesLegally
        <5>2. c.from = NoWire <=> d.from = NoWire
          BY DEF ClaimSet, ClaimsOn
        <5> QED
          BY <5>1, <5>2
      <4> QED
        BY <4>1, <4>2
    <3>2. \A c \in C : SameSource(C, c) = C
      BY <3>1 DEF SameSource
    <3> DEFINE synthetic == {d \in C : Synthetic(d)}
    <3>3. \A c \in C : LegalGroupSize(C, c) =
                         Cardinality(synthetic) + (IF C = synthetic THEN 0 ELSE 1)
      BY <3>2 DEF LegalGroupSize
    <3>4. LegalGroupSize(C, w) = Cardinality(C)
      <4>1. CASE C = synthetic
        <5> HIDE DEF synthetic
        <5> QED
          BY <1>2, <3>3, <4>1
      <4>2. CASE C # synthetic
        <5>1. PICK c \in C : ~Synthetic(c)
          BY <4>2
        <5>2. synthetic = C \ {c}
          <6>1. ASSUME NEW d \in C, d # c
                PROVE  Synthetic(d)
            <7>1. c.net # d.net
              BY <6>1 DEF ClaimSet
            <7> QED
              BY <2>4, <5>1, <7>1 DEF PairwiseLegal, SharesLegally
          <6> QED
            BY <5>1, <6>1
        <5>3. Cardinality(synthetic) = Cardinality(C) - 1
          BY <1>1, <5>2, FS_RemoveElement
        <5> HIDE DEF synthetic
        <5> QED
          BY <1>2, <3>3, <4>2, <5>3
      <4> QED
        BY <4>1, <4>2
    <3> QED
      BY <1>2, <2>1, <3>4
  <2> QED
    BY <2>3, <2>4
<1> QED
  BY <1>3, <1>4

\* Where the claims share legally, adding one that is foreign to none of them
\* keeps it so, and adding one that is foreign to some does not.
LEMMA BlockedExact ==
    ASSUME NEW r \in RouteResource, NEW C, ClaimSet(r, C), PairwiseLegal(C),
           NEW c \in ClaimsOn(r), \A d \in C : d.net # c.net
    PROVE  PairwiseLegal(C \cup {c}) <=> Foreign(C, c) = {}
<1>1. \A d \in C : SharesLegally(d, c) <=> SharesLegally(c, d)
  BY DEF SharesLegally, ClaimSet, ClaimsOn
<1> QED
  BY <1>1 DEF PairwiseLegal, Foreign
-----------------------------------------------------------------------------

\* The inductive invariant: the index is well typed, its two directions are
\* inverse to each other, and no net holds a resource twice.
IndexInv == IndexTypeOK /\ IndexInverse /\ OneClaimPerNet

LEMMA IndexInitInv == IndexInit => IndexInv
BY DEF IndexInit, IndexInv, IndexTypeOK, IndexInverse, OneClaimPerNet, Holds, ClaimsOn

\* The claims a path asks of a resource are the net's own, fit the kind of the
\* resource, and are at most one: of the pips into a wire only the first counts.
LEMMA PathClaimsOnResource ==
    ASSUME NEW n \in Nets, NEW p \in Paths, NEW r \in RouteResource
    PROVE  /\ PathClaims(n, p, r) \subseteq ClaimsOn(r)
           /\ \A c \in PathClaims(n, p, r) : c.net = n
           /\ \A c, d \in PathClaims(n, p, r) : c = d
<1>1. p \in Seq(Node)
  BY PathsAssumption
<1>2. CASE r.kind = "Sink"
  <2>1. \A i, j \in FirstPipInto(p, r.at) : i = j
    <3>1. PipsInto(p, r.at) \subseteq Nat
      BY <1>1 DEF PipsInto
    <3> QED
      BY <3>1 DEF FirstPipInto
  <2>2. \A i \in FirstPipInto(p, r.at) : i \in 2 .. Len(p) /\ p[i - 1] \in Node
    BY <1>1 DEF FirstPipInto, PipsInto
  <2>3. PathClaims(n, p, r) = {[net |-> n, from |-> p[i - 1]] : i \in FirstPipInto(p, r.at)}
    BY <1>2 DEF PathClaims
  <2>4. PathClaims(n, p, r) \subseteq ClaimsOn(r)
    BY <1>2, <2>2, <2>3, FabricAssumption DEF ClaimsOn, Claim
  <2> QED
    BY <2>1, <2>3, <2>4
<1>3. CASE r.kind = "Node"
  <2>1. PathClaims(n, p, r) \subseteq {[net |-> n, from |-> NoWire]}
    BY <1>3 DEF PathClaims
  <2> QED
    BY <1>3, <2>1 DEF ClaimsOn, Claim
<1> QED
  BY <1>2, <1>3 DEF RouteResource

LEMMA ReserveEndpointInv ==
    ASSUME IndexInv, NEW x \in Node, NEW n \in Nets, ReserveEndpoint(x, n)
    PROVE  IndexInv'
BY FabricAssumption
   DEF IndexInv, IndexTypeOK, IndexInverse, OneClaimPerNet, Holds, ReserveEndpoint

LEMMA ReserveRoutePathInv ==
    ASSUME IndexInv, NEW n \in Nets, NEW p \in Paths, ReserveRoutePath(n, p)
    PROVE  IndexInv'
<1> DEFINE asked(r) == PathClaims(n, p, r)
<1>1. \A r \in RouteResource :
          by_resource'[r] = IF Holds(n, r) THEN by_resource[r]
                            ELSE by_resource[r] \cup asked(r)
  BY DEF ReserveRoutePath
<1>2. \A r \in RouteResource : /\ asked(r) \subseteq ClaimsOn(r)
                               /\ \A c \in asked(r) : c.net = n
                               /\ \A c, d \in asked(r) : c = d
  BY PathClaimsOnResource
<1>3. IndexTypeOK'
  <2>1. \A r \in RouteResource : ClaimsOn(r) \subseteq Claim
    BY DEF ClaimsOn
  <2>2. \A r \in RouteResource : by_resource'[r] \subseteq ClaimsOn(r)
    BY <1>1, <1>2 DEF IndexInv, IndexTypeOK
  <2>3. by_resource' \in [RouteResource -> SUBSET Claim]
    BY <2>1, <2>2 DEF ReserveRoutePath
  <2>4. by_net' \in [Nets -> SUBSET RouteResource]
    BY DEF ReserveRoutePath, IndexInv, IndexTypeOK
  <2> QED
    BY <2>2, <2>3, <2>4 DEF ReserveRoutePath, IndexInv, IndexTypeOK
<1>4. OneClaimPerNet'
  <2> SUFFICES ASSUME NEW r \in RouteResource, NEW c \in by_resource'[r],
                      NEW d \in by_resource'[r], c.net = d.net
               PROVE  c = d
    BY DEF OneClaimPerNet
  <2>1. CASE Holds(n, r)
    BY <1>1, <2>1 DEF IndexInv, OneClaimPerNet
  <2>2. CASE ~Holds(n, r)
    <3>1. c \in by_resource[r] \cup asked(r) /\ d \in by_resource[r] \cup asked(r)
      BY <1>1, <2>2
    <3> HIDE DEF asked
    <3> QED
      BY <1>2, <2>2, <3>1 DEF IndexInv, OneClaimPerNet, Holds
  <2> QED
    BY <2>1, <2>2
<1>5. IndexInverse'
  <2> SUFFICES ASSUME NEW m \in Nets
               PROVE  by_net'[m] = {r \in RouteResource : Holds(m, r)'}
    BY DEF IndexInverse
  <2>1. by_net[m] = {r \in RouteResource : Holds(m, r)}
    BY DEF IndexInv, IndexInverse
  <2>2. CASE m = n
    <3>1. by_net'[n] = by_net[n] \cup {r \in RouteResource : asked(r) # {}}
      BY DEF ReserveRoutePath, IndexInv, IndexTypeOK
    <3>2. \A r \in RouteResource : Holds(n, r)' <=> Holds(n, r) \/ asked(r) # {}
      <4> TAKE r \in RouteResource
      <4> HIDE DEF asked
      <4> QED
        BY <1>1, <1>2 DEF Holds
    <3> HIDE DEF asked
    <3> QED
      BY <2>1, <2>2, <3>1, <3>2
  <2>3. CASE m # n
    <3>1. by_net'[m] = by_net[m]
      BY <2>3 DEF ReserveRoutePath, IndexInv, IndexTypeOK
    <3>2. \A r \in RouteResource : Holds(m, r)' <=> Holds(m, r)
      <4> TAKE r \in RouteResource
      <4> HIDE DEF asked
      <4> QED
        BY <1>1, <1>2, <2>3, ZenonT(40) DEF Holds
    <3> QED
      BY <2>1, <3>1, <3>2
  <2> QED
    BY <2>2, <2>3
<1> QED
  BY <1>3, <1>4, <1>5 DEF IndexInv

\* Releasing what by_net names releases everything the nets hold, nothing else.
LEMMA RipUpClaims ==
    ASSUME IndexInv, NEW N \in SUBSET Nets, RipUp(N)
    PROVE  \A r \in RouteResource :
               by_resource'[r] = {c \in by_resource[r] : c.net \notin N}
<1>1. \A r \in RouteResource : \A c \in by_resource[r] :
          c.net \in Nets /\ r \in by_net[c.net]
  BY DEF IndexInv, IndexTypeOK, IndexInverse, Holds, Claim
<1> QED
  BY <1>1 DEF RipUp

LEMMA RipUpInv ==
    ASSUME IndexInv, NEW N \in SUBSET Nets, RipUp(N)
    PROVE  IndexInv'
<1>1. \A r \in RouteResource :
          by_resource'[r] = {c \in by_resource[r] : c.net \notin N}
  BY RipUpClaims
<1>2. IndexTypeOK'
  <2>1. by_resource' \in [RouteResource -> SUBSET Claim]
    BY <1>1 DEF RipUp, IndexInv, IndexTypeOK
  <2>2. by_net' \in [Nets -> SUBSET RouteResource]
    BY DEF RipUp, IndexInv, IndexTypeOK
  <2> QED
    BY <1>1, <2>1, <2>2 DEF RipUp, IndexInv, IndexTypeOK
<1>3. OneClaimPerNet'
  BY <1>1 DEF IndexInv, OneClaimPerNet
<1>4. IndexInverse'
  <2> SUFFICES ASSUME NEW m \in Nets
               PROVE  by_net'[m] = {r \in RouteResource : Holds(m, r)'}
    BY DEF IndexInverse
  <2>1. \A r \in RouteResource : Holds(m, r)' <=> Holds(m, r) /\ m \notin N
    BY <1>1 DEF Holds
  <2>2. by_net'[m] = IF m \in N THEN {} ELSE by_net[m]
    BY DEF RipUp
  <2> QED
    BY <2>1, <2>2 DEF IndexInv, IndexInverse
<1> QED
  BY <1>2, <1>3, <1>4 DEF IndexInv

LEMMA ClearInv ==
    ASSUME IndexInv, Clear
    PROVE  IndexInv'
BY DEF IndexInv, IndexTypeOK, IndexInverse, OneClaimPerNet, Holds, Clear

THEOREM IndexInvariant == IndexSpec => []IndexInv
<1>1. IndexInit => IndexInv
  BY IndexInitInv
<1>2. IndexInv /\ [IndexNext]_indexVars => IndexInv'
  <2> SUFFICES ASSUME IndexInv, [IndexNext]_indexVars
               PROVE  IndexInv'
    OBVIOUS
  <2>1. CASE \E x \in Node, n \in Nets : ReserveEndpoint(x, n)
    BY <2>1, ReserveEndpointInv
  <2>2. CASE \E n \in Nets, p \in Paths : ReserveRoutePath(n, p)
    BY <2>2, ReserveRoutePathInv
  <2>3. CASE \E n \in Nets : RipUp({n})
    BY <2>3, RipUpInv
  <2>4. CASE Clear
    BY <2>4, ClearInv
  <2>5. CASE UNCHANGED indexVars
    BY <2>5 DEF indexVars, IndexInv, IndexTypeOK, IndexInverse, OneClaimPerNet, Holds
  <2> QED
    BY <2>1, <2>2, <2>3, <2>4, <2>5 DEF IndexNext
<1> QED
  BY <1>1, <1>2, PTL DEF IndexSpec

\* The claim index never goes out of step with itself: what ripping up a net
\* releases is exactly what the net claims (ClaimIndex::claim and rip_up).
THEOREM IndexInverseHolds == IndexSpec => [](IndexTypeOK /\ IndexInverse /\ OneClaimPerNet)
BY IndexInvariant, PTL DEF IndexInv

LEMMA IndexInvClaimSets ==
    ASSUME IndexInv, NEW r \in RouteResource
    PROVE  ClaimSet(r, by_resource[r])
BY DEF IndexInv, IndexTypeOK, OneClaimPerNet, ClaimSet

\* The two notions of conflict in occupancy.rs, the overuse count that ends the
\* negotiation and the pairwise sharing rule that blocks a step, never disagree.
THEOREM OveruseIsConflictHolds == IndexSpec => []OveruseIsConflict
<1>1. IndexInv => OveruseIsConflict
  BY IndexInvClaimSets, OveruseZero DEF OveruseIsConflict
<1> QED
  BY <1>1, IndexInvariant, PTL

\* A claim that may be added fits its resource and its net has none there.
LEMMA AddedClaimSet ==
    ASSUME IndexInv, NEW r \in RouteResource, NEW n \in Nets, ~Holds(n, r),
           NEW from \in (IF r.kind = "Node" THEN {NoWire} ELSE Node)
    PROVE  LET c == [net |-> n, from |-> from] IN
           /\ c \in ClaimsOn(r)
           /\ \A d \in by_resource[r] : d.net # n
           /\ ClaimSet(r, by_resource[r] \cup {c})
<1> DEFINE c == [net |-> n, from |-> from]
<1>1. c \in ClaimsOn(r)
  BY FabricAssumption DEF ClaimsOn, Claim, RouteResource
<1>2. \A d \in by_resource[r] : d.net # n
  BY DEF Holds
<1>3. ClaimSet(r, by_resource[r] \cup {c})
  BY <1>1, <1>2, IndexInvClaimSets DEF ClaimSet
<1> QED
  BY <1>1, <1>2, <1>3

\* Hard blocking is exact on any fabric: a search of the legalizing pass is kept
\* from a resource if and only if claiming it would make it contested
\* (ClaimIndex::blocked and ResourceClaims::overuse).
THEOREM BlockedIsExactHolds == IndexSpec => []BlockedIsExact
<1>1. IndexInv => BlockedIsExact
  <2> SUFFICES ASSUME IndexInv, NEW r \in RouteResource, NEW n \in Nets,
                      NEW from \in (IF r.kind = "Node" THEN {NoWire} ELSE Node),
                      Overuse(by_resource[r]) = 0, ~Holds(n, r)
               PROVE  Blocked(n, r, from)
                        <=> Overuse(by_resource[r] \cup {[net |-> n, from |-> from]}) > 0
    BY DEF BlockedIsExact
  <2> DEFINE C == by_resource[r]
             c == [net |-> n, from |-> from]
  <2>1. /\ c \in ClaimsOn(r) /\ c.net = n
        /\ \A d \in C : d.net # c.net
        /\ ClaimSet(r, C) /\ ClaimSet(r, C \cup {c})
    BY AddedClaimSet, IndexInvClaimSets
  <2>2. PairwiseLegal(C)
    BY <2>1, OveruseZero
  <2>3. PairwiseLegal(C \cup {c}) <=> Foreign(C, c) = {}
    BY <2>1, <2>2, BlockedExact
  <2>4. Overuse(C \cup {c}) = 0 <=> PairwiseLegal(C \cup {c})
    BY <2>1, OveruseZero
  <2>5. Overuse(C \cup {c}) \in Nat
    <3>1. IsFiniteSet(C \cup {c}) /\ C \cup {c} # {}
      BY <2>1, ClaimSetFinite
    <3>2. PICK w \in C \cup {c} :
            Overuse(C \cup {c}) = Cardinality(C \cup {c}) - LegalGroupSize(C \cup {c}, w)
      BY <3>1, WidestGroup
    <3>3. LegalGroupSize(C \cup {c}, w) \in Nat
          /\ LegalGroupSize(C \cup {c}, w) <= Cardinality(C \cup {c})
      BY <3>1, GroupBound
    <3>4. Cardinality(C \cup {c}) \in Nat
      BY <3>1, FS_CardinalityType
    <3> HIDE DEF C, c
    <3> QED
      BY <3>2, <3>3, <3>4
  <2>6. Blocked(n, r, from) <=> Foreign(C, c) # {}
    BY DEF Blocked
  <2> HIDE DEF C, c
  <2>7. Blocked(n, r, from) <=> Overuse(C \cup {c}) > 0
    BY <2>3, <2>4, <2>5, <2>6
  <2> QED
    BY <2>7 DEF C, c
<1> QED
  BY <1>1, IndexInvariant, PTL

\* A claim is never replaced: whatever a net reserves later, the wire it entered
\* a sink from stays the one others were checked against (reserve_route_path).
THEOREM ClaimsAreImmutableHolds == IndexSpec => ClaimsAreImmutable
<1> DEFINE Kept == \A r \in RouteResource : \A c \in by_resource[r], d \in by_resource'[r] :
                     c.net = d.net => c = d
<1>1. IndexInv /\ [IndexNext]_indexVars => [Kept]_indexVars
  <2> SUFFICES ASSUME IndexInv, IndexNext, NEW r \in RouteResource,
                      NEW c \in by_resource[r], NEW d \in by_resource'[r], c.net = d.net
               PROVE  c = d
    OBVIOUS
  <2>1. ASSUME d \in by_resource[r]
        PROVE  c = d
    BY <2>1 DEF IndexInv, OneClaimPerNet
  <2>2. CASE \E x \in Node, n \in Nets : ReserveEndpoint(x, n)
    BY <2>1, <2>2 DEF ReserveEndpoint
  <2>3. CASE \E n \in Nets, p \in Paths : ReserveRoutePath(n, p)
    <3>1. PICK n \in Nets, p \in Paths : ReserveRoutePath(n, p)
      BY <2>3
    <3>2. by_resource'[r] = IF Holds(n, r) THEN by_resource[r]
                            ELSE by_resource[r] \cup PathClaims(n, p, r)
      BY <3>1 DEF ReserveRoutePath
    <3>3. ASSUME d \notin by_resource[r]
          PROVE  FALSE
      <4>1. ~Holds(n, r) /\ d.net = n
        BY <3>2, <3>3, PathClaimsOnResource
      <4> QED
        BY <4>1 DEF Holds
    <3> QED
      BY <2>1, <3>3
  <2>4. CASE \E n \in Nets : RipUp({n})
    BY <2>1, <2>4, RipUpClaims
  <2>5. CASE Clear
    BY <2>5 DEF Clear
  <2> QED
    BY <2>2, <2>3, <2>4, <2>5 DEF IndexNext
<1>2. IndexSpec => [][Kept]_indexVars
  BY <1>1, IndexInvariant, PTL DEF IndexSpec
<1> QED
  BY <1>2 DEF ClaimsAreImmutable

-----------------------------------------------------------------------------
(* The negotiation.                                                        *)

\* The types the proofs need.
Types ==
    /\ phase \in {"ripup", "net", "sink", "validate", "done"}
    /\ pending \in SUBSET Nets
    /\ position \in Nat \ {0}
    /\ segments \in [Nets -> SUBSET Paths]
    /\ hard_block \in BOOLEAN

\* Only a net that is due is being routed; ripping up belongs to negotiation.
Scheduled ==
    /\ phase = "sink" => position <= Len(NetOrder) /\ Due(CurrentNet)
    /\ phase = "ripup" => ~hard_block

\* What is about to be ripped up is contested, and all of what is contested is.
PendingIsContested ==
    phase = "ripup" =>
        /\ \A r \in ContestedResources : ClaimantNets(r) \subseteq pending
        /\ \A n \in pending : segments[n] # {} => \E r \in by_net[n] : r \in ContestedResources

NegotiationInv ==
    /\ IndexInv
    /\ Types
    /\ Scheduled
    /\ PendingIsContested
    /\ ClaimsMatchRoutes
    /\ KeptRoutesLegal

LEMMA CurrentNetTyped ==
    ASSUME Types, position <= Len(NetOrder)
    PROVE  CurrentNet \in Nets
BY NetOrderAssumption DEF CurrentNet, Types

\* A resource nobody has to leave is shared legally.
LEMMA UncontestedLegal ==
    ASSUME IndexInv, NEW r \in RouteResource, r \notin ContestedResources
    PROVE  PairwiseLegal(by_resource[r])
<1> DEFINE C == by_resource[r]
<1>1. ClaimSet(r, C)
  BY IndexInvClaimSets
<1>2. IsFiniteSet(C)
  BY <1>1, ClaimSetFinite
<1>3. Overuse(C) \in Nat
  <2>1. CASE C = {}
    BY <2>1 DEF Overuse
  <2>2. CASE C # {}
    <3>1. PICK w \in C : Overuse(C) = Cardinality(C) - LegalGroupSize(C, w)
      BY <1>2, <2>2, WidestGroup
    <3>2. /\ LegalGroupSize(C, w) \in Nat /\ LegalGroupSize(C, w) <= Cardinality(C)
          /\ Cardinality(C) \in Nat
      BY <1>2, GroupBound, FS_CardinalityType
    <3> QED
      BY <3>1, <3>2
  <2> QED
    BY <2>1, <2>2
<1>4. Overuse(C) = 0
  BY <1>3 DEF ContestedResources
<1> QED
  BY <1>1, <1>4, OveruseZero

LEMMA LegalSubset ==
    ASSUME NEW C, NEW D, D \subseteq C, PairwiseLegal(C)
    PROVE  PairwiseLegal(D)
BY DEF PairwiseLegal

-----------------------------------------------------------------------------

LEMMA NegotiationInit == Init => NegotiationInv
<1> SUFFICES ASSUME Init PROVE NegotiationInv
  OBVIOUS
<1>1. \A r \in RouteResource : by_resource[r] = {}
  BY DEF Init
<1>2. IndexInv
  <2>1. reserved \in [Node -> Nets \cup {NoNet}]
    BY DesignAssumption DEF Init
  <2> QED
    BY <2>1 DEF Init, IndexInv, IndexTypeOK, IndexInverse, OneClaimPerNet, Holds, ClaimsOn
<1>3. ContestedResources = {}
  BY <1>1 DEF ContestedResources, Overuse
<1>4. Types /\ Scheduled /\ KeptRoutesLegal
  <2>1. phase = "ripup" /\ hard_block = FALSE /\ pending = Nets /\ position = 1
    BY DEF Init
  <2>2. segments \in [Nets -> SUBSET Paths]
    BY DEF Init, NoRoute
  <2>3. Types
    <3>1. hard_block \in BOOLEAN
      BY <2>1
    <3>2. position \in Nat \ {0}
      BY <2>1
    <3>3. phase \in {"ripup", "net", "sink", "validate", "done"} /\ pending \in SUBSET Nets
      BY <2>1
    <3> QED
      BY <2>2, <3>1, <3>2, <3>3 DEF Types
  <2>4. Scheduled /\ KeptRoutesLegal
    BY <2>1 DEF Scheduled, KeptRoutesLegal
  <2> QED
    BY <2>3, <2>4
<1>5. PendingIsContested
  BY <1>3 DEF Init, PendingIsContested, NoRoute
<1>6. ClaimsMatchRoutes
  BY <1>1 DEF Init, ClaimsMatchRoutes, NoRoute
<1> QED
  BY <1>2, <1>4, <1>5, <1>6 DEF NegotiationInv

LEMMA RipUpPendingInv == NegotiationInv /\ RipUpPending => NegotiationInv'
<1> SUFFICES ASSUME NegotiationInv, RipUpPending PROVE NegotiationInv'
  OBVIOUS
<1>1. /\ IndexInv /\ Types /\ Scheduled /\ PendingIsContested /\ ClaimsMatchRoutes
      /\ phase = "ripup" /\ RipUp(pending) /\ pending \in SUBSET Nets
      /\ phase' = "net" /\ pending' = pending /\ hard_block' = hard_block
      /\ position' = position
  BY DEF NegotiationInv, RipUpPending, Types, scheduleVars
<1>2. IndexInv'
  BY <1>1, RipUpInv
<1>3. \A r \in RouteResource : by_resource'[r] = {c \in by_resource[r] : c.net \notin pending}
  BY <1>1, RipUpClaims
<1>4. \A n \in Nets : segments'[n] = IF n \in pending THEN {} ELSE segments[n]
  BY DEF RipUpPending, NoRoute
<1>5. Types' /\ Scheduled' /\ PendingIsContested'
  BY <1>1 DEF Types, Scheduled, PendingIsContested, RipUpPending, NoRoute
<1>6. ClaimsMatchRoutes'
  <2>1. ASSUME NEW n \in Nets
        PROVE  by_net'[n] = {r \in RouteResource :
                               \E p \in segments'[n] : PathClaims(n, p, r) # {}}
    <3>1. by_net'[n] = IF n \in pending THEN {} ELSE by_net[n]
      BY <1>1 DEF RipUp
    <3> QED
      BY <1>1, <1>4, <3>1 DEF ClaimsMatchRoutes
  <2>2. ASSUME NEW r \in RouteResource, NEW c \in by_resource'[r]
        PROVE  \E p \in segments'[c.net] : c \in PathClaims(c.net, p, r)
    <3>1. c \in by_resource[r] /\ c.net \notin pending /\ c.net \in Nets
      BY <1>1, <1>3, <2>2 DEF IndexInv, IndexTypeOK, Claim
    <3> QED
      BY <1>1, <1>4, <3>1 DEF ClaimsMatchRoutes
  <2> QED
    BY <2>1, <2>2 DEF ClaimsMatchRoutes
<1>7. KeptRoutesLegal'
  <2> SUFFICES ASSUME NEW r \in RouteResource
               PROVE  PairwiseLegal({c \in by_resource[r] : c.net \notin pending})
    BY <1>1, <1>3 DEF KeptRoutesLegal, PairwiseLegal
  <2>1. CASE r \in ContestedResources
    <3>1. {c \in by_resource[r] : c.net \notin pending} = {}
      BY <1>1, <2>1 DEF PendingIsContested, ClaimantNets
    <3> QED
      BY <3>1 DEF PairwiseLegal
  <2>2. CASE r \notin ContestedResources
    BY <1>1, <2>2, UncontestedLegal, LegalSubset
  <2> QED
    BY <2>1, <2>2
<1> QED
  BY <1>2, <1>5, <1>6, <1>7 DEF NegotiationInv

LEMMA CommitInv == NegotiationInv /\ CommitRoutedPath => NegotiationInv'
<1> SUFFICES ASSUME NegotiationInv, CommitRoutedPath PROVE NegotiationInv'
  OBVIOUS
<1> DEFINE n == CurrentNet
<1>1. PICK p \in Paths : ReserveRoutePath(n, p) /\ segments' = [segments EXCEPT ![n] = @ \cup {p}]
  BY DEF CommitRoutedPath, RoutablePaths
<1>2. /\ IndexInv /\ Types /\ Scheduled /\ ClaimsMatchRoutes /\ KeptRoutesLegal
      /\ phase = "sink" /\ phase' = phase /\ position' = position
      /\ pending' = pending /\ hard_block' = hard_block
      /\ position <= Len(NetOrder) /\ Due(n)
  BY DEF NegotiationInv, CommitRoutedPath, scheduleVars, Scheduled
<1>3. n \in Nets
  BY <1>2, CurrentNetTyped
<1>4. IndexInv'
  BY <1>1, <1>2, <1>3, ReserveRoutePathInv
<1>5. Types' /\ Scheduled' /\ PendingIsContested'
  BY <1>1, <1>2, <1>3 DEF Types, Scheduled, PendingIsContested, Due, CurrentNet
<1>6. \A r \in RouteResource :
          /\ by_resource[r] \subseteq by_resource'[r]
          /\ by_resource'[r] \subseteq by_resource[r] \cup PathClaims(n, p, r)
          /\ \A c \in PathClaims(n, p, r) : c.net = n
  BY <1>1, <1>3, PathClaimsOnResource DEF ReserveRoutePath
<1> HIDE DEF n
<1>7. ClaimsMatchRoutes'
  <2>1. ASSUME NEW m \in Nets
        PROVE  by_net'[m] = {r \in RouteResource :
                               \E q \in segments'[m] : PathClaims(m, q, r) # {}}
    <3>1. by_net[m] = {r \in RouteResource : \E q \in segments[m] : PathClaims(m, q, r) # {}}
      BY <1>2 DEF ClaimsMatchRoutes
    <3>2. CASE m = n
      <4>1. /\ by_net'[n] = by_net[n] \cup {r \in RouteResource : PathClaims(n, p, r) # {}}
            /\ segments'[n] = segments[n] \cup {p}
        BY <1>1, <1>2, <1>3 DEF ReserveRoutePath, IndexInv, IndexTypeOK, Types
      <4> QED
        BY <3>1, <3>2, <4>1
    <3>3. CASE m # n
      <4>1. by_net'[m] = by_net[m] /\ segments'[m] = segments[m]
        BY <1>1, <1>2, <3>3 DEF ReserveRoutePath, IndexInv, IndexTypeOK, Types
      <4> QED
        BY <3>1, <4>1
    <3> QED
      BY <3>2, <3>3
  <2>2. ASSUME NEW r \in RouteResource, NEW c \in by_resource'[r]
        PROVE  \E q \in segments'[c.net] : c \in PathClaims(c.net, q, r)
    <3>1. \A m \in Nets : segments[m] \subseteq segments'[m]
      BY <1>1, <1>2, <1>3 DEF Types
    <3>2. p \in segments'[n]
      BY <1>1, <1>2, <1>3 DEF Types
    <3>3. CASE c \in by_resource[r]
      <4>1. c.net \in Nets /\ \E q \in segments[c.net] : c \in PathClaims(c.net, q, r)
        BY <1>2, <3>3 DEF ClaimsMatchRoutes, IndexInv, IndexTypeOK, Claim
      <4> QED
        BY <3>1, <4>1
    <3>4. CASE c \in PathClaims(n, p, r)
      <4>1. c.net = n
        BY <1>6, <3>4
      <4> QED
        BY <3>2, <3>4, <4>1
    <3> QED
      BY <1>6, <2>2, <3>3, <3>4
  <2> QED
    BY <2>1, <2>2 DEF ClaimsMatchRoutes
<1>8. KeptRoutesLegal'
  <2> SUFFICES ASSUME ~hard_block, NEW r \in RouteResource
               PROVE  PairwiseLegal({c \in by_resource'[r] : c.net \notin pending})
    BY <1>2 DEF KeptRoutesLegal, PairwiseLegal
  <2>1. n \in pending
    BY <1>2 DEF Due
  <2>2. {c \in by_resource'[r] : c.net \notin pending}
          \subseteq {c \in by_resource[r] : c.net \notin pending}
    BY <1>6, <2>1
  <2>3. PairwiseLegal({c \in by_resource[r] : c.net \notin pending})
    BY <1>2 DEF KeptRoutesLegal
  <2> QED
    BY <2>2, <2>3, LegalSubset
<1> QED
  BY <1>4, <1>5, <1>7, <1>8 DEF NegotiationInv

LEMMA RenegotiateInv == NegotiationInv /\ Renegotiate => NegotiationInv'
<1> SUFFICES ASSUME NegotiationInv, Renegotiate PROVE NegotiationInv'
  OBVIOUS
<1>1. /\ IndexInv /\ Types /\ ClaimsMatchRoutes
      /\ pending' = NextPending /\ position' = 1
  BY DEF NegotiationInv, Renegotiate
<1>2. NextPending \in SUBSET Nets
  BY <1>1 DEF NextPending, ClaimantNets, ContestedResources, IndexInv, IndexTypeOK, Claim
<1>3. CASE /\ phase' = "ripup"
           /\ UNCHANGED <<indexVars, routeVars, hard_block>>
  <2>1. ~hard_block'
    BY <1>3 DEF Renegotiate
  <2>2. IndexInv' /\ ClaimsMatchRoutes'
    BY <1>1, <1>3 DEF indexVars, routeVars, IndexInv, IndexTypeOK, IndexInverse, OneClaimPerNet,
                      Holds, ClaimsMatchRoutes
  <2>3. Types' /\ Scheduled' /\ KeptRoutesLegal'
    BY <1>1, <1>2, <1>3, <2>1 DEF Types, Scheduled, KeptRoutesLegal, routeVars
  <2>4. PendingIsContested'
    <3>1. /\ ContestedResources' = ContestedResources
          /\ \A r \in RouteResource : ClaimantNets(r)' = ClaimantNets(r)
          /\ by_net' = by_net
      BY <1>3 DEF indexVars, ContestedResources, ClaimantNets
    <3>2. \A r \in ContestedResources : r \in RouteResource /\ ClaimantNets(r) \subseteq NextPending
      BY DEF NextPending, ContestedResources
    <3>3. \A m \in NextPending : \E r \in by_net[m] : r \in ContestedResources
      <4> SUFFICES ASSUME NEW m \in NextPending
                   PROVE  \E r \in by_net[m] : r \in ContestedResources
        OBVIOUS
      <4>1. PICK r \in ContestedResources : m \in ClaimantNets(r)
        BY DEF NextPending
      <4>2. r \in RouteResource /\ Holds(m, r) /\ m \in Nets
        BY <1>2, <4>1 DEF ContestedResources, ClaimantNets, Holds
      <4> QED
        BY <1>1, <4>1, <4>2 DEF IndexInv, IndexInverse
    <3> QED
      BY <1>1, <3>1, <3>2, <3>3 DEF PendingIsContested
  <2> QED
    BY <2>2, <2>3, <2>4 DEF NegotiationInv
<1>4. CASE /\ Clear
           /\ segments' = [m \in Nets |-> NoRoute]
           /\ hard_block' = TRUE
           /\ phase' = "net"
  <2>1. IndexInv'
    BY <1>1, <1>4, ClearInv
  <2>2. Types' /\ Scheduled' /\ KeptRoutesLegal' /\ PendingIsContested'
    BY <1>1, <1>2, <1>4 DEF Types, Scheduled, KeptRoutesLegal, PendingIsContested, NoRoute
  <2>3. ClaimsMatchRoutes'
    BY <1>4 DEF Clear, ClaimsMatchRoutes, NoRoute
  <2> QED
    BY <2>1, <2>2, <2>3 DEF NegotiationInv
<1> QED
  BY <1>3, <1>4 DEF Renegotiate

\* The other actions leave claims, routes and what is pending alone.
LEMMA BookkeepingInv ==
    ASSUME NegotiationInv,
           \/ SkipNet \/ NothingToRoute \/ PrepareRouteNet \/ RouteSinkFails \/ FinishNet
           \/ Converge \/ EndLegalization \/ ValidateFinalRouting \/ UNCHANGED vars
    PROVE  NegotiationInv'
<1>1. /\ IndexInv /\ Types /\ Scheduled /\ ClaimsMatchRoutes /\ KeptRoutesLegal
  BY DEF NegotiationInv
<1>2. by_resource' = by_resource /\ by_net' = by_net /\ reserved' = reserved
      /\ segments' = segments /\ pending' = pending
  BY DEF SkipNet, NothingToRoute, PrepareRouteNet, RouteSinkFails, FinishNet, Converge,
         EndLegalization, ValidateFinalRouting, vars, indexVars, netVars, routeVars, scheduleVars
<1>3. IndexInv' /\ ClaimsMatchRoutes'
  BY <1>1, <1>2 DEF IndexInv, IndexTypeOK, IndexInverse, OneClaimPerNet, Holds, ClaimsMatchRoutes
<1>4. Types' /\ Scheduled'
  <2>1. CASE SkipNet \/ NothingToRoute \/ FinishNet
    BY <1>1, <1>2, <2>1 DEF SkipNet, NothingToRoute, FinishNet, scheduleVars, Types, Scheduled
  <2>2. CASE PrepareRouteNet
    BY <1>1, <1>2, <2>2 DEF PrepareRouteNet, scheduleVars, Types, Scheduled, Due, CurrentNet
  <2>3. CASE RouteSinkFails \/ UNCHANGED vars
    BY <1>1, <1>2, <2>3 DEF RouteSinkFails, vars, scheduleVars, Types, Scheduled, Due, CurrentNet
  <2>4. CASE Converge \/ EndLegalization \/ ValidateFinalRouting
    BY <1>1, <1>2, <2>4 DEF Converge, EndLegalization, ValidateFinalRouting, scheduleVars, Types,
                            Scheduled
  <2> QED
    BY <2>1, <2>2, <2>3, <2>4
<1>5. PendingIsContested'
  <2>1. CASE UNCHANGED vars
    BY <1>2, <2>1 DEF NegotiationInv, PendingIsContested, vars, ContestedResources, ClaimantNets
  <2>2. CASE ~(UNCHANGED vars)
    <3>1. phase' # "ripup"
      BY <2>2 DEF SkipNet, NothingToRoute, PrepareRouteNet, RouteSinkFails, FinishNet, Converge,
                  EndLegalization, ValidateFinalRouting
    <3> QED
      BY <3>1 DEF PendingIsContested
  <2> QED
    BY <2>1, <2>2
<1>6. KeptRoutesLegal'
  <2>1. phase' \in {"net", "sink"} /\ ~hard_block' => phase \in {"net", "sink"} /\ ~hard_block
    BY DEF SkipNet, NothingToRoute, PrepareRouteNet, RouteSinkFails, FinishNet, Converge,
           EndLegalization, ValidateFinalRouting, vars, scheduleVars
  <2> QED
    BY <1>1, <1>2, <2>1 DEF KeptRoutesLegal, PairwiseLegal
<1> QED
  BY <1>3, <1>4, <1>5, <1>6 DEF NegotiationInv

-----------------------------------------------------------------------------

\* The inductive invariant: the occupancy index is consistent and holds exactly
\* the claims of the committed routes, whatever is contested is about to be
\* ripped up, and what a negotiation pass keeps is legal.
THEOREM NegotiationInvariant == Spec => []NegotiationInv
<1>1. NegotiationInv /\ [Next]_vars => NegotiationInv'
  <2> SUFFICES ASSUME NegotiationInv, [Next]_vars PROVE NegotiationInv'
    OBVIOUS
  <2>1. CASE RipUpPending
    BY <2>1, RipUpPendingInv
  <2>2. CASE CommitRoutedPath
    BY <2>2, CommitInv
  <2>3. CASE Renegotiate
    BY <2>3, RenegotiateInv
  <2>4. CASE \/ SkipNet \/ NothingToRoute \/ PrepareRouteNet \/ RouteSinkFails \/ FinishNet
             \/ Converge \/ EndLegalization \/ ValidateFinalRouting \/ UNCHANGED vars
    BY <2>4, BookkeepingInv
  <2> QED
    BY <2>1, <2>2, <2>3, <2>4 DEF Next, Terminated
<1> QED
  BY <1>1, NegotiationInit, PTL DEF Spec

\* Rerouting only the claimants of contested resources is enough: the routes a
\* negotiation pass keeps never conflict (route_negotiated_congestion).
THEOREM KeptRoutesLegalHolds == Spec => []KeptRoutesLegal
<1>1. NegotiationInv => KeptRoutesLegal
  BY DEF NegotiationInv
<1> QED
  BY <1>1, NegotiationInvariant, PTL

\* Rip-up and claim bookkeeping never drift apart: the occupancy index holds the
\* claims of the committed routes, no more and no less.
THEOREM ClaimsMatchRoutesHolds == Spec => []ClaimsMatchRoutes
<1>1. NegotiationInv => ClaimsMatchRoutes
  BY DEF NegotiationInv
<1> QED
  BY <1>1, NegotiationInvariant, PTL

\* Before the legalizing pass a route is given up only if a resource it claims
\* is contested.
THEOREM OnlyContestedRoutesDroppedHolds == Spec => OnlyContestedRoutesDropped
<1> DEFINE Given(n) == ~hard_block' /\ segments[n] # {} /\ segments'[n] = {} =>
                         \E r \in by_net[n] : r \in ContestedResources
<1>1. NegotiationInv /\ [Next]_vars => [\A n \in Nets : Given(n)]_vars
  <2> SUFFICES ASSUME NegotiationInv, Next, NEW n \in Nets PROVE Given(n)
    OBVIOUS
  <2>1. CASE RipUpPending
    <3>1. segments'[n] = IF n \in pending THEN {} ELSE segments[n]
      BY <2>1 DEF RipUpPending, NoRoute
    <3> QED
      BY <2>1, <3>1 DEF NegotiationInv, PendingIsContested, RipUpPending
  <2>2. CASE CommitRoutedPath
    <3>1. PICK p \in Paths : segments' = [segments EXCEPT ![CurrentNet] = @ \cup {p}]
      BY <2>2 DEF CommitRoutedPath, RoutablePaths
    <3>2. segments[n] \subseteq segments'[n]
      BY <3>1 DEF NegotiationInv, Types
    <3> QED
      BY <3>2
  <2>3. CASE Renegotiate
    BY <2>3 DEF Renegotiate, routeVars, ScheduleAssumption
  <2>4. CASE \/ SkipNet \/ NothingToRoute \/ PrepareRouteNet \/ RouteSinkFails \/ FinishNet
             \/ Converge \/ EndLegalization \/ ValidateFinalRouting \/ UNCHANGED vars
    <3>1. segments' = segments
      BY <2>4 DEF SkipNet, NothingToRoute, PrepareRouteNet, RouteSinkFails, FinishNet, Converge,
                  EndLegalization, ValidateFinalRouting, vars, routeVars
    <3> QED
      BY <3>1
  <2> QED
    BY <2>1, <2>2, <2>3, <2>4 DEF Next, Terminated
<1> QED
  BY <1>1, NegotiationInvariant, PTL DEF Spec, OnlyContestedRoutesDropped

-----------------------------------------------------------------------------
\* The contract of LegalRouting.

Wires(P) == UNION {PathNodes(p) : p \in P}

Reached(n, g) == \E p \in segments[n] : p[Len(p)] \in SinkGroups[n][g]

Settled(n) ==
    n \in Routed => failed[n] \/ \A g \in 1 .. Len(SinkGroups[n]) : Reached(n, g)

\* A net that is due and was not routed in this pass has no route.
LaterAreFresh ==
    phase \in {"net", "sink"} =>
        \A i \in 1 .. Len(NetOrder) :
            Due(NetOrder[i]) /\ (i > position \/ (i = position /\ phase = "net")) =>
                segments[NetOrder[i]] = {}

\* The tree a search starts from is the roots and the route so far.
TreeIsRoute ==
    phase = "sink" =>
        /\ CurrentNet \in Routed
        /\ tree_nodes = Roots[CurrentNet] \cup Wires(segments[CurrentNet])

\* No wire of a route has two drivers, and all of it hangs on the roots.
RoutesHang ==
    \A n \in Nets :
        /\ OneDriverPerWire(n)
        /\ Contract!Rooted(n, segments[n])
        /\ n \notin Routed => segments[n] = {}

\* What the passes have settled: a sink of a net that did not fail is reached.
Progress ==
    /\ failed \in [Nets -> BOOLEAN]
    /\ phase = "ripup" => position = 1 /\ \A n \in Nets \ pending : Settled(n)
    /\ phase \in {"net", "sink"} =>
        \A i \in 1 .. Len(NetOrder) :
            i < position \/ ~Due(NetOrder[i]) => Settled(NetOrder[i])
    /\ phase = "sink" =>
        /\ group \in Nat \ {0}
        /\ \A g \in 1 .. Len(SinkGroups[CurrentNet]) :
              g < group => failed[CurrentNet] \/ Reached(CurrentNet, g)
    /\ phase \in {"validate", "done"} => \A n \in Nets : Settled(n)

Returned == outcome # "running" => phase = "done"

ContractInv ==
    /\ LaterAreFresh
    /\ TreeIsRoute
    /\ RoutesHang
    /\ Progress
    /\ Returned
    /\ BlockedWiresAvoided

-----------------------------------------------------------------------------
\* Paths and their wires.

LEMMA PathTyped ==
    ASSUME NEW p \in Paths
    PROVE  /\ Len(p) \in Nat \ {0}
           /\ \A i \in 1 .. Len(p) : p[i] \in Node
           /\ \A i \in 2 .. Len(p) : i - 1 \in 1 .. Len(p)
<1>1. p \in Seq(Node) /\ Len(p) > 0
  BY PathsAssumption
<1> QED
  BY <1>1

\* A set that holds the first wire of a path and is closed under its steps
\* holds all of its wires.
LEMMA PathWithin ==
    ASSUME NEW p \in Paths, NEW X, p[1] \in X,
           \A i \in 2 .. Len(p) : p[i - 1] \in X => p[i] \in X
    PROVE  PathNodes(p) \subseteq X
<1> DEFINE S == {i \in 1 .. Len(p) : p[i] \notin X}
<1>1. Len(p) \in Nat \ {0}
  BY PathTyped
<1>2. S = {}
  <2> SUFFICES ASSUME S # {} PROVE FALSE
    OBVIOUS
  <2>1. S \in SUBSET Nat
    BY <1>1
  <2>2. PICK m \in S : \A k \in S : m <= k
    BY <2>1, LeastNatural
  <2>3. m \in 1 .. Len(p) /\ p[m] \notin X
    BY <2>2
  <2>4. m # 1
    BY <2>3
  <2>5. m \in 2 .. Len(p) /\ m - 1 \in 1 .. Len(p) /\ ~(m <= m - 1)
    BY <1>1, <2>3, <2>4
  <2>6. m - 1 \notin S
    BY <2>2, <2>5
  <2>7. p[m - 1] \in X
    BY <2>5, <2>6
  <2> QED
    BY <2>3, <2>5, <2>7
<1> QED
  BY <1>2 DEF PathNodes

\* The wires a net's route uses are claimed for it.
LEMMA RouteClaimed ==
    ASSUME IndexInv, Types, ClaimsMatchRoutes, NEW n \in Nets, NEW x \in Wires(segments[n])
    PROVE  x \in Node /\ NodeResource(x) \in by_net[n] /\ Holds(n, NodeResource(x))
<1>1. PICK p \in segments[n] : x \in PathNodes(p)
  BY DEF Wires
<1>2. p \in Paths
  BY DEF Types
<1>3. x \in Node
  BY <1>1, <1>2, PathTyped DEF PathNodes
<1>4. NodeResource(x) \in RouteResource
  BY <1>3, FabricAssumption DEF NodeResource, RouteResource
<1>5. PathClaims(n, p, NodeResource(x)) # {}
  BY <1>1, <1>4 DEF PathClaims, NodeResource
<1>6. NodeResource(x) \in by_net[n]
  BY <1>1, <1>4, <1>5 DEF ClaimsMatchRoutes
<1> QED
  BY <1>3, <1>6 DEF IndexInv, IndexInverse

\* A claim on a wire names a pip of the net's route that drives it.
LEMMA SinkClaimed ==
    ASSUME IndexInv, Types, ClaimsMatchRoutes, NEW n \in Nets,
           NEW pip \in UNION {PathPips(p) : p \in segments[n]}
    PROVE  \E c \in by_resource[SinkResource(pip[2])] :
              /\ SinkResource(pip[2]) \in RouteResource
              /\ c.net = n /\ c.from \in Node
              /\ <<c.from, pip[2]>> \in UNION {PathPips(p) : p \in segments[n]}
<1> DEFINE r == SinkResource(pip[2])
<1>1. PICK p \in segments[n] : pip \in PathPips(p)
  OBVIOUS
<1>2. p \in Paths
  BY DEF Types
<1>3. PICK i \in 2 .. Len(p) : pip = <<p[i - 1], p[i]>> /\ pip \in LocalArc
  BY <1>1 DEF PathPips
<1>4. p[i] \in Node /\ pip[2] = p[i] /\ r \in RouteResource
  BY <1>2, <1>3, PathTyped DEF RouteResource, SinkResource
<1>5. PathClaims(n, p, r) # {}
  <2> DEFINE S == PipsInto(p, p[i])
  <2>1. i \in S
    BY <1>3 DEF PipsInto
  <2>2. S \in SUBSET Nat
    BY <1>2, PathTyped DEF PipsInto
  <2>3. PICK j \in S : \A k \in S : j <= k
    BY <2>1, <2>2, LeastNatural
  <2>4. j \in FirstPipInto(p, p[i])
    BY <2>3 DEF FirstPipInto
  <2> QED
    BY <1>4, <2>4 DEF PathClaims, SinkResource
<1>6. r \in by_net[n]
  BY <1>1, <1>4, <1>5 DEF ClaimsMatchRoutes
<1>7. PICK c \in by_resource[r] : c.net = n
  BY <1>4, <1>6 DEF IndexInv, IndexInverse, Holds
<1>8. PICK q \in segments[n] : c \in PathClaims(n, q, r)
  BY <1>4, <1>7 DEF ClaimsMatchRoutes
<1>9. PICK k \in FirstPipInto(q, p[i]) : c = [net |-> n, from |-> q[k - 1]]
  BY <1>4, <1>8 DEF PathClaims, SinkResource
<1>10. q \in Paths /\ k \in 2 .. Len(q) /\ q[k] = p[i] /\ <<q[k - 1], q[k]>> \in LocalArc
  <2>1. q \in Paths
    BY <1>8 DEF Types
  <2>2. k \in PipsInto(q, p[i])
    BY <1>9 DEF FirstPipInto
  <2> QED
    BY <2>1, <2>2 DEF PipsInto
<1>11. q[k - 1] \in Node /\ <<q[k - 1], p[i]>> \in PathPips(q)
  BY <1>10, PathTyped DEF PathPips
<1>12. /\ c.net = n /\ c.from \in Node
       /\ <<c.from, pip[2]>> \in UNION {PathPips(o) : o \in segments[n]}
  <2>1. c.from = q[k - 1] /\ pip[2] = p[i]
    BY <1>4, <1>9
  <2> QED
    BY <1>7, <1>8, <1>11, <2>1
<1> QED
  BY <1>4, <1>7, <1>12

-----------------------------------------------------------------------------
\* What the search found extends the route.

\* The path joins the tree at its first wire and nowhere else.
LEMMA PathJoinsOnce ==
    ASSUME NEW n, NEW goals, NEW p \in RoutablePaths(n, goals)
    PROVE  /\ p \in Paths /\ p[1] \in tree_nodes /\ p[Len(p)] \in goals
           /\ \A i \in 2 .. Len(p) : p[i] \notin tree_nodes /\ Enterable(n, p[i - 1], p[i])
<1>1. /\ p \in Paths /\ p[1] \in tree_nodes
      /\ \A i \in 2 .. Len(p) : p[i] \notin tree_nodes /\ Enterable(n, p[i - 1], p[i])
      /\ \A i \in 1 .. Len(p) : p[i] \in goals <=> i = Len(p)
  BY DEF RoutablePaths, Expands
<1>2. Len(p) \in 1 .. Len(p)
  BY <1>1, PathTyped
<1> QED
  BY <1>1, <1>2

LEMMA CommitHangs ==
    ASSUME NegotiationInv, TreeIsRoute, RoutesHang, CommitRoutedPath
    PROVE  RoutesHang' /\ TreeIsRoute'
<1> DEFINE n == CurrentNet
<1>1. PICK p \in RoutablePaths(n, Goals) :
          /\ segments' = [segments EXCEPT ![n] = @ \cup {p}]
          /\ tree_nodes' = tree_nodes \cup PathNodes(p)
  BY DEF CommitRoutedPath
<1>2. /\ Types /\ n \in Nets /\ n \in Routed /\ phase' = "sink" /\ position' = position
      /\ tree_nodes = Roots[n] \cup Wires(segments[n])
  <2>1. Types /\ position <= Len(NetOrder) /\ phase = "sink"
    BY DEF NegotiationInv, Scheduled, CommitRoutedPath
  <2>2. n \in Nets
    BY <2>1, CurrentNetTyped
  <2> QED
    BY <2>1, <2>2 DEF TreeIsRoute, CommitRoutedPath
<1>3. /\ p \in Paths /\ p[1] \in tree_nodes
      /\ \A i \in 2 .. Len(p) : p[i] \notin tree_nodes
  BY <1>1, PathJoinsOnce
<1>4. n' = n
  BY <1>2 DEF CurrentNet
<1> HIDE DEF n
<1>5. /\ segments'[n] = segments[n] \cup {p}
      /\ \A m \in Nets : m # n => segments'[m] = segments[m]
  BY <1>1, <1>2 DEF Types
<1>6. Wires(segments'[n]) = Wires(segments[n]) \cup PathNodes(p)
  BY <1>5 DEF Wires
<1>7. TreeIsRoute'
  BY <1>1, <1>2, <1>4, <1>6 DEF TreeIsRoute, n
<1>8. ASSUME NEW a \in UNION {PathPips(q) : q \in segments'[n]},
             NEW b \in UNION {PathPips(q) : q \in segments'[n]}, a[2] = b[2]
      PROVE  a = b
  <2> DEFINE Old == UNION {PathPips(q) : q \in segments[n]}
  <2>1. \A c \in Old : c[2] \in tree_nodes
    <3> SUFFICES ASSUME NEW q \in segments[n], NEW c \in PathPips(q) PROVE c[2] \in tree_nodes
      OBVIOUS
    <3>1. PICK i \in 2 .. Len(q) : c = <<q[i - 1], q[i]>>
      BY DEF PathPips
    <3>2. q \in Paths
      BY <1>2 DEF Types
    <3>3. q[i] \in PathNodes(q)
      BY <3>1, <3>2, PathTyped DEF PathNodes
    <3> QED
      BY <1>2, <3>1, <3>3 DEF Wires
  <2>2. \A c \in PathPips(p) : c[2] \notin tree_nodes
    BY <1>3 DEF PathPips
  <2>3. (a \in Old \/ a \in PathPips(p)) /\ (b \in Old \/ b \in PathPips(p))
    BY <1>5, <1>8
  <2>4. CASE a \in Old /\ b \in Old
    BY <1>2, <1>8, <2>4 DEF RoutesHang, OneDriverPerWire
  <2>5. CASE a \in PathPips(p) /\ b \in PathPips(p)
    <3>1. PICK i \in 2 .. Len(p) : a = <<p[i - 1], p[i]>>
      BY <2>5 DEF PathPips
    <3>2. PICK j \in 2 .. Len(p) : b = <<p[j - 1], p[j]>>
      BY <2>5 DEF PathPips
    <3>3. i \in 1 .. Len(p) /\ j \in 1 .. Len(p) /\ p[i] = p[j]
      BY <1>3, <1>8, <3>1, <3>2, PathTyped
    <3>4. i = j
      BY <1>3, <3>3, SearchAssumption
    <3> QED
      BY <3>1, <3>2, <3>4
  <2> QED
    BY <1>8, <2>1, <2>2, <2>3, <2>4, <2>5
<1>9. Contract!Rooted(n, segments'[n])
  <2> SUFFICES ASSUME NEW X \in SUBSET Node, Roots[n] \subseteq X,
                      \A q \in segments'[n] : \A i \in 2 .. Len(q) : q[i - 1] \in X => q[i] \in X
               PROVE  Wires(segments'[n]) \subseteq X
    BY DEF Contract!Rooted, Contract!WiresOf, Wires, PathNodes
  <2>1. Wires(segments[n]) \subseteq X
    BY <1>2, <1>5 DEF RoutesHang, Contract!Rooted, Contract!WiresOf, Wires, PathNodes
  <2>2. p[1] \in X
    BY <1>2, <1>3, <2>1
  <2>3. PathNodes(p) \subseteq X
    BY <1>3, <1>5, <2>2, PathWithin
  <2> QED
    BY <1>6, <2>1, <2>3
<1>10. RoutesHang'
  <2> SUFFICES ASSUME NEW m \in Nets
               PROVE  /\ OneDriverPerWire(m)'
                      /\ Contract!Rooted(m, segments'[m])
                      /\ m \notin Routed => segments'[m] = {}
    BY DEF RoutesHang, Contract!Rooted, Contract!WiresOf
  <2>1. CASE m = n
    BY <1>2, <1>8, <1>9, <2>1 DEF OneDriverPerWire
  <2>2. CASE m # n
    BY <1>5, <2>2 DEF RoutesHang, OneDriverPerWire
  <2> QED
    BY <2>1, <2>2
<1> QED
  BY <1>7, <1>10

LEMMA CommitProgress ==
    ASSUME NegotiationInv, LaterAreFresh, Progress, CommitRoutedPath
    PROVE  LaterAreFresh' /\ Progress'
<1> DEFINE n == CurrentNet
<1>1. PICK p \in RoutablePaths(n, Goals) : segments' = [segments EXCEPT ![n] = @ \cup {p}]
  BY DEF CommitRoutedPath
<1>2. /\ Types /\ Scheduled /\ n \in Nets /\ p[Len(p)] \in Goals
      /\ phase = "sink" /\ phase' = "sink" /\ position' = position /\ failed' = failed
      /\ pending' = pending /\ hard_block' = hard_block /\ group' = group + 1
      /\ position <= Len(NetOrder)
  <2>1. Types /\ Scheduled /\ position <= Len(NetOrder)
    BY DEF NegotiationInv, Scheduled, CommitRoutedPath
  <2>2. n \in Nets
    BY <2>1, CurrentNetTyped
  <2>3. p[Len(p)] \in Goals
    BY <1>1, PathJoinsOnce
  <2> QED
    BY <2>1, <2>2, <2>3 DEF CommitRoutedPath, scheduleVars
<1>3. /\ segments'[n] = segments[n] \cup {p}
      /\ \A m \in Nets : m # n => segments'[m] = segments[m]
      /\ \A m \in Nets : segments[m] \subseteq segments'[m]
  BY <1>1, <1>2 DEF Types
<1>4. /\ \A i \in 1 .. Len(NetOrder) : NetOrder[i] \in Nets /\ (NetOrder[i] = n <=> i = position)
      /\ position \in 1 .. Len(NetOrder)
  <2>1. position \in 1 .. Len(NetOrder)
    BY <1>2, NetOrderAssumption DEF Types
  <2>2. \A i \in 1 .. Len(NetOrder) : NetOrder[i] \in Nets
    BY NetOrderAssumption
  <2>3. \A i \in 1 .. Len(NetOrder) : NetOrder[i] = NetOrder[position] => i = position
    BY <2>1, NetOrderAssumption
  <2> QED
    BY <2>1, <2>2, <2>3 DEF CurrentNet
<1>5. \A m \in Nets : Settled(m) => Settled(m)'
  BY <1>2, <1>3 DEF Settled, Reached
<1>6. LaterAreFresh'
  <2> SUFFICES ASSUME NEW i \in 1 .. Len(NetOrder), Due(NetOrder[i]), i > position
               PROVE  segments'[NetOrder[i]] = {}
    BY <1>2 DEF LaterAreFresh, Due
  <2>1. segments[NetOrder[i]] = {}
    BY <1>2 DEF LaterAreFresh
  <2>2. i # position
    BY <1>4
  <2> QED
    BY <1>3, <1>4, <2>1, <2>2
<1>7. \A i \in 1 .. Len(NetOrder) : i < position \/ ~Due(NetOrder[i]) => Settled(NetOrder[i])'
  BY <1>2, <1>4, <1>5 DEF Progress
<1>8. \A g \in 1 .. Len(SinkGroups[n]) : g < group + 1 => failed[n] \/ Reached(n, g)'
  <2> SUFFICES ASSUME NEW g \in 1 .. Len(SinkGroups[n]), g < group + 1, ~failed[n]
               PROVE  \E q \in segments'[n] : q[Len(q)] \in SinkGroups[n][g]
    BY <1>2 DEF Reached, CurrentNet
  <2>1. group \in Nat \ {0} /\ (g < group => Reached(n, g))
    BY <1>2 DEF Progress
  <2>2. CASE g < group
    BY <1>3, <2>1, <2>2 DEF Reached
  <2>3. CASE g = group
    BY <1>2, <1>3, <2>3 DEF Goals
  <2> QED
    BY <2>1, <2>2, <2>3
<1>9. n' = n
  BY <1>2 DEF CurrentNet
<1>10. Progress'
  <2>1. failed' \in [Nets -> BOOLEAN] /\ group' \in Nat \ {0}
    BY <1>2 DEF Progress
  <2>2. \A i \in 1 .. Len(NetOrder) : Due(NetOrder[i])' <=> Due(NetOrder[i])
    BY <1>2 DEF Due
  <2>3. \A g \in 1 .. Len(SinkGroups[n']) : g < group' => failed'[n'] \/ Reached(n, g)'
    BY <1>2, <1>8, <1>9
  <2> QED
    BY <1>2, <1>7, <1>9, <2>1, <2>2, <2>3 DEF Progress, Reached
<1> QED
  BY <1>6, <1>10

\* A new claim of the legalizing pass meets others only at a root of its net.
LEMMA NewClaimFits ==
    ASSUME NegotiationInv, TreeIsRoute, hard_block, phase = "sink",
           NEW goals, NEW p \in RoutablePaths(CurrentNet, goals),
           NEW r \in RouteResource, ~Holds(CurrentNet, r),
           NEW c \in PathClaims(CurrentNet, p, r),
           NEW d \in by_resource[r], d.net # CurrentNet
    PROVE  \/ SharesLegally(c, d) /\ SharesLegally(d, c)
           \/ r.kind = "Node" /\ \E x \in Roots[CurrentNet] : OccupancyKey[x] = r.at
<1> DEFINE n == CurrentNet
<1>1. IndexInv /\ Types /\ ClaimsMatchRoutes /\ n \in Nets
  BY CurrentNetTyped DEF NegotiationInv, Scheduled
<1>2. /\ p \in Paths /\ p[1] \in tree_nodes
      /\ \A i \in 2 .. Len(p) : p[i] \notin tree_nodes /\ Enterable(n, p[i - 1], p[i])
  BY PathJoinsOnce
<1>3. c \in ClaimsOn(r) /\ d \in ClaimsOn(r) /\ c.net = n
  BY <1>1, <1>2, PathClaimsOnResource DEF IndexInv, IndexTypeOK
<1>4. SharesLegally(d, c) => SharesLegally(c, d)
  BY <1>3 DEF SharesLegally, ClaimsOn
<1>5. CASE r.kind = "Sink"
  <2>1. PICK i \in FirstPipInto(p, r.at) : c = [net |-> n, from |-> p[i - 1]]
    BY <1>5 DEF PathClaims
  <2>2. i \in 2 .. Len(p) /\ p[i] = r.at /\ <<p[i - 1], p[i]>> \in LocalArc
    BY <2>1 DEF FirstPipInto, PipsInto
  <2>3. r = SinkResource(p[i])
    BY <1>5, <2>2 DEF RouteResource, SinkResource
  <2>4. ~Blocked(n, r, p[i - 1])
    BY <1>2, <2>2, <2>3 DEF Enterable
  <2>5. SharesLegally(d, c)
    BY <1>1, <1>3, <2>1, <2>4 DEF Blocked, Foreign
  <2> QED
    BY <1>4, <2>5
<1>6. CASE r.kind = "Node"
  <2>1. PICK i \in 1 .. Len(p) : OccupancyKey[p[i]] = r.at
    BY <1>6 DEF PathClaims, PathNodes
  <2>2. c = [net |-> n, from |-> NoWire] /\ r = NodeResource(p[i])
    BY <1>6, <2>1 DEF PathClaims, RouteResource, NodeResource
  <2>3. CASE i \in 2 .. Len(p)
    <3>1. ~Blocked(n, r, NoWire)
      BY <1>2, <2>2, <2>3 DEF Enterable
    <3>2. SharesLegally(d, c)
      BY <1>1, <1>3, <2>2, <3>1 DEF Blocked, Foreign
    <3> QED
      BY <1>4, <3>2
  <2>4. CASE i = 1
    <3>1. p[1] \notin Wires(segments[n])
      BY <1>1, <2>2, <2>4, RouteClaimed
    <3>2. p[1] \in Roots[n]
      BY <1>2, <3>1 DEF TreeIsRoute
    <3> QED
      BY <1>6, <2>1, <2>4, <3>2
  <2> QED
    BY <1>2, <2>1, <2>3, <2>4, PathTyped
<1> QED
  BY <1>5, <1>6 DEF RouteResource

LEMMA CommitAvoids ==
    ASSUME NegotiationInv, TreeIsRoute, BlockedWiresAvoided, CommitRoutedPath
    PROVE  BlockedWiresAvoided'
<1> DEFINE n == CurrentNet
<1>1. PICK p \in RoutablePaths(n, Goals) : ReserveRoutePath(n, p)
  BY DEF CommitRoutedPath
<1>2. /\ IndexInv /\ Types /\ ClaimsMatchRoutes /\ n \in Nets
      /\ phase = "sink" /\ hard_block' = hard_block /\ reserved' = reserved
  BY <1>1, CurrentNetTyped
  DEF NegotiationInv, Scheduled, CommitRoutedPath, scheduleVars, ReserveRoutePath
<1>3. /\ p \in Paths /\ p[1] \in tree_nodes
      /\ \A i \in 2 .. Len(p) : Enterable(n, p[i - 1], p[i])
  BY <1>1, PathJoinsOnce
<1>4. LegalizedConflictsOnlyAtRoots'
  <2> SUFFICES ASSUME hard_block, NEW r \in RouteResource,
                      NEW c \in by_resource'[r], NEW d \in by_resource'[r],
                      c.net # d.net, ~SharesLegally(c, d)
               PROVE  /\ r.kind = "Node"
                      /\ \E x \in Roots[c.net] \cup Roots[d.net] : OccupancyKey[x] = r.at
    BY <1>2 DEF LegalizedConflictsOnlyAtRoots, SharesLegally, Synthetic
  <2>1. by_resource'[r] = IF Holds(n, r) THEN by_resource[r]
                          ELSE by_resource[r] \cup PathClaims(n, p, r)
    BY <1>1 DEF ReserveRoutePath
  <2>2. \A e \in PathClaims(n, p, r) : e.net = n
    BY <1>2, <1>3, PathClaimsOnResource
  <2>3. CASE c \in by_resource[r] /\ d \in by_resource[r]
    BY <2>3 DEF BlockedWiresAvoided, LegalizedConflictsOnlyAtRoots
  <2>4. CASE c \in PathClaims(n, p, r) /\ d \in by_resource[r] /\ ~Holds(n, r)
    BY <1>1, <1>2, <2>2, <2>4, NewClaimFits
  <2>5. CASE d \in PathClaims(n, p, r) /\ c \in by_resource[r] /\ ~Holds(n, r)
    BY <1>1, <1>2, <2>2, <2>5, NewClaimFits
  <2>6. CASE c \in PathClaims(n, p, r) /\ d \in PathClaims(n, p, r)
    BY <2>2, <2>6
  <2> QED
    BY <2>1, <2>3, <2>4, <2>5, <2>6
<1>5. ReservedChannelsRespected'
  <2> SUFFICES ASSUME NEW m \in Nets, NEW x \in Node,
                      NodeResource(x) \in by_net'[m], ReservedForOther(m, x)
               PROVE  \E root \in Roots[m] : OccupancyKey[root] = OccupancyKey[x]
    BY <1>2 DEF ReservedChannelsRespected, ReservedForOther
  <2>1. CASE NodeResource(x) \in by_net[m]
    BY <2>1 DEF BlockedWiresAvoided, ReservedChannelsRespected
  <2>2. CASE NodeResource(x) \notin by_net[m]
    <3>1. m = n /\ PathClaims(n, p, NodeResource(x)) # {}
      BY <1>1, <1>2, <2>2 DEF ReserveRoutePath, IndexInv, IndexTypeOK
    <3>2. PICK i \in 1 .. Len(p) : OccupancyKey[p[i]] = OccupancyKey[x]
      BY <3>1 DEF PathClaims, PathNodes, NodeResource
    <3>3. ~(i \in 2 .. Len(p))
      BY <1>3, <3>1, <3>2 DEF Enterable, ReservedForOther
    <3>4. i = 1
      BY <1>3, <3>2, <3>3, PathTyped
    <3>5. NodeResource(p[1]) = NodeResource(x)
      BY <3>2, <3>4 DEF NodeResource
    <3>6. p[1] \notin Wires(segments[n])
      BY <1>2, <2>2, <3>1, <3>5, RouteClaimed
    <3>7. p[1] \in Roots[n]
      BY <1>2, <1>3, <3>6 DEF TreeIsRoute
    <3> QED
      BY <3>1, <3>2, <3>4, <3>7
  <2> QED
    BY <2>1, <2>2
<1> QED
  BY <1>4, <1>5 DEF BlockedWiresAvoided

-----------------------------------------------------------------------------
\* The other actions.

LEMMA ContractInit == Init => ContractInv
<1> SUFFICES ASSUME Init PROVE ContractInv
  OBVIOUS
<1>1. /\ phase = "ripup" /\ position = 1 /\ pending = Nets /\ hard_block = FALSE
      /\ failed = [n \in Nets |-> FALSE] /\ outcome = "running"
      /\ \A n \in Nets : segments[n] = {} /\ by_net[n] = {}
  BY DEF Init, NoRoute
<1>2. LaterAreFresh /\ TreeIsRoute /\ Progress /\ Returned
  BY <1>1 DEF LaterAreFresh, TreeIsRoute, Progress, Returned
<1>3. RoutesHang
  BY <1>1 DEF RoutesHang, OneDriverPerWire, Contract!Rooted, Contract!WiresOf
<1>4. BlockedWiresAvoided
  BY <1>1 DEF BlockedWiresAvoided, LegalizedConflictsOnlyAtRoots, ReservedChannelsRespected
<1> QED
  BY <1>2, <1>3, <1>4 DEF ContractInv

LEMMA CommitContract ==
    ASSUME NegotiationInv, ContractInv, CommitRoutedPath
    PROVE  ContractInv'
<1>1. LaterAreFresh' /\ Progress'
  BY CommitProgress DEF ContractInv
<1>2. TreeIsRoute' /\ RoutesHang'
  BY CommitHangs DEF ContractInv
<1>3. BlockedWiresAvoided'
  BY CommitAvoids DEF ContractInv
<1>4. Returned'
  BY DEF ContractInv, Returned, CommitRoutedPath
<1> QED
  BY <1>1, <1>2, <1>3, <1>4 DEF ContractInv

\* A net without a route hangs on its roots whatever they are.
LEMMA DroppedHang ==
    ASSUME RoutesHang, \A n \in Nets : segments'[n] \in {{}, segments[n]}
    PROVE  RoutesHang'
<1> SUFFICES ASSUME NEW n \in Nets
             PROVE  /\ OneDriverPerWire(n)'
                    /\ Contract!Rooted(n, segments'[n])
                    /\ n \notin Routed => segments'[n] = {}
  BY DEF RoutesHang, Contract!Rooted, Contract!WiresOf
<1>1. CASE segments'[n] = segments[n]
  BY <1>1 DEF RoutesHang, OneDriverPerWire
<1>2. CASE segments'[n] = {}
  BY <1>2 DEF OneDriverPerWire, Contract!Rooted, Contract!WiresOf
<1> QED
  BY <1>1, <1>2

LEMMA RipUpContract ==
    ASSUME NegotiationInv, ContractInv, RipUpPending
    PROVE  ContractInv'
<1>1. /\ Types /\ IndexInv /\ phase = "ripup" /\ phase' = "net" /\ position = 1 /\ position' = 1
      /\ pending' = pending /\ ~hard_block /\ hard_block' = hard_block
      /\ reserved' = reserved /\ outcome' = outcome
      /\ \A n \in Nets \ pending : Settled(n)
  BY DEF NegotiationInv, Scheduled, ContractInv, Progress, RipUpPending, RipUp, scheduleVars
<1>2. /\ \A n \in Nets : segments'[n] = IF n \in pending THEN {} ELSE segments[n]
      /\ \A n \in Nets : by_net'[n] \subseteq by_net[n]
      /\ failed' = [n \in Nets |-> n \notin pending /\ failed[n]]
  BY <1>1 DEF RipUpPending, NoRoute, RipUp
<1>3. \A i \in 1 .. Len(NetOrder) : NetOrder[i] \in Nets
  BY NetOrderAssumption
<1>4. LaterAreFresh' /\ TreeIsRoute' /\ Returned'
  BY <1>1, <1>2, <1>3 DEF LaterAreFresh, TreeIsRoute, Returned, Due, ContractInv
<1>5. Progress'
  <2>1. \A n \in Nets \ pending : Settled(n)'
    BY <1>1, <1>2 DEF Settled, Reached
  <2>2. failed' \in [Nets -> BOOLEAN]
    BY <1>2 DEF ContractInv, Progress
  <2>3. \A i \in 1 .. Len(NetOrder) :
           i < position' \/ ~Due(NetOrder[i])' => Settled(NetOrder[i])'
    BY <1>1, <1>3, <2>1 DEF Due
  <2> QED
    BY <1>1, <2>2, <2>3 DEF Progress
<1>6. RoutesHang'
  BY <1>2, DroppedHang DEF ContractInv
<1>7. BlockedWiresAvoided'
  BY <1>1, <1>2 DEF ContractInv, BlockedWiresAvoided, LegalizedConflictsOnlyAtRoots,
                    ReservedChannelsRespected, ReservedForOther
<1> QED
  BY <1>4, <1>5, <1>6, <1>7 DEF ContractInv

LEMMA RenegotiateContract ==
    ASSUME NegotiationInv, ContractInv, Renegotiate
    PROVE  ContractInv'
<1>1. /\ Types /\ phase = "net" /\ position > Len(NetOrder) /\ ~hard_block /\ position' = 1
      /\ reserved' = reserved /\ outcome' = outcome /\ outcome = "running"
      /\ failed \in [Nets -> BOOLEAN]
  BY DEF NegotiationInv, ContractInv, Progress, Returned, Renegotiate, PassRouted, Clear, indexVars
<1>2. \A n \in Nets : Settled(n)
  <2> SUFFICES ASSUME NEW n \in Nets PROVE Settled(n)
    OBVIOUS
  <2>1. PICK i \in 1 .. Len(NetOrder) : NetOrder[i] = n
    BY NetOrderAssumption
  <2>2. i < position
    BY <1>1, NetOrderAssumption DEF Types
  <2> QED
    BY <1>1, <2>1, <2>2 DEF ContractInv, Progress
<1>3. CASE /\ phase' = "ripup"
           /\ UNCHANGED <<indexVars, routeVars, hard_block>>
  <2>1. /\ segments' = segments /\ failed' = failed /\ by_net' = by_net
        /\ by_resource' = by_resource
    BY <1>3 DEF routeVars, indexVars
  <2>2. LaterAreFresh' /\ TreeIsRoute' /\ Returned'
    BY <1>1, <1>3 DEF LaterAreFresh, TreeIsRoute, Returned
  <2>3. Progress'
    BY <1>1, <1>2, <1>3, <2>1 DEF Progress, Settled, Reached
  <2>4. RoutesHang'
    BY <2>1, DroppedHang DEF ContractInv
  <2>5. BlockedWiresAvoided'
    BY <1>1, <1>3, <2>1 DEF ContractInv, BlockedWiresAvoided, LegalizedConflictsOnlyAtRoots,
                            ReservedChannelsRespected, ReservedForOther
  <2> QED
    BY <2>2, <2>3, <2>4, <2>5 DEF ContractInv
<1>4. CASE /\ Clear /\ phase' = "net" /\ hard_block' = TRUE
           /\ segments' = [n \in Nets |-> NoRoute]
           /\ failed' = [n \in Nets |-> FALSE]
  <2>1. /\ \A n \in Nets : segments'[n] = {} /\ by_net'[n] = {}
        /\ \A r \in RouteResource : by_resource'[r] = {}
    BY <1>4 DEF NoRoute, Clear
  <2>2. \A i \in 1 .. Len(NetOrder) : NetOrder[i] \in Nets
    BY NetOrderAssumption
  <2>3. LaterAreFresh' /\ TreeIsRoute' /\ Returned'
    BY <1>1, <1>4, <2>1, <2>2 DEF LaterAreFresh, TreeIsRoute, Returned
  <2>4. Progress'
    BY <1>1, <1>4 DEF Progress, Due
  <2>5. RoutesHang'
    BY <2>1, DroppedHang DEF ContractInv
  <2>6. BlockedWiresAvoided'
    BY <2>1 DEF BlockedWiresAvoided, LegalizedConflictsOnlyAtRoots, ReservedChannelsRespected
  <2> QED
    BY <2>3, <2>4, <2>5, <2>6 DEF ContractInv
<1> QED
  BY <1>3, <1>4 DEF Renegotiate

\* A net has been handled: the next one follows.
LEMMA NetHandled ==
    ASSUME NegotiationInv, ContractInv, NEW n \in Nets, n = CurrentNet,
           phase \in {"net", "sink"}, position <= Len(NetOrder),
           phase' = "net", position' = position + 1,
           segments' = segments, pending' = pending, hard_block' = hard_block,
           failed' \in [Nets -> BOOLEAN], Settled(n)',
           \A m \in Nets : m # n /\ Settled(m) => Settled(m)'
    PROVE  LaterAreFresh' /\ TreeIsRoute' /\ Progress'
<1>1. /\ \A i \in 1 .. Len(NetOrder) : NetOrder[i] \in Nets
      /\ position \in 1 .. Len(NetOrder)
  BY NetOrderAssumption DEF NegotiationInv, Types
<1>2. LaterAreFresh' /\ TreeIsRoute'
  BY <1>1 DEF ContractInv, LaterAreFresh, TreeIsRoute, Due
<1>3. \A i \in 1 .. Len(NetOrder) :
         i < position + 1 \/ ~Due(NetOrder[i])' => Settled(NetOrder[i])'
  <2> SUFFICES ASSUME NEW i \in 1 .. Len(NetOrder), i < position + 1 \/ ~Due(NetOrder[i])'
               PROVE  Settled(NetOrder[i])'
    OBVIOUS
  <2>1. CASE NetOrder[i] = n
    BY <2>1
  <2>2. CASE NetOrder[i] # n
    <3>1. i # position
      BY <2>2 DEF CurrentNet
    <3>2. i < position \/ ~Due(NetOrder[i])
      BY <1>1, <3>1 DEF Due
    <3>3. Settled(NetOrder[i])
      BY <3>2 DEF ContractInv, Progress
    <3> QED
      BY <1>1, <2>2, <3>3
  <2> QED
    BY <2>1, <2>2
<1>4. Progress'
  BY <1>3 DEF Progress
<1> QED
  BY <1>2, <1>4

LEMMA AdvanceContract ==
    ASSUME NegotiationInv, ContractInv, SkipNet \/ NothingToRoute \/ FinishNet
    PROVE  LaterAreFresh' /\ TreeIsRoute' /\ Progress'
<1>1. /\ Types /\ Scheduled /\ Progress
      /\ phase \in {"net", "sink"} /\ phase' = "net" /\ position' = position + 1
      /\ position <= Len(NetOrder)
      /\ segments' = segments /\ pending' = pending /\ hard_block' = hard_block
  BY DEF NegotiationInv, ContractInv, Scheduled, SkipNet, NothingToRoute, FinishNet, routeVars,
         scheduleVars
<1>2. PICK n \in Nets : n = CurrentNet
  BY <1>1, CurrentNetTyped
<1>3. position \in 1 .. Len(NetOrder) /\ n = NetOrder[position]
  BY <1>1, <1>2, NetOrderAssumption DEF Types, CurrentNet
<1>4. CASE SkipNet \/ FinishNet
  <2>1. failed' = failed
    BY <1>4 DEF SkipNet, FinishNet, routeVars
  <2>2. \A m \in Nets : Settled(m)' <=> Settled(m)
    BY <1>1, <2>1 DEF Settled, Reached
  <2>3. Settled(n)
    <3>1. CASE SkipNet
      BY <1>1, <1>2, <1>3, <3>1 DEF SkipNet, Progress
    <3>2. CASE FinishNet
      <4>1. phase = "sink" /\ group > Len(SinkGroups[n]) /\ group \in Nat
        BY <1>1, <1>2, <3>2 DEF FinishNet, Progress
      <4>2. SinkGroups[n] \in Seq(SUBSET Node)
        BY DesignAssumption
      <4>3. \A g \in 1 .. Len(SinkGroups[n]) : g < group
        BY <4>1, <4>2
      <4> QED
        BY <1>1, <1>2, <4>1, <4>3 DEF Progress, Settled
    <3> QED
      BY <1>4, <3>1, <3>2
  <2>4. failed' \in [Nets -> BOOLEAN]
    BY <1>1, <2>1 DEF Progress
  <2> QED
    BY <1>1, <1>2, <2>2, <2>3, <2>4, NetHandled
<1>5. CASE NothingToRoute
  <2>1. failed' = [failed EXCEPT ![n] = n \in Routed] /\ failed \in [Nets -> BOOLEAN]
    BY <1>1, <1>2, <1>5 DEF NothingToRoute, Progress
  <2>2. /\ failed' \in [Nets -> BOOLEAN]
        /\ n \in Routed => failed'[n]
        /\ \A m \in Nets : m # n => failed'[m] = failed[m]
    <3>1. (n \in Routed) \in BOOLEAN
      OBVIOUS
    <3>2. failed' \in [Nets -> BOOLEAN]
      BY <2>1, <3>1
    <3>3. failed'[n] = (n \in Routed)
      BY <2>1, Zenon
    <3>4. \A m \in Nets : m # n => failed'[m] = failed[m]
      BY <2>1, Zenon
    <3> QED
      BY <3>2, <3>3, <3>4
  <2>3. Settled(n)'
    BY <2>2 DEF Settled
  <2>4. \A m \in Nets : m # n /\ Settled(m) => Settled(m)'
    BY <1>1, <2>2 DEF Settled, Reached
  <2> QED
    BY <1>1, <1>2, <2>2, <2>3, <2>4, NetHandled
<1> QED
  BY <1>4, <1>5

LEMMA PrepareContract ==
    ASSUME NegotiationInv, ContractInv, PrepareRouteNet
    PROVE  LaterAreFresh' /\ TreeIsRoute' /\ Progress'
<1> DEFINE n == CurrentNet
<1>1. /\ Types /\ Progress /\ LaterAreFresh /\ n \in Nets
      /\ phase = "net" /\ phase' = "sink" /\ position' = position /\ position <= Len(NetOrder)
      /\ segments' = segments /\ pending' = pending /\ hard_block' = hard_block
      /\ failed' = failed /\ group' = 1 /\ tree_nodes' = Roots[n] /\ n \in Routed /\ Due(n)
  BY CurrentNetTyped DEF NegotiationInv, ContractInv, PrepareRouteNet, routeVars, scheduleVars
<1>2. position \in 1 .. Len(NetOrder) /\ n = NetOrder[position] /\ n' = n
  BY <1>1, NetOrderAssumption DEF Types, CurrentNet
<1>3. segments[n] = {}
  BY <1>1, <1>2 DEF LaterAreFresh
<1>4. TreeIsRoute'
  BY <1>1, <1>2, <1>3 DEF TreeIsRoute, Wires
<1>5. LaterAreFresh'
  BY <1>1, <1>2 DEF LaterAreFresh, Due
<1>6. Progress'
  <2>1. SinkGroups[n] \in Seq(SUBSET Node)
    BY <1>1, DesignAssumption
  <2>2. \A g \in 1 .. Len(SinkGroups[n]) : ~(g < 1)
    BY <2>1
  <2> QED
    BY <1>1, <1>2, <2>2 DEF Progress, Due, Settled, Reached
<1> QED
  BY <1>4, <1>5, <1>6

LEMMA SinkFailsContract ==
    ASSUME NegotiationInv, ContractInv, RouteSinkFails
    PROVE  LaterAreFresh' /\ TreeIsRoute' /\ Progress'
<1>1. /\ Types /\ Progress /\ LaterAreFresh /\ TreeIsRoute
      /\ phase = "sink" /\ phase' = "sink" /\ position' = position /\ position <= Len(NetOrder)
      /\ segments' = segments /\ pending' = pending /\ hard_block' = hard_block
      /\ tree_nodes' = tree_nodes /\ group' = group + 1
      /\ failed' = [failed EXCEPT ![CurrentNet] = TRUE]
  BY DEF NegotiationInv, ContractInv, Scheduled, RouteSinkFails, scheduleVars
<1>2. CurrentNet' = CurrentNet /\ CurrentNet \in Nets
  BY <1>1, CurrentNetTyped DEF CurrentNet
<1>3. /\ failed' \in [Nets -> BOOLEAN] /\ failed'[CurrentNet]
      /\ \A m \in Nets : failed[m] => failed'[m]
  BY <1>1, <1>2 DEF Progress
<1>4. LaterAreFresh' /\ TreeIsRoute'
  BY <1>1, <1>2 DEF LaterAreFresh, TreeIsRoute, Due
<1>5. Progress'
  <2>1. \A m \in Nets : Settled(m) => Settled(m)'
    BY <1>1, <1>3 DEF Settled, Reached
  <2>2. \A i \in 1 .. Len(NetOrder) :
           i < position' \/ ~Due(NetOrder[i])' => Settled(NetOrder[i])'
    BY <1>1, <2>1, NetOrderAssumption DEF Progress, Due
  <2>3. group' \in Nat \ {0}
    BY <1>1 DEF Progress
  <2> QED
    BY <1>1, <1>2, <1>3, <2>2, <2>3 DEF Progress
<1> QED
  BY <1>4, <1>5

LEMMA LeaveContract ==
    ASSUME NegotiationInv, ContractInv, Converge \/ EndLegalization \/ ValidateFinalRouting
    PROVE  LaterAreFresh' /\ TreeIsRoute' /\ Progress'
<1>1. /\ Types /\ Progress /\ phase' \in {"validate", "done"}
      /\ segments' = segments /\ failed' = failed
      /\ phase = "validate" \/ (phase = "net" /\ position > Len(NetOrder))
  BY DEF NegotiationInv, ContractInv, Converge, EndLegalization, ValidateFinalRouting, PassRouted,
         routeVars
<1>2. \A n \in Nets : Settled(n)
  <2> SUFFICES ASSUME NEW n \in Nets, phase = "net", position > Len(NetOrder) PROVE Settled(n)
    BY <1>1 DEF Progress
  <2>1. PICK i \in 1 .. Len(NetOrder) : NetOrder[i] = n
    BY NetOrderAssumption
  <2>2. i < position
    BY <1>1, NetOrderAssumption DEF Types
  <2> QED
    BY <1>1, <2>1, <2>2 DEF Progress
<1>3. \A n \in Nets : Settled(n)'
  BY <1>1, <1>2 DEF Settled, Reached
<1>4. Progress'
  BY <1>1, <1>3 DEF Progress
<1> QED
  BY <1>1, <1>4 DEF LaterAreFresh, TreeIsRoute

\* These leave the claims and the routes alone.
LEMMA BookkeepingContract ==
    ASSUME NegotiationInv, ContractInv,
           \/ SkipNet \/ NothingToRoute \/ PrepareRouteNet \/ RouteSinkFails \/ FinishNet
           \/ Converge \/ EndLegalization \/ ValidateFinalRouting
    PROVE  ContractInv'
<1>1. /\ segments' = segments /\ by_net' = by_net /\ by_resource' = by_resource
      /\ reserved' = reserved /\ (hard_block' => hard_block)
  BY DEF SkipNet, NothingToRoute, PrepareRouteNet, RouteSinkFails, FinishNet, Converge,
         EndLegalization, ValidateFinalRouting, indexVars, routeVars, scheduleVars
<1>2. LaterAreFresh' /\ TreeIsRoute' /\ Progress'
  BY AdvanceContract, PrepareContract, SinkFailsContract, LeaveContract
<1>3. RoutesHang'
  BY <1>1, DroppedHang DEF ContractInv
<1>4. BlockedWiresAvoided'
  BY <1>1 DEF ContractInv, BlockedWiresAvoided, LegalizedConflictsOnlyAtRoots,
              ReservedChannelsRespected, ReservedForOther
<1>5. Returned'
  <2>1. CASE ValidateFinalRouting
    BY <2>1 DEF ValidateFinalRouting, Returned
  <2>2. CASE ~ValidateFinalRouting
    <3>1. phase # "done" /\ outcome' = outcome
      BY <2>2 DEF SkipNet, NothingToRoute, PrepareRouteNet, RouteSinkFails, FinishNet, Converge,
                  EndLegalization, PassRouted
    <3> QED
      BY <3>1 DEF ContractInv, Returned
  <2> QED
    BY <2>1, <2>2
<1> QED
  BY <1>2, <1>3, <1>4, <1>5 DEF ContractInv

LEMMA StutterContract ==
    ASSUME NegotiationInv, ContractInv, UNCHANGED vars
    PROVE  ContractInv'
<1>1. /\ phase' = phase /\ position' = position /\ pending' = pending /\ hard_block' = hard_block
      /\ group' = group /\ tree_nodes' = tree_nodes /\ segments' = segments /\ failed' = failed
      /\ outcome' = outcome /\ by_net' = by_net /\ by_resource' = by_resource
      /\ reserved' = reserved /\ CurrentNet' = CurrentNet
  BY DEF vars, netVars, routeVars, scheduleVars, indexVars, CurrentNet
<1>2. LaterAreFresh' /\ TreeIsRoute' /\ Returned'
  BY <1>1 DEF ContractInv, LaterAreFresh, TreeIsRoute, Returned, Due
<1>3. Progress'
  BY <1>1 DEF ContractInv, Progress, Settled, Reached, Due
<1>4. RoutesHang'
  BY <1>1, DroppedHang DEF ContractInv
<1>5. BlockedWiresAvoided'
  BY <1>1 DEF ContractInv, BlockedWiresAvoided, LegalizedConflictsOnlyAtRoots,
              ReservedChannelsRespected, ReservedForOther
<1> QED
  BY <1>2, <1>3, <1>4, <1>5 DEF ContractInv

\* What the passes have done to the image at every point: nets that were
\* handled reach their sinks or are marked as failed, routes hang on their
\* roots, and a net that is due starts from nothing.
THEOREM ContractInvariant == Spec => [](NegotiationInv /\ ContractInv)
<1>1. NegotiationInv /\ ContractInv /\ [Next]_vars => ContractInv'
  <2> SUFFICES ASSUME NegotiationInv, ContractInv, [Next]_vars PROVE ContractInv'
    OBVIOUS
  <2>1. CASE RipUpPending
    BY <2>1, RipUpContract
  <2>2. CASE CommitRoutedPath
    BY <2>2, CommitContract
  <2>3. CASE Renegotiate
    BY <2>3, RenegotiateContract
  <2>4. CASE \/ SkipNet \/ NothingToRoute \/ PrepareRouteNet \/ RouteSinkFails \/ FinishNet
             \/ Converge \/ EndLegalization \/ ValidateFinalRouting
    BY <2>4, BookkeepingContract
  <2>5. CASE UNCHANGED vars
    BY <2>5, StutterContract
  <2> QED
    BY <2>1, <2>2, <2>3, <2>4, <2>5 DEF Next, Terminated
<1> QED
  BY <1>1, ContractInit, NegotiationInvariant, PTL DEF Spec

\* What a search may not enter is on no route (neighbor_congestion_cost):
\* reserved channels are used by their owners, and the legalizing pass leaves
\* no conflict, but where a search starts.
THEOREM BlockedWiresAvoidedHolds == Spec => []BlockedWiresAvoided
<1>1. ContractInv => BlockedWiresAvoided
  BY DEF ContractInv
<1> QED
  BY <1>1, ContractInvariant, PTL

-----------------------------------------------------------------------------
\* The refinement.

\* Both modules read the same wires and pips off a set of paths.
LEMMA SameImage ==
    ASSUME NEW P
    PROVE  /\ Contract!WiresOf(P) = Wires(P)
           /\ Contract!PipsOf(P) = UNION {PathPips(p) : p \in P}
<1>1. Contract!WiresOf(P) = Wires(P)
  BY DEF Contract!WiresOf, Wires, PathNodes
<1>2. Contract!PipsOf(P) = UNION {PathPips(p) : p \in P}
  BY DEF Contract!PipsOf, PathPips
<1> QED
  BY <1>1, <1>2

LEMMA UncontestedCompatible ==
    ASSUME NegotiationInv, ContractInv, ContestedResources = {},
           NEW n \in Nets, NEW m \in Nets, n # m
    PROVE  Contract!NetsCompatible(n, segments[n], m, segments[m])
<1>1. IndexInv /\ Types /\ ClaimsMatchRoutes
  BY DEF NegotiationInv
<1>2. \A r \in RouteResource : PairwiseLegal(by_resource[r])
  BY <1>1, UncontestedLegal
<1>3. ASSUME NEW x \in Wires(segments[n]), NEW y \in Wires(segments[m]),
             OccupancyKey[x] = OccupancyKey[y]
      PROVE  n \in SyntheticGclk \/ m \in SyntheticGclk
  <2> DEFINE r == NodeResource(x)
  <2>1. x \in Node /\ Holds(n, r) /\ Holds(m, NodeResource(y))
    BY <1>1, RouteClaimed
  <2>2. r \in RouteResource /\ NodeResource(y) = r
    BY <1>3, <2>1, FabricAssumption DEF NodeResource, RouteResource
  <2>3. PICK c \in by_resource[r], d \in by_resource[r] : c.net = n /\ d.net = m
    BY <2>1, <2>2 DEF Holds
  <2> QED
    BY <1>2, <2>2, <2>3 DEF PairwiseLegal, SharesLegally, Synthetic
<1>4. ASSUME NEW a \in UNION {PathPips(p) : p \in segments[n]},
             NEW b \in UNION {PathPips(p) : p \in segments[m]}, a[2] = b[2]
      PROVE  a[1] = b[1] /\ (n \in SyntheticGclk \/ m \in SyntheticGclk)
  <2> DEFINE r == SinkResource(a[2])
  <2>1. PICK c \in by_resource[r] :
          /\ r \in RouteResource /\ c.net = n /\ c.from \in Node
          /\ <<c.from, a[2]>> \in UNION {PathPips(p) : p \in segments[n]}
    BY <1>1, SinkClaimed
  <2>2. PICK d \in by_resource[r] :
          /\ d.net = m /\ d.from \in Node
          /\ <<d.from, b[2]>> \in UNION {PathPips(p) : p \in segments[m]}
    BY <1>1, <1>4, SinkClaimed
  <2>3. a = <<c.from, a[2]>> /\ b = <<d.from, b[2]>>
    BY <2>1, <2>2 DEF ContractInv, RoutesHang, OneDriverPerWire
  <2>4. SharesLegally(c, d)
    BY <1>2, <2>1, <2>2 DEF PairwiseLegal
  <2>5. c.from = d.from /\ (n \in SyntheticGclk \/ m \in SyntheticGclk)
    BY <2>1, <2>2, <2>4, FabricAssumption DEF SharesLegally, Synthetic
  <2> QED
    BY <2>3, <2>5
<1> QED
  BY <1>3, <1>4, SameImage DEF Contract!NetsCompatible

LEMMA ValidatedLegal ==
    ASSUME NegotiationInv, ContractInv, phase = "validate",
           ContestedResources = {}, \A n \in Nets : ~failed[n]
    PROVE  Contract!Legal(segments)
<1>1. \A n, m \in Nets : n # m => Contract!NetsCompatible(n, segments[n], m, segments[m])
  BY UncontestedCompatible
<1>2. \A n \in Nets : Contract!OneDriver(segments[n]) /\ Contract!Rooted(n, segments[n])
  BY SameImage DEF ContractInv, RoutesHang, OneDriverPerWire, Contract!OneDriver
<1>3. \A n \in Routed : Contract!ReachesAllSinks(n, segments[n])
  BY DesignAssumption
  DEF ContractInv, Progress, Settled, Reached, Contract!ReachesAllSinks
<1>4. \A n \in Nets \ Routed : segments[n] = {}
  BY DEF ContractInv, RoutesHang
<1> QED
  BY <1>1, <1>2, <1>3, <1>4 DEF Contract!Legal

\* Routing keeps its contract (route_device_design_internal): as a
\* specification of when and what it delivers it implements LegalRouting, so
\* success means a complete image in which every route is a tree from its
\* roots and nets meet only as the sharing rules allow.
THEOREM RoutingKeepsContract == Spec => Contract!SafeSpec
<1>1. Init => Contract!Init
  BY DEF Init, Contract!Init
<1>2. NegotiationInv /\ ContractInv /\ [Next]_vars => [Contract!Next]_(Contract!vars)
  <2> SUFFICES ASSUME NegotiationInv, ContractInv, [Next]_vars
               PROVE  Contract!Next \/ UNCHANGED Contract!vars
    OBVIOUS
  <2>1. CASE ValidateFinalRouting
    <3>1. /\ phase = "validate" /\ outcome = "running" /\ segments' = segments
          /\ outcome' = IF ContestedResources = {} /\ \A n \in Nets : ~failed[n]
                        THEN "ok" ELSE "error"
      BY <2>1 DEF ValidateFinalRouting, ContractInv, Returned, routeVars
    <3>2. CASE ContestedResources = {} /\ \A n \in Nets : ~failed[n]
      <4>1. Contract!Legal(segments)
        BY <3>1, <3>2, ValidatedLegal
      <4>2. segments \in [Nets -> SUBSET Paths]
        BY DEF NegotiationInv, Types
      <4>3. Contract!Deliver
        BY <3>1, <3>2, <4>1, <4>2 DEF Contract!Deliver
      <4> QED
        BY <4>3 DEF Contract!Next
    <3>3. CASE ~(ContestedResources = {} /\ \A n \in Nets : ~failed[n])
      BY <3>1, <3>3 DEF Contract!Next, Contract!Fail
    <3> QED
      BY <3>2, <3>3
  <2>2. CASE ~ValidateFinalRouting
    <3>1. outcome' = outcome /\ (outcome = "running" \/ segments' = segments)
      <4>1. CASE phase = "done"
        <5>1. UNCHANGED vars
          BY <2>2, <4>1 DEF Next, Terminated, RipUpPending, SkipNet, NothingToRoute,
             PrepareRouteNet, CommitRoutedPath, RouteSinkFails, FinishNet, Converge, Renegotiate,
             EndLegalization, PassRouted
        <5> QED
          BY <5>1 DEF vars, routeVars
      <4>2. CASE phase # "done"
        <5>1. outcome = "running"
          BY <4>2 DEF ContractInv, Returned
        <5>2. outcome' = outcome
          BY <2>2 DEF Next, Terminated, RipUpPending, SkipNet, NothingToRoute, PrepareRouteNet,
             CommitRoutedPath, RouteSinkFails, FinishNet, Converge, Renegotiate, EndLegalization,
             vars
        <5> QED
          BY <5>1, <5>2
      <4> QED
        BY <4>1, <4>2
    <3> QED
      BY <3>1 DEF Contract!vars
  <2> QED
    BY <2>1, <2>2
<1> QED
  BY <1>1, <1>2, ContractInvariant, PTL DEF Spec, Contract!SafeSpec

-----------------------------------------------------------------------------
\* The published paths.

\* A route's own pips lead from a root of n to the component of x.
LeadsTo(n, route, x, pips) ==
    /\ pips \in Seq(LocalArc)
    /\ \A i \in 1 .. Len(pips) : \E p \in route : pips[i] \in PathPips(p)
    /\ \A i \in 2 .. Len(pips) : OccupancyKey[pips[i - 1][2]] = OccupancyKey[pips[i][1]]
    /\ Len(pips) = 0 => SameComponent(x, Roots[n])
    /\ Len(pips) > 0 => /\ SameComponent(pips[1][1], Roots[n])
                        /\ OccupancyKey[pips[Len(pips)][2]] = OccupancyKey[x]

\* The prefixes of the tree lead to its wires, and what is published for a sink
\* to the sink.
PrefixesLead ==
    /\ phase = "sink" =>
          /\ tree_paths \in [tree_nodes -> Seq(LocalArc)]
          /\ \A x \in tree_nodes :
                LeadsTo(CurrentNet, segments[CurrentNet], x, tree_paths[x])
    /\ phase # "sink" => tree_nodes = {} /\ tree_paths = <<>>
    /\ sink_paths \in [Nets -> SUBSET [group : Nat, pips : Seq(LocalArc)]]
    /\ \A n \in Nets : \A s \in sink_paths[n] :
          /\ s.group \in 1 .. Len(SinkGroups[n])
          /\ \E x \in SinkGroups[n][s.group] : LeadsTo(n, segments[n], x, s.pips)

\* Pips stay on a route that grows.
LEMMA LeadsStill ==
    ASSUME NEW n, NEW route, NEW longer, NEW x, NEW pips,
           route \subseteq longer, LeadsTo(n, route, x, pips)
    PROVE  LeadsTo(n, longer, x, pips)
BY DEF LeadsTo

\* One step further, over a stitch or a pip.
LEMMA LeadsOn ==
    ASSUME NEW n, NEW route, NEW x \in Node, NEW y \in Node, NEW pips,
           LeadsTo(n, route, x, pips)
    PROVE  /\ <<x, y>> \in StitchArc => LeadsTo(n, route, y, pips)
           /\ <<x, y>> \in LocalArc /\ (\E p \in route : <<x, y>> \in PathPips(p)) =>
                 LeadsTo(n, route, y, Append(pips, <<x, y>>))
<1>1. ASSUME <<x, y>> \in StitchArc PROVE LeadsTo(n, route, y, pips)
  <2>1. OccupancyKey[x] = OccupancyKey[y]
    <3>1. OccupancyKey[<<x, y>>[1]] = OccupancyKey[<<x, y>>[2]]
      BY <1>1, DesignAssumption
    <3> QED
      BY <3>1
  <2> QED
    BY <2>1 DEF LeadsTo, SameComponent
<1>2. ASSUME <<x, y>> \in LocalArc, \E p \in route : <<x, y>> \in PathPips(p)
      PROVE  LeadsTo(n, route, y, Append(pips, <<x, y>>))
  <2> DEFINE arc == <<x, y>>
             more == Append(pips, arc)
  <2>1. arc[1] = x /\ arc[2] = y /\ arc \in LocalArc /\ \E p \in route : arc \in PathPips(p)
    BY <1>2
  <2> HIDE DEF arc
  <2>2. pips \in Seq(LocalArc) /\ Len(pips) \in Nat
    BY DEF LeadsTo
  <2>3. /\ more \in Seq(LocalArc) /\ Len(more) = Len(pips) + 1
        /\ \A i \in 1 .. Len(pips) : more[i] = pips[i]
        /\ more[Len(pips) + 1] = arc
    BY <2>1, <2>2
  <2> HIDE DEF more
  <2>4. \A i \in 1 .. Len(more) : \E p \in route : more[i] \in PathPips(p)
    <3> SUFFICES ASSUME NEW i \in 1 .. Len(more) PROVE \E p \in route : more[i] \in PathPips(p)
      OBVIOUS
    <3>1. i \in 1 .. Len(pips) \/ i = Len(pips) + 1
      BY <2>2, <2>3
    <3> QED
      BY <2>1, <2>3, <3>1 DEF LeadsTo
  <2>5. ASSUME NEW i \in 2 .. Len(more)
        PROVE  OccupancyKey[more[i - 1][2]] = OccupancyKey[more[i][1]]
    <3>1. CASE i \in 2 .. Len(pips)
      <4>1. more[i] = pips[i] /\ more[i - 1] = pips[i - 1]
        BY <2>2, <2>3, <3>1
      <4> QED
        BY <3>1, <4>1 DEF LeadsTo
    <3>2. CASE i \notin 2 .. Len(pips)
      <4>1. i = Len(pips) + 1 /\ Len(pips) > 0 /\ more[i - 1] = pips[Len(pips)] /\ more[i] = arc
        BY <2>2, <2>3, <3>2
      <4> QED
        BY <2>1, <4>1 DEF LeadsTo
    <3> QED
      BY <3>1, <3>2
  <2>6. SameComponent(more[1][1], Roots[n])
    <3>1. CASE Len(pips) = 0
      BY <2>1, <2>3, <3>1 DEF LeadsTo
    <3>2. CASE Len(pips) > 0
      BY <2>2, <2>3, <3>2 DEF LeadsTo
    <3> QED
      BY <2>2, <3>1, <3>2
  <2>7. OccupancyKey[more[Len(more)][2]] = OccupancyKey[y]
    BY <2>1, <2>3
  <2>8. Len(more) # 0
    BY <2>2, <2>3
  <2>9. LeadsTo(n, route, y, more)
    BY <2>3, <2>4, <2>5, <2>6, <2>7, <2>8 DEF LeadsTo
  <2> QED
    BY <2>9 DEF more, arc
<1> QED
  BY <1>1, <1>2

\* What the recursive function of PipsUpTo computes, hop by hop.
LEMMA PipsHopByHop ==
    ASSUME NEW p \in Paths
    PROVE  /\ PipsUpTo(p, 1) = <<>>
           /\ \A k \in 1 .. Len(p) : PipsUpTo(p, k) \in Seq(LocalArc)
           /\ \A k \in 2 .. Len(p) :
                 PipsUpTo(p, k) = IF <<p[k - 1], p[k]>> \notin LocalArc THEN PipsUpTo(p, k - 1)
                                  ELSE Append(PipsUpTo(p, k - 1), <<p[k - 1], p[k]>>)
<1> DEFINE N == Len(p)
           Step(t, k) == IF <<p[k - 1], p[k]>> \notin LocalArc THEN t
                         ELSE Append(t, <<p[k - 1], p[k]>>)
           S == Seq(LocalArc)
           step == [k \in 2 .. N |-> [t \in S |-> Step(t, k)]]
           F(f) == [i \in 1 .. N |-> IF i = 1 THEN <<>>
                                     ELSE IF <<p[i - 1], p[i]>> \notin LocalArc THEN f[i - 1]
                                     ELSE Append(f[i - 1], <<p[i - 1], p[i]>>)]
           h == CHOOSE f : f = F(f)
<1>1. \A k : PipsUpTo(p, k) = h[k]
  BY DEF PipsUpTo
<1>2. N \in Nat \ {0} /\ 1 \in 1 .. N
  BY PathTyped
<1> HIDE DEF N
<1>3. \A t \in S : \A k \in 2 .. N : Step(t, k) \in S
  OBVIOUS
<1>4. step \in [2 .. N -> [S -> S]]
  <2> HIDE DEF Step, S
  <2> QED
    BY <1>3
<1>5. <<>> \in S
  OBVIOUS
<1> HIDE DEF S
<1>6. PICK f \in [1 .. N -> S] : f[1] = <<>> /\ \A k \in 2 .. N : f[k] = step[k][f[k - 1]]
  <2>1. Stepwise(S, N, <<>>, step)
    BY <1>2, <1>4, <1>5 DEF Stepwise
  <2> HIDE DEF step
  <2>2. PICK f : StepsTo(f, S, N, <<>>, step)
    BY <2>1, StepByStep
  <2> QED
    BY <2>2 DEF StepsTo
<1>7. \A k \in 2 .. N : f[k] = Step(f[k - 1], k)
  <2> SUFFICES ASSUME NEW k \in 2 .. N PROVE f[k] = Step(f[k - 1], k)
    OBVIOUS
  <2>1. f[k - 1] \in S
    BY <1>2, <1>6
  <2> HIDE DEF Step
  <2>2. step[k][f[k - 1]] = Step(f[k - 1], k)
    BY <2>1
  <2> QED
    BY <1>6, <2>2
<1>8. f = F(f)
  <2>1. \A i \in 1 .. N : f[i] = F(f)[i]
    <3> SUFFICES ASSUME NEW i \in 1 .. N PROVE f[i] = IF i = 1 THEN <<>> ELSE Step(f[i - 1], i)
      OBVIOUS
    <3>1. i = 1 \/ i \in 2 .. N
      BY <1>2
    <3> HIDE DEF Step
    <3> QED
      BY <1>6, <1>7, <3>1
  <2>2. f = [i \in 1 .. N |-> f[i]] /\ F(f) = [i \in 1 .. N |-> F(f)[i]]
    BY <1>6
  <2> HIDE DEF F
  <2> QED
    BY <2>1, <2>2
<1>9. h = F(h)
  BY <1>8
<1>10. h[1] = <<>> /\ \A k \in 2 .. N : h[k] = Step(h[k - 1], k)
  <2>1. \A i \in 1 .. N : F(h)[i] = IF i = 1 THEN <<>> ELSE Step(h[i - 1], i)
    OBVIOUS
  <2> HIDE DEF h, F, Step
  <2>2. \A i \in 1 .. N : h[i] = IF i = 1 THEN <<>> ELSE Step(h[i - 1], i)
    BY <1>9, <2>1
  <2>3. \A k \in 2 .. N : k \in 1 .. N /\ k # 1
    BY <1>2
  <2> QED
    BY <1>2, <2>2, <2>3
<1> HIDE DEF h, F
<1>11. \A k \in 1 .. N : h[k] \in S
  <2> DEFINE Bad == {k \in 1 .. N : h[k] \notin S}
  <2> SUFFICES ASSUME Bad # {} PROVE FALSE
    OBVIOUS
  <2>1. 1 .. N \in SUBSET Nat
    BY <1>2
  <2>2. PICK k \in Bad : \A j \in Bad : k <= j
    BY <2>1, LeastNatural
  <2>3. k \in 1 .. N /\ h[k] \notin S
    OBVIOUS
  <2>4. k # 1
    BY <1>5, <1>10, <2>3
  <2>5. k \in 2 .. N /\ k - 1 \in 1 .. N /\ ~(k <= k - 1)
    BY <1>2, <2>3, <2>4
  <2>6. h[k - 1] \in S
    BY <2>2, <2>5
  <2> HIDE DEF Step
  <2> QED
    BY <1>3, <1>10, <2>3, <2>5, <2>6
<1> QED
  BY <1>1, <1>10, <1>11 DEF N, S

\* What leads to the wire where a path leaves the tree leads, with the pips of
\* the path, to every wire of the path.
LEMMA PathLeads ==
    ASSUME NEW n, NEW route, NEW p \in Paths, p \in route,
           \A i \in 2 .. Len(p) : <<p[i - 1], p[i]>> \in LocalArc \cup StitchArc,
           NEW prefix, LeadsTo(n, route, p[1], prefix)
    PROVE  \A k \in 1 .. Len(p) : LeadsTo(n, route, p[k], prefix \o PipsUpTo(p, k))
<1> DEFINE Leads(k) == LeadsTo(n, route, p[k], prefix \o PipsUpTo(p, k))
           Bad == {k \in 1 .. Len(p) : ~Leads(k)}
<1> HIDE DEF Leads
<1>1. Len(p) \in Nat \ {0} /\ 1 .. Len(p) \in SUBSET Nat /\ prefix \in Seq(LocalArc)
  BY PathTyped DEF LeadsTo
<1>2. ASSUME Bad # {} PROVE FALSE
  <2>1. PICK k \in Bad : \A j \in Bad : k <= j
    BY <1>1, <1>2, LeastNatural
  <2>2. k \in 1 .. Len(p) /\ ~Leads(k)
    OBVIOUS
  <2>3. k # 1
    <3>1. prefix \o PipsUpTo(p, 1) = prefix
      BY <1>1, PipsHopByHop
    <3> QED
      BY <2>2, <3>1 DEF Leads
  <2>4. k \in 2 .. Len(p) /\ k - 1 \in 1 .. Len(p) /\ ~(k <= k - 1)
    BY <1>1, <2>2, <2>3
  <2>5. Leads(k - 1) /\ p[k - 1] \in Node /\ p[k] \in Node
    BY <2>1, <2>4, PathTyped
  <2> DEFINE t == PipsUpTo(p, k - 1)
             arc == <<p[k - 1], p[k]>>
  <2>6. t \in Seq(LocalArc) /\ PipsUpTo(p, k) = IF arc \notin LocalArc THEN t ELSE Append(t, arc)
    BY <2>4, PipsHopByHop
  <2>7. LeadsTo(n, route, p[k - 1], prefix \o t)
    BY <2>5 DEF Leads
  <2>8. CASE arc \notin LocalArc
    <3>1. arc \in StitchArc
      BY <2>4, <2>8
    <3>2. LeadsTo(n, route, p[k], prefix \o t)
      BY <2>5, <2>7, <3>1, LeadsOn
    <3> QED
      BY <2>2, <2>6, <2>8, <3>2 DEF Leads
  <2>9. CASE arc \in LocalArc
    <3>1. arc \in PathPips(p)
      BY <2>4, <2>9 DEF PathPips
    <3>2. LeadsTo(n, route, p[k], Append(prefix \o t, arc))
      BY <2>5, <2>7, <2>9, <3>1, LeadsOn
    <3> HIDE DEF t, arc
    <3>3. prefix \o Append(t, arc) = Append(prefix \o t, arc)
      BY <1>1, <2>6, <2>9, ConcatAssociative, AppendIsConcat
    <3> QED
      BY <2>2, <2>6, <2>9, <3>2, <3>3 DEF Leads
  <2> QED
    BY <2>8, <2>9
<1> QED
  BY <1>2 DEF Leads

LEMMA CommitPrefixes ==
    ASSUME NegotiationInv, ContractInv, PrefixesLead, CommitRoutedPath
    PROVE  PrefixesLead'
<1> DEFINE n == CurrentNet
<1>1. PICK p \in RoutablePaths(n, Goals) :
          /\ segments' = [segments EXCEPT ![n] = @ \cup {p}]
          /\ sink_paths' = [sink_paths EXCEPT
               ![n] = @ \cup {[group |-> group, pips |-> FullPath(p, Len(p))]}]
          /\ tree_nodes' = tree_nodes \cup PathNodes(p)
          /\ tree_paths' = [x \in tree_nodes \cup PathNodes(p) |->
               IF x \in tree_nodes THEN tree_paths[x]
               ELSE FullPath(p, CHOOSE k \in 2 .. Len(p) : p[k] = x)]
  BY DEF CommitRoutedPath
<1>2. /\ Types /\ n \in Nets /\ phase = "sink" /\ phase' = "sink" /\ n' = n
      /\ group \in 1 .. Len(SinkGroups[n]) /\ Goals = SinkGroups[n][group]
  <2>1. /\ Types /\ position <= Len(NetOrder) /\ phase = "sink" /\ phase' = "sink"
        /\ position' = position /\ group <= Len(SinkGroups[n]) /\ group \in Nat \ {0}
    BY DEF NegotiationInv, Scheduled, CommitRoutedPath, ContractInv, Progress
  <2>2. n \in Nets
    BY <2>1, CurrentNetTyped
  <2>3. Len(SinkGroups[n]) \in Nat
    BY <2>2, DesignAssumption
  <2> QED
    BY <2>1, <2>2, <2>3 DEF CurrentNet, Goals
<1>3. /\ p \in Paths /\ p[1] \in tree_nodes /\ p[Len(p)] \in Goals
      /\ \A i \in 2 .. Len(p) : <<p[i - 1], p[i]>> \in LocalArc \cup StitchArc
  BY <1>1, PathJoinsOnce DEF RoutablePaths, Expands
<1>4. /\ tree_paths \in [tree_nodes -> Seq(LocalArc)]
      /\ \A x \in tree_nodes : LeadsTo(n, segments[n], x, tree_paths[x])
      /\ sink_paths \in [Nets -> SUBSET [group : Nat, pips : Seq(LocalArc)]]
      /\ \A m \in Nets : \A s \in sink_paths[m] :
            /\ s.group \in 1 .. Len(SinkGroups[m])
            /\ \E x \in SinkGroups[m][s.group] : LeadsTo(m, segments[m], x, s.pips)
  BY <1>2 DEF PrefixesLead
<1> HIDE DEF n
<1> DEFINE route == segments'[n]
           full(k) == tree_paths[p[1]] \o PipsUpTo(p, k)
<1>5. /\ route = segments[n] \cup {p}
      /\ \A m \in Nets : segments[m] \subseteq segments'[m]
  BY <1>1, <1>2 DEF Types
<1> HIDE DEF route
<1>6. \A k \in 1 .. Len(p) : LeadsTo(n, route, p[k], full(k)) /\ full(k) \in Seq(LocalArc)
  <2>1. LeadsTo(n, route, p[1], tree_paths[p[1]])
    BY <1>3, <1>4, <1>5, LeadsStill
  <2>2. \A k \in 1 .. Len(p) : LeadsTo(n, route, p[k], full(k))
    <3> DEFINE prefix == tree_paths[p[1]]
    <3>1. LeadsTo(n, route, p[1], prefix)
      BY <2>1
    <3> HIDE DEF prefix
    <3>2. \A k \in 1 .. Len(p) : LeadsTo(n, route, p[k], prefix \o PipsUpTo(p, k))
      BY <1>3, <1>5, <3>1, PathLeads
    <3> QED
      BY <3>2 DEF prefix
  <2> QED
    BY <2>2 DEF LeadsTo
<1>7. \A k : FullPath(p, k) = full(k)
  BY DEF FullPath
<1> HIDE DEF full
<1>8. ASSUME NEW x \in tree_nodes'
      PROVE  tree_paths'[x] \in Seq(LocalArc) /\ LeadsTo(n, route, x, tree_paths'[x])
  <2>1. CASE x \in tree_nodes
    <3>1. tree_paths'[x] = tree_paths[x]
      BY <1>1, <1>8, <2>1
    <3>2. LeadsTo(n, route, x, tree_paths[x])
      BY <1>4, <1>5, <2>1, LeadsStill
    <3> QED
      BY <1>4, <2>1, <3>1, <3>2
  <2>2. CASE x \notin tree_nodes
    <3> DEFINE k == CHOOSE i \in 2 .. Len(p) : p[i] = x
    <3>1. tree_paths'[x] = FullPath(p, k)
      BY <1>1, <1>8, <2>2
    <3>2. \E i \in 2 .. Len(p) : p[i] = x
      <4>1. PICK i \in 1 .. Len(p) : p[i] = x
        BY <1>1, <1>8, <2>2 DEF PathNodes
      <4>2. i # 1
        BY <1>3, <2>2, <4>1
      <4>3. i \in 2 .. Len(p)
        BY <1>3, <4>2, PathTyped
      <4> QED
        BY <4>1, <4>3
    <3>3. k \in 2 .. Len(p) /\ p[k] = x
      BY <3>2
    <3> HIDE DEF k
    <3>4. k \in 1 .. Len(p)
      BY <1>3, <3>3, PathTyped
    <3> QED
      BY <1>6, <1>7, <3>1, <3>3, <3>4
  <2> QED
    BY <2>1, <2>2
<1>9. tree_paths' \in [tree_nodes' -> Seq(LocalArc)]
  <2>1. tree_paths' = [x \in tree_nodes' |-> tree_paths'[x]]
    BY <1>1
  <2> QED
    BY <1>8, <2>1
<1> DEFINE found == [group |-> group, pips |-> full(Len(p))]
<1>10. Len(p) \in 1 .. Len(p)
  BY <1>3, PathTyped
<1>11. /\ sink_paths'[n] = sink_paths[n] \cup {found}
       /\ \A m \in Nets : m # n => sink_paths'[m] = sink_paths[m]
       /\ found \in [group : Nat, pips : Seq(LocalArc)]
       /\ found.group = group /\ found.pips = full(Len(p))
  <2>1. group \in Nat /\ full(Len(p)) \in Seq(LocalArc)
    BY <1>2, <1>6, <1>10
  <2> QED
    BY <1>1, <1>2, <1>4, <1>7, <2>1
<1> HIDE DEF found
<1>12. sink_paths' \in [Nets -> SUBSET [group : Nat, pips : Seq(LocalArc)]]
  <2> DEFINE R == [group : Nat, pips : Seq(LocalArc)]
  <2>1. sink_paths \in [Nets -> SUBSET R] /\ found \in R
    BY <1>4, <1>11
  <2>2. sink_paths' = [sink_paths EXCEPT ![n] = @ \cup {found}]
    BY <1>1, <1>7 DEF found
  <2> HIDE DEF R
  <2>3. sink_paths' \in [Nets -> SUBSET R]
    BY <1>2, <2>1, <2>2
  <2> QED
    BY <2>3 DEF R
<1>13. ASSUME NEW m \in Nets, NEW s \in sink_paths'[m]
       PROVE  /\ s.group \in 1 .. Len(SinkGroups[m])
              /\ \E x \in SinkGroups[m][s.group] : LeadsTo(m, segments'[m], x, s.pips)
  <2>1. CASE s \in sink_paths[m]
    <3>1. PICK x \in SinkGroups[m][s.group] : LeadsTo(m, segments[m], x, s.pips)
      BY <1>4, <2>1
    <3>2. LeadsTo(m, segments'[m], x, s.pips)
      BY <1>5, <3>1, LeadsStill
    <3> QED
      BY <1>4, <2>1, <3>2
  <2>2. CASE s \notin sink_paths[m]
    <3>1. m = n /\ s = found
      BY <1>11, <1>13, <2>2
    <3>2. LeadsTo(n, route, p[Len(p)], s.pips)
      BY <1>6, <1>10, <1>11, <3>1
    <3> QED
      BY <1>2, <1>3, <1>11, <3>1, <3>2 DEF route
  <2> QED
    BY <2>1, <2>2
<1> QED
  BY <1>2, <1>8, <1>9, <1>12, <1>13 DEF PrefixesLead, route, n

LEMMA PrefixesKept ==
    ASSUME NegotiationInv, ContractInv, PrefixesLead, [Next]_vars, ~CommitRoutedPath
    PROVE  PrefixesLead'
<1>1. ASSUME phase' # "sink" => tree_nodes' = {} /\ tree_paths' = <<>>,
             phase' = "sink" =>
                /\ tree_paths' \in [tree_nodes' -> Seq(LocalArc)]
                /\ \A x \in tree_nodes' :
                      LeadsTo(CurrentNet', segments'[CurrentNet'], x, tree_paths'[x]),
             sink_paths' \in [Nets -> SUBSET [group : Nat, pips : Seq(LocalArc)]],
             \A n \in Nets : \/ sink_paths'[n] = {}
                             \/ sink_paths'[n] = sink_paths[n] /\ segments'[n] = segments[n]
      PROVE  PrefixesLead'
  <2> SUFFICES ASSUME NEW n \in Nets, NEW s \in sink_paths'[n]
               PROVE  /\ s.group \in 1 .. Len(SinkGroups[n])
                      /\ \E x \in SinkGroups[n][s.group] : LeadsTo(n, segments'[n], x, s.pips)
    BY <1>1 DEF PrefixesLead
  <2>1. sink_paths'[n] = sink_paths[n] /\ segments'[n] = segments[n]
    BY <1>1
  <2> QED
    BY <2>1 DEF PrefixesLead
<1>2. sink_paths \in [Nets -> SUBSET [group : Nat, pips : Seq(LocalArc)]]
  BY DEF PrefixesLead
<1>3. CASE RipUpPending
  <2>1. /\ sink_paths' = [n \in Nets |-> IF n \in pending THEN {} ELSE sink_paths[n]]
        /\ segments' = [n \in Nets |-> IF n \in pending THEN {} ELSE segments[n]]
        /\ phase' = "net" /\ phase = "ripup"
        /\ tree_nodes' = tree_nodes /\ tree_paths' = tree_paths
    BY <1>3 DEF RipUpPending, netVars, NoRoute
  <2>2. sink_paths' \in [Nets -> SUBSET [group : Nat, pips : Seq(LocalArc)]]
    BY <1>2, <2>1
  <2>3. \A n \in Nets : \/ sink_paths'[n] = {}
                        \/ sink_paths'[n] = sink_paths[n] /\ segments'[n] = segments[n]
    BY <2>1
  <2> QED
    BY <1>1, <2>1, <2>2, <2>3 DEF PrefixesLead
<1>4. CASE Renegotiate
  <2>1. /\ phase = "net" /\ phase' # "sink"
        /\ tree_nodes' = tree_nodes /\ tree_paths' = tree_paths
        /\ \/ sink_paths' = sink_paths /\ segments' = segments
           \/ sink_paths' = [n \in Nets |-> {}]
    BY <1>4 DEF Renegotiate, PassRouted, netVars, routeVars
  <2>2. sink_paths' \in [Nets -> SUBSET [group : Nat, pips : Seq(LocalArc)]]
    BY <1>2, <2>1
  <2>3. \A n \in Nets : \/ sink_paths'[n] = {}
                        \/ sink_paths'[n] = sink_paths[n] /\ segments'[n] = segments[n]
    BY <2>1
  <2> QED
    BY <1>1, <2>1, <2>2, <2>3 DEF PrefixesLead
<1>5. CASE PrepareRouteNet
  <2>1. /\ phase' = "sink" /\ tree_nodes' = Roots[CurrentNet] /\ CurrentNet' = CurrentNet
        /\ tree_paths' = [x \in Roots[CurrentNet] |-> <<>>]
        /\ sink_paths' = sink_paths /\ segments' = segments
    BY <1>5 DEF PrepareRouteNet, routeVars, CurrentNet
  <2>2. <<>> \in Seq(LocalArc)
    OBVIOUS
  <2>3. tree_paths' \in [tree_nodes' -> Seq(LocalArc)]
    BY <2>1, <2>2
  <2>4. ASSUME NEW x \in Roots[CurrentNet], NEW route
        PROVE  LeadsTo(CurrentNet, route, x, <<>>)
    <3>1. SameComponent(x, Roots[CurrentNet])
      BY <2>4 DEF SameComponent
    <3>2. Len(<<>>) = 0 /\ 1 .. 0 = {} /\ 2 .. 0 = {}
      OBVIOUS
    <3> QED
      BY <2>2, <3>1, <3>2 DEF LeadsTo
  <2>5. \A x \in tree_nodes' :
           LeadsTo(CurrentNet', segments'[CurrentNet'], x, tree_paths'[x])
    BY <2>1, <2>4
  <2> QED
    BY <1>1, <1>2, <2>1, <2>3, <2>5
<1>6. CASE FinishNet
  <2>1. /\ phase' = "net" /\ tree_nodes' = {} /\ tree_paths' = <<>>
        /\ sink_paths' = sink_paths /\ segments' = segments
    BY <1>6 DEF FinishNet, routeVars
  <2> QED
    BY <1>1, <1>2, <2>1
<1>7. CASE RouteSinkFails \/ UNCHANGED vars
  <2>1. /\ phase' = phase /\ tree_nodes' = tree_nodes /\ tree_paths' = tree_paths
        /\ CurrentNet' = CurrentNet /\ sink_paths' = sink_paths /\ segments' = segments
    BY <1>7 DEF RouteSinkFails, vars, netVars, routeVars, CurrentNet
  <2> QED
    BY <1>1, <1>2, <2>1 DEF PrefixesLead
<1>8. CASE SkipNet \/ NothingToRoute \/ Converge \/ EndLegalization \/ ValidateFinalRouting
  <2>1. /\ phase # "sink" /\ phase' # "sink"
        /\ tree_nodes' = tree_nodes /\ tree_paths' = tree_paths
        /\ sink_paths' = sink_paths /\ segments' = segments
    BY <1>8 DEF SkipNet, NothingToRoute, Converge, EndLegalization, ValidateFinalRouting,
                PassRouted, netVars, routeVars
  <2> QED
    BY <1>1, <1>2, <2>1 DEF PrefixesLead
<1> QED
  BY <1>3, <1>4, <1>5, <1>6, <1>7, <1>8 DEF Next, Terminated

\* The prefixes update_tree_state records and the paths commit_routed_path
\* publishes lead from the roots to where they are said to lead.
THEOREM PrefixesInvariant == Spec => [](NegotiationInv /\ ContractInv /\ PrefixesLead)
<1>1. Init => PrefixesLead
  <2> SUFFICES ASSUME Init PROVE PrefixesLead
    OBVIOUS
  <2>1. phase = "ripup" /\ tree_nodes = {} /\ tree_paths = <<>>
        /\ sink_paths = [n \in Nets |-> {}]
    BY DEF Init
  <2> QED
    BY <2>1 DEF PrefixesLead
<1>2. NegotiationInv /\ ContractInv /\ PrefixesLead /\ [Next]_vars => PrefixesLead'
  BY CommitPrefixes, PrefixesKept
<1> QED
  BY <1>1, <1>2, ContractInvariant, PTL DEF Spec

\* The routes of a net make a tree although they are found one by one, and what
\* is published for each sink is an unbroken chain of the tree's own pips from a
\* root to the sink.
THEOREM RoutesAreTreesHolds == Spec => []RoutesAreTrees
<1>1. ContractInv /\ PrefixesLead => RoutesAreTrees
  <2> SUFFICES ASSUME ContractInv, PrefixesLead, NEW n \in Nets, NEW s \in sink_paths[n]
               PROVE  /\ UnbrokenPath(n, SinkGroups[n][s.group], s.pips)
                      /\ \A i \in DOMAIN s.pips :
                            \E p \in segments[n] : s.pips[i] \in PathPips(p)
    BY DEF ContractInv, RoutesHang, RoutesAreTrees
  <2>1. PICK x \in SinkGroups[n][s.group] : LeadsTo(n, segments[n], x, s.pips)
    BY DEF PrefixesLead
  <2> DEFINE pips == s.pips
             goals == SinkGroups[n][s.group]
  <2>2. LeadsTo(n, segments[n], x, pips) /\ x \in goals
    BY <2>1
  <2> HIDE DEF pips, goals
  <2>3. pips \in Seq(LocalArc) /\ DOMAIN pips = 1 .. Len(pips) /\ Len(pips) \in Nat
    BY <2>2 DEF LeadsTo
  <2>4. UnbrokenPath(n, goals, pips)
    <3>1. CASE pips = <<>>
      BY <2>2, <3>1 DEF LeadsTo, UnbrokenPath, SameComponent
    <3>2. CASE pips # <<>>
      <4>1. Len(pips) > 0
        BY <2>3, <3>2
      <4> QED
        BY <2>2, <3>2, <4>1 DEF LeadsTo, UnbrokenPath, SameComponent
    <3> QED
      BY <3>1, <3>2
  <2> QED
    BY <2>2, <2>3, <2>4 DEF LeadsTo, pips, goals
<1> QED
  BY <1>1, PrefixesInvariant, PTL

-----------------------------------------------------------------------------
\* What failed, and the ranges of the bookkeeping.

Bounds ==
    /\ pass \in 1 .. MaxPasses
    /\ position <= Len(NetOrder) + 1
    /\ group \in Nat
    /\ history \in [RouteResource -> Nat]
    /\ present_factor \in Nat
    /\ converged \in BOOLEAN
    /\ outcome \in {"running", "ok", "error"}

\* A net that failed in negotiation lacks a path even on an empty device.
FailedForGood ==
    /\ NegotiationFailuresAreStructural
    /\ converged => phase \in {"validate", "done"}

LEMMA BoundsKept ==
    ASSUME NegotiationInv, Bounds, [Next]_vars
    PROVE  Bounds'
<1>1. /\ MaxPasses \in Nat /\ Len(NetOrder) \in Nat /\ position \in Nat
      /\ FactorCap \in Nat /\ HISTORY_INCREMENT = 1 /\ PRESENT_FACTOR_GROWTH = 2
  BY ScheduleAssumption, NetOrderAssumption
  DEF NegotiationInv, Types, HISTORY_INCREMENT, PRESENT_FACTOR_GROWTH
<1>2. CASE Renegotiate
  <2>1. pass' \in 1 .. MaxPasses /\ position' = 1
    BY <1>1, <1>2 DEF Renegotiate, Bounds
  <2>2. history' \in [RouteResource -> Nat]
    BY <1>1, <1>2 DEF Renegotiate, Bounds
  <2>3. present_factor' \in Nat
    BY <1>1, <1>2 DEF Renegotiate, Bounds
  <2> QED
    BY <1>1, <1>2, <2>1, <2>2, <2>3 DEF Renegotiate, Bounds, netVars
<1>3. CASE RipUpPending \/ PrepareRouteNet \/ CommitRoutedPath \/ RouteSinkFails \/ UNCHANGED vars
  BY <1>1, <1>3 DEF RipUpPending, PrepareRouteNet, CommitRoutedPath, RouteSinkFails, vars, netVars,
                    scheduleVars, Bounds
<1>4. CASE SkipNet \/ NothingToRoute \/ FinishNet
  BY <1>1, <1>4 DEF SkipNet, NothingToRoute, FinishNet, netVars, scheduleVars, Bounds,
                    NegotiationInv, Scheduled
<1>5. CASE Converge \/ EndLegalization \/ ValidateFinalRouting
  BY <1>1, <1>5 DEF Converge, EndLegalization, ValidateFinalRouting, netVars, scheduleVars, Bounds
<1> QED
  BY <1>2, <1>3, <1>4, <1>5 DEF Next, Terminated

\* While claims do not block, a search that finds nothing had nothing to find:
\* of a path to a goal, the part from its last wire on the tree to its first
\* goal is one the search may take, and the part before leads the search to it.
LEMMA FailureIsStructural ==
    ASSUME NegotiationInv, TreeIsRoute, phase = "sink", ~hard_block,
           RoutablePaths(CurrentNet, Goals) = {}
    PROVE  ~UncongestedPath(CurrentNet, Goals)
<1> DEFINE n == CurrentNet
           goals == Goals
<1>1. Roots[n] \subseteq tree_nodes /\ Roots[n] \subseteq TreeStarts(n)
  BY DEF TreeIsRoute, TreeStarts
<1> HIDE DEF n, goals
<1> SUFFICES ASSUME UncongestedPath(n, goals), RoutablePaths(n, goals) = {} PROVE FALSE
  BY DEF n, goals
<1>2. PICK p \in Paths :
        /\ p[1] \in tree_nodes /\ p[1] \in TreeStarts(n) /\ p[Len(p)] \in goals
        /\ \A i \in 2 .. Len(p) : Expands(n, goals, p[i - 1], p[i])
  BY <1>1 DEF UncongestedPath, Expands, AllowClockNeighbor, StrictClockSink, Enterable
<1>3. Len(p) \in Nat \ {0} /\ \A i \in 1 .. Len(p) : p[i] \in Node
  BY PathTyped
<1> DEFINE J == {i \in 1 .. Len(p) : p[i] \in goals}
<1>4. PICK j \in J : \A i \in J : j <= i
  <2>1. J \in SUBSET Nat /\ Len(p) \in J
    BY <1>2, <1>3
  <2> QED
    BY <2>1, LeastNatural
<1>5. j \in 1 .. Len(p) /\ p[j] \in goals /\ \A i \in 1 .. Len(p) : p[i] \in goals => j <= i
  BY <1>4
<1> DEFINE K == {d \in 0 .. j - 1 : p[j - d] \in tree_nodes}
<1>6. PICK d \in K : \A c \in K : d <= c
  <2>1. j - (j - 1) = 1 /\ j - 1 \in 0 .. j - 1 /\ 0 .. j - 1 \in SUBSET Nat
    BY <1>3, <1>5
  <2>2. K \in SUBSET Nat /\ j - 1 \in K
    BY <1>2, <2>1
  <2> QED
    BY <2>2, LeastNatural
<1> DEFINE k == j - d
           q == SubSeq(p, k, j)
<1>7. k \in 1 .. Len(p) /\ k <= j /\ k \in Int /\ j \in Int /\ p[k] \in tree_nodes
  BY <1>3, <1>5, <1>6
<1>8. \A i \in 1 .. Len(p) : k < i /\ i <= j => p[i] \notin tree_nodes
  <2> SUFFICES ASSUME NEW i \in 1 .. Len(p), k < i, i <= j, p[i] \in tree_nodes PROVE FALSE
    OBVIOUS
  <2>1. j - i \in 0 .. j - 1 /\ j - (j - i) = i /\ ~(d <= j - i)
    BY <1>3, <1>5, <1>6
  <2>2. j - i \in K
    BY <2>1
  <2> QED
    BY <1>6, <2>1, <2>2
<1> HIDE DEF k, J, K
<1>9. q \in Paths
  BY <1>5, <1>7, SearchAssumption
<1>10. /\ Len(q) = j - k + 1
       /\ \A i \in 1 .. j - k + 1 : q[i] = p[k + i - 1]
  <2>1. \A i \in k .. j : p[i] \in Node
    BY <1>3, <1>5, <1>7
  <2> QED
    BY <1>7, <2>1, SubSeqProperties
<1> HIDE DEF q
<1>11. q[1] \in tree_nodes
  <2>1. 1 \in 1 .. j - k + 1 /\ k + 1 - 1 = k
    BY <1>7
  <2> QED
    BY <1>7, <1>10, <2>1
<1>12. ASSUME NEW i \in 2 .. Len(q)
       PROVE  Expands(n, goals, q[i - 1], q[i]) /\ q[i] \notin tree_nodes
  <2> DEFINE e == k + i - 1
  <2>1. /\ e \in 2 .. Len(p) /\ e \in 1 .. Len(p) /\ k < e /\ e <= j
        /\ i \in 1 .. j - k + 1 /\ i - 1 \in 1 .. j - k + 1 /\ k + (i - 1) - 1 = e - 1
    BY <1>3, <1>5, <1>7, <1>10
  <2>2. q[i] = p[e] /\ q[i - 1] = p[e - 1]
    BY <1>10, <2>1
  <2> HIDE DEF e
  <2> QED
    BY <1>2, <1>8, <2>1, <2>2
<1>13. ASSUME NEW i \in 1 .. Len(q) PROVE q[i] \in goals <=> i = Len(q)
  <2>1. /\ k + i - 1 \in 1 .. Len(p) /\ k + i - 1 <= j /\ i \in 1 .. j - k + 1
        /\ (k + i - 1 = j) = (i = j - k + 1)
    BY <1>3, <1>5, <1>7, <1>10
  <2>2. q[i] = p[k + i - 1]
    BY <1>10, <2>1
  <2>3. CASE k + i - 1 = j
    BY <1>5, <1>10, <2>1, <2>2, <2>3
  <2>4. CASE k + i - 1 # j
    <3>1. ~(j <= k + i - 1)
      BY <1>3, <1>5, <1>7, <2>1, <2>4
    <3>2. q[i] \notin goals
      BY <1>5, <2>1, <2>2, <3>1
    <3> QED
      BY <1>10, <2>1, <2>4, <3>2
  <2> QED
    BY <2>3, <2>4
<1>14. SearchReaches(n, goals, q[1])
  <2> DEFINE r == SubSeq(p, 1, k)
  <2>1. 1 \in 1 .. Len(p) /\ 1 <= k /\ 1 \in Int /\ k - 1 + 1 = k /\ k <= Len(p)
    BY <1>3, <1>7
  <2>2. r \in Paths
    BY <1>7, <2>1, SearchAssumption
  <2>3. /\ Len(r) = k
        /\ \A i \in 1 .. k : r[i] = p[i]
    <3>1. \A i \in 1 .. k : p[i] \in Node /\ 1 + i - 1 = i
      BY <1>3, <1>7
    <3> QED
      BY <1>7, <2>1, <3>1, SubSeqProperties
  <2> HIDE DEF r
  <2>4. r[Len(r)] = q[1] /\ r[1] \in TreeStarts(n)
    <3>1. 1 \in 1 .. j - k + 1 /\ k + 1 - 1 = k /\ 1 \in 1 .. k /\ k \in 1 .. k
      BY <1>7
    <3> QED
      BY <1>2, <1>10, <2>3, <3>1
  <2>5. ASSUME NEW i \in 2 .. Len(r)
        PROVE  r[i - 1] \notin goals /\ Expands(n, goals, r[i - 1], r[i])
    <3>1. /\ i \in 2 .. Len(p) /\ i \in 1 .. k /\ i - 1 \in 1 .. k /\ i - 1 \in 1 .. Len(p)
          /\ ~(j <= i - 1)
      BY <1>3, <1>5, <1>7, <2>3
    <3> QED
      BY <1>2, <1>5, <2>3, <3>1
  <2> QED
    BY <2>2, <2>4, <2>5 DEF SearchReaches
<1>15. q \in RoutablePaths(n, goals)
  BY <1>9, <1>11, <1>12, <1>13, <1>14 DEF RoutablePaths
<1> QED
  BY <1>15

LEMMA FailedForGoodKept ==
    ASSUME NegotiationInv, ContractInv, Bounds, FailedForGood, [Next]_vars
    PROVE  FailedForGood'
<1> DEFINE Lacks(n) == \/ Roots[n] = {}
                       \/ \E g \in 1 .. Len(SinkGroups[n]) : ~UncongestedPath(n, SinkGroups[n][g])
           Kept == (phase \in {"ripup", "net", "sink"} /\ ~hard_block) \/ converged
<1>0. failed \in [Nets -> BOOLEAN] /\ Routed \subseteq Nets /\ Types
  BY DesignAssumption DEF ContractInv, Progress, NegotiationInv
<1>1. reserved' = reserved
  BY DEF Next, Terminated, vars, indexVars, RipUpPending, RipUp, SkipNet, NothingToRoute,
         PrepareRouteNet, CommitRoutedPath, ReserveRoutePath, RouteSinkFails, FinishNet, Converge,
         Renegotiate, Clear, EndLegalization, ValidateFinalRouting
<1>2. \A n : Lacks(n)' <=> Lacks(n)
  BY <1>1 DEF UncongestedPath, ReservedForOther
<1>3. Kept => \A n \in Routed : failed[n] => Lacks(n)
  BY DEF FailedForGood, NegotiationFailuresAreStructural
<1> HIDE DEF Lacks
<1>4. ASSUME converged' => phase' \in {"validate", "done"},
             \A n \in Routed : Kept' /\ failed'[n] => Lacks(n) \/ (Kept /\ failed[n])
      PROVE  FailedForGood'
  <2>1. \A n \in Routed : Kept' /\ failed'[n] => Lacks(n)
    BY <1>3, <1>4
  <2>2. \A n \in Routed : Kept' /\ failed'[n] => Lacks(n)'
    BY <1>2, <2>1
  <2> QED
    BY <1>4, <2>2 DEF FailedForGood, NegotiationFailuresAreStructural, Lacks
<1>5. converged' => phase' \in {"validate", "done"}
  BY DEF FailedForGood, Next, Terminated, vars, scheduleVars, RipUpPending, SkipNet,
         NothingToRoute, PrepareRouteNet, CommitRoutedPath, RouteSinkFails, FinishNet, Converge,
         Renegotiate, PassRouted, EndLegalization, ValidateFinalRouting
<1>6. CASE RipUpPending
  BY <1>0, <1>4, <1>5, <1>6 DEF RipUpPending, scheduleVars, NegotiationInv, Scheduled
<1>7. CASE NothingToRoute
  <2>1. /\ phase = "net" /\ phase' = phase /\ hard_block' = hard_block /\ converged' = converged
        /\ failed' = [failed EXCEPT ![CurrentNet] = CurrentNet \in Routed]
        /\ CurrentNet \notin Routed \/ Roots[CurrentNet] = {}
    BY <1>7 DEF NothingToRoute, scheduleVars
  <2>2. \A n \in Routed : n # CurrentNet => failed'[n] = failed[n]
    BY <1>0, <2>1, Zenon
  <2>3. \A n \in Routed : n = CurrentNet => Lacks(n)
    BY <2>1 DEF Lacks
  <2> QED
    BY <1>4, <1>5, <2>1, <2>2, <2>3
<1>8. CASE RouteSinkFails
  <2> DEFINE n == CurrentNet
  <2>1. /\ phase = "sink" /\ phase' = phase /\ hard_block' = hard_block /\ converged' = converged
        /\ failed' = [failed EXCEPT ![n] = TRUE]
        /\ RoutablePaths(n, Goals) = {} /\ group <= Len(SinkGroups[n]) /\ group \in Nat \ {0}
        /\ n \in Nets
    BY <1>8, CurrentNetTyped DEF RouteSinkFails, scheduleVars, ContractInv, Progress,
                                 NegotiationInv, Scheduled
  <2>2. \A m \in Routed : m # n => failed'[m] = failed[m]
    BY <1>0, <2>1
  <2>3. Kept => Lacks(n)
    <3>1. Kept => ~hard_block
      BY <2>1 DEF FailedForGood
    <3>2. ~hard_block => ~UncongestedPath(n, Goals)
      BY <1>0, <2>1, FailureIsStructural DEF ContractInv, Types
    <3>3. group \in 1 .. Len(SinkGroups[n]) /\ Goals = SinkGroups[n][group]
      <4>1. Len(SinkGroups[n]) \in Nat
        BY <2>1, DesignAssumption
      <4> QED
        BY <2>1, <4>1 DEF Goals
    <3> QED
      BY <3>1, <3>2, <3>3 DEF Lacks
  <2>4. Kept' <=> Kept
    BY <2>1
  <2> QED
    BY <1>4, <1>5, <2>2, <2>3, <2>4
<1>9. CASE Renegotiate
  <2>1. (Kept' => Kept) /\ \A n \in Routed : failed'[n] => failed[n]
    BY <1>0, <1>9 DEF Renegotiate, PassRouted, routeVars
  <2> QED
    BY <1>4, <1>5, <2>1
<1>10. CASE \/ SkipNet \/ PrepareRouteNet \/ CommitRoutedPath \/ FinishNet \/ Converge
            \/ EndLegalization \/ ValidateFinalRouting \/ UNCHANGED vars
  <2>1. (Kept' => Kept) /\ failed' = failed
    BY <1>10 DEF SkipNet, PrepareRouteNet, CommitRoutedPath, FinishNet, Converge, EndLegalization,
                 ValidateFinalRouting, PassRouted, vars, routeVars, scheduleVars, FailedForGood
  <2> QED
    BY <1>4, <1>5, <2>1
<1> QED
  BY <1>6, <1>7, <1>8, <1>9, <1>10 DEF Next, Terminated

THEOREM FailuresInvariant ==
    Spec => [](NegotiationInv /\ ContractInv /\ PrefixesLead /\ Bounds /\ FailedForGood)
<1>1. Init => Bounds /\ FailedForGood
  <2> SUFFICES ASSUME Init PROVE Bounds /\ FailedForGood
    OBVIOUS
  <2>1. Bounds
    <3>1. Len(NetOrder) \in Nat /\ 1 \in 1 .. MaxPasses
      BY NetOrderAssumption, ScheduleAssumption
    <3>2. /\ pass = 1 /\ position = 1 /\ group = 0 /\ present_factor = 2 /\ converged = FALSE
          /\ outcome = "running" /\ history = [r \in RouteResource |-> 0]
      BY DEF Init, PRESENT_FACTOR_INITIAL
    <3>3. converged \in BOOLEAN /\ outcome \in {"running", "ok", "error"}
      BY <3>2
    <3>4. history \in [RouteResource -> Nat] /\ position <= Len(NetOrder) + 1
      BY <3>1, <3>2
    <3> QED
      BY <3>1, <3>2, <3>3, <3>4 DEF Bounds
  <2>2. FailedForGood
    BY DesignAssumption DEF Init, FailedForGood, NegotiationFailuresAreStructural
  <2> QED
    BY <2>1, <2>2
<1>2. /\ NegotiationInv /\ ContractInv /\ Bounds /\ FailedForGood /\ [Next]_vars
      => Bounds' /\ FailedForGood'
  BY BoundsKept, FailedForGoodKept
<1> QED
  BY <1>1, <1>2, PrefixesInvariant, PTL DEF Spec

\* Negotiation fails no net because of congestion or of its own branches: one
\* that is kept as failed would fail on an empty device, whose reserved
\* channels and clock wires it keeps to as the search does, so not trying it
\* again loses nothing.
THEOREM FailuresAreStructural == Spec => []NegotiationFailuresAreStructural
<1>1. FailedForGood => NegotiationFailuresAreStructural
  BY DEF FailedForGood
<1> QED
  BY <1>1, FailuresInvariant, PTL

\* The type invariant of the negotiation.
THEOREM NegotiationTypes == Spec => []TypeOK
<1>1. NegotiationInv /\ ContractInv /\ PrefixesLead /\ Bounds => TypeOK
  <2> SUFFICES ASSUME NegotiationInv, ContractInv, PrefixesLead, Bounds PROVE TypeOK
    OBVIOUS
  <2>1. IndexTypeOK /\ Types /\ ClaimsMatchRoutes /\ IndexInv
    BY DEF NegotiationInv, IndexInv
  <2>2. tree_nodes \subseteq Node /\ DOMAIN tree_paths = tree_nodes
    <3>1. CASE phase = "sink"
      <4>1. CurrentNet \in Nets /\ tree_nodes = Roots[CurrentNet] \cup Wires(segments[CurrentNet])
        BY <3>1, CurrentNetTyped DEF NegotiationInv, Scheduled, ContractInv, TreeIsRoute
      <4>2. Wires(segments[CurrentNet]) \subseteq Node /\ Roots[CurrentNet] \subseteq Node
        BY <2>1, <4>1, RouteClaimed, DesignAssumption
      <4> QED
        BY <3>1, <4>1, <4>2 DEF PrefixesLead
    <3>2. CASE phase # "sink"
      BY <3>2 DEF PrefixesLead
    <3> QED
      BY <3>1, <3>2
  <2>3. position \in 1 .. Len(NetOrder) + 1
    BY <2>1, NetOrderAssumption DEF Types, Bounds
  <2>4. failed \in [Nets -> BOOLEAN]
    BY DEF ContractInv, Progress
  <2>5. sink_paths \in [Nets -> SUBSET [group : Nat, pips : Seq(LocalArc)]]
    BY DEF PrefixesLead
  <2> QED
    BY <2>1, <2>2, <2>3, <2>4, <2>5 DEF TypeOK, Types, Bounds
<1> QED
  BY <1>1, FailuresInvariant, PTL
=============================================================================
