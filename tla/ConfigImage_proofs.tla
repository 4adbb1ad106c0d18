------------------------ MODULE ConfigImage_proofs ------------------------
(***************************************************************************)
(* Proof that the frames of a chip are those of its program, for every     *)
(* chip, library and program.                                              *)
(*                                                                         *)
(* Everything is said of bits: a tile, a site of it and a bit of that      *)
(* site.  The config image keeps a bit under its key; a bit that does not  *)
(* lead off the chip lands there.  Two bits that land under one key are    *)
(* the same bit of the library.                                            *)
(***************************************************************************)
EXTENDS ConfigImage, LeastElements, SequenceTheorems

SramOfBit(d) == SramOf(d[2], d[3].name)

Placed(d) == SramOfBit(d) # None /\ SramOfBit(d).place # None

Lands(d) ==
  /\ Placed(d)
  /\ SramOfBit(d).offset = None \/ d[1] + SramOfBit(d).offset \in Tiles

Key(d) == <<TargetTile(d[1], SramOfBit(d)), SramOfBit(d).place>>

Entry(d) ==
  [tile |-> Key(d)[1], place |-> Key(d)[2],
   site |-> d[2].name, name |-> d[3].name, value |-> d[3].value]

(* The bits of an item, and those that have been encoded. *)
BitsAt(t, site, bits) == {<<t, site, bits[j]>> : j \in DOMAIN bits}

ClusterAt(item) == NamedSite(Def(item.tile).clusters, item.site)
TransmissionAt(item) == NamedSite(Def(item.tile).transmissions, item.site)

ClusterBits(item) ==
  IF SiteIsKnown(item)
  THEN BitsAt(item.tile, ClusterAt(item), SiteBits(chip.siteDefs[item.kind], item.requests))
  ELSE {}

TransmissionBits(item) ==
  IF PipIsKnown(item) THEN BitsAt(item.tile, TransmissionAt(item), item.bits) ELSE {}

FromSites ==
  UNION {ClusterBits(program.sites[i]) :
           i \in {j \in DOMAIN program.sites : phase = "sites" => j < next}}

FromRoutes ==
  UNION {TransmissionBits(program.routes[i]) :
           i \in {j \in DOMAIN program.routes :
                    phase # "sites" /\ (phase = "routes" => j < next)}}

Encoded == FromSites \union FromRoutes

(* The default bits of a tile. *)
DefaultBitsAt(t) ==
  UNION {BitsAt(t, SitesOf(t)[i], DefaultBits(chip, SitesOf(t)[i])) : i \in DOMAIN SitesOf(t)}

AllDefaults == UNION {DefaultBitsAt(t) : t \in KnownTiles}

(* The bits that the two passes over the tiles have gone through. *)
DefaultsApplied ==
  UNION {DefaultBitsAt(t) :
           t \in {u \in KnownTiles :
                    phase \in {"defaults", "bits", "done"} /\ (phase = "defaults" => u < next)}}

EncodedApplied ==
  {d \in Encoded : /\ Lands(d) /\ phase \in {"bits", "done"}
                   /\ phase = "bits" => Key(d)[1] < next}

-----------------------------------------------------------------------------
(***************************************************************************)
(* The inductive invariant.                                                *)
(***************************************************************************)
TypeOK ==
  /\ chip \in Chips /\ program \in Programs
  /\ phase \in {"sites", "routes", "defaults", "bits", "done", "panic"}
  /\ phase \in {"sites", "routes"} => next \in Nat \ {0}
  /\ phase \in {"defaults", "bits"} => next \in Int /\ (next \in Tiles \/ next - 1 \in Tiles)
  /\ IsFiniteSet(DOMAIN image)

(* The image holds encoded bits only, and all that land. *)
ImageOfEncoded ==
  \A k \in DOMAIN image : \E d \in Encoded : Placed(d) /\ k = Key(d) /\ image[k] = Entry(d)

EncodedInImage ==
  \A d \in Encoded : Lands(d) => Key(d) \in DOMAIN image /\ image[Key(d)] = Entry(d)

(* A cell holds the value of the bits that land there: of those of the     *)
(* program, else of the defaults, else the fill.                           *)
LandsAt(d, t, p) == Lands(d) /\ Key(d) = <<t, p>>

Hit(bits, t, p) == \E d \in bits : LandsAt(d, t, p)

Holds(bits, t, p) == \A d \in bits : LandsAt(d, t, p) => frames[t][p] = d[3].value % 2

CellHolds(t, p) ==
  /\ Holds(EncodedApplied, t, p)
  /\ ~Hit(EncodedApplied, t, p) => Holds(DefaultsApplied, t, p)
  /\ ~Hit(EncodedApplied, t, p) /\ ~Hit(DefaultsApplied, t, p) => frames[t][p] = 1

FramesHold == \A t \in KnownTiles : \A p \in Places(t) : CellHolds(t, p)

(* What gets lost is noted: off the chip at once, in its tile later. *)
InCell(k) == k[1] \in KnownTiles /\ k[2] \in Places(k[1])

LossesNoted ==
  /\ \A d \in Encoded : ~Lands(d) => notes # {}
  /\ \A d \in EncodedApplied : ~InCell(Key(d)) => notes # {}

IInv ==
  TypeOK /\ (phase # "panic" =>
               ImageOfEncoded /\ EncodedInImage /\ FramesHold /\ LossesNoted)

-----------------------------------------------------------------------------
(***************************************************************************)
(* Lists.                                                                  *)
(***************************************************************************)
LEMMA ListIndices ==
    ASSUME NEW s, IsList(s)
    PROVE  /\ Len(s) \in Nat /\ DOMAIN s = 1 .. Len(s) /\ IsFiniteSet(DOMAIN s)
           /\ \A i \in DOMAIN s : i \in Nat /\ s[i] \in ToSet(s)
           /\ \A x \in ToSet(s) : \E i \in DOMAIN s : s[i] = x
<1>1. s \in Seq(ToSet(s))
  BY DEF IsList
<1>2. Len(s) \in Nat /\ DOMAIN s = 1 .. Len(s)
  BY <1>1
<1>3. IsFiniteSet(DOMAIN s)
  BY <1>2, FS_Interval
<1>4. ToSet(s) = {s[i] : i \in DOMAIN s}
  BY DEF ToSet
<1> QED
  BY <1>2, <1>3, <1>4

\* A function on 1 .. n is a list.
LEMMA ListOf ==
    ASSUME NEW n \in Nat, NEW s, s = [i \in 1 .. n |-> s[i]]
    PROVE  IsList(s)
<1>1. ToSet(s) = {s[i] : i \in 1 .. n}
  BY DEF ToSet
<1>2. s \in [1 .. n -> ToSet(s)]
  BY <1>1
<1> QED
  BY <1>2 DEF IsList

\* The first entry of a list that passes is one of the list.
LEMMA FirstIndex ==
    ASSUME NEW s, IsList(s), NEW I \in SUBSET DOMAIN s, I # {}
    PROVE  Min(I) \in I
<1>1. I \in SUBSET Nat
  BY ListIndices
<1> QED
  BY <1>1, MinInNat

LEMMA NamedSiteFound ==
    ASSUME NEW sites, NEW name, IsList(sites), NamedSite(sites, name) # None
    PROVE  \E i \in DOMAIN sites : NamedSite(sites, name) = sites[i] /\ sites[i].name = name
<1> DEFINE I == {i \in DOMAIN sites : sites[i].name = name}
<1>1. I # {} /\ NamedSite(sites, name) = sites[Min(I)]
  BY DEF NamedSite, FirstOf
<1>2. Min(I) \in I
  BY <1>1, FirstIndex
<1> QED
  BY <1>1, <1>2

LEMMA SramFound ==
    ASSUME NEW site, NEW name, IsList(site.srams), SramOf(site, name) # None
    PROVE  \E i \in DOMAIN site.srams :
             SramOf(site, name) = site.srams[i] /\ site.srams[i].name = name
<1> DEFINE I == {i \in DOMAIN site.srams : site.srams[i].name = name}
<1>1. I # {} /\ SramOf(site, name) = site.srams[Min(I)]
  BY DEF SramOf, FirstOf
<1>2. Min(I) \in I
  BY <1>1, FirstIndex
<1> QED
  BY <1>1, <1>2

\* Where a name is used once, the site of that name is found.
LEMMA NamedSiteIs ==
    ASSUME NEW sites, IsList(sites), NEW i \in DOMAIN sites,
           \A j \in DOMAIN sites : sites[j].name = sites[i].name => j = i
    PROVE  NamedSite(sites, sites[i].name) = sites[i]
<1> DEFINE name == sites[i].name
           I == {j \in DOMAIN sites : sites[j].name = name}
<1>1. I # {} /\ NamedSite(sites, name) = sites[Min(I)]
  BY DEF NamedSite, FirstOf
<1>2. Min(I) \in I
  BY <1>1, FirstIndex
<1>3. Min(I) = i
  BY <1>2
<1> QED
  BY <1>1, <1>3

LEMMA SramNone ==
    ASSUME NEW site, NEW name, \A i \in DOMAIN site.srams : site.srams[i].name # name
    PROVE  SramOf(site, name) = None
BY DEF SramOf, FirstOf

\* The entries of two lists, one after the other.
LEMMA JoinedSet ==
    ASSUME NEW S, NEW v \in Seq(S), NEW w \in Seq(S)
    PROVE  ToSet(v \o w) = ToSet(v) \union ToSet(w)
<1>1. /\ Len(v) \in Nat /\ DOMAIN v = 1 .. Len(v)
      /\ Len(w) \in Nat /\ DOMAIN w = 1 .. Len(w)
      /\ DOMAIN (v \o w) = 1 .. Len(v) + Len(w)
  OBVIOUS
<1>2. ToSet(v \o w) \subseteq ToSet(v) \union ToSet(w)
  <2> SUFFICES ASSUME NEW i \in 1 .. Len(v) + Len(w)
               PROVE  (v \o w)[i] \in ToSet(v) \union ToSet(w)
    BY <1>1 DEF ToSet
  <2>1. CASE i <= Len(v)
    <3>1. i \in DOMAIN v /\ (v \o w)[i] = v[i]
      BY <1>1, <2>1
    <3> QED
      BY <3>1 DEF ToSet
  <2>2. CASE ~(i <= Len(v))
    <3>1. i - Len(v) \in DOMAIN w /\ (v \o w)[i] = w[i - Len(v)]
      BY <1>1, <2>2
    <3> QED
      BY <3>1 DEF ToSet
  <2> QED
    BY <2>1, <2>2
<1>3. ToSet(v) \subseteq ToSet(v \o w)
  <2> SUFFICES ASSUME NEW i \in DOMAIN v PROVE v[i] \in ToSet(v \o w)
    BY DEF ToSet
  <2>1. i \in DOMAIN (v \o w) /\ (v \o w)[i] = v[i]
    BY <1>1
  <2> QED
    BY <2>1 DEF ToSet
<1>4. ToSet(w) \subseteq ToSet(v \o w)
  <2> SUFFICES ASSUME NEW i \in DOMAIN w PROVE w[i] \in ToSet(v \o w)
    BY DEF ToSet
  <2>1. i + Len(v) \in DOMAIN (v \o w) /\ (v \o w)[i + Len(v)] = w[i]
    BY <1>1
  <2> QED
    BY <2>1 DEF ToSet
<1> QED
  BY <1>2, <1>3, <1>4

\* The entries of lists one after the other are the entries of the lists.
LEMMA Flattened ==
    ASSUME NEW ss, IsList(ss), \A i \in DOMAIN ss : IsList(ss[i])
    PROVE  /\ IsList(FlattenSeq(ss))
           /\ ToSet(FlattenSeq(ss)) = UNION {ToSet(ss[i]) : i \in DOMAIN ss}
<1> DEFINE n == Len(ss)
           S == UNION {ToSet(ss[i]) : i \in DOMAIN ss}
           flat == FlattenSeq(ss)
<1>1. n \in Nat /\ DOMAIN ss = 1 .. n
  BY ListIndices
<1>2. CASE n = 0
  <2>1. ss = <<>> /\ flat = <<>>
    <3>1. ss \in Seq(ToSet(ss)) /\ Len(ss) = 0
      BY <1>2 DEF IsList
    <3> QED
      BY <3>1, EmptySeq DEF FlattenSeq
  <2>2. IsList(<<>>)
    BY DEF IsList
  <2>3. S = {} /\ ToSet(<<>>) = {}
    BY <1>1, <1>2 DEF ToSet
  <2> QED
    BY <2>1, <2>2, <2>3
<1>3. CASE n # 0
  <2>0. n \in Nat \ {0} /\ 1 \in 1 .. n /\ n \in 1 .. n
    BY <1>1, <1>3
  <2>1. \A i \in 1 .. n : ss[i] \in Seq(S)
    <3> SUFFICES ASSUME NEW i \in 1 .. n PROVE ss[i] \in Seq(S)
      OBVIOUS
    <3>1. ss[i] \in Seq(ToSet(ss[i])) /\ ToSet(ss[i]) \subseteq S
      BY <1>1 DEF IsList
    <3> QED
      BY <3>1
  <2> DEFINE Follows(f, k) == IF k = 1 THEN ss[k] ELSE f[k - 1] \o ss[k]
             IsFlat(f) == f = [k \in 1 .. n |-> Follows(f, k)]
             r == CHOOSE f : IsFlat(f)
  <2>2. flat = r[n]
    BY <1>1, <1>3 DEF FlattenSeq
  <2> DEFINE step == [k \in 2 .. n |-> [w \in Seq(S) |-> w \o ss[k]]]
  <2>3. PICK h : StepsTo(h, Seq(S), n, ss[1], step)
    <3>1. step \in [2 .. n -> [Seq(S) -> Seq(S)]]
      <4>1. \A k \in 2 .. n : \A w \in Seq(S) : w \o ss[k] \in Seq(S)
        BY <2>0, <2>1
      <4> QED
        BY <4>1
    <3>2. Stepwise(Seq(S), n, ss[1], step)
      BY <2>0, <2>1, <3>1 DEF Stepwise
    <3> HIDE DEF step, S
    <3> QED
      BY <3>2, StepByStep
  <2>4. h \in [1 .. n -> Seq(S)] /\ h[1] = ss[1] /\ \A k \in 2 .. n : h[k] = h[k - 1] \o ss[k]
    <3>1. h \in [1 .. n -> Seq(S)] /\ h[1] = ss[1] /\ \A k \in 2 .. n : h[k] = step[k][h[k - 1]]
      BY <2>3 DEF StepsTo
    <3>2. \A k \in 2 .. n : k - 1 \in 1 .. n
      BY <1>1
    <3> QED
      BY <3>1, <3>2
  <2>5. IsFlat(h)
    <3>1. \A k \in 1 .. n : h[k] = Follows(h, k)
      <4> SUFFICES ASSUME NEW k \in 1 .. n PROVE h[k] = Follows(h, k)
        OBVIOUS
      <4>1. CASE k = 1
        BY <2>4, <4>1
      <4>2. CASE k # 1
        <5>1. k \in 2 .. n
          BY <2>0, <4>2
        <5> QED
          BY <2>4, <4>2, <5>1
      <4> QED
        BY <4>1, <4>2
    <3> HIDE DEF Follows
    <3> QED
      BY <2>4, <3>1
  <2>6. IsFlat(r)
    <3> HIDE DEF IsFlat
    <3> QED
      BY <2>5
  <2>7. \A k \in 1 .. n : r[k] = Follows(r, k)
    <3> HIDE DEF r, Follows
    <3> QED
      BY <2>6
  <2> HIDE DEF r
  <2> DEFINE Gathered(k) == UNION {ToSet(ss[i]) : i \in 1 .. k}
             Right == {k \in 1 .. n : r[k] \in Seq(S) /\ ToSet(r[k]) = Gathered(k)}
  <2>8. 1 \in Right
    <3>1. r[1] = ss[1] /\ Gathered(1) = ToSet(ss[1])
      BY <2>0, <2>7
    <3> QED
      BY <2>0, <2>1, <3>1
  <2>9. \A k \in 2 .. n : k - 1 \in Right => k \in Right
    <3> SUFFICES ASSUME NEW k \in 2 .. n, k - 1 \in Right PROVE k \in Right
      OBVIOUS
    <3>1. k \in 1 .. n /\ k # 1 /\ ss[k] \in Seq(S)
      BY <2>0, <2>1
    <3>2. r[k] = r[k - 1] \o ss[k]
      BY <2>7, <3>1
    <3>3. r[k - 1] \in Seq(S) /\ ToSet(r[k - 1]) = Gathered(k - 1)
      OBVIOUS
    <3>4. ToSet(r[k - 1] \o ss[k]) = ToSet(r[k - 1]) \union ToSet(ss[k])
      <4> HIDE DEF S, Right, Gathered
      <4> QED
        BY <3>1, <3>3, JoinedSet
    <3>5. Gathered(k) = Gathered(k - 1) \union ToSet(ss[k])
      <4>1. 1 .. k = (1 .. k - 1) \union {k}
        OBVIOUS
      <4> QED
        BY <4>1
    <3>6. r[k] \in Seq(S)
      BY <3>1, <3>2, <3>3
    <3> QED
      BY <3>1, <3>2, <3>3, <3>4, <3>5, <3>6
  <2>10. n \in Right
    <3> HIDE DEF Right
    <3> QED
      BY <2>0, <2>8, <2>9, Climb
  <2>11. r[n] \in Seq(S) /\ ToSet(r[n]) = S
    BY <1>1, <2>10
  <2> QED
    BY <2>2, <2>11 DEF IsList
<1> QED
  BY <1>2, <1>3

-----------------------------------------------------------------------------
(***************************************************************************)
(* The places of a tile, in order.                                         *)
(***************************************************************************)
Below(P, p) == {q \in P : q < p}
Rank(P, p) == Cardinality(Below(P, p))

LEMMA Ranks ==
    ASSUME NEW P \in SUBSET Int, IsFiniteSet(P)
    PROVE  /\ Cardinality(P) \in Nat
           /\ \A p \in P : Rank(P, p) \in 0 .. Cardinality(P) - 1
           /\ \A p, q \in P : Rank(P, p) = Rank(P, q) => p = q
<1>1. Cardinality(P) \in Nat
  BY FS_CardinalityType
<1>2. ASSUME NEW Q, NEW R, IsFiniteSet(R), Q \subseteq R, Q # R
      PROVE  Cardinality(Q) \in Nat /\ Cardinality(R) \in Nat /\ Cardinality(Q) < Cardinality(R)
  <2>1. IsFiniteSet(Q) /\ Cardinality(Q) <= Cardinality(R) /\ Cardinality(Q) # Cardinality(R)
    BY <1>2, FS_Subset
  <2>2. Cardinality(Q) \in Nat /\ Cardinality(R) \in Nat
    BY <1>2, <2>1, FS_CardinalityType
  <2> QED
    BY <2>1, <2>2
<1>3. ASSUME NEW p \in P PROVE Rank(P, p) \in 0 .. Cardinality(P) - 1
  <2>1. Below(P, p) \subseteq P /\ p \notin Below(P, p) /\ Below(P, p) # P
    BY DEF Below
  <2>2. Rank(P, p) \in Nat /\ Rank(P, p) < Cardinality(P)
    BY <1>2, <2>1 DEF Rank
  <2> QED
    BY <1>1, <2>2
<1>4. ASSUME NEW p \in P, NEW q \in P, p < q PROVE Rank(P, p) # Rank(P, q)
  <2>1. Below(P, q) \subseteq P /\ IsFiniteSet(Below(P, q))
    <3>1. Below(P, q) \subseteq P
      BY DEF Below
    <3> QED
      BY <3>1, FS_Subset
  <2>2. Below(P, p) \subseteq Below(P, q) /\ Below(P, p) # Below(P, q)
    <3>1. p \in Below(P, q) /\ p \notin Below(P, p)
      BY <1>4 DEF Below
    <3>2. \A r \in P : r < p => r < q
      BY <1>4
    <3> QED
      BY <3>1, <3>2 DEF Below
  <2>3. Rank(P, p) \in Nat /\ Rank(P, q) \in Nat /\ Rank(P, p) < Rank(P, q)
    BY <1>2, <2>1, <2>2 DEF Rank
  <2> QED
    BY <2>3
<1>5. ASSUME NEW p \in P, NEW q \in P, Rank(P, p) = Rank(P, q) PROVE p = q
  <2>1. p < q \/ q < p \/ p = q
    OBVIOUS
  <2> QED
    BY <1>4, <1>5, <2>1
<1> QED
  BY <1>1, <1>3, <1>5

LEMMA Ordered ==
    ASSUME NEW P \in SUBSET Int, IsFiniteSet(P)
    PROVE  /\ \A i \in 1 .. Cardinality(P) : Nth(P, i) \in P
           /\ \A p \in P : \E i \in 1 .. Cardinality(P) : Nth(P, i) = p
<1> DEFINE n == Cardinality(P)
           rank == [p \in P |-> Rank(P, p)]
           R == {rank[p] : p \in P}
<1>1. n \in Nat /\ \A p \in P : rank[p] \in 0 .. n - 1
  BY Ranks
<1>2. \A p, q \in P : rank[p] = rank[q] => p = q
  BY Ranks
<1>3. IsFiniteSet(R) /\ Cardinality(R) = n
  <2>1. rank \in Bijection(P, R)
    BY <1>2 DEF Bijection, Injection, Surjection, IsInjective
  <2>2. ExistsBijection(P, R)
    BY <2>1 DEF ExistsBijection
  <2> HIDE DEF R, rank
  <2> QED
    BY <2>2, FS_Bijection
<1>4. IsFiniteSet(0 .. n - 1) /\ Cardinality(0 .. n - 1) = n
  <2>1. 0 \in Int /\ n - 1 \in Int
    BY <1>1
  <2>2. IsFiniteSet(0 .. n - 1) /\ Cardinality(0 .. n - 1) = IF 0 > n - 1 THEN 0 ELSE n - 1 - 0 + 1
    <3> HIDE DEF n
    <3> QED
      BY <2>1, FS_Interval
  <2> QED
    BY <1>1, <2>2
<1>5. R = 0 .. n - 1
  <2>1. R \subseteq 0 .. n - 1
    BY <1>1
  <2> HIDE DEF R, n
  <2> QED
    BY <1>3, <1>4, <2>1, FS_Subset
<1>6. ASSUME NEW i \in 1 .. n PROVE Nth(P, i) \in P /\ Rank(P, Nth(P, i)) = i - 1
  <2>1. i - 1 \in 0 .. n - 1
    BY <1>1
  <2>2. \E p \in P : Rank(P, p) = i - 1
    <3>1. i - 1 \in R
      BY <1>5, <2>1
    <3> QED
      BY <3>1
  <2>3. \E p \in P : Cardinality({q \in P : q < p}) = i - 1
    BY <2>2 DEF Rank, Below
  <2>4. Nth(P, i) \in P /\ Cardinality({q \in P : q < Nth(P, i)}) = i - 1
    BY <2>3 DEF Nth
  <2> QED
    BY <2>4 DEF Rank, Below
<1>7. ASSUME NEW p \in P PROVE \E i \in 1 .. n : Nth(P, i) = p
  <2> DEFINE i == Rank(P, p) + 1
  <2>1. i \in 1 .. n /\ Rank(P, p) = i - 1
    <3>1. Rank(P, p) \in 0 .. n - 1
      BY <1>1
    <3> HIDE DEF n
    <3> QED
      BY <1>1, <3>1
  <2>2. Nth(P, i) \in P /\ Rank(P, Nth(P, i)) = i - 1
    <3> HIDE DEF i, n
    <3> QED
      BY <1>6, <2>1
  <2>3. \A q, r \in P : Rank(P, q) = Rank(P, r) => q = r
    BY Ranks
  <2>4. Nth(P, i) = p
    <3> HIDE DEF i
    <3> QED
      BY <2>1, <2>2, <2>3
  <2> QED
    BY <2>1, <2>4
<1> QED
  BY <1>6, <1>7

-----------------------------------------------------------------------------
(***************************************************************************)
(* Bits of the library: where they land and what is in their way.          *)
(***************************************************************************)
Good(d) == d[1] \in KnownTiles /\ d[2] \in ToSet(SitesOf(d[1]))

Library(d, i) ==
  /\ <<d[1], d[2], i>> \in SramsAt(chip)
  /\ i \in DOMAIN d[2].srams
  /\ d[2].srams[i] = SramOfBit(d) /\ d[2].srams[i].name = d[3].name

LEMMA JoinedList ==
    ASSUME NEW v, NEW w, IsList(v), IsList(w)
    PROVE  IsList(v \o w) /\ ToSet(v \o w) = ToSet(v) \union ToSet(w)
<1> DEFINE S == ToSet(v) \union ToSet(w)
<1>1. v \in Seq(ToSet(v)) /\ w \in Seq(ToSet(w))
  BY DEF IsList
<1>2. v \in Seq(S) /\ w \in Seq(S)
  BY <1>1
<1>3. ToSet(v \o w) = S
  <2> HIDE DEF S
  <2>1. ToSet(v \o w) = ToSet(v) \union ToSet(w)
    BY <1>2, JoinedSet
  <2> QED
    BY <2>1 DEF S
<1>4. v \o w \in Seq(S)
  <2> HIDE DEF S
  <2> QED
    BY <1>2
<1> QED
  BY <1>3, <1>4 DEF IsList

LEMMA SitesListed ==
    ASSUME chip \in Chips, NEW t \in KnownTiles
    PROVE  /\ IsList(SitesOf(t)) /\ IsList(Def(t).clusters) /\ IsList(Def(t).transmissions)
           /\ ToSet(SitesOf(t)) = ToSet(Def(t).clusters) \union ToSet(Def(t).transmissions)
           /\ \A s \in ToSet(SitesOf(t)) :
                IsList(s.srams) /\ \A m \in ToSet(s.srams) : m.place \in Nat \union {None}
<1>1. ChipShape(chip) /\ chip.typeAt[t] \in DOMAIN chip.types
  BY ShapeAssumption DEF KnownTiles
<1>2. /\ IsList(Def(t).clusters) /\ IsList(Def(t).transmissions)
      /\ \A s \in ToSet(SitesOf(t)) :
           IsList(s.srams) /\ \A m \in ToSet(s.srams) : m.place \in Nat \union {None}
  BY <1>1 DEF ChipShape, Def, SitesOf
<1>3. SitesOf(t) = Def(t).clusters \o Def(t).transmissions
  BY DEF SitesOf, SitesOfType
<1> QED
  BY <1>2, <1>3, JoinedList

LEMMA BitInLibrary ==
    ASSUME chip \in Chips, NEW d, Good(d), SramOfBit(d) # None
    PROVE  \E i : Library(d, i)
<1>1. d[1] \in KnownTiles /\ d[2] \in ToSet(SitesOf(d[1])) /\ IsList(d[2].srams)
  BY SitesListed DEF Good
<1>2. PICK i \in DOMAIN d[2].srams : SramOfBit(d) = d[2].srams[i] /\ d[2].srams[i].name = d[3].name
  BY <1>1, SramFound DEF SramOfBit
<1>3. <<d[1], d[2], i>> \in SramsAt(chip)
  <2>1. d[2] \in SitesIn(chip, d[1])
    BY <1>1 DEF SitesIn, SitesOf, Def
  <2>2. d[1] \in {u \in DOMAIN chip.typeAt : chip.typeAt[u] \in DOMAIN chip.types}
    BY <1>1 DEF KnownTiles, Tiles
  <2> QED
    BY <1>2, <2>1, <2>2 DEF SramsAt
<1> QED
  BY <1>2, <1>3 DEF Library

\* The library's own tile for a bit that does not lead off the chip.
LEMMA LandsAtHome ==
    ASSUME chip \in Chips, NEW d, Good(d), Lands(d), NEW i, Library(d, i)
    PROVE  /\ Key(d) = HomeIn(<<d[1], d[2], i>>) /\ ~LeadsOff(chip, <<d[1], d[2], i>>)
           /\ Key(d)[1] \in Tiles
           /\ Key(d)[1] = IF SramOfBit(d).offset = None THEN d[1] ELSE d[1] + SramOfBit(d).offset
<1> DEFINE m == SramOfBit(d)
           x == <<d[1], d[2], i>>
<1>1. ChipAssumption(chip) /\ x \in SramsAt(chip) /\ x[2].srams[x[3]] = m
  BY LibraryAssumption DEF Library
<1>2. (m.owner = None) <=> (m.offset = None)
  BY <1>1 DEF ChipAssumption
<1>3. /\ m # None /\ m.place # None
      /\ m.offset = None \/ d[1] + m.offset \in Tiles
  BY DEF Lands, Placed
<1>4. d[1] \in Tiles
  BY DEF Good, KnownTiles
<1>5. TargetTile(d[1], m) = IF m.offset = None THEN d[1] ELSE d[1] + m.offset
  BY <1>2, <1>3 DEF TargetTile
<1>6. HomeIn(x) = <<IF m.offset = None THEN d[1] ELSE d[1] + m.offset, m.place>>
  BY <1>1, <1>3 DEF HomeIn
<1>7. ~LeadsOff(chip, x)
  BY <1>1, <1>3 DEF LeadsOff, Tiles
<1> QED
  BY <1>3, <1>4, <1>5, <1>6, <1>7 DEF Key

LEMMA OffStays ==
    ASSUME chip \in Chips, NEW d, Good(d), Placed(d), ~Lands(d), NEW i, Library(d, i)
    PROVE  /\ Key(d) = <<d[1], SramOfBit(d).place>> /\ LeadsOff(chip, <<d[1], d[2], i>>)
           /\ Key(d)[1] \in Tiles
<1> DEFINE m == SramOfBit(d)
           x == <<d[1], d[2], i>>
<1>1. x[2].srams[x[3]] = m
  BY DEF Library
<1>2. m.offset # None /\ d[1] + m.offset \notin Tiles
  BY DEF Lands
<1>3. d[1] \in Tiles
  BY DEF Good, KnownTiles
<1>4. TargetTile(d[1], m) = d[1]
  BY <1>2 DEF TargetTile
<1>5. LeadsOff(chip, x)
  BY <1>1, <1>2 DEF LeadsOff, Tiles
<1> QED
  BY <1>3, <1>4, <1>5 DEF Key

LEMMA KeysOnTheChip ==
    ASSUME chip \in Chips, NEW d, Good(d), Placed(d)
    PROVE  Key(d)[1] \in Tiles /\ Key(d)[2] \in Nat
<1>1. SramOfBit(d) # None /\ SramOfBit(d).place # None
  BY DEF Placed
<1>2. PICK i : Library(d, i)
  BY <1>1, BitInLibrary
<1>3. Key(d)[1] \in Tiles
  BY <1>2, LandsAtHome, OffStays
<1>4. SramOfBit(d).place \in Nat
  <2>1. d[1] \in KnownTiles /\ d[2] \in ToSet(SitesOf(d[1]))
    BY DEF Good
  <2>2. IsList(d[2].srams) /\ \A m \in ToSet(d[2].srams) : m.place \in Nat \union {None}
    BY <2>1, SitesListed
  <2>3. SramOfBit(d) \in ToSet(d[2].srams)
    BY <1>2, <2>2, ListIndices DEF Library
  <2> QED
    BY <1>1, <2>2, <2>3
<1> QED
  BY <1>3, <1>4 DEF Key

\* Two bits that land in one place are one SRAM of the library.
LEMMA SamePlaceSameBit ==
    ASSUME chip \in Chips, NEW d, NEW e, Good(d), Good(e), Lands(d), Lands(e), Key(d) = Key(e)
    PROVE  d[1] = e[1] /\ d[2] = e[2] /\ d[3].name = e[3].name
<1>1. SramOfBit(d) # None /\ SramOfBit(e) # None
  BY DEF Lands, Placed
<1>2. PICK i : Library(d, i)
  BY <1>1, BitInLibrary
<1>3. PICK j : Library(e, j)
  BY <1>1, BitInLibrary
<1> DEFINE x == <<d[1], d[2], i>>
           y == <<e[1], e[2], j>>
<1>4. x \in SramsAt(chip) /\ y \in SramsAt(chip)
  BY <1>2, <1>3 DEF Library
<1>5. HomeIn(x) = HomeIn(y)
  BY <1>2, <1>3, LandsAtHome
<1>6. x = y
  BY <1>4, <1>5, LibraryAssumption DEF ChipAssumption
<1> QED
  BY <1>2, <1>3, <1>6 DEF Library

\* A bit that is in the way of one that lands is a site's, and the other a pip's.
LEMMA InTheWay ==
    ASSUME chip \in Chips, NEW d, NEW e, Good(d), Good(e),
           Lands(d), Placed(e), ~Lands(e), Key(d) = Key(e)
    PROVE  e[2] \in ToSet(Def(e[1]).clusters) /\ d[2] \in ToSet(Def(d[1]).transmissions)
<1>1. SramOfBit(d) # None /\ SramOfBit(e) # None /\ SramOfBit(e).place # None
  BY DEF Lands, Placed
<1>2. PICK i : Library(d, i)
  BY <1>1, BitInLibrary
<1>3. PICK j : Library(e, j)
  BY <1>1, BitInLibrary
<1> DEFINE x == <<e[1], e[2], j>>
           y == <<d[1], d[2], i>>
<1>4. x \in SramsAt(chip) /\ y \in SramsAt(chip) /\ x[2].srams[x[3]] = SramOfBit(e)
  BY <1>2, <1>3 DEF Library
<1>5. LeadsOff(chip, x) /\ ~LeadsOff(chip, y)
  BY <1>2, <1>3, LandsAtHome, OffStays
<1>6. HomeIn(y) = <<x[1], SramOfBit(e).place>>
  BY <1>2, <1>3, LandsAtHome, OffStays
<1>7. /\ x[2] \in ToSet(chip.types[chip.typeAt[x[1]]].clusters)
      /\ y[2] \in ToSet(chip.types[chip.typeAt[y[1]]].transmissions)
  BY <1>1, <1>4, <1>5, <1>6, LibraryAssumption DEF ChipAssumption
<1> QED
  BY <1>7 DEF Def

LEMMA NamesApart ==
    ASSUME chip \in Chips, NEW t \in KnownTiles
    PROVE  \A i, j \in DOMAIN SitesOf(t) : SitesOf(t)[i].name = SitesOf(t)[j].name => i = j
<1>1. ChipAssumption(chip) /\ chip.typeAt[t] \in DOMAIN chip.types
  BY LibraryAssumption DEF KnownTiles
<1> QED
  BY <1>1 DEF ChipAssumption, SitesOf, Def

LEMMA ClusterOrTransmission ==
    ASSUME chip \in Chips, NEW t \in KnownTiles, NEW s \in ToSet(Def(t).clusters)
    PROVE  s \notin ToSet(Def(t).transmissions)
<1> DEFINE v == Def(t).clusters
           w == Def(t).transmissions
<1> SUFFICES ASSUME s \in ToSet(w) PROVE FALSE
  OBVIOUS
<1>1. IsList(v) /\ IsList(w) /\ SitesOf(t) = v \o w
  BY SitesListed DEF SitesOf, SitesOfType
<1>2. PICK i \in DOMAIN v : v[i] = s
  BY <1>1, ListIndices
<1>3. PICK j \in DOMAIN w : w[j] = s
  BY <1>1, ListIndices
<1> DEFINE S == ToSet(v) \union ToSet(w)
<1>4. v \in Seq(S) /\ w \in Seq(S)
  <2>1. v \in Seq(ToSet(v)) /\ w \in Seq(ToSet(w))
    BY <1>1 DEF IsList
  <2> QED
    BY <2>1
<1> HIDE DEF S, v, w
<1>5. /\ i \in DOMAIN (v \o w) /\ (v \o w)[i] = s
      /\ Len(v) + j \in DOMAIN (v \o w) /\ (v \o w)[Len(v) + j] = s
      /\ i # Len(v) + j
  BY <1>2, <1>3, <1>4
<1> QED
  BY <1>1, <1>5, NamesApart

LEMMA TilesInARow ==
    ASSUME chip \in Chips
    PROVE  /\ Tiles \subseteq Int /\ Min(Tiles) \in Tiles /\ \A t \in Tiles : Min(Tiles) <= t
           /\ \A n \in Int : n - 1 \in Tiles /\ n \notin Tiles => \A t \in Tiles : t < n
<1>1. ChipShape(chip)
  BY ShapeAssumption
<1>2. PICK first \in Tiles, last \in Tiles : Tiles = first .. last
  BY <1>1 DEF ChipShape, Tiles
<1>3. first \in Int /\ last \in Int
  BY <1>1 DEF ChipShape, Tiles
<1>4. \E t \in Tiles : \A u \in Tiles : t <= u
  BY <1>2, <1>3
<1>5. Min(Tiles) \in Tiles /\ \A u \in Tiles : Min(Tiles) <= u
  BY <1>4 DEF Min
<1>6. \A n \in Int : n - 1 \in Tiles /\ n \notin Tiles => \A t \in Tiles : t < n
  BY <1>2, <1>3
<1> QED
  BY <1>2, <1>3, <1>5, <1>6

-----------------------------------------------------------------------------
(***************************************************************************)
(* The bits that sites, pips and defaults stand for are lists.             *)
(***************************************************************************)
LEMMA ShortLists ==
    /\ IsList(<<>>) /\ ToSet(<<>>) = {}
    /\ \A x : IsList(<<x>>) /\ ToSet(<<x>>) = {x}
<1>1. IsList(<<>>) /\ ToSet(<<>>) = {}
  BY DEF IsList, ToSet
<1>2. ASSUME NEW x PROVE IsList(<<x>>) /\ ToSet(<<x>>) = {x}
  <2>1. ToSet(<<x>>) = {x}
    BY DEF ToSet
  <2>2. <<x>> \in Seq({x})
    OBVIOUS
  <2> QED
    BY <2>1, <2>2 DEF IsList
<1> QED
  BY <1>1, <1>2

\* A list of the same length, entry by entry.
LEMMA Mapped ==
    ASSUME NEW s, IsList(s), NEW f, f = [i \in DOMAIN s |-> f[i]]
    PROVE  IsList(f) /\ DOMAIN f = DOMAIN s
<1>1. Len(s) \in Nat /\ DOMAIN s = 1 .. Len(s)
  BY ListIndices
<1>2. f = [i \in 1 .. Len(s) |-> f[i]]
  BY <1>1
<1> QED
  BY <1>1, <1>2, ListOf

TypedElements(elements) ==
  \A e \in ToSet(elements) : IsList(e.functions) /\ \A f \in ToSet(e.functions) : IsList(f.srams)

LEMMA RequestedListed ==
    ASSUME NEW elements, NEW request, IsList(elements), TypedElements(elements)
    PROVE  IsList(Requested(elements, request))
<1> DEFINE element == FirstOf(elements, LAMBDA e : e.name = request.cfg)
           tried == Tried(element, request)
           I == {i \in DOMAIN tried : tried[i] # None /\ Expands(tried[i], request)}
<1>1. CASE Resolved(elements, request) = None
  <2>1. Requested(elements, request) = <<>>
    BY <1>1 DEF Requested
  <2> QED
    BY <2>1, ShortLists
<1>2. CASE Resolved(elements, request) # None
  <2>1. Requested(elements, request) = Resolved(elements, request)
    BY <1>2 DEF Requested
  <2>2. /\ element # None /\ I # {}
        /\ Resolved(elements, request) = Expanded(tried[Min(I)], request)
    BY <1>2 DEF Resolved, FirstOf
  <2>3. IsList(element.functions) /\ \A f \in ToSet(element.functions) : IsList(f.srams)
    <3> DEFINE J == {i \in DOMAIN elements : elements[i].name = request.cfg}
    <3>1. J # {} /\ element = elements[Min(J)]
      BY <2>2 DEF FirstOf
    <3>2. Min(J) \in DOMAIN elements
      BY <3>1, FirstIndex
    <3>3. element \in ToSet(elements)
      BY <3>1, <3>2, ListIndices
    <3> QED
      BY <3>3 DEF TypedElements
  <2>4. IsList(tried) /\ DOMAIN tried = 1 .. 3
    <3>1. DOMAIN tried = 1 .. 3 /\ tried = [i \in 1 .. 3 |-> tried[i]]
      BY DEF Tried
    <3> HIDE DEF tried
    <3> QED
      BY <3>1, ListOf
  <2>5. Min(I) \in I
    <3> HIDE DEF tried
    <3> QED
      BY <2>2, <2>4, FirstIndex
  <2> DEFINE function == tried[Min(I)]
  <2>6. function # None /\ Min(I) \in 1 .. 3
    BY <2>4, <2>5
  <2>7. function \in ToSet(element.functions)
    <3> DEFINE K1 == {i \in DOMAIN element.functions : element.functions[i].name = request.function}
               K2 == {i \in DOMAIN element.functions : element.functions[i].how = "srambit"}
               K3 == {i \in DOMAIN element.functions : element.functions[i].how = "equation"}
    <3>1. Min(I) = 1 \/ Min(I) = 2 \/ Min(I) = 3
      BY <2>6
    <3>2. PICK K \in {K1, K2, K3} : K # {} /\ function = element.functions[Min(K)]
      <4> HIDE DEF I, element
      <4>1. CASE Min(I) = 1
        BY <2>6, <4>1 DEF Tried, FirstOf
      <4>2. CASE Min(I) = 2
        BY <2>6, <4>2 DEF Tried, FirstOf
      <4>3. CASE Min(I) = 3
        BY <2>6, <4>3 DEF Tried, FirstOf
      <4> QED
        BY <3>1, <4>1, <4>2, <4>3
    <3>3. K \in SUBSET DOMAIN element.functions
      OBVIOUS
    <3>4. Min(K) \in DOMAIN element.functions
      BY <2>3, <3>2, <3>3, FirstIndex
    <3> QED
      BY <2>3, <3>2, <3>4, ListIndices
  <2>8. IsList(function.srams)
    BY <2>3, <2>7
  <2>9. IsList(Expanded(function, request))
    <3> HIDE DEF function
    <3> DEFINE bits == Expanded(function, request)
    <3>1. bits = [i \in DOMAIN function.srams |-> bits[i]]
      BY DEF Expanded
    <3> HIDE DEF bits
    <3>2. IsList(bits)
      BY <2>8, <3>1, Mapped
    <3> QED
      BY <3>2 DEF bits
  <2> QED
    BY <2>1, <2>2, <2>9
<1> QED
  BY <1>1, <1>2

LEMMA SiteBitsListed ==
    ASSUME NEW elements, NEW requests, IsList(elements), TypedElements(elements), IsList(requests)
    PROVE  IsList(SiteBits(elements, requests))
<1> DEFINE ss == [i \in DOMAIN requests |-> Requested(elements, requests[i])]
<1>1. IsList(ss) /\ DOMAIN ss = DOMAIN requests
  <2>1. ss = [i \in DOMAIN requests |-> ss[i]]
    OBVIOUS
  <2> HIDE DEF ss
  <2> QED
    BY <2>1, Mapped
<1>2. \A i \in DOMAIN ss : IsList(ss[i])
  BY RequestedListed
<1> HIDE DEF ss
<1>3. IsList(FlattenSeq(ss))
  BY <1>1, <1>2, Flattened
<1> QED
  BY <1>3 DEF SiteBits, ss

LEMMA ElementsTyped ==
    ASSUME chip \in Chips, NEW k \in DOMAIN chip.siteDefs
    PROVE  IsList(chip.siteDefs[k]) /\ TypedElements(chip.siteDefs[k])
<1>1. ChipShape(chip)
  BY ShapeAssumption
<1> QED
  BY <1>1 DEF ChipShape, TypedElements

LEMMA DefaultBitsListed ==
    ASSUME chip \in Chips, NEW site
    PROVE  IsList(DefaultBits(chip, site))
<1>1. CASE site.srams = <<>>
  BY <1>1, ShortLists DEF DefaultBits
<1>2. CASE site.srams # <<>> /\ site.kind \in DOMAIN chip.siteDefs
  <2> DEFINE elements == chip.siteDefs[site.kind]
             ss == [i \in DOMAIN elements |-> BitsOfDefault(elements, elements[i])]
  <2>1. IsList(elements) /\ TypedElements(elements)
    BY <1>2, ElementsTyped
  <2>2. DefaultBits(chip, site) = FlattenSeq(ss)
    BY <1>2 DEF DefaultBits
  <2> HIDE DEF elements
  <2>3. \A element : IsList(BitsOfDefault(elements, element))
    BY <2>1, RequestedListed, ShortLists DEF BitsOfDefault
  <2>4. IsList(ss) /\ DOMAIN ss = DOMAIN elements
    <3>1. ss = [i \in DOMAIN elements |-> ss[i]]
      OBVIOUS
    <3> HIDE DEF ss
    <3> QED
      BY <2>1, <3>1, Mapped
  <2>5. \A i \in DOMAIN ss : IsList(ss[i])
    BY <2>3
  <2> HIDE DEF ss
  <2> QED
    BY <2>2, <2>4, <2>5, Flattened
<1>3. CASE site.srams # <<>> /\ site.kind \notin DOMAIN chip.siteDefs
  <2>1. ChipShape(chip)
    BY ShapeAssumption
  <2> QED
    BY <1>3, <2>1, ShortLists DEF DefaultBits, ChipShape
<1> QED
  BY <1>1, <1>2, <1>3

\* A list of at most one entry for each entry of a list.
LEMMA Collected ==
    ASSUME NEW s, IsList(s), NEW ss, ss = [i \in DOMAIN s |-> ss[i]],
           \A i \in DOMAIN s : IsList(ss[i])
    PROVE  /\ IsList(FlattenSeq(ss))
           /\ \A x : x \in ToSet(FlattenSeq(ss)) <=> \E i \in DOMAIN s : x \in ToSet(ss[i])
<1>1. IsList(ss) /\ DOMAIN ss = DOMAIN s
  BY Mapped
<1>2. IsList(FlattenSeq(ss)) /\ ToSet(FlattenSeq(ss)) = UNION {ToSet(ss[i]) : i \in DOMAIN ss}
  BY <1>1, Flattened
<1> QED
  BY <1>1, <1>2

-----------------------------------------------------------------------------
(***************************************************************************)
(* The bits of an item.                                                    *)
(***************************************************************************)
LEMMA SameLibrary ==
    ASSUME UNCHANGED chip
    PROVE  /\ Tiles' = Tiles /\ KnownTiles' = KnownTiles
           /\ \A t : Places(t)' = Places(t) /\ SitesOf(t)' = SitesOf(t) /\ Def(t)' = Def(t)
           /\ \A d : /\ Placed(d)' <=> Placed(d)
                     /\ Lands(d)' <=> Lands(d)
                     /\ Key(d)' = Key(d) /\ Entry(d)' = Entry(d)
           /\ \A t : DefaultBitsAt(t)' = DefaultBitsAt(t)
<1>1. Tiles' = Tiles /\ KnownTiles' = KnownTiles
  BY DEF Tiles, KnownTiles
<1>2. \A t : Places(t)' = Places(t) /\ SitesOf(t)' = SitesOf(t) /\ Def(t)' = Def(t)
  BY DEF Places, SitesOf, Def
<1>3. \A d : (Placed(d)' <=> Placed(d)) /\ (Lands(d)' <=> Lands(d))
  BY <1>1 DEF Placed, Lands
<1>4. \A d : Key(d)' = Key(d)
  BY <1>1 DEF Key, TargetTile
<1>5. \A d : Entry(d)' = Entry(d)
  BY <1>4 DEF Entry
<1>6. \A t : DefaultBitsAt(t)' = DefaultBitsAt(t)
  BY <1>2 DEF DefaultBitsAt
<1> QED
  BY <1>1, <1>2, <1>3, <1>4, <1>5, <1>6

LEMMA SameItems ==
    ASSUME UNCHANGED <<chip, program>>
    PROVE  \A x : ClusterBits(x)' = ClusterBits(x) /\ TransmissionBits(x)' = TransmissionBits(x)
<1>1. KnownTiles' = KnownTiles /\ \A t : Def(t)' = Def(t)
  BY DEF KnownTiles, Tiles, Def
<1>2. \A x : (SiteIsKnown(x)' <=> SiteIsKnown(x)) /\ (PipIsKnown(x)' <=> PipIsKnown(x))
  BY <1>1 DEF SiteIsKnown, PipIsKnown
<1>3. \A x : ClusterAt(x)' = ClusterAt(x) /\ TransmissionAt(x)' = TransmissionAt(x)
  BY <1>1 DEF ClusterAt, TransmissionAt
<1> QED
  BY <1>2, <1>3 DEF ClusterBits, TransmissionBits

LEMMA ClusterBitsGood ==
    ASSUME TypeOK, NEW i \in DOMAIN program.sites, NEW d \in ClusterBits(program.sites[i])
    PROVE  Good(d) /\ d[2] \in ToSet(Def(d[1]).clusters)
<1> DEFINE x == program.sites[i]
<1>1. SiteIsKnown(x) /\ d[1] = x.tile /\ d[2] = ClusterAt(x)
  BY DEF ClusterBits, BitsAt
<1>2. x.tile \in KnownTiles /\ NamedSite(Def(x.tile).clusters, x.site) # None
  BY <1>1 DEF SiteIsKnown
<1>3. chip \in Chips
  BY DEF TypeOK
<1>4. ClusterAt(x) \in ToSet(Def(x.tile).clusters)
  <2>1. IsList(Def(x.tile).clusters)
    BY <1>2, <1>3, SitesListed
  <2>2. \E j \in DOMAIN Def(x.tile).clusters : ClusterAt(x) = Def(x.tile).clusters[j]
    BY <1>2, <2>1, NamedSiteFound DEF ClusterAt
  <2> QED
    BY <2>1, <2>2, ListIndices
<1> QED
  BY <1>1, <1>2, <1>3, <1>4, SitesListed DEF Good

LEMMA TransmissionBitsGood ==
    ASSUME TypeOK, NEW i \in DOMAIN program.routes, NEW d \in TransmissionBits(program.routes[i])
    PROVE  Good(d) /\ d[2] \in ToSet(Def(d[1]).transmissions)
<1> DEFINE x == program.routes[i]
<1>1. PipIsKnown(x) /\ d[1] = x.tile /\ d[2] = TransmissionAt(x)
  BY DEF TransmissionBits, BitsAt
<1>2. x.tile \in KnownTiles /\ NamedSite(Def(x.tile).transmissions, x.site) # None
  BY <1>1 DEF PipIsKnown
<1>3. chip \in Chips
  BY DEF TypeOK
<1>4. TransmissionAt(x) \in ToSet(Def(x.tile).transmissions)
  <2>1. IsList(Def(x.tile).transmissions)
    BY <1>2, <1>3, SitesListed
  <2>2. \E j \in DOMAIN Def(x.tile).transmissions : TransmissionAt(x) = Def(x.tile).transmissions[j]
    BY <1>2, <2>1, NamedSiteFound DEF TransmissionAt
  <2> QED
    BY <2>1, <2>2, ListIndices
<1> QED
  BY <1>1, <1>2, <1>3, <1>4, SitesListed DEF Good

LEMMA EncodedGood ==
    ASSUME TypeOK
    PROVE  /\ \A d \in Encoded : Good(d)
           /\ \A d \in FromSites : d[2] \in ToSet(Def(d[1]).clusters)
           /\ \A d \in FromRoutes : d[2] \in ToSet(Def(d[1]).transmissions)
           /\ phase = "sites" => FromRoutes = {}
<1>1. \A d \in FromSites : Good(d) /\ d[2] \in ToSet(Def(d[1]).clusters)
  BY ClusterBitsGood DEF FromSites
<1>2. \A d \in FromRoutes : Good(d) /\ d[2] \in ToSet(Def(d[1]).transmissions)
  BY TransmissionBitsGood DEF FromRoutes
<1>3. phase = "sites" => FromRoutes = {}
  BY DEF FromRoutes
<1> QED
  BY <1>1, <1>2, <1>3 DEF Encoded

LEMMA EncodedSite ==
    ASSUME TypeOK
    PROVE  \A d \in Encoded : d[2] # None
<1>1. \A d \in FromSites : d[2] # None
  <2> SUFFICES ASSUME NEW i \in DOMAIN program.sites, NEW d \in ClusterBits(program.sites[i])
               PROVE  d[2] # None
    BY DEF FromSites
  <2> QED
    BY DEF ClusterBits, BitsAt, SiteIsKnown, ClusterAt
<1>2. \A d \in FromRoutes : d[2] # None
  <2> SUFFICES ASSUME NEW i \in DOMAIN program.routes, NEW d \in TransmissionBits(program.routes[i])
               PROVE  d[2] # None
    BY DEF FromRoutes
  <2> QED
    BY DEF TransmissionBits, BitsAt, PipIsKnown, TransmissionAt
<1> QED
  BY <1>1, <1>2 DEF Encoded

(* The bits of the next item. *)
NewBits == BitsAt(Items[next].tile, ItemSite(Items[next]), ItemBits(Items[next]))

EncodingItem == phase \in {"sites", "routes"} /\ next \in DOMAIN Items /\ Known(Items[next])

LEMMA ItemsListed ==
    ASSUME TypeOK
    PROVE  IsList(program.sites) /\ IsList(program.routes) /\ IsList(Items)
<1>1. ProgramShape(program)
  BY ShapeAssumption DEF TypeOK
<1> QED
  BY <1>1 DEF ProgramShape, Items

LEMMA NewBitsGood ==
    ASSUME TypeOK, EncodingItem
    PROVE  /\ IsList(ItemBits(Items[next]))
           /\ phase = "sites" => NewBits = ClusterBits(program.sites[next])
           /\ phase = "routes" => NewBits = TransmissionBits(program.routes[next])
           /\ \A d \in NewBits : Good(d)
           /\ \A d \in NewBits : d[2] \in ToSet(IF phase = "sites" THEN Def(d[1]).clusters
                                                 ELSE Def(d[1]).transmissions)
<1> DEFINE x == Items[next]
<1>1. chip \in Chips /\ ProgramShape(program)
  BY ShapeAssumption DEF TypeOK
<1>2. CASE phase = "sites"
  <2>1. next \in DOMAIN program.sites /\ x = program.sites[next] /\ SiteIsKnown(x)
    BY <1>2 DEF EncodingItem, Items, Known, SiteIsKnown
  <2>2. ItemSite(x) = ClusterAt(x) /\ ItemBits(x) = SiteBits(chip.siteDefs[x.kind], x.requests)
    BY <1>2 DEF ItemSite, ItemBits, ClusterAt
  <2>3. NewBits = ClusterBits(program.sites[next])
    BY <2>1, <2>2 DEF NewBits, ClusterBits
  <2>4. IsList(ItemBits(x))
    <3>1. x \in ToSet(program.sites)
      BY <2>1, ItemsListed, ListIndices
    <3>2. IsList(x.requests) /\ x.kind \in DOMAIN chip.siteDefs
      BY <1>1, <2>1, <3>1 DEF ProgramShape, SiteIsKnown
    <3>3. IsList(chip.siteDefs[x.kind]) /\ TypedElements(chip.siteDefs[x.kind])
      BY <1>1, <3>2, ElementsTyped
    <3> QED
      BY <2>2, <3>2, <3>3, SiteBitsListed
  <2> QED
    BY <1>2, <2>1, <2>3, <2>4, ClusterBitsGood
<1>3. CASE phase = "routes"
  <2>1. next \in DOMAIN program.routes /\ x = program.routes[next] /\ PipIsKnown(x)
    BY <1>3 DEF EncodingItem, Items, Known, PipIsKnown
  <2>2. ItemSite(x) = TransmissionAt(x) /\ ItemBits(x) = x.bits
    BY <1>3 DEF ItemSite, ItemBits, TransmissionAt
  <2>3. NewBits = TransmissionBits(program.routes[next])
    BY <2>1, <2>2 DEF NewBits, TransmissionBits
  <2>4. IsList(ItemBits(x))
    <3>1. x \in ToSet(program.routes)
      BY <2>1, ItemsListed, ListIndices
    <3> QED
      BY <1>1, <2>2, <3>1 DEF ProgramShape
  <2> QED
    BY <1>3, <2>1, <2>3, <2>4, TransmissionBitsGood
<1> QED
  BY <1>2, <1>3 DEF EncodingItem

\* What the bits of an item add to the image.
LEMMA AssignedEntries ==
    ASSUME NEW t, NEW site, NEW bits, IsList(bits)
    PROVE  /\ IsList(AssignedAll(t, site, bits))
           /\ \A x : x \in ToSet(AssignedAll(t, site, bits)) <=>
                       \E d \in BitsAt(t, site, bits) : Placed(d) /\ x = Entry(d)
<1> DEFINE ss == [i \in DOMAIN bits |-> Assigned(t, site, bits[i])]
           bit(i) == <<t, site, bits[i]>>
<1>1. \A i \in DOMAIN bits : ss[i] = IF Placed(bit(i)) THEN <<Entry(bit(i))>> ELSE <<>>
  BY DEF Assigned, Placed, Entry, Key, SramOfBit
<1>2. \A i \in DOMAIN bits : IsList(ss[i]) /\ \A x : x \in ToSet(ss[i]) <=> (Placed(bit(i)) /\ x = Entry(bit(i)))
  BY <1>1, ShortLists
<1>3. AssignedAll(t, site, bits) = FlattenSeq(ss) /\ ss = [i \in DOMAIN bits |-> ss[i]]
  BY DEF AssignedAll
<1> HIDE DEF ss, bit
<1>4. /\ IsList(FlattenSeq(ss))
      /\ \A x : x \in ToSet(FlattenSeq(ss)) <=> \E i \in DOMAIN bits : x \in ToSet(ss[i])
  BY <1>2, <1>3, Collected
<1>5. BitsAt(t, site, bits) = {bit(i) : i \in DOMAIN bits}
  BY DEF BitsAt, bit
<1>6. \A x : (\E i \in DOMAIN bits : x \in ToSet(ss[i])) <=>
               \E d \in BitsAt(t, site, bits) : Placed(d) /\ x = Entry(d)
  BY <1>2, <1>5
<1> QED
  BY <1>3, <1>4, <1>6

-----------------------------------------------------------------------------
(***************************************************************************)
(* The image holds the encoded bits.                                       *)
(***************************************************************************)
BitsOfItem(x) == IF phase = "sites" THEN ClusterBits(x) ELSE TransmissionBits(x)

LEMMA EncodedAfterItem ==
    ASSUME TypeOK, phase \in {"sites", "routes"}, next \in DOMAIN Items,
           next' = next + 1, UNCHANGED <<phase, chip, program>>
    PROVE  Encoded' = Encoded \union BitsOfItem(Items[next])
<1>1. /\ next \in Nat /\ DOMAIN program.sites \subseteq Nat /\ DOMAIN program.routes \subseteq Nat
  BY ItemsListed, ListIndices DEF TypeOK
<1>2. \A x : ClusterBits(x)' = ClusterBits(x) /\ TransmissionBits(x)' = TransmissionBits(x)
  BY SameItems
<1>3. \A j \in Nat : j < next + 1 <=> (j < next \/ j = next)
  BY <1>1
<1>4. CASE phase = "sites"
  <2>1. Items = program.sites /\ FromRoutes = {} /\ FromRoutes' = {}
    BY <1>4 DEF Items, FromRoutes
  <2>2. FromSites = UNION {ClusterBits(program.sites[i]) : i \in {j \in DOMAIN program.sites : j < next}}
    BY <1>4 DEF FromSites
  <2>3. FromSites' = UNION {ClusterBits(program.sites[i]) : i \in {j \in DOMAIN program.sites : j < next + 1}}
    BY <1>2, <1>4 DEF FromSites
  <2>4. {j \in DOMAIN program.sites : j < next + 1} = {j \in DOMAIN program.sites : j < next} \union {next}
    BY <1>1, <1>3, <2>1
  <2>5. FromSites' = FromSites \union ClusterBits(program.sites[next])
    BY <2>2, <2>3, <2>4
  <2> QED
    BY <1>4, <2>1, <2>5 DEF Encoded, BitsOfItem
<1>5. CASE phase = "routes"
  <2>1. Items = program.routes
    BY <1>5 DEF Items
  <2>2. FromSites' = FromSites
    BY <1>2, <1>5 DEF FromSites
  <2>3. FromRoutes = UNION {TransmissionBits(program.routes[i]) : i \in {j \in DOMAIN program.routes : j < next}}
    BY <1>5 DEF FromRoutes
  <2>4. FromRoutes' = UNION {TransmissionBits(program.routes[i]) : i \in {j \in DOMAIN program.routes : j < next + 1}}
    BY <1>2, <1>5 DEF FromRoutes
  <2>5. {j \in DOMAIN program.routes : j < next + 1} = {j \in DOMAIN program.routes : j < next} \union {next}
    BY <1>1, <1>3, <2>1
  <2>6. FromRoutes' = FromRoutes \union TransmissionBits(program.routes[next])
    BY <2>3, <2>4, <2>5
  <2> QED
    BY <1>5, <2>1, <2>2, <2>6 DEF Encoded, BitsOfItem
<1> QED
  BY <1>4, <1>5

LEMMA EncodedAfterItems ==
    ASSUME TypeOK, ItemsDone
    PROVE  Encoded' = Encoded
<1>1. /\ phase \in {"sites", "routes"} /\ next \notin DOMAIN Items
      /\ UNCHANGED <<chip, program>>
      /\ phase = "sites" => phase' = "routes" /\ next' = 1
      /\ phase = "routes" => phase' = "defaults"
  BY DEF ItemsDone
<1>2. /\ \A j \in DOMAIN program.sites : j \in Nat \ {0}
      /\ \A j \in DOMAIN program.routes : j \in Nat \ {0}
      /\ \A j \in DOMAIN Items : j < next
  <2>1. /\ next \in Nat \ {0}
        /\ Len(Items) \in Nat /\ DOMAIN Items = 1 .. Len(Items)
        /\ Len(program.sites) \in Nat /\ DOMAIN program.sites = 1 .. Len(program.sites)
        /\ Len(program.routes) \in Nat /\ DOMAIN program.routes = 1 .. Len(program.routes)
    BY <1>1, ItemsListed, ListIndices DEF TypeOK
  <2> QED
    BY <1>1, <2>1
<1>3. \A x : ClusterBits(x)' = ClusterBits(x) /\ TransmissionBits(x)' = TransmissionBits(x)
  BY <1>1, SameItems
<1>4. CASE phase = "sites"
  <2>1. {j \in DOMAIN program.sites : phase = "sites" => j < next} = DOMAIN program.sites
    BY <1>2, <1>4 DEF Items
  <2>2. FromSites' = UNION {ClusterBits(program.sites[i]) : i \in DOMAIN program.sites}
    BY <1>1, <1>3, <1>4 DEF FromSites
  <2>3. FromSites' = FromSites
    BY <2>1, <2>2 DEF FromSites
  <2>4. FromRoutes = {}
    BY <1>4 DEF FromRoutes
  <2>5. FromRoutes' = {}
    <3>1. \A j \in DOMAIN program.routes : ~(j < 1)
      BY <1>2
    <3>2. phase' = "routes" /\ next' = 1 /\ program' = program
      BY <1>1, <1>4
    <3> QED
      BY <3>1, <3>2 DEF FromRoutes
  <2> QED
    BY <2>3, <2>4, <2>5 DEF Encoded
<1>5. CASE phase = "routes"
  <2>1. {j \in DOMAIN program.routes : phase # "sites" /\ (phase = "routes" => j < next)} = DOMAIN program.routes
    BY <1>2, <1>5 DEF Items
  <2>2. FromRoutes' = UNION {TransmissionBits(program.routes[i]) : i \in DOMAIN program.routes}
    BY <1>1, <1>3, <1>5 DEF FromRoutes
  <2>3. FromRoutes' = FromRoutes
    BY <2>1, <2>2 DEF FromRoutes
  <2>4. FromSites' = FromSites
    BY <1>1, <1>3, <1>5 DEF FromSites
  <2> QED
    BY <2>3, <2>4 DEF Encoded
<1> QED
  BY <1>1, <1>4, <1>5

LEMMA EncodedKept ==
    ASSUME phase \in {"defaults", "bits"}, phase' \in {"defaults", "bits", "done"},
           UNCHANGED <<chip, program>>
    PROVE  Encoded' = Encoded
<1>1. \A x : ClusterBits(x)' = ClusterBits(x) /\ TransmissionBits(x)' = TransmissionBits(x)
  BY SameItems
<1>2. FromSites' = FromSites
  BY <1>1 DEF FromSites
<1>3. FromRoutes' = FromRoutes
  BY <1>1 DEF FromRoutes
<1> QED
  BY <1>2, <1>3 DEF Encoded

\* What a list of assignments makes of the image.
KeyOf(a) == <<a.tile, a.place>>

LEMMA InsertedEntries ==
    ASSUME NEW assigned, IsList(assigned), IsFiniteSet(DOMAIN image)
    PROVE  /\ IsFiniteSet(DOMAIN Inserted(assigned))
           /\ \A k : k \in DOMAIN Inserted(assigned) <=>
                       (k \in DOMAIN image \/ \E a \in ToSet(assigned) : KeyOf(a) = k)
           /\ \A k \in DOMAIN Inserted(assigned) :
                IF \E a \in ToSet(assigned) : KeyOf(a) = k
                THEN \E a \in ToSet(assigned) : KeyOf(a) = k /\ Inserted(assigned)[k] = a
                ELSE k \in DOMAIN image /\ Inserted(assigned)[k] = image[k]
<1> DEFINE places == {KeyOf(assigned[i]) : i \in DOMAIN assigned}
           im == Inserted(assigned)
           I(k) == {i \in DOMAIN assigned : KeyOf(assigned[i]) = k}
<1>1. /\ DOMAIN assigned \in SUBSET Int /\ IsFiniteSet(DOMAIN assigned)
      /\ \A i \in DOMAIN assigned : assigned[i] \in ToSet(assigned)
      /\ \A a \in ToSet(assigned) : \E i \in DOMAIN assigned : assigned[i] = a
  BY ListIndices
<1>2. im = [k \in DOMAIN image \union places |-> IF k \in places THEN assigned[Max(I(k))] ELSE image[k]]
  BY DEF Inserted, KeyOf
<1>3. \A k : k \in places <=> \E a \in ToSet(assigned) : KeyOf(a) = k
  BY <1>1
<1>4. IsFiniteSet(places)
  <2> DEFINE f == [i \in DOMAIN assigned |-> KeyOf(assigned[i])]
  <2>1. IsFiniteSet({f[i] : i \in DOMAIN assigned})
    <3> HIDE DEF f
    <3> QED
      BY <1>1, FiniteValues
  <2>2. {f[i] : i \in DOMAIN assigned} = places
    OBVIOUS
  <2> QED
    BY <2>1, <2>2
<1>5. \A k \in places : Max(I(k)) \in I(k)
  <2> SUFFICES ASSUME NEW k \in places PROVE Max(I(k)) \in I(k)
    OBVIOUS
  <2>1. I(k) # {} /\ I(k) \in SUBSET Int
    BY <1>1
  <2>2. IsFiniteSet(I(k))
    <3>1. I(k) \in SUBSET DOMAIN assigned
      OBVIOUS
    <3> QED
      BY <1>1, <3>1, FS_Subset
  <2> HIDE DEF I
  <2> QED
    BY <2>1, <2>2, MaxOfFinite
<1>6. \A k \in places : im[k] \in ToSet(assigned) /\ KeyOf(im[k]) = k
  BY <1>1, <1>2, <1>5
<1>7. IsFiniteSet(DOMAIN im)
  <2> HIDE DEF places, im
  <2>1. IsFiniteSet(DOMAIN image \union places)
    BY <1>4, FS_Union
  <2> QED
    BY <1>2, <2>1
<1>8. \A k : k \in DOMAIN im <=> (k \in DOMAIN image \/ \E a \in ToSet(assigned) : KeyOf(a) = k)
  <2> HIDE DEF places
  <2> QED
    BY <1>2, <1>3
<1>9. ASSUME NEW k \in DOMAIN im
      PROVE  IF \E a \in ToSet(assigned) : KeyOf(a) = k
             THEN \E a \in ToSet(assigned) : KeyOf(a) = k /\ im[k] = a
             ELSE k \in DOMAIN image /\ im[k] = image[k]
  <2> HIDE DEF places, im
  <2>1. CASE k \in places
    BY <1>3, <1>6, <2>1
  <2>2. CASE k \notin places
    BY <1>2, <1>3, <2>2
  <2> QED
    BY <2>1, <2>2
<1> QED
  BY <1>7, <1>8, <1>9

\* The bits of the next item among those of the image.
LEMMA EncodeKeepsImage ==
    ASSUME TypeOK, ImageOfEncoded, EncodedInImage, EncodingItem, UNCHANGED chip,
           NEW assigned,
           assigned = AssignedAll(Items[next].tile, ItemSite(Items[next]), ItemBits(Items[next])),
           Agree(assigned), image' = Inserted(assigned), Encoded' = Encoded \union NewBits
    PROVE  ImageOfEncoded' /\ EncodedInImage' /\ IsFiniteSet(DOMAIN image')
<1>1. /\ IsList(assigned)
      /\ \A x : x \in ToSet(assigned) <=> \E d \in NewBits : Placed(d) /\ x = Entry(d)
  BY NewBitsGood, AssignedEntries DEF NewBits
<1>2. /\ IsFiniteSet(DOMAIN image')
      /\ \A k : k \in DOMAIN image' <=> (k \in DOMAIN image \/ \E a \in ToSet(assigned) : KeyOf(a) = k)
      /\ \A k \in DOMAIN image' :
           IF \E a \in ToSet(assigned) : KeyOf(a) = k
           THEN \E a \in ToSet(assigned) : KeyOf(a) = k /\ image'[k] = a
           ELSE k \in DOMAIN image /\ image'[k] = image[k]
  <2>1. IsFiniteSet(DOMAIN image)
    BY DEF TypeOK
  <2> QED
    BY <1>1, <2>1, InsertedEntries
<1>3. \A d : (Placed(d)' <=> Placed(d)) /\ (Lands(d)' <=> Lands(d)) /\ Key(d)' = Key(d) /\ Entry(d)' = Entry(d)
  BY SameLibrary
<1>4. \A d : KeyOf(Entry(d)) = Key(d)
  BY DEF KeyOf, Entry, Key
<1>5. ImageOfEncoded'
  <2> SUFFICES ASSUME NEW k \in DOMAIN image'
               PROVE  \E d \in Encoded' : Placed(d) /\ k = Key(d) /\ image'[k] = Entry(d)
    BY <1>3 DEF ImageOfEncoded
  <2>1. CASE \E a \in ToSet(assigned) : KeyOf(a) = k
    <3>1. PICK a \in ToSet(assigned) : KeyOf(a) = k /\ image'[k] = a
      BY <1>2, <2>1
    <3>2. PICK d \in NewBits : Placed(d) /\ a = Entry(d)
      BY <1>1, <3>1
    <3> QED
      BY <1>4, <3>1, <3>2
  <2>2. CASE ~\E a \in ToSet(assigned) : KeyOf(a) = k
    <3>1. k \in DOMAIN image /\ image'[k] = image[k]
      BY <1>2, <2>2
    <3> QED
      BY <3>1 DEF ImageOfEncoded
  <2> QED
    BY <2>1, <2>2
<1>6. /\ chip \in Chips /\ \A d \in Encoded : Good(d) /\ Good(d) /\ \A e \in NewBits : Good(e)
  BY EncodedGood, NewBitsGood DEF TypeOK
<1>7. ASSUME NEW d \in Encoded', Lands(d), NEW e \in NewBits, Placed(e), Key(e) = Key(d)
      PROVE  Lands(e)
  <2> SUFFICES ASSUME ~Lands(e) PROVE FALSE
    OBVIOUS
  <2>1. Good(d) /\ Good(e)
    BY <1>6, NewBitsGood
  <2>2. e[2] \in ToSet(Def(e[1]).clusters) /\ d[2] \in ToSet(Def(d[1]).transmissions)
    BY <1>6, <1>7, <2>1, InTheWay
  <2>3. d[1] \in KnownTiles /\ e[1] \in KnownTiles
    BY <2>1 DEF Good
  <2>4. CASE phase = "sites"
    <3>1. d[2] \in ToSet(Def(d[1]).clusters)
      BY <2>4, EncodedGood, NewBitsGood DEF Encoded
    <3> QED
      BY <1>6, <2>2, <2>3, <3>1, ClusterOrTransmission
  <2>5. CASE phase # "sites"
    <3>1. e[2] \in ToSet(Def(e[1]).transmissions)
      BY <2>5, NewBitsGood
    <3> QED
      BY <1>6, <2>2, <2>3, <3>1, ClusterOrTransmission
  <2> QED
    BY <2>4, <2>5
<1>8. ASSUME NEW d \in Encoded', Lands(d), NEW e \in NewBits, Placed(e), Key(e) = Key(d)
      PROVE  d[3].value = e[3].value
  <2>1. Entry(e) \in ToSet(assigned)
    BY <1>1, <1>8
  <2>2. PICK i \in DOMAIN assigned : assigned[i] = Entry(e)
    BY <1>1, <2>1, ListIndices
  <2>3. Entry(e).value = e[3].value /\ Entry(d).value = d[3].value
    BY DEF Entry
  <2>4. /\ Entry(e).tile = Key(e)[1] /\ Entry(e).place = Key(e)[2] /\ Key(e) = <<Key(e)[1], Key(e)[2]>>
        /\ Entry(d).tile = Key(d)[1] /\ Entry(d).place = Key(d)[2]
    BY DEF Entry, Key
  <2>5. CASE d \in Encoded
    <3>1. Key(d) \in DOMAIN image /\ image[Key(d)] = Entry(d)
      BY <1>8, <2>5 DEF EncodedInImage
    <3>2. image[Key(d)].value = Entry(e).value
      BY <1>8, <2>2, <2>4, <3>1 DEF Agree
    <3> QED
      BY <2>3, <3>1, <3>2
  <2>6. CASE d \in NewBits
    <3>1. Entry(d) \in ToSet(assigned)
      BY <1>1, <1>8, <2>6 DEF Lands
    <3>2. PICK j \in DOMAIN assigned : assigned[j] = Entry(d)
      BY <1>1, <3>1, ListIndices
    <3>3. assigned[j].value = assigned[i].value
      BY <1>8, <2>2, <2>4, <3>2 DEF Agree
    <3> QED
      BY <2>2, <2>3, <3>2, <3>3
  <2> QED
    BY <2>5, <2>6
<1>9. ASSUME NEW d \in Encoded', Lands(d)
      PROVE  Key(d) \in DOMAIN image' /\ image'[Key(d)] = Entry(d)
  <2>1. CASE \E a \in ToSet(assigned) : KeyOf(a) = Key(d)
    <3>1. Key(d) \in DOMAIN image'
      BY <1>2, <2>1
    <3>2. PICK a \in ToSet(assigned) : KeyOf(a) = Key(d) /\ image'[Key(d)] = a
      BY <1>2, <2>1, <3>1
    <3>3. PICK e \in NewBits : Placed(e) /\ a = Entry(e)
      BY <1>1, <3>2
    <3>4. Key(e) = Key(d)
      BY <1>4, <3>2, <3>3
    <3>5. Lands(e) /\ d[3].value = e[3].value
      BY <1>7, <1>8, <1>9, <3>3, <3>4
    <3>6. d[2] = e[2] /\ d[3].name = e[3].name
      BY <1>6, <1>9, <3>4, <3>5, NewBitsGood, SamePlaceSameBit
    <3>7. Entry(d) = Entry(e)
      BY <3>4, <3>5, <3>6 DEF Entry
    <3> QED
      BY <3>1, <3>2, <3>3, <3>7
  <2>2. CASE ~\E a \in ToSet(assigned) : KeyOf(a) = Key(d)
    <3>1. d \notin NewBits
      <4> SUFFICES ASSUME d \in NewBits PROVE FALSE
        OBVIOUS
      <4>1. Entry(d) \in ToSet(assigned)
        BY <1>1, <1>9 DEF Lands
      <4> QED
        BY <1>4, <2>2, <4>1
    <3>2. Key(d) \in DOMAIN image /\ image[Key(d)] = Entry(d)
      BY <1>9, <3>1 DEF EncodedInImage
    <3> QED
      BY <1>2, <2>2, <3>2
  <2> QED
    BY <2>1, <2>2
<1>10. EncodedInImage'
  <2> SUFFICES ASSUME NEW d \in Encoded', Lands(d)'
               PROVE  (Key(d) \in DOMAIN image /\ image[Key(d)] = Entry(d))'
    BY DEF EncodedInImage
  <2>1. Lands(d) /\ Key(d)' = Key(d) /\ Entry(d)' = Entry(d)
    BY <1>3
  <2> QED
    BY <1>9, <2>1
<1> QED
  BY <1>2, <1>5, <1>10

-----------------------------------------------------------------------------
(***************************************************************************)
(* What a pass over a tile writes.                                         *)
(***************************************************************************)
Write(d) == [tile |-> Key(d)[1], place |-> Key(d)[2], value |-> d[3].value]

LEMMA MappedWriteOf ==
    ASSUME chip \in Chips, NEW d, Good(d)
    PROVE  MappedWrite(d[1], SramOfBit(d), d[3].value) = IF Lands(d) THEN <<Write(d)>> ELSE <<>>
<1> DEFINE m == SramOfBit(d)
<1>1. CASE ~Placed(d)
  BY <1>1 DEF Placed, Lands, MappedWrite
<1>2. CASE Placed(d) /\ ~Lands(d)
  <2>1. m.offset # None /\ d[1] + m.offset \notin Tiles
    BY <1>2 DEF Lands
  <2>2. MappedTile(d[1], m) = None
    BY <2>1 DEF MappedTile
  <2> QED
    BY <1>2, <2>2 DEF MappedWrite
<1>3. CASE Lands(d)
  <2>1. m # None /\ m.place # None /\ (m.offset = None \/ d[1] + m.offset \in Tiles)
    BY <1>3 DEF Lands, Placed
  <2>2. PICK i : Library(d, i)
    BY <2>1, BitInLibrary
  <2>3. Key(d)[1] \in Tiles /\ Key(d)[1] = IF m.offset = None THEN d[1] ELSE d[1] + m.offset
    BY <1>3, <2>2, LandsAtHome
  <2>4. MappedTile(d[1], m) = Key(d)[1]
    BY <2>1, <2>3 DEF MappedTile
  <2>5. MappedTile(d[1], m) # None
    BY <2>3, <2>4, TilesInARow, NoneAssumption
  <2>6. Key(d)[2] = m.place
    BY DEF Key
  <2> QED
    BY <1>3, <2>1, <2>4, <2>5, <2>6 DEF MappedWrite, Write
<1> QED
  BY <1>1, <1>2, <1>3

\* A bit that was moved is not moved again, one that leads off the chip is dropped.
LEMMA AssignmentWriteOf ==
    ASSUME chip \in Chips, NEW d, Good(d), Placed(d), d[2] # None, Key(d)[1] \in KnownTiles
    PROVE  AssignmentWrite(Entry(d)) = IF Lands(d) THEN <<Write(d)>> ELSE <<>>
<1> DEFINE m == SramOfBit(d)
           a == Entry(d)
<1>1. m # None /\ m.place # None
  BY DEF Placed
<1>2. PICK i : Library(d, i)
  BY <1>1, BitInLibrary
<1>3. /\ a.tile = Key(d)[1] /\ a.place = Key(d)[2] /\ a.site = d[2].name
      /\ a.name = d[3].name /\ a.value = d[3].value
  BY DEF Entry
<1>4. d[1] \in KnownTiles /\ d[2] \in ToSet(SitesOf(d[1]))
  BY DEF Good
<1>5. CASE Key(d)[1] = d[1] /\ (m.offset = None \/ ~Lands(d))
  <2>1. NamedSite(SitesOf(a.tile), a.site) = d[2]
    <3>1. IsList(SitesOf(d[1]))
      BY <1>4, SitesListed
    <3>2. PICK j \in DOMAIN SitesOf(d[1]) : SitesOf(d[1])[j] = d[2]
      BY <1>4, <3>1, ListIndices
    <3>3. \A k \in DOMAIN SitesOf(d[1]) : SitesOf(d[1])[k].name = SitesOf(d[1])[j].name => k = j
      BY <1>4, <3>2, NamesApart
    <3>4. NamedSite(SitesOf(d[1]), SitesOf(d[1])[j].name) = SitesOf(d[1])[j]
      BY <3>1, <3>3, NamedSiteIs
    <3> QED
      BY <1>3, <1>5, <3>2, <3>4
  <2>2. AssignmentSram(a) = m
    BY <1>3, <2>1 DEF AssignmentSram, SramOfBit
  <2>3. AssignmentWrite(a) = MappedWrite(d[1], m, d[3].value)
    BY <1>1, <1>3, <1>5, <2>2 DEF AssignmentWrite
  <2> QED
    BY <2>3, MappedWriteOf
<1>6. CASE m.offset # None /\ Lands(d)
  <2>1. Key(d)[1] = d[1] + m.offset
    BY <1>2, <1>6, LandsAtHome
  <2>2. AssignmentSram(a) = None
    <3> DEFINE T == Key(d)[1]
               site == NamedSite(SitesOf(T), d[2].name)
               e == <<T, site, d[3]>>
    <3> SUFFICES ASSUME AssignmentSram(a) # None PROVE FALSE
      OBVIOUS
    <3>1. site # None /\ SramOf(site, d[3].name) # None
      BY <1>3 DEF AssignmentSram
    <3>2. IsList(SitesOf(T))
      BY SitesListed
    <3>3. \E j \in DOMAIN SitesOf(T) : site = SitesOf(T)[j] /\ SitesOf(T)[j].name = d[2].name
      BY <3>1, <3>2, NamedSiteFound
    <3>4. site \in ToSet(SitesOf(T)) /\ site.name = d[2].name
      BY <3>2, <3>3, ListIndices
    <3>5. Good(e) /\ SramOfBit(e) # None
      BY <3>1, <3>4 DEF Good, SramOfBit
    <3>6. PICK j : Library(e, j)
      BY <3>5, BitInLibrary
    <3> DEFINE x == <<d[1], d[2], i>>
               y == <<T, site, j>>
    <3>7. /\ x \in SramsAt(chip) /\ y \in SramsAt(chip)
          /\ x[2].srams[x[3]] = m /\ m.name = d[3].name
          /\ y[2].srams[y[3]].name = d[3].name
      BY <1>2, <3>6 DEF Library
    <3>8. y[2].srams[y[3]].name # m.name
      BY <1>6, <2>1, <3>4, <3>7, LibraryAssumption, ZenonT(40) DEF ChipAssumption
    <3> QED
      BY <3>7, <3>8
  <2>3. AssignmentWrite(a) = <<Write(d)>>
    BY <1>3, <2>2 DEF AssignmentWrite, Write
  <2> QED
    BY <1>6, <2>3
<1>7. Lands(d) /\ m.offset = None => Key(d)[1] = d[1]
  BY <1>2, LandsAtHome
<1>8. ~Lands(d) => Key(d)[1] = d[1]
  <2> SUFFICES ASSUME ~Lands(d) PROVE Key(d)[1] = d[1]
    OBVIOUS
  <2>1. Key(d) = <<d[1], m.place>>
    BY <1>2, OffStays
  <2> QED
    BY <2>1
<1> QED
  BY <1>5, <1>6, <1>7, <1>8

LEMMA WrittenCell ==
    ASSUME NEW writes, IsList(writes), NEW t \in KnownTiles, NEW p \in Places(t)
    PROVE  IF \E w \in ToSet(writes) : w.tile = t /\ w.place = p
           THEN \E w \in ToSet(writes) :
                  w.tile = t /\ w.place = p /\ Written(writes)[t][p] = w.value % 2
           ELSE Written(writes)[t][p] = frames[t][p]
<1> DEFINE hits == {i \in DOMAIN writes : writes[i].tile = t /\ writes[i].place = p}
<1>1. /\ DOMAIN writes \in SUBSET Int /\ IsFiniteSet(DOMAIN writes)
      /\ \A i \in DOMAIN writes : writes[i] \in ToSet(writes)
      /\ \A w \in ToSet(writes) : \E i \in DOMAIN writes : writes[i] = w
  BY ListIndices
<1>2. Written(writes)[t][p] = IF hits = {} THEN frames[t][p] ELSE writes[Max(hits)].value % 2
  BY DEF Written
<1>3. hits = {} <=> ~\E w \in ToSet(writes) : w.tile = t /\ w.place = p
  BY <1>1
<1>4. hits # {} => Max(hits) \in hits
  <2>1. hits \in SUBSET DOMAIN writes /\ hits \in SUBSET Int
    BY <1>1
  <2>2. IsFiniteSet(hits)
    BY <1>1, <2>1, FS_Subset
  <2> HIDE DEF hits
  <2> QED
    BY <2>1, <2>2, MaxOfFinite
<1>5. CASE hits = {}
  BY <1>2, <1>3, <1>5
<1>6. CASE hits # {}
  <2>1. Max(hits) \in DOMAIN writes /\ writes[Max(hits)].tile = t /\ writes[Max(hits)].place = p
    BY <1>4, <1>6
  <2>2. Written(writes)[t][p] = writes[Max(hits)].value % 2
    BY <1>2, <1>6
  <2> HIDE DEF hits
  <2> QED
    BY <1>1, <1>3, <1>6, <2>1, <2>2
<1> QED
  BY <1>5, <1>6

(* The writes of a list are those of a set of bits, which agree. *)
WritesOf(writes, bits) ==
  IsList(writes) /\ \A w : w \in ToSet(writes) <=> \E d \in bits : Lands(d) /\ w = Write(d)

Agreeing(bits) ==
  \A d, e \in bits : Lands(d) /\ Lands(e) /\ Key(d) = Key(e) => d[3].value = e[3].value

LEMMA CellAfterWrites ==
    ASSUME NEW bits, NEW writes, WritesOf(writes, bits), Agreeing(bits),
           NEW t \in KnownTiles, NEW p \in Places(t)
    PROVE  /\ \A d \in bits : LandsAt(d, t, p) => Written(writes)[t][p] = d[3].value % 2
           /\ ~Hit(bits, t, p) => Written(writes)[t][p] = frames[t][p]
<1>1. \A d : /\ Write(d).tile = Key(d)[1] /\ Write(d).place = Key(d)[2] /\ Write(d).value = d[3].value
             /\ Key(d) = <<Key(d)[1], Key(d)[2]>>
  BY DEF Write, Key
<1>2. ASSUME NEW d
      PROVE  LandsAt(d, t, p) <=> (Lands(d) /\ Write(d).tile = t /\ Write(d).place = p)
  <2>1. Key(d) = <<Key(d)[1], Key(d)[2]>>
    BY <1>1
  <2>2. Key(d) = <<t, p>> <=> (Key(d)[1] = t /\ Key(d)[2] = p)
    BY <2>1
  <2>3. Write(d).tile = Key(d)[1] /\ Write(d).place = Key(d)[2]
    BY <1>1
  <2> QED
    BY <2>2, <2>3 DEF LandsAt
<1>3. /\ IsList(writes)
      /\ \A w : w \in ToSet(writes) <=> \E d \in bits : Lands(d) /\ w = Write(d)
  BY DEF WritesOf
<1>4. (\E w \in ToSet(writes) : w.tile = t /\ w.place = p) <=> Hit(bits, t, p)
  BY <1>2, <1>3 DEF Hit
<1>5. ASSUME NEW d \in bits, LandsAt(d, t, p) PROVE Written(writes)[t][p] = d[3].value % 2
  <2>1. PICK w \in ToSet(writes) : w.tile = t /\ w.place = p /\ Written(writes)[t][p] = w.value % 2
    <3>1. Hit(bits, t, p)
      BY <1>5 DEF Hit
    <3> QED
      BY <1>3, <1>4, <3>1, WrittenCell
  <2>2. PICK e \in bits : Lands(e) /\ w = Write(e)
    BY <1>3
  <2>3. Lands(d) /\ Key(d) = Key(e)
    BY <1>1, <1>5, <2>1, <2>2 DEF LandsAt
  <2>4. d[3].value = e[3].value
    BY <2>2, <2>3 DEF Agreeing
  <2> QED
    BY <1>1, <2>1, <2>2, <2>4
<1>6. ~Hit(bits, t, p) => Written(writes)[t][p] = frames[t][p]
  BY <1>3, <1>4, WrittenCell
<1> QED
  BY <1>5, <1>6

-----------------------------------------------------------------------------
(***************************************************************************)
(* The two passes.                                                         *)
(***************************************************************************)
LEMMA DefaultsGood ==
    ASSUME chip \in Chips, NEW t \in KnownTiles, NEW d \in DefaultBitsAt(t)
    PROVE  /\ Good(d) /\ d[1] = t
           /\ \E i \in DOMAIN DefaultBits(chip, d[2]) : DefaultBits(chip, d[2])[i] = d[3]
<1>1. PICK i \in DOMAIN SitesOf(t) : d \in BitsAt(t, SitesOf(t)[i], DefaultBits(chip, SitesOf(t)[i]))
  BY DEF DefaultBitsAt
<1>2. SitesOf(t)[i] \in ToSet(SitesOf(t))
  BY SitesListed, ListIndices
<1>3. PICK j \in DOMAIN DefaultBits(chip, SitesOf(t)[i]) :
        d = <<t, SitesOf(t)[i], DefaultBits(chip, SitesOf(t)[i])[j]>>
  BY <1>1 DEF BitsAt
<1> QED
  BY <1>2, <1>3 DEF Good

LEMMA DefaultsAgree ==
    ASSUME chip \in Chips
    PROVE  Agreeing(AllDefaults)
<1> SUFFICES ASSUME NEW d \in AllDefaults, NEW e \in AllDefaults,
                    Lands(d), Lands(e), Key(d) = Key(e)
             PROVE  d[3].value = e[3].value
  BY DEF Agreeing
<1>1. PICK t \in KnownTiles : d \in DefaultBitsAt(t)
  BY DEF AllDefaults
<1>2. PICK u \in KnownTiles : e \in DefaultBitsAt(u)
  BY DEF AllDefaults
<1>3. Good(d) /\ Good(e) /\ d[1] = t
  BY <1>1, <1>2, DefaultsGood
<1>4. d[2] = e[2] /\ d[3].name = e[3].name
  BY <1>3, SamePlaceSameBit
<1> DEFINE bits == DefaultBits(chip, d[2])
<1>5. PICK i \in DOMAIN bits : bits[i] = d[3]
  BY <1>1, DefaultsGood
<1>6. PICK j \in DOMAIN bits : bits[j] = e[3]
  BY <1>2, <1>4, DefaultsGood
<1>7. \A k, l \in DOMAIN bits : bits[k].name = bits[l].name => bits[k].value = bits[l].value
  <2>1. ChipAssumption(chip) /\ chip.typeAt[t] \in DOMAIN chip.types
    BY LibraryAssumption DEF KnownTiles
  <2>2. d[2] \in ToSet(SitesOfType(chip.types[chip.typeAt[t]]))
    BY <1>3 DEF Good, SitesOf, Def
  <2> QED
    BY <2>1, <2>2 DEF ChipAssumption
<1> QED
  BY <1>4, <1>5, <1>6, <1>7

LEMMA EncodedAgree ==
    ASSUME EncodedInImage
    PROVE  Agreeing(Encoded)
<1> SUFFICES ASSUME NEW d \in Encoded, NEW e \in Encoded, Lands(d), Lands(e), Key(d) = Key(e)
             PROVE  d[3].value = e[3].value
  BY DEF Agreeing
<1>1. Entry(d) = Entry(e)
  BY DEF EncodedInImage
<1>2. Entry(d).value = d[3].value /\ Entry(e).value = e[3].value
  BY DEF Entry
<1> QED
  BY <1>1, <1>2

LEMMA DefaultWritesOf ==
    ASSUME chip \in Chips, NEW t \in KnownTiles
    PROVE  WritesOf(DefaultWrites(t), DefaultBitsAt(t))
<1> DEFINE sites == SitesOf(t)
           bits(i) == DefaultBits(chip, sites[i])
           inner(i) == [j \in DOMAIN bits(i) |-> MappedWrite(t, SramOf(sites[i], bits(i)[j].name), bits(i)[j].value)]
           bit(i, j) == <<t, sites[i], bits(i)[j]>>
           ss == [i \in DOMAIN sites |-> FlattenSeq(inner(i))]
<1>1. IsList(sites) /\ \A i \in DOMAIN sites : sites[i] \in ToSet(sites)
  BY SitesListed, ListIndices
<1>2. DefaultWrites(t) = FlattenSeq(ss)
  BY DEF DefaultWrites
<1>3. ASSUME NEW i \in DOMAIN sites
      PROVE  /\ IsList(ss[i])
             /\ \A w : w \in ToSet(ss[i]) <=> \E d \in BitsAt(t, sites[i], bits(i)) : Lands(d) /\ w = Write(d)
  <2>1. IsList(bits(i))
    BY DefaultBitsListed
  <2> DEFINE f == inner(i)
  <2>2. \A j \in DOMAIN bits(i) : f[j] = IF Lands(bit(i, j)) THEN <<Write(bit(i, j))>> ELSE <<>>
    <3> SUFFICES ASSUME NEW j \in DOMAIN bits(i)
                 PROVE  f[j] = IF Lands(bit(i, j)) THEN <<Write(bit(i, j))>> ELSE <<>>
      OBVIOUS
    <3>1. Good(bit(i, j))
      BY <1>1 DEF Good
    <3>2. f[j] = MappedWrite(bit(i, j)[1], SramOfBit(bit(i, j)), bit(i, j)[3].value)
      BY DEF SramOfBit
    <3> HIDE DEF f, bit
    <3> QED
      BY <3>1, <3>2, MappedWriteOf
  <2>3. \A j \in DOMAIN bits(i) :
          IsList(f[j]) /\ \A w : w \in ToSet(f[j]) <=> (Lands(bit(i, j)) /\ w = Write(bit(i, j)))
    <3> HIDE DEF f, bit
    <3> QED
      BY <2>2, ShortLists
  <2>4. f = [j \in DOMAIN bits(i) |-> f[j]] /\ ss[i] = FlattenSeq(f)
    OBVIOUS
  <2>5. BitsAt(t, sites[i], bits(i)) = {bit(i, j) : j \in DOMAIN bits(i)}
    BY DEF BitsAt
  <2> HIDE DEF f, bit, ss, bits
  <2>6. /\ IsList(FlattenSeq(f))
        /\ \A w : w \in ToSet(FlattenSeq(f)) <=> \E j \in DOMAIN bits(i) : w \in ToSet(f[j])
    BY <2>1, <2>3, <2>4, Collected
  <2>7. \A w : (\E j \in DOMAIN bits(i) : w \in ToSet(f[j])) <=>
                 \E d \in BitsAt(t, sites[i], bits(i)) : Lands(d) /\ w = Write(d)
    BY <2>3, <2>5
  <2> QED
    BY <2>4, <2>6, <2>7
<1>4. ss = [i \in DOMAIN sites |-> ss[i]]
  OBVIOUS
<1>5. DefaultBitsAt(t) = UNION {BitsAt(t, sites[i], bits(i)) : i \in DOMAIN sites}
  BY DEF DefaultBitsAt
<1> HIDE DEF ss, bits, sites
<1>6. /\ IsList(FlattenSeq(ss))
      /\ \A w : w \in ToSet(FlattenSeq(ss)) <=> \E i \in DOMAIN sites : w \in ToSet(ss[i])
  BY <1>1, <1>3, <1>4, Collected
<1>7. \A w : (\E i \in DOMAIN sites : w \in ToSet(ss[i])) <=>
               \E d \in DefaultBitsAt(t) : Lands(d) /\ w = Write(d)
  BY <1>3, <1>5
<1> QED
  BY <1>2, <1>6, <1>7 DEF WritesOf

\* The assignments of a tile are those the image has for it.
LEMMA AssignmentsListed ==
    ASSUME TypeOK, ImageOfEncoded, NEW t
    PROVE  /\ IsList(AssignmentsOf(t))
           /\ \A a : a \in ToSet(AssignmentsOf(t)) <=> \E k \in DOMAIN image : k[1] = t /\ a = image[k]
<1> DEFINE mine == {k \in DOMAIN image : k[1] = t}
           places == {k[2] : k \in mine}
           as == AssignmentsOf(t)
<1>1. \A k \in DOMAIN image : k = <<k[1], k[2]>> /\ k[2] \in Int
  <2> SUFFICES ASSUME NEW k \in DOMAIN image PROVE k = <<k[1], k[2]>> /\ k[2] \in Int
    OBVIOUS
  <2>1. PICK d \in Encoded : Placed(d) /\ k = Key(d)
    BY DEF ImageOfEncoded
  <2>2. Good(d) /\ chip \in Chips
    BY EncodedGood DEF TypeOK
  <2>3. Key(d)[2] \in Nat
    BY <2>1, <2>2, KeysOnTheChip
  <2> QED
    BY <2>1, <2>3 DEF Key
<1>2. places \in SUBSET Int /\ IsFiniteSet(places)
  <2>1. IsFiniteSet(mine)
    <3>1. mine \in SUBSET DOMAIN image /\ IsFiniteSet(DOMAIN image)
      BY DEF TypeOK
    <3> QED
      BY <3>1, FS_Subset
  <2> DEFINE f == [k \in mine |-> k[2]]
  <2>2. IsFiniteSet({f[k] : k \in mine})
    <3> HIDE DEF f, mine
    <3> QED
      BY <2>1, FiniteValues
  <2>3. {f[k] : k \in mine} = places
    OBVIOUS
  <2> QED
    BY <1>1, <2>2, <2>3
<1> DEFINE n == Cardinality(places)
<1>3. /\ n \in Nat
      /\ \A i \in 1 .. n : Nth(places, i) \in places
      /\ \A p \in places : \E i \in 1 .. n : Nth(places, i) = p
  <2> HIDE DEF places
  <2> QED
    BY <1>2, Ordered, FS_CardinalityType
<1>4. as = [i \in 1 .. n |-> image[<<t, Nth(places, i)>>]]
  BY DEF AssignmentsOf
<1>5. IsList(as)
  <2>1. as = [i \in 1 .. n |-> as[i]]
    BY <1>4
  <2> HIDE DEF as, n
  <2> QED
    BY <1>3, <2>1, ListOf
<1>6. \A p : p \in places <=> <<t, p>> \in DOMAIN image
  BY <1>1
<1>7. ASSUME NEW a, a \in ToSet(as) PROVE \E k \in DOMAIN image : k[1] = t /\ a = image[k]
  <2>1. PICK i \in 1 .. n : a = image[<<t, Nth(places, i)>>]
    BY <1>4, <1>7 DEF ToSet
  <2>2. <<t, Nth(places, i)>> \in DOMAIN image
    BY <1>3, <1>6
  <2> QED
    BY <2>1, <2>2
<1>8. ASSUME NEW k \in DOMAIN image, k[1] = t PROVE image[k] \in ToSet(as)
  <2>1. k = <<t, k[2]>> /\ k[2] \in places
    BY <1>1, <1>8
  <2>2. PICK i \in 1 .. n : Nth(places, i) = k[2]
    BY <1>3, <2>1
  <2>3. as[i] = image[k] /\ i \in DOMAIN as
    BY <1>4, <2>1, <2>2
  <2> QED
    BY <2>3 DEF ToSet
<1> QED
  BY <1>5, <1>7, <1>8

(* The encoded bits that land in a tile. *)
LandingIn(t) == {d \in Encoded : Lands(d) /\ Key(d)[1] = t}

LEMMA AssignmentWritesOf ==
    ASSUME TypeOK, ImageOfEncoded, EncodedInImage, NEW t \in KnownTiles
    PROVE  WritesOf(AssignmentWrites(t), LandingIn(t))
<1> DEFINE as == AssignmentsOf(t)
           ss == [i \in DOMAIN as |-> AssignmentWrite(as[i])]
<1>1. /\ IsList(as)
      /\ \A a : a \in ToSet(as) <=> \E k \in DOMAIN image : k[1] = t /\ a = image[k]
  BY AssignmentsListed
<1>2. AssignmentWrites(t) = FlattenSeq(ss) /\ ss = [i \in DOMAIN as |-> ss[i]]
  BY DEF AssignmentWrites
<1>3. \A d \in Encoded : Placed(d) /\ Key(d)[1] = t =>
          AssignmentWrite(Entry(d)) = IF Lands(d) THEN <<Write(d)>> ELSE <<>>
  <2> SUFFICES ASSUME NEW d \in Encoded, Placed(d), Key(d)[1] = t
               PROVE  AssignmentWrite(Entry(d)) = IF Lands(d) THEN <<Write(d)>> ELSE <<>>
    OBVIOUS
  <2>1. Good(d) /\ chip \in Chips /\ d[2] # None
    BY EncodedGood, EncodedSite DEF TypeOK
  <2> QED
    BY <2>1, AssignmentWriteOf
<1>4. \A a \in ToSet(as) : \E d \in Encoded : Placed(d) /\ Key(d)[1] = t /\ a = Entry(d)
  BY <1>1 DEF ImageOfEncoded
<1>5. \A d \in LandingIn(t) : Entry(d) \in ToSet(as)
  BY <1>1 DEF LandingIn, EncodedInImage
<1>6. \A i \in DOMAIN as : as[i] \in ToSet(as)
  BY <1>1, ListIndices
<1>7. \A a \in ToSet(as) : \E i \in DOMAIN as : as[i] = a
  BY <1>1, ListIndices
<1>8. \A i \in DOMAIN as : ss[i] = AssignmentWrite(as[i])
  OBVIOUS
<1>9. \A i \in DOMAIN as : IsList(ss[i])
  BY <1>3, <1>4, <1>6, <1>8, ShortLists
<1> HIDE DEF ss, as
<1>10. /\ IsList(FlattenSeq(ss))
       /\ \A w : w \in ToSet(FlattenSeq(ss)) <=> \E i \in DOMAIN as : w \in ToSet(ss[i])
  BY <1>1, <1>2, <1>9, Collected
<1>11. ASSUME NEW w, NEW i \in DOMAIN as, w \in ToSet(ss[i])
       PROVE  \E d \in LandingIn(t) : Lands(d) /\ w = Write(d)
  <2>1. PICK d \in Encoded : Placed(d) /\ Key(d)[1] = t /\ as[i] = Entry(d)
    BY <1>4, <1>6
  <2>2. ss[i] = IF Lands(d) THEN <<Write(d)>> ELSE <<>>
    BY <1>3, <1>8, <2>1
  <2>3. Lands(d) /\ w = Write(d)
    BY <1>11, <2>2, ShortLists
  <2> QED
    BY <2>1, <2>3 DEF LandingIn
<1>12. ASSUME NEW d \in LandingIn(t) PROVE \E i \in DOMAIN as : Write(d) \in ToSet(ss[i])
  <2>1. PICK i \in DOMAIN as : as[i] = Entry(d)
    BY <1>5, <1>7
  <2>2. d \in Encoded /\ Lands(d) /\ Placed(d) /\ Key(d)[1] = t
    BY DEF LandingIn, Lands
  <2>3. ss[i] = <<Write(d)>>
    BY <1>3, <1>8, <2>1, <2>2
  <2> QED
    BY <2>3, ShortLists
<1> QED
  BY <1>2, <1>10, <1>11, <1>12 DEF WritesOf

-----------------------------------------------------------------------------
(***************************************************************************)
(* The frames, step by step.                                               *)
(***************************************************************************)
LEMMA CellNext ==
    ASSUME UNCHANGED chip, NEW E, NEW D, E = EncodedApplied', D = DefaultsApplied', NEW t, NEW p,
           \A d \in E : LandsAt(d, t, p) => frames'[t][p] = d[3].value % 2,
           ~Hit(E, t, p) => \A d \in D : LandsAt(d, t, p) => frames'[t][p] = d[3].value % 2,
           ~Hit(E, t, p) /\ ~Hit(D, t, p) => frames'[t][p] = 1
    PROVE  CellHolds(t, p)'
<1>1. \A d : LandsAt(d, t, p)' <=> LandsAt(d, t, p)
  BY SameLibrary DEF LandsAt
<1>2. Hit(EncodedApplied, t, p)' <=> Hit(E, t, p)
  BY <1>1 DEF Hit
<1>3. Hit(DefaultsApplied, t, p)' <=> Hit(D, t, p)
  BY <1>1 DEF Hit
<1>4. Holds(EncodedApplied, t, p)'
  BY <1>1 DEF Holds
<1>5. ~Hit(EncodedApplied, t, p)' => Holds(DefaultsApplied, t, p)'
  BY <1>1, <1>2 DEF Holds
<1> QED
  BY <1>2, <1>3, <1>4, <1>5 DEF CellHolds

LEMMA SameCells ==
    ASSUME FramesHold, UNCHANGED <<chip, frames>>,
           EncodedApplied' = EncodedApplied, DefaultsApplied' = DefaultsApplied
    PROVE  FramesHold'
<1> SUFFICES ASSUME NEW t \in KnownTiles, NEW p \in Places(t) PROVE CellHolds(t, p)'
  BY SameLibrary DEF FramesHold
<1>1. CellHolds(t, p)
  BY DEF FramesHold
<1> DEFINE E == EncodedApplied
           D == DefaultsApplied
<1>2. /\ \A d \in E : LandsAt(d, t, p) => frames[t][p] = d[3].value % 2
      /\ ~Hit(E, t, p) => \A d \in D : LandsAt(d, t, p) => frames[t][p] = d[3].value % 2
      /\ ~Hit(E, t, p) /\ ~Hit(D, t, p) => frames[t][p] = 1
  BY <1>1 DEF CellHolds, Holds
<1>3. E = EncodedApplied' /\ D = DefaultsApplied'
  OBVIOUS
<1> HIDE DEF E, D
<1> QED
  BY <1>2, <1>3, CellNext

LEMMA DefaultsKeepCells ==
    ASSUME TypeOK, FramesHold, UNCHANGED chip, NEW N, NEW writes, WritesOf(writes, N),
           frames' = Written(writes), EncodedApplied = {}, EncodedApplied' = {},
           DefaultsApplied' = DefaultsApplied \union N, DefaultsApplied \union N \subseteq AllDefaults
    PROVE  FramesHold'
<1> SUFFICES ASSUME NEW t \in KnownTiles, NEW p \in Places(t) PROVE CellHolds(t, p)'
  BY SameLibrary DEF FramesHold
<1>1. Agreeing(AllDefaults)
  BY DefaultsAgree DEF TypeOK
<1>2. Agreeing(N)
  BY <1>1 DEF Agreeing
<1>3. /\ \A d \in N : LandsAt(d, t, p) => frames'[t][p] = d[3].value % 2
      /\ ~Hit(N, t, p) => frames'[t][p] = frames[t][p]
  BY <1>2, CellAfterWrites
<1>4. CellHolds(t, p)
  BY DEF FramesHold
<1> DEFINE D == DefaultsApplied
<1>5. /\ \A d \in D : LandsAt(d, t, p) => frames[t][p] = d[3].value % 2
      /\ ~Hit(D, t, p) => frames[t][p] = 1
  BY <1>4 DEF CellHolds, Holds, Hit
<1>6. Hit(D \union N, t, p) <=> (Hit(D, t, p) \/ Hit(N, t, p))
  BY DEF Hit
<1>7. ASSUME NEW d \in D \union N, LandsAt(d, t, p) PROVE frames'[t][p] = d[3].value % 2
  <2>1. CASE d \in N
    BY <1>3, <1>7, <2>1
  <2>2. CASE d \in D /\ ~Hit(N, t, p)
    BY <1>3, <1>5, <1>7, <2>2
  <2>3. CASE d \in D /\ Hit(N, t, p)
    <3>1. PICK e \in N : LandsAt(e, t, p)
      BY <2>3 DEF Hit
    <3>2. d \in AllDefaults /\ e \in AllDefaults
      OBVIOUS
    <3>3. d[3].value = e[3].value
      BY <1>1, <1>7, <3>1, <3>2 DEF Agreeing, LandsAt
    <3> QED
      BY <1>3, <3>1, <3>3
  <2> QED
    BY <2>1, <2>2, <2>3
<1>8. ~Hit(D \union N, t, p) => frames'[t][p] = 1
  BY <1>3, <1>5, <1>6
<1>9. ~Hit({}, t, p) /\ {} = EncodedApplied' /\ D \union N = DefaultsApplied'
  BY DEF Hit
<1> HIDE DEF D
<1> QED
  BY <1>7, <1>8, <1>9, CellNext, ZenonT(40)

\* M is the bits of the tile, those that have a frame among them are N.
LEMMA BitsKeepCells ==
    ASSUME TypeOK, FramesHold, EncodedInImage, UNCHANGED chip,
           NEW N, NEW M, NEW writes, WritesOf(writes, N),
           N \subseteq M, \A d \in M : Key(d)[1] \in KnownTiles => d \in N,
           frames' = Written(writes), DefaultsApplied' = DefaultsApplied,
           EncodedApplied' = EncodedApplied \union M, M \subseteq Encoded
    PROVE  FramesHold'
<1> SUFFICES ASSUME NEW t \in KnownTiles, NEW p \in Places(t) PROVE CellHolds(t, p)'
  BY SameLibrary DEF FramesHold
<1>1. Agreeing(Encoded) /\ N \subseteq Encoded /\ EncodedApplied \subseteq Encoded
  BY EncodedAgree DEF EncodedApplied
<1>2. Agreeing(N)
  BY <1>1 DEF Agreeing
<1>3. /\ \A d \in N : LandsAt(d, t, p) => frames'[t][p] = d[3].value % 2
      /\ ~Hit(N, t, p) => frames'[t][p] = frames[t][p]
  BY <1>2, CellAfterWrites
<1>4. CellHolds(t, p)
  BY DEF FramesHold
<1> DEFINE D == DefaultsApplied
           E == EncodedApplied
<1>5. /\ \A d \in E : LandsAt(d, t, p) => frames[t][p] = d[3].value % 2
      /\ ~Hit(E, t, p) => \A d \in D : LandsAt(d, t, p) => frames[t][p] = d[3].value % 2
      /\ ~Hit(E, t, p) /\ ~Hit(D, t, p) => frames[t][p] = 1
  BY <1>4 DEF CellHolds, Holds
<1>6. \A d \in M : LandsAt(d, t, p) => d \in N
  BY DEF LandsAt
<1>7. Hit(E \union M, t, p) <=> (Hit(E, t, p) \/ Hit(N, t, p))
  BY <1>6 DEF Hit
<1>8. ASSUME NEW d \in E \union M, LandsAt(d, t, p) PROVE frames'[t][p] = d[3].value % 2
  <2>1. CASE d \in M
    BY <1>3, <1>6, <1>8, <2>1
  <2>2. CASE d \in E /\ ~Hit(N, t, p)
    BY <1>3, <1>5, <1>8, <2>2
  <2>3. CASE d \in E /\ Hit(N, t, p)
    <3>1. PICK e \in N : LandsAt(e, t, p)
      BY <2>3 DEF Hit
    <3>2. d \in Encoded /\ e \in Encoded
      BY <1>1, <2>3
    <3>3. d[3].value = e[3].value
      BY <1>1, <1>8, <3>1, <3>2 DEF Agreeing, LandsAt
    <3> QED
      BY <1>3, <3>1, <3>3
  <2> QED
    BY <2>1, <2>2, <2>3
<1>9. ~Hit(E \union M, t, p) => \A d \in D : LandsAt(d, t, p) => frames'[t][p] = d[3].value % 2
  BY <1>3, <1>5, <1>7
<1>10. ~Hit(E \union M, t, p) /\ ~Hit(D, t, p) => frames'[t][p] = 1
  BY <1>3, <1>5, <1>7
<1>11. E \union M = EncodedApplied' /\ D = DefaultsApplied'
  OBVIOUS
<1> HIDE DEF D, E
<1> QED
  BY <1>8, <1>9, <1>10, <1>11, CellNext

-----------------------------------------------------------------------------
\* A bit without a place, or one that leads off the chip, is noted.
LEMMA LossNoted ==
    ASSUME TypeOK, EncodingItem, NEW d \in NewBits, ~Lands(d)
    PROVE  ItemNotes(Items[next]) # {}
<1> DEFINE x == Items[next]
           bits == ItemBits(x)
           m == SramOfBit(d)
<1>1. PICK j \in DOMAIN bits : d = <<x.tile, ItemSite(x), bits[j]>>
  BY DEF NewBits, BitsAt
<1>2. AssignedNotes(x.tile, ItemSite(x), bits[j]) # {}
  <2>1. SramOf(ItemSite(x), bits[j].name) = m /\ d[1] = x.tile
    BY <1>1 DEF SramOfBit
  <2>2. CASE ~Placed(d)
    BY <2>1, <2>2 DEF AssignedNotes, Placed
  <2>3. CASE Placed(d)
    <3>1. m # None /\ m.place # None /\ m.offset # None /\ d[1] + m.offset \notin Tiles
      BY <2>3 DEF Placed, Lands
    <3>2. Good(d) /\ chip \in Chips
      BY NewBitsGood DEF TypeOK
    <3>3. PICK i : Library(d, i)
      BY <3>1, <3>2, BitInLibrary
    <3>4. m.owner # None
      <4>1. ChipAssumption(chip)
        BY <3>2, LibraryAssumption
      <4>2. \A y \in SramsAt(chip) : (y[2].srams[y[3]].owner = None) <=> (y[2].srams[y[3]].offset = None)
        BY <4>1 DEF ChipAssumption
      <4>3. <<d[1], d[2], i>> \in SramsAt(chip) /\ d[2].srams[i] = m
        BY <3>3 DEF Library
      <4> QED
        BY <3>1, <4>2, <4>3
    <3>5. TargetNotes(x.tile, m) = {"no owner tile"}
      BY <2>1, <3>1, <3>4 DEF TargetNotes
    <3> QED
      BY <2>1, <3>1, <3>5 DEF AssignedNotes
  <2> QED
    BY <2>2, <2>3
<1>3. NotesAll(x.tile, ItemSite(x), bits) # {}
  BY <1>2 DEF NotesAll
<1> QED
  BY <1>3 DEF ItemNotes

\* So is a bit that has no cell in its tile, or whose tile has no frame.
LEMMA OutsideNoted ==
    ASSUME NEW N, NEW writes, WritesOf(writes, N), NEW d \in N, Lands(d), ~InCell(Key(d))
    PROVE  OutsideNotes(writes) # {}
<1>1. Write(d) \in ToSet(writes) /\ IsList(writes)
  BY DEF WritesOf
<1>2. PICK i \in DOMAIN writes : writes[i] = Write(d)
  BY <1>1, ListIndices
<1>3. ~InLayout(Write(d))
  BY DEF InLayout, Write, InCell
<1> QED
  BY <1>2, <1>3 DEF OutsideNotes

-----------------------------------------------------------------------------
(***************************************************************************)
(* The invariant.                                                          *)
(***************************************************************************)
LEMMA NothingApplied ==
    ASSUME phase \in {"sites", "routes"}
    PROVE  DefaultsApplied = {} /\ EncodedApplied = {}
BY DEF DefaultsApplied, EncodedApplied

LEMMA NothingAppliedNext == phase \in {"sites", "routes"} => DefaultsApplied = {} /\ EncodedApplied = {}
BY NothingApplied

LEMMA NothingAppliedAfter ==
    (phase \in {"sites", "routes"})' => (DefaultsApplied = {} /\ EncodedApplied = {})'
BY NothingAppliedNext, PTL

LEMMA InitInvariant == Init => IInv
<1> SUFFICES ASSUME Init PROVE IInv
  OBVIOUS
<1> USE DEF Init
<1>1. TypeOK
  <2>1. DOMAIN image = {}
    OBVIOUS
  <2>2. IsFiniteSet(DOMAIN image)
    BY <2>1, FS_EmptySet
  <2> QED
    BY <2>2 DEF TypeOK
<1>2. Encoded = {}
  <2>1. \A j \in DOMAIN program.sites : ~(j < next)
    <3>1. \A j \in DOMAIN program.sites : j \in Nat \ {0}
      <4>1. Len(program.sites) \in Nat /\ DOMAIN program.sites = 1 .. Len(program.sites)
        BY <1>1, ItemsListed, ListIndices
      <4> QED
        BY <4>1
    <3> QED
      BY <3>1
  <2>2. FromSites = {}
    BY <2>1 DEF FromSites
  <2>3. FromRoutes = {}
    BY DEF FromRoutes
  <2> QED
    BY <2>2, <2>3 DEF Encoded
<1>3. ImageOfEncoded /\ EncodedInImage /\ LossesNoted
  BY <1>2 DEF ImageOfEncoded, EncodedInImage, LossesNoted, EncodedApplied
<1>4. FramesHold
  BY NothingApplied DEF FramesHold, CellHolds, Holds, Hit, Blank
<1> QED
  BY <1>1, <1>3, <1>4 DEF IInv

LEMMA EncodeUnknownKeeps ==
    ASSUME IInv, EncodeUnknown
    PROVE  IInv'
<1>1. /\ phase \in {"sites", "routes"} /\ next \in DOMAIN Items /\ ~Known(Items[next])
      /\ notes' = notes \union {"no definition"} /\ next' = next + 1
      /\ UNCHANGED <<phase, chip, program, image, frames>>
  BY DEF EncodeUnknown
<1>2. TypeOK /\ ImageOfEncoded /\ EncodedInImage /\ FramesHold
  BY <1>1 DEF IInv
<1>3. BitsOfItem(Items[next]) = {}
  BY <1>1 DEF BitsOfItem, ClusterBits, TransmissionBits, Known, SiteIsKnown, PipIsKnown
<1>4. Encoded' = Encoded
  BY <1>1, <1>2, <1>3, EncodedAfterItem
<1>5. TypeOK'
  <2>1. next' \in Nat \ {0} /\ phase' \in {"sites", "routes"}
    <3>1. next \in Nat \ {0}
      BY <1>1, <1>2 DEF TypeOK
    <3>2. next' = next + 1 /\ phase' = phase /\ phase \in {"sites", "routes"}
      BY <1>1
    <3> QED
      BY <3>1, <3>2
  <2>2. chip' \in Chips /\ program' \in Programs /\ IsFiniteSet(DOMAIN image')
    BY <1>1, <1>2 DEF TypeOK
  <2> QED
    BY <2>1, <2>2 DEF TypeOK
<1>6. \A d : (Placed(d)' <=> Placed(d)) /\ (Lands(d)' <=> Lands(d)) /\ Key(d)' = Key(d) /\ Entry(d)' = Entry(d)
  BY <1>1, SameLibrary
<1>7. ImageOfEncoded' /\ EncodedInImage'
  BY <1>1, <1>2, <1>4, <1>6 DEF ImageOfEncoded, EncodedInImage
<1>8. FramesHold'
  BY <1>1, <1>2, NothingApplied, NothingAppliedAfter, SameCells
<1>9. LossesNoted'
  BY <1>1 DEF LossesNoted
<1> QED
  BY <1>5, <1>7, <1>8, <1>9 DEF IInv

LEMMA EncodeItemKeeps ==
    ASSUME IInv, EncodeItem
    PROVE  IInv'
<1> DEFINE assigned == AssignedAll(Items[next].tile, ItemSite(Items[next]), ItemBits(Items[next]))
<1>1. /\ EncodingItem /\ UNCHANGED <<chip, program, frames>>
      /\ \/ /\ Agree(assigned) /\ image' = Inserted(assigned)
            /\ notes' = notes \union ItemNotes(Items[next])
            /\ next' = next + 1 /\ UNCHANGED phase
         \/ phase' = "panic" /\ UNCHANGED <<next, image, notes>>
  BY DEF EncodeItem, EncodingItem
<1> HIDE DEF assigned
<1>2. phase \in {"sites", "routes"} /\ next \in DOMAIN Items
  BY <1>1 DEF EncodingItem
<1>3. TypeOK /\ ImageOfEncoded /\ EncodedInImage /\ FramesHold /\ LossesNoted
  BY <1>2 DEF IInv
<1>4. CASE phase' = "panic" /\ UNCHANGED <<next, image, notes>>
  <2>1. TypeOK'
    BY <1>1, <1>3, <1>4 DEF TypeOK
  <2> QED
    BY <1>4, <2>1 DEF IInv
<1>5. CASE /\ Agree(assigned) /\ image' = Inserted(assigned)
           /\ notes' = notes \union ItemNotes(Items[next])
           /\ next' = next + 1 /\ UNCHANGED phase
  <2>1. BitsOfItem(Items[next]) = NewBits
    BY <1>1, <1>2, <1>3, NewBitsGood DEF BitsOfItem, Items
  <2>2. Encoded' = Encoded \union NewBits
    BY <1>1, <1>2, <1>3, <1>5, <2>1, EncodedAfterItem
  <2>3. ImageOfEncoded' /\ EncodedInImage' /\ IsFiniteSet(DOMAIN image')
    BY <1>1, <1>3, <1>5, <2>2, EncodeKeepsImage DEF assigned
  <2>4. TypeOK'
    BY <1>1, <1>2, <1>3, <1>5, <2>3 DEF TypeOK
  <2>5. FramesHold'
    BY <1>1, <1>2, <1>3, <1>5, NothingApplied, NothingAppliedAfter, SameCells
  <2>6. LossesNoted'
    <3>1. EncodedApplied' = {}
      BY <1>2, <1>5, NothingAppliedAfter
    <3>2. \A d : Lands(d)' <=> Lands(d)
      BY <1>1, SameLibrary
    <3>3. \A d \in Encoded : ~Lands(d) => notes' # {}
      BY <1>3, <1>5 DEF LossesNoted
    <3>4. \A d \in NewBits : ~Lands(d) => notes' # {}
      BY <1>1, <1>3, <1>5, LossNoted
    <3> QED
      BY <2>2, <3>1, <3>2, <3>3, <3>4 DEF LossesNoted
  <2> QED
    BY <2>3, <2>4, <2>5, <2>6 DEF IInv
<1> QED
  BY <1>1, <1>4, <1>5

LEMMA ItemsDoneKeeps ==
    ASSUME IInv, ItemsDone
    PROVE  IInv'
<1>1. /\ phase \in {"sites", "routes"}
      /\ phase = "sites" => phase' = "routes" /\ next' = 1
      /\ phase = "routes" => phase' = "defaults" /\ next' = Min(Tiles)
      /\ UNCHANGED <<chip, program, image, frames, notes>>
  BY DEF ItemsDone
<1>2. TypeOK /\ ImageOfEncoded /\ EncodedInImage /\ FramesHold /\ LossesNoted /\ chip \in Chips
  BY <1>1 DEF IInv, TypeOK
<1>3. Encoded' = Encoded
  BY <1>2, EncodedAfterItems
<1>4. \A d : (Placed(d)' <=> Placed(d)) /\ (Lands(d)' <=> Lands(d)) /\ Key(d)' = Key(d) /\ Entry(d)' = Entry(d)
  BY <1>1, SameLibrary
<1>5. Tiles \subseteq Int /\ Min(Tiles) \in Tiles /\ (\A t \in Tiles : Min(Tiles) <= t) /\ Tiles' = Tiles
  BY <1>1, <1>2, TilesInARow, SameLibrary
<1>6. TypeOK'
  <2>1. chip' \in Chips /\ program' \in Programs /\ IsFiniteSet(DOMAIN image')
    BY <1>1, <1>2 DEF TypeOK
  <2>2. CASE phase = "sites"
    <3>1. phase' = "routes" /\ next' = 1
      BY <1>1, <2>2
    <3> QED
      BY <2>1, <3>1 DEF TypeOK
  <2>3. CASE phase = "routes"
    <3>1. phase' = "defaults" /\ next' = Min(Tiles)
      BY <1>1, <2>3
    <3>2. next' \in Int /\ next' \in Tiles'
      BY <1>5, <3>1
    <3> QED
      BY <2>1, <3>1, <3>2 DEF TypeOK
  <2> QED
    BY <1>1, <2>2, <2>3
<1>7. ImageOfEncoded' /\ EncodedInImage'
  BY <1>1, <1>2, <1>3, <1>4 DEF ImageOfEncoded, EncodedInImage
<1>8. DefaultsApplied' = {} /\ EncodedApplied' = {}
  <2>1. CASE phase = "sites"
    BY <1>1, <2>1, NothingAppliedAfter
  <2>2. CASE phase = "routes"
    <3>1. phase' = "defaults" /\ next' = Min(Tiles)
      BY <1>1, <2>2
    <3>2. \A u \in KnownTiles : ~(u < Min(Tiles))
      <4> SUFFICES ASSUME NEW u \in KnownTiles
                   PROVE  ~(u < Min(Tiles))
        OBVIOUS
      <4>1. u \in Tiles
        BY DEF KnownTiles
      <4>2. u \in Int /\ Min(Tiles) \in Int /\ Min(Tiles) <= u
        BY <1>5, <4>1
      <4> QED
        BY <4>2
    <3>3. \A u \in KnownTiles' : ~(u < next')
      BY <1>1, <3>1, <3>2, SameLibrary
    <3>4. DefaultsApplied' = {}
      BY <3>1, <3>3 DEF DefaultsApplied
    <3> QED
      BY <3>1, <3>4 DEF EncodedApplied
  <2> QED
    BY <1>1, <2>1, <2>2
<1>9. FramesHold'
  BY <1>1, <1>2, <1>8, NothingApplied, SameCells
<1>10. LossesNoted'
  BY <1>1, <1>2, <1>3, <1>4, <1>8 DEF LossesNoted
<1> QED
  BY <1>6, <1>7, <1>9, <1>10 DEF IInv

LEMMA TilesDoneKeeps ==
    ASSUME IInv, TilesDone
    PROVE  IInv'
<1>1. /\ phase \in {"defaults", "bits"} /\ next \notin Tiles
      /\ phase = "defaults" => phase' = "bits" /\ next' = Min(Tiles)
      /\ phase = "bits" => phase' = "done" /\ UNCHANGED next
      /\ UNCHANGED <<chip, program, image, frames, notes>>
  BY DEF TilesDone
<1>2. TypeOK /\ ImageOfEncoded /\ EncodedInImage /\ FramesHold /\ LossesNoted /\ chip \in Chips
  BY <1>1 DEF IInv, TypeOK
<1>3. Encoded' = Encoded
  BY <1>1, EncodedKept
<1>4. \A d : (Placed(d)' <=> Placed(d)) /\ (Lands(d)' <=> Lands(d)) /\ Key(d)' = Key(d) /\ Entry(d)' = Entry(d)
  BY <1>1, SameLibrary
<1>5. Tiles \subseteq Int /\ Min(Tiles) \in Tiles /\ (\A t \in Tiles : Min(Tiles) <= t) /\ Tiles' = Tiles
  BY <1>1, <1>2, TilesInARow, SameLibrary
<1>6. TypeOK'
  BY <1>1, <1>2, <1>5 DEF TypeOK
<1>7. ImageOfEncoded' /\ EncodedInImage'
  BY <1>1, <1>2, <1>3, <1>4 DEF ImageOfEncoded, EncodedInImage
<1>8. \A t \in Tiles : t < next
  <2>1. next \in Int /\ next - 1 \in Tiles
    BY <1>1, <1>2 DEF TypeOK
  <2> QED
    BY <1>1, <1>2, <2>1, TilesInARow
<1>9. \A d \in Encoded : Lands(d) => Key(d)[1] \in Tiles
  <2> SUFFICES ASSUME NEW d \in Encoded, Lands(d) PROVE Key(d)[1] \in Tiles
    OBVIOUS
  <2>1. Good(d) /\ Placed(d)
    BY <1>2, EncodedGood DEF Lands
  <2> QED
    BY <1>2, <2>1, KeysOnTheChip
<1>10. DefaultsApplied' = DefaultsApplied
  <2>1. DefaultsApplied = AllDefaults
    <3>1. {u \in KnownTiles : phase \in {"defaults", "bits", "done"} /\ (phase = "defaults" => u < next)} = KnownTiles
      BY <1>1, <1>8 DEF KnownTiles
    <3> QED
      BY <3>1 DEF DefaultsApplied, AllDefaults
  <2>2. DefaultsApplied' = AllDefaults
    <3>1. phase' \in {"bits", "done"}
      BY <1>1
    <3>2. {u \in KnownTiles' : phase' \in {"defaults", "bits", "done"} /\ (phase' = "defaults" => u < next')} = KnownTiles
      BY <1>1, <3>1, SameLibrary
    <3>3. \A t : DefaultBitsAt(t)' = DefaultBitsAt(t)
      BY <1>1, SameLibrary
    <3> QED
      BY <3>2, <3>3 DEF DefaultsApplied, AllDefaults
  <2> QED
    BY <2>1, <2>2
<1>11. EncodedApplied' = EncodedApplied
  <2>1. CASE phase = "defaults"
    <3>1. EncodedApplied = {}
      BY <2>1 DEF EncodedApplied
    <3>2. \A d \in Encoded : Lands(d) => ~(Key(d)[1] < Min(Tiles))
      <4>1. \A t \in Tiles : ~(t < Min(Tiles))
        <5> SUFFICES ASSUME NEW t \in Tiles PROVE ~(t < Min(Tiles))
          OBVIOUS
        <5>1. t \in Int /\ Min(Tiles) \in Int /\ Min(Tiles) <= t
          BY <1>5
        <5> QED
          BY <5>1
      <4> QED
        BY <1>9, <4>1
    <3>3. \A d \in Encoded' : Lands(d)' => ~(Key(d)' [1] < next')
      BY <1>1, <1>3, <1>4, <2>1, <3>2
    <3>4. EncodedApplied' = {}
      BY <1>1, <2>1, <3>3 DEF EncodedApplied
    <3> QED
      BY <3>1, <3>4
  <2>2. CASE phase = "bits"
    <3>1. EncodedApplied = {d \in Encoded : Lands(d)}
      BY <1>8, <1>9, <2>2 DEF EncodedApplied
    <3>2. EncodedApplied' = {d \in Encoded : Lands(d)}
      BY <1>1, <1>3, <1>4, <2>2 DEF EncodedApplied
    <3> QED
      BY <3>1, <3>2
  <2> QED
    BY <1>1, <2>1, <2>2
<1>12. FramesHold'
  BY <1>1, <1>2, <1>10, <1>11, SameCells
<1>13. LossesNoted'
  <2>1. \A k : InCell(k)' <=> InCell(k)
    BY <1>1, SameLibrary DEF InCell
  <2> QED
    BY <1>1, <1>2, <1>3, <1>4, <1>11, <2>1 DEF LossesNoted
<1> QED
  BY <1>6, <1>7, <1>12, <1>13 DEF IInv

\* A tile of the first pass.
LEMMA ApplyDefaultsKeeps ==
    ASSUME IInv, ApplyDefaults
    PROVE  IInv'
<1> DEFINE N == IF next \in KnownTiles THEN DefaultBitsAt(next) ELSE {}
           writes == IF next \in KnownTiles THEN DefaultWrites(next) ELSE <<>>
<1>1. /\ phase = "defaults" /\ next \in Tiles /\ next' = next + 1
      /\ frames' = Written(writes) /\ notes \subseteq notes'
      /\ UNCHANGED <<phase, chip, program, image>>
  BY DEF ApplyDefaults, ApplyTile
<1>2. TypeOK /\ ImageOfEncoded /\ EncodedInImage /\ FramesHold /\ LossesNoted /\ chip \in Chips
  BY <1>1 DEF IInv, TypeOK
<1>3. Tiles \subseteq Int /\ Tiles' = Tiles /\ KnownTiles' = KnownTiles /\ KnownTiles \subseteq Tiles
  BY <1>1, <1>2, TilesInARow, SameLibrary DEF KnownTiles
<1>4. WritesOf(writes, N)
  <2>1. CASE next \in KnownTiles
    BY <1>2, <2>1, DefaultWritesOf
  <2>2. CASE next \notin KnownTiles
    BY <2>2, ShortLists DEF WritesOf
  <2> QED
    BY <2>1, <2>2
<1> HIDE DEF writes
<1>5. Encoded' = Encoded
  BY <1>1, EncodedKept
<1>6. EncodedApplied = {} /\ EncodedApplied' = {}
  BY <1>1 DEF EncodedApplied
<1>7. DefaultsApplied = UNION {DefaultBitsAt(t) : t \in {u \in KnownTiles : u < next}}
  BY <1>1 DEF DefaultsApplied
<1>8. DefaultsApplied' = UNION {DefaultBitsAt(t) : t \in {u \in KnownTiles : u < next + 1}}
  <2>1. \A t : DefaultBitsAt(t)' = DefaultBitsAt(t)
    BY <1>1, SameLibrary
  <2> QED
    BY <1>1, <1>3, <2>1 DEF DefaultsApplied
<1>9. DefaultsApplied' = DefaultsApplied \union N
  <2>1. \A u \in KnownTiles : u < next + 1 <=> (u < next \/ u = next)
    <3> SUFFICES ASSUME NEW u \in KnownTiles PROVE u < next + 1 <=> (u < next \/ u = next)
      OBVIOUS
    <3>1. u \in Int /\ next \in Int
      BY <1>1, <1>3
    <3> QED
      BY <3>1
  <2> QED
    BY <1>7, <1>8, <2>1
<1>10. DefaultsApplied \union N \subseteq AllDefaults
  BY <1>7 DEF AllDefaults
<1> HIDE DEF N
<1>11. FramesHold'
  BY <1>1, <1>2, <1>4, <1>6, <1>9, <1>10, DefaultsKeepCells
<1>12. TypeOK'
  <2>1. chip' \in Chips /\ program' \in Programs /\ IsFiniteSet(DOMAIN image') /\ phase' = "defaults"
    BY <1>1, <1>2 DEF TypeOK
  <2>2. next' \in Int /\ next' - 1 \in Tiles'
    <3>1. next \in Int /\ next \in Tiles' /\ next' = next + 1
      BY <1>1, <1>3
    <3>2. next' \in Int /\ next' - 1 = next
      BY <3>1
    <3> QED
      BY <3>1, <3>2
  <2> QED
    BY <2>1, <2>2 DEF TypeOK
<1>13. \A d : (Placed(d)' <=> Placed(d)) /\ (Lands(d)' <=> Lands(d)) /\ Key(d)' = Key(d) /\ Entry(d)' = Entry(d)
  BY <1>1, SameLibrary
<1>14. ImageOfEncoded' /\ EncodedInImage'
  BY <1>1, <1>2, <1>5, <1>13 DEF ImageOfEncoded, EncodedInImage
<1>15. LossesNoted'
  BY <1>1, <1>2, <1>5, <1>6, <1>13 DEF LossesNoted
<1> QED
  BY <1>11, <1>12, <1>14, <1>15 DEF IInv

\* A tile of the second pass.
LEMMA ApplyAssignmentsKeeps ==
    ASSUME IInv, ApplyAssignments
    PROVE  IInv'
<1> DEFINE M == LandingIn(next)
           N == IF next \in KnownTiles THEN M ELSE {}
           writes == IF next \in KnownTiles THEN AssignmentWrites(next) ELSE <<>>
<1>1. /\ phase = "bits" /\ next \in Tiles /\ next' = next + 1
      /\ frames' = Written(writes)
      /\ UNCHANGED <<phase, chip, program, image>>
  BY DEF ApplyAssignments, ApplyTile
<1>2. /\ notes \subseteq notes' /\ OutsideNotes(writes) \subseteq notes'
      /\ next \notin KnownTiles /\ AssignmentsOf(next) # <<>> => notes' # {}
  BY DEF ApplyAssignments, ApplyTile
<1>3. TypeOK /\ ImageOfEncoded /\ EncodedInImage /\ FramesHold /\ LossesNoted /\ chip \in Chips
  BY <1>1 DEF IInv, TypeOK
<1>4. Tiles \subseteq Int /\ Tiles' = Tiles /\ KnownTiles' = KnownTiles /\ KnownTiles \subseteq Tiles
  BY <1>1, <1>3, TilesInARow, SameLibrary DEF KnownTiles
<1>5. WritesOf(writes, N)
  <2>1. CASE next \in KnownTiles
    BY <1>3, <2>1, AssignmentWritesOf
  <2>2. CASE next \notin KnownTiles
    BY <2>2, ShortLists DEF WritesOf
  <2> QED
    BY <2>1, <2>2
<1> HIDE DEF writes
<1>6. Encoded' = Encoded
  BY <1>1, EncodedKept
<1>7. \A d : (Placed(d)' <=> Placed(d)) /\ (Lands(d)' <=> Lands(d)) /\ Key(d)' = Key(d) /\ Entry(d)' = Entry(d)
  BY <1>1, SameLibrary
<1>8. DefaultsApplied' = DefaultsApplied
  <2>1. \A t : DefaultBitsAt(t)' = DefaultBitsAt(t)
    BY <1>1, SameLibrary
  <2> QED
    BY <1>1, <1>4, <2>1 DEF DefaultsApplied
<1>9. \A d \in Encoded : Lands(d) => (Key(d)[1] < next + 1 <=> (Key(d)[1] < next \/ Key(d)[1] = next))
  <2> SUFFICES ASSUME NEW d \in Encoded, Lands(d)
               PROVE  Key(d)[1] < next + 1 <=> (Key(d)[1] < next \/ Key(d)[1] = next)
    OBVIOUS
  <2>1. Good(d) /\ Placed(d)
    BY <1>3, EncodedGood DEF Lands
  <2>2. Key(d)[1] \in Int /\ next \in Int
    BY <1>1, <1>3, <1>4, <2>1, KeysOnTheChip
  <2> QED
    BY <2>2
<1>10. EncodedApplied' = EncodedApplied \union M
  <2>1. EncodedApplied = {d \in Encoded : Lands(d) /\ Key(d)[1] < next}
    BY <1>1 DEF EncodedApplied
  <2>2. EncodedApplied' = {d \in Encoded : Lands(d) /\ Key(d)[1] < next + 1}
    BY <1>1, <1>6, <1>7 DEF EncodedApplied
  <2> QED
    BY <1>9, <2>1, <2>2 DEF LandingIn
<1>11. N \subseteq M /\ M \subseteq Encoded /\ \A d \in M : Key(d)[1] \in KnownTiles => d \in N
  BY DEF LandingIn
<1>12. \A d \in M : ~InCell(Key(d)) => notes' # {}
  <2> SUFFICES ASSUME NEW d \in M, ~InCell(Key(d)) PROVE notes' # {}
    OBVIOUS
  <2>1. d \in Encoded /\ Lands(d) /\ Key(d)[1] = next
    BY DEF LandingIn
  <2>2. CASE next \in KnownTiles
    <3>1. d \in N
      BY <2>2
    <3> HIDE DEF N, M
    <3> QED
      BY <1>2, <1>5, <2>1, <3>1, OutsideNoted
  <2>3. CASE next \notin KnownTiles
    <3>1. Key(d) \in DOMAIN image
      BY <1>3, <2>1 DEF EncodedInImage
    <3>2. image[Key(d)] \in ToSet(AssignmentsOf(next))
      BY <1>3, <2>1, <3>1, AssignmentsListed
    <3>3. AssignmentsOf(next) # <<>>
      BY <3>2, ShortLists
    <3> QED
      BY <1>2, <2>3, <3>3
  <2> QED
    BY <2>2, <2>3
<1> HIDE DEF N, M
<1>13. FramesHold'
  BY <1>1, <1>3, <1>5, <1>8, <1>10, <1>11, BitsKeepCells
<1>14. TypeOK'
  <2>1. chip' \in Chips /\ program' \in Programs /\ IsFiniteSet(DOMAIN image') /\ phase' = "bits"
    BY <1>1, <1>3 DEF TypeOK
  <2>2. next' \in Int /\ next' - 1 \in Tiles'
    <3>1. next \in Int /\ next \in Tiles' /\ next' = next + 1
      BY <1>1, <1>4
    <3>2. next' \in Int /\ next' - 1 = next
      BY <3>1
    <3> QED
      BY <3>1, <3>2
  <2> QED
    BY <2>1, <2>2 DEF TypeOK
<1>15. ImageOfEncoded' /\ EncodedInImage'
  BY <1>1, <1>3, <1>6, <1>7 DEF ImageOfEncoded, EncodedInImage
<1>16. LossesNoted'
  <2>1. \A k : InCell(k)' <=> InCell(k)
    BY <1>1, SameLibrary DEF InCell
  <2>2. \A d \in Encoded : ~Lands(d) => notes' # {}
    BY <1>2, <1>3 DEF LossesNoted
  <2>3. \A d \in EncodedApplied \union M : ~InCell(Key(d)) => notes' # {}
    BY <1>2, <1>3, <1>12 DEF LossesNoted
  <2> QED
    BY <1>6, <1>7, <1>10, <2>1, <2>2, <2>3 DEF LossesNoted
<1> QED
  BY <1>13, <1>14, <1>15, <1>16 DEF IInv

LEMMA StutterKeeps ==
    ASSUME IInv, UNCHANGED vars
    PROVE  IInv'
<1>1. UNCHANGED <<phase, chip, program, next, image, frames, notes>>
  BY DEF vars
<1>2. \A x : ClusterBits(x)' = ClusterBits(x) /\ TransmissionBits(x)' = TransmissionBits(x)
  BY <1>1, SameItems
<1>3. FromSites' = FromSites /\ FromRoutes' = FromRoutes
  BY <1>1, <1>2 DEF FromSites, FromRoutes
<1>4. Encoded' = Encoded
  BY <1>3 DEF Encoded
<1>5. /\ \A d : (Placed(d)' <=> Placed(d)) /\ (Lands(d)' <=> Lands(d)) /\ Key(d)' = Key(d) /\ Entry(d)' = Entry(d)
      /\ Tiles' = Tiles /\ KnownTiles' = KnownTiles
      /\ \A t : DefaultBitsAt(t)' = DefaultBitsAt(t) /\ Places(t)' = Places(t)
  BY <1>1, SameLibrary
<1>6. EncodedApplied' = EncodedApplied
  BY <1>1, <1>4, <1>5 DEF EncodedApplied
<1>7. DefaultsApplied' = DefaultsApplied
  BY <1>1, <1>5 DEF DefaultsApplied
<1>8. TypeOK' <=> TypeOK
  BY <1>1, <1>5 DEF TypeOK
<1>9. FramesHold => FramesHold'
  BY <1>1, <1>6, <1>7, SameCells
<1>10. ImageOfEncoded /\ EncodedInImage => ImageOfEncoded' /\ EncodedInImage'
  BY <1>1, <1>4, <1>5 DEF ImageOfEncoded, EncodedInImage
<1>11. LossesNoted => LossesNoted'
  <2>1. \A k : InCell(k)' <=> InCell(k)
    BY <1>5 DEF InCell
  <2> QED
    BY <1>1, <1>4, <1>5, <1>6, <2>1 DEF LossesNoted
<1> QED
  BY <1>1, <1>8, <1>9, <1>10, <1>11 DEF IInv

LEMMA NextKeeps == IInv /\ [Next]_vars => IInv'
<1> SUFFICES ASSUME IInv, [Next]_vars PROVE IInv'
  OBVIOUS
<1>1. CASE EncodeUnknown
  BY <1>1, EncodeUnknownKeeps
<1>2. CASE EncodeItem
  BY <1>2, EncodeItemKeeps
<1>3. CASE ItemsDone
  BY <1>3, ItemsDoneKeeps
<1>4. CASE ApplyDefaults
  BY <1>4, ApplyDefaultsKeeps
<1>5. CASE ApplyAssignments
  BY <1>5, ApplyAssignmentsKeeps
<1>6. CASE TilesDone
  BY <1>6, TilesDoneKeeps
<1>7. CASE UNCHANGED vars
  BY <1>7, StutterKeeps
<1> QED
  BY <1>1, <1>2, <1>3, <1>4, <1>5, <1>6, <1>7 DEF Next

\* The inductive invariant: the image is that of the bits encoded so far, and
\* the frames are those of the defaults and bits applied so far.
THEOREM ImageInvariant == Spec => []IInv
<1>1. Init => IInv
  BY InitInvariant
<1>2. IInv /\ [Next]_vars => IInv'
  BY NextKeeps
<1> QED
  BY <1>1, <1>2, PTL DEF Spec

-----------------------------------------------------------------------------
(***************************************************************************)
(* What the invariant says when all is done.                               *)
(***************************************************************************)
HomeOf(d) == Home(d[1], d[2], d[3])

LEMMA CellsAreNumbers ==
    ASSUME chip \in Chips, NEW t \in KnownTiles, NEW p \in Places(t)
    PROVE  t \in Int /\ p \in Int /\ <<t, p>> # None
<1>1. t \in Int
  BY TilesInARow DEF KnownTiles
<1>2. Def(t).places \in Nat
  BY ShapeAssumption DEF ChipShape, Def, KnownTiles
<1>3. p \in Int
  BY <1>2 DEF Places
<1> QED
  BY <1>1, <1>3, NoneAssumption

LEMMA HomeIsKey ==
    ASSUME chip \in Chips, NEW d, Good(d)
    PROVE  HomeOf(d) = IF Lands(d) /\ InCell(Key(d)) THEN Key(d) ELSE None
<1> DEFINE m == SramOfBit(d)
           w == [tile |-> IF m.offset = None THEN d[1] ELSE d[1] + m.offset, place |-> m.place]
<1>1. CASE ~Placed(d)
  BY <1>1 DEF Placed, Lands, HomeOf, Home, SramOfBit
<1>2. CASE Placed(d)
  <2>1. HomeOf(d) = IF InLayout(w) THEN <<w.tile, w.place>> ELSE None
    BY <1>2 DEF Placed, HomeOf, Home, SramOfBit
  <2>2. CASE Lands(d)
    <3>1. PICK i : Library(d, i)
      BY <1>2, BitInLibrary DEF Placed
    <3>2. Key(d) = <<w.tile, w.place>>
      BY <2>2, <3>1, LandsAtHome DEF Key
    <3>3. InLayout(w) <=> InCell(Key(d))
      BY <3>2 DEF InLayout, InCell
    <3> QED
      BY <2>1, <2>2, <3>2, <3>3
  <2>3. CASE ~Lands(d)
    <3>1. m.offset # None /\ d[1] + m.offset \notin Tiles
      BY <1>2, <2>3 DEF Lands
    <3>2. ~InLayout(w)
      BY <3>1 DEF InLayout, KnownTiles
    <3> QED
      BY <2>1, <2>3, <3>2
  <2> QED
    BY <2>2, <2>3
<1> QED
  BY <1>1, <1>2

LEMMA HomeIsCell ==
    ASSUME chip \in Chips, NEW d, Good(d), NEW t \in KnownTiles, NEW p \in Places(t)
    PROVE  HomeOf(d) = <<t, p>> <=> LandsAt(d, t, p)
<1>1. <<t, p>> # None
  BY CellsAreNumbers
<1>2. InCell(<<t, p>>)
  BY DEF InCell
<1> QED
  BY <1>1, <1>2, HomeIsKey DEF LandsAt

CellBit(d) == [home |-> HomeOf(d), value |-> d[3].value]

LEMMA BitSetIs ==
    ASSUME NEW t, NEW site, NEW bits
    PROVE  BitSet(t, site, bits) = {CellBit(d) : d \in BitsAt(t, site, bits)}
<1>1. \A j : CellBit(<<t, site, bits[j]>>) = [home |-> Home(t, site, bits[j]), value |-> bits[j].value]
  BY DEF CellBit, HomeOf
<1>2. BitSet(t, site, bits) = {CellBit(<<t, site, bits[j]>>) : j \in DOMAIN bits}
  BY <1>1 DEF BitSet
<1> QED
  BY <1>2 DEF BitsAt

LEMMA ProgrammedBitsAre ==
    ASSUME TypeOK, phase = "done"
    PROVE  ProgrammedBits = {CellBit(d) : d \in Encoded}
<1>1. FromSites = UNION {ClusterBits(x) : x \in ToSet(program.sites)}
  <2>1. FromSites = UNION {ClusterBits(program.sites[i]) : i \in DOMAIN program.sites}
    BY DEF FromSites
  <2> QED
    BY <2>1 DEF ToSet
<1>2. FromRoutes = UNION {TransmissionBits(x) : x \in ToSet(program.routes)}
  <2>1. FromRoutes = UNION {TransmissionBits(program.routes[i]) : i \in DOMAIN program.routes}
    BY DEF FromRoutes
  <2> QED
    BY <2>1 DEF ToSet
<1>3. \A x \in ToSet(program.sites) : {CellBit(d) : d \in ClusterBits(x)} =
        IF SiteIsKnown(x) THEN BitSet(x.tile, NamedSite(Def(x.tile).clusters, x.site),
                                      SiteBits(chip.siteDefs[x.kind], x.requests)) ELSE {}
  BY BitSetIs DEF ClusterBits, ClusterAt
<1>4. \A x \in ToSet(program.routes) : {CellBit(d) : d \in TransmissionBits(x)} =
        IF PipIsKnown(x) THEN BitSet(x.tile, NamedSite(Def(x.tile).transmissions, x.site), x.bits) ELSE {}
  BY BitSetIs DEF TransmissionBits, TransmissionAt
<1>5. SiteProgram = {CellBit(d) : d \in FromSites}
  <2>1. UNION {{CellBit(d) : d \in ClusterBits(x)} : x \in ToSet(program.sites)} = {CellBit(d) : d \in FromSites}
    BY <1>1
  <2>2. UNION {{CellBit(d) : d \in ClusterBits(x)} : x \in ToSet(program.sites)} = SiteProgram
    BY <1>3 DEF SiteProgram
  <2> QED
    BY <2>1, <2>2
<1>6. PipProgram = {CellBit(d) : d \in FromRoutes}
  <2>1. UNION {{CellBit(d) : d \in TransmissionBits(x)} : x \in ToSet(program.routes)}
          = {CellBit(d) : d \in FromRoutes}
    BY <1>2
  <2>2. UNION {{CellBit(d) : d \in TransmissionBits(x)} : x \in ToSet(program.routes)} = PipProgram
    BY <1>4 DEF PipProgram
  <2> QED
    BY <2>1, <2>2
<1>7. {CellBit(d) : d \in Encoded} = {CellBit(d) : d \in FromSites} \union {CellBit(d) : d \in FromRoutes}
  BY DEF Encoded
<1> QED
  BY <1>5, <1>6, <1>7 DEF ProgrammedBits

LEMMA DefaultBitsAre ==
    DefaultBitSet = {CellBit(d) : d \in AllDefaults}
<1>1. \A t : UNION {BitSet(t, SitesOf(t)[i], DefaultBits(chip, SitesOf(t)[i])) : i \in DOMAIN SitesOf(t)}
             = {CellBit(d) : d \in DefaultBitsAt(t)}
  BY BitSetIs DEF DefaultBitsAt
<1>2. DefaultBitSet = UNION {{CellBit(d) : d \in DefaultBitsAt(t)} : t \in KnownTiles}
  BY <1>1 DEF DefaultBitSet
<1> QED
  BY <1>2 DEF AllDefaults

\* The values of a set of bits in a cell.
LEMMA ValuesInCell ==
    ASSUME chip \in Chips, NEW bits, \A d \in bits : Good(d),
           NEW t \in KnownTiles, NEW p \in Places(t)
    PROVE  ValuesAt({CellBit(d) : d \in bits}, <<t, p>>)
             = {d[3].value : d \in {e \in bits : LandsAt(e, t, p)}}
<1>1. \A d \in bits : HomeOf(d) = <<t, p>> <=> LandsAt(d, t, p)
  BY HomeIsCell
<1>2. \A d : CellBit(d).home = HomeOf(d) /\ CellBit(d).value = d[3].value
  BY DEF CellBit
<1> DEFINE B == {CellBit(d) : d \in bits}
           V == {d[3].value : d \in {e \in bits : LandsAt(e, t, p)}}
<1>3. \A v : v \in ValuesAt(B, <<t, p>>) <=> \E b \in B : b.home = <<t, p>> /\ v = b.value
  BY DEF ValuesAt
<1>4. \A v : v \in V <=> \E d \in bits : LandsAt(d, t, p) /\ v = d[3].value
  OBVIOUS
<1>5. \A v : (\E b \in B : b.home = <<t, p>> /\ v = b.value) <=>
               \E d \in bits : LandsAt(d, t, p) /\ v = d[3].value
  BY <1>1, <1>2
<1> HIDE DEF V, B
<1>6. \A v : v \in ValuesAt(B, <<t, p>>) <=> v \in V
  BY <1>3, <1>4, <1>5
<1>7. ValuesAt(B, <<t, p>>) = V
  BY <1>6
<1> QED
  BY <1>7 DEF B, V

LEMMA DoneHoldsProgram == IInv => FramesHoldProgram
<1> SUFFICES ASSUME IInv, phase = "done", NEW t \in KnownTiles, NEW p \in Places(t)
             PROVE  {frames[t][p]} =
                      IF ValuesAt(ProgrammedBits, <<t, p>>) # {}
                      THEN {v % 2 : v \in ValuesAt(ProgrammedBits, <<t, p>>)}
                      ELSE IF ValuesAt(DefaultBitSet, <<t, p>>) # {}
                      THEN {v % 2 : v \in ValuesAt(DefaultBitSet, <<t, p>>)} ELSE {1}
  BY DEF FramesHoldProgram
<1>1. TypeOK /\ CellHolds(t, p) /\ chip \in Chips
  BY DEF IInv, FramesHold, TypeOK
<1>2. EncodedApplied = {d \in Encoded : Lands(d)} /\ DefaultsApplied = AllDefaults
  BY DEF EncodedApplied, DefaultsApplied, AllDefaults
<1> DEFINE E == {d \in Encoded : LandsAt(d, t, p)}
           D == {d \in AllDefaults : LandsAt(d, t, p)}
<1>3. /\ \A d \in E : frames[t][p] = d[3].value % 2
      /\ E = {} => \A d \in D : frames[t][p] = d[3].value % 2
      /\ E = {} /\ D = {} => frames[t][p] = 1
  BY <1>1, <1>2 DEF CellHolds, Holds, Hit, LandsAt
<1>4. ValuesAt(ProgrammedBits, <<t, p>>) = {d[3].value : d \in E}
  <2>1. \A d \in Encoded : Good(d)
    BY <1>1, EncodedGood
  <2> QED
    BY <1>1, <2>1, ProgrammedBitsAre, ValuesInCell
<1>5. ValuesAt(DefaultBitSet, <<t, p>>) = {d[3].value : d \in D}
  <2>1. \A d \in AllDefaults : Good(d)
    BY <1>1, DefaultsGood DEF AllDefaults
  <2> QED
    BY <1>1, <2>1, DefaultBitsAre, ValuesInCell
<1> DEFINE V == ValuesAt(ProgrammedBits, <<t, p>>)
           W == ValuesAt(DefaultBitSet, <<t, p>>)
<1> HIDE DEF E, D, V, W
<1>6. CASE E # {}
  <2>1. V # {} /\ \A v \in V : frames[t][p] = v % 2
    BY <1>3, <1>4, <1>6 DEF V
  <2> QED
    BY <2>1 DEF V
<1>7. CASE E = {} /\ D # {}
  <2>1. V = {} /\ W # {} /\ \A v \in W : frames[t][p] = v % 2
    BY <1>3, <1>4, <1>5, <1>7 DEF V, W
  <2> QED
    BY <2>1 DEF V, W
<1>8. CASE E = {} /\ D = {}
  BY <1>3, <1>4, <1>5, <1>8
<1> QED
  BY <1>6, <1>7, <1>8

LEMMA DoneShowsConflictsAndLosses == IInv => ConflictsAndLossesShow
<1> SUFFICES ASSUME IInv, phase = "done"
             PROVE  /\ \A b, c \in ProgrammedBits :
                         (b.home = c.home /\ b.home # None) => b.value = c.value
                    /\ (\E b \in ProgrammedBits : b.home = None) => notes # {}
  BY DEF ConflictsAndLossesShow
<1>1. TypeOK /\ EncodedInImage /\ LossesNoted /\ chip \in Chips
  BY DEF IInv, TypeOK
<1>2. EncodedApplied = {d \in Encoded : Lands(d)}
  BY DEF EncodedApplied
<1>3. \A b \in ProgrammedBits : \E d \in Encoded : b.home = HomeOf(d) /\ b.value = d[3].value
  BY <1>1, ProgrammedBitsAre DEF CellBit
<1>4. \A d \in Encoded : HomeOf(d) = IF Lands(d) /\ InCell(Key(d)) THEN Key(d) ELSE None
  BY <1>1, EncodedGood, HomeIsKey
<1>5. ASSUME NEW b \in ProgrammedBits, NEW c \in ProgrammedBits, b.home = c.home, b.home # None
      PROVE  b.value = c.value
  <2>1. PICK d \in Encoded : b.home = HomeOf(d) /\ b.value = d[3].value
    BY <1>3
  <2>2. PICK e \in Encoded : c.home = HomeOf(e) /\ c.value = e[3].value
    BY <1>3
  <2>3. Lands(d) /\ Lands(e) /\ Key(d) = Key(e)
    BY <1>4, <1>5, <2>1, <2>2
  <2>4. d[3].value = e[3].value
    BY <1>1, <2>3, EncodedAgree DEF Agreeing
  <2> QED
    BY <2>1, <2>2, <2>4
<1>6. ASSUME NEW b \in ProgrammedBits, b.home = None PROVE notes # {}
  <2>1. PICK d \in Encoded : None = HomeOf(d)
    BY <1>3, <1>6
  <2>2. CASE ~Lands(d)
    BY <1>1, <2>2 DEF LossesNoted
  <2>3. CASE Lands(d) /\ ~InCell(Key(d))
    BY <1>1, <1>2, <2>3 DEF LossesNoted
  <2>4. CASE Lands(d) /\ InCell(Key(d))
    <3>1. Key(d) = None
      BY <1>4, <2>1, <2>4
    <3>2. Key(d) = <<Key(d)[1], Key(d)[2]>>
      BY DEF Key
    <3>3. Key(d)[1] \in KnownTiles /\ Key(d)[2] \in Places(Key(d)[1])
      BY <2>4 DEF InCell
    <3> QED
      BY <1>1, <3>1, <3>2, <3>3, CellsAreNumbers
  <2> QED
    BY <2>2, <2>3, <2>4
<1> QED
  BY <1>5, <1>6

\* No cell is written twice with two values, moved twice, or lost in silence
\* (accumulator.rs, builder/target.rs, layout/apply.rs): for every chip, every
\* library and every program.
THEOREM ImageFaithfulHolds == Spec => []ImageFaithful
<1>1. IInv => ImageFaithful
  BY DoneHoldsProgram, DoneShowsConflictsAndLosses DEF ImageFaithful
<1> QED
  BY <1>1, ImageInvariant, PTL
=============================================================================
