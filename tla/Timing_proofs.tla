---------------------------- MODULE Timing_proofs ----------------------------
(***************************************************************************)
(* Proofs about timing analysis.  First its propagation, for any numbering *)
(* of any design: the passes settle on the longest paths or tell of a      *)
(* loop, and the traced path adds up.  Then what timing is held against,   *)
(* for any design and any two constraint files: every constraint of an     *)
(* accepted project is applied to what the clock reaches, and the status   *)
(* says no more than that.                                                 *)
(***************************************************************************)
EXTENDS StaTiming, TimingConstraints, LeastElements, SequenceTheorems

(***************************************************************************)
(* What a list of times adds up to.                                        *)
(***************************************************************************)
\* The running sums of a list are what their definition says.
LEMMA RunningSumsUnfold ==
    ASSUME NEW n \in Nat \ {0}, NEW t \in [1 .. n -> Int]
    PROVE  /\ RunningSums(t) \in [1 .. n -> Int] /\ RunningSums(t)[1] = t[1]
           /\ \A k \in 2 .. n : RunningSums(t)[k] = RunningSums(t)[k - 1] + t[k]
           /\ SumOf(t) = RunningSums(t)[n]
<1> DEFINE step == [k \in 2 .. n |-> [v \in Int |-> v + t[k]]]
           Is(f) == f = [k \in DOMAIN t |-> t[k] + IF k = 1 THEN 0 ELSE f[k - 1]]
           r == RunningSums(t)
<1>1. DOMAIN t = 1 .. n /\ 1 \in 1 .. n /\ \A k \in 1 .. n : t[k] \in Int
  OBVIOUS
<1>2. Stepwise(Int, n, t[1], step)
  BY <1>1 DEF Stepwise
<1>3. PICK h : StepsTo(h, Int, n, t[1], step)
  BY <1>2, StepByStep
<1>4. /\ h \in [1 .. n -> Int] /\ h[1] = t[1]
      /\ \A k \in 2 .. n : h[k] = h[k - 1] + t[k]
  <2>1. h \in [1 .. n -> Int] /\ h[1] = t[1] /\ \A k \in 2 .. n : h[k] = step[k][h[k - 1]]
    BY <1>3 DEF StepsTo
  <2>2. \A k \in 2 .. n : k - 1 \in 1 .. n
    OBVIOUS
  <2> QED
    BY <2>1, <2>2
<1>5. Is(h)
  <2>1. \A k \in 1 .. n : h[k] = t[k] + IF k = 1 THEN 0 ELSE h[k - 1]
    <3> TAKE k \in 1 .. n
    <3>1. CASE k = 1
      BY <1>1, <1>4, <3>1
    <3>2. CASE k # 1
      <4>1. k \in 2 .. n /\ k - 1 \in 1 .. n
        BY <3>2
      <4> QED
        BY <1>1, <1>4, <3>2, <4>1
    <3> QED
      BY <3>1, <3>2
  <2> QED
    BY <1>1, <1>4, <2>1
<1>6. Is(r)
  <2>1. r = CHOOSE f : Is(f)
    BY DEF RunningSums
  <2> HIDE DEF Is, r
  <2> QED
    BY <1>5, <2>1
<1> DEFINE Same == {k \in 1 .. n : r[k] = h[k]}
<1>7. DOMAIN r = 1 .. n
  <2> HIDE DEF r
  <2> QED
    BY <1>1, <1>6
<1>8. \A k \in 1 .. n : r[k] = t[k] + IF k = 1 THEN 0 ELSE r[k - 1]
  <2> HIDE DEF r
  <2> QED
    BY <1>1, <1>6
<1> HIDE DEF r, Is
<1>9. 1 \in Same
  BY <1>1, <1>4, <1>8
<1>10. ASSUME NEW k \in 2 .. n, k - 1 \in Same PROVE k \in Same
  <2>1. k \in 1 .. n /\ k # 1 /\ k - 1 \in 1 .. n
    OBVIOUS
  <2> QED
    BY <1>1, <1>4, <1>8, <1>10, <2>1
<1>11. 1 .. n \subseteq Same
  <2> HIDE DEF Same
  <2> QED
    BY <1>9, <1>10, Climb
<1>12. r = h
  BY <1>4, <1>7, <1>11, <1>6 DEF Is
<1>13. SumOf(t) = r[n]
  <2>1. t \in Seq(Int) /\ Len(t) = n
    BY SeqDef, LenProperties
  <2> QED
    BY <2>1 DEF SumOf, r
<1> QED
  BY <1>4, <1>12, <1>13 DEF r

\* One more entry adds its time.
LEMMA SumLonger ==
    ASSUME NEW n \in Nat \ {0}, NEW t \in [1 .. n -> Int], NEW u \in [1 .. n + 1 -> Int],
           \A k \in 1 .. n : u[k] = t[k]
    PROVE  SumOf(u) = SumOf(t) + u[n + 1]
<1> DEFINE Same == {k \in 1 .. n : RunningSums(u)[k] = RunningSums(t)[k]}
<1>1. n + 1 \in Nat \ {0} /\ n + 1 \in 2 .. n + 1 /\ (n + 1) - 1 = n /\ 1 \in 1 .. n /\ n \in 1 .. n
  OBVIOUS
<1>2. /\ RunningSums(t)[1] = t[1] /\ SumOf(t) = RunningSums(t)[n]
      /\ \A k \in 2 .. n : RunningSums(t)[k] = RunningSums(t)[k - 1] + t[k]
  BY RunningSumsUnfold
<1>3. /\ RunningSums(u)[1] = u[1] /\ SumOf(u) = RunningSums(u)[n + 1]
      /\ \A k \in 2 .. n + 1 : RunningSums(u)[k] = RunningSums(u)[k - 1] + u[k]
  BY <1>1, RunningSumsUnfold
<1>4. 1 \in Same
  BY <1>1, <1>2, <1>3
<1>5. ASSUME NEW k \in 2 .. n, k - 1 \in Same PROVE k \in Same
  <2>1. k \in 2 .. n + 1 /\ k \in 1 .. n
    OBVIOUS
  <2> QED
    BY <1>2, <1>3, <1>5, <2>1
<1>6. n \in Same
  <2> HIDE DEF Same
  <2> QED
    BY <1>1, <1>4, <1>5, Climb
<1> QED
  BY <1>1, <1>2, <1>3, <1>6

(***************************************************************************)
(* Walks of cells, and the designs that have a cycle of them.              *)
(***************************************************************************)
\* n cells, each an input of the next, that end in c.
Walk(w, n, c) ==
    /\ n \in Nat \ {0} /\ w \in [1 .. n -> Cells] /\ w[n] = c
    /\ \A k \in 2 .. n : w[k - 1] \in inputs[w[k]]

Design == inputs \in [Cells -> SUBSET Sources]

LEMMA FiniteCells == IsFiniteSet(Cells) /\ Cardinality(Cells) = CellCount
BY TimingAssumption, FS_Interval DEF Cells

LEMMA WalkIsSeq ==
    ASSUME NEW n \in Nat, NEW w \in [1 .. n -> Cells]
    PROVE  w \in Seq(Cells) /\ Len(w) = n
BY SeqDef, LenProperties

\* A walk with more cells than the design has, or any that comes back to a
\* cell, goes round a cycle of distinct cells.
LEMMA BackToACell ==
    ASSUME NEW n, NEW w, NEW c \in Cells, Walk(w, n, c),
           NEW i \in 1 .. n, NEW j \in 1 .. n, i < j, w[i] = w[j]
    PROVE  Cyclic
<1> DEFINE Gaps == {d \in Nat \ {0} : \E a \in 1 .. n : a + d \in 1 .. n /\ w[a] = w[a + d]}
<1>1. n \in Nat \ {0} /\ w \in [1 .. n -> Cells] /\ \A k \in 2 .. n : w[k - 1] \in inputs[w[k]]
  BY DEF Walk
<1>2. j - i \in Nat \ {0} /\ i + (j - i) = j
  OBVIOUS
<1>3. j - i \in Gaps
  BY <1>2
<1>4. PICK d \in Gaps : \A g \in Gaps : d <= g
  <2>1. Gaps \in SUBSET Nat /\ Gaps # {}
    BY <1>3
  <2> HIDE DEF Gaps
  <2> QED
    BY <2>1, LeastNatural
<1>5. PICK a \in 1 .. n : a + d \in 1 .. n /\ w[a] = w[a + d]
  OBVIOUS
<1> DEFINE p == [k \in 1 .. d |-> w[a + k]]
<1>6. d \in Nat \ {0} /\ d \in 1 .. d /\ 1 \in 1 .. d
  OBVIOUS
<1>7. \A k \in 1 .. d : a + k \in 1 .. n
  BY <1>1, <1>5, <1>6
<1>8. p \in [1 .. d -> Cells] /\ p[d] = w[a]
  BY <1>1, <1>5, <1>6, <1>7
<1>9. ASSUME NEW x \in 1 .. d, NEW y \in 1 .. d, x < y, p[x] = p[y] PROVE FALSE
  <2>1. a + x \in 1 .. n /\ y - x \in Nat \ {0} /\ (a + x) + (y - x) = a + y /\ a + y \in 1 .. n
    BY <1>7, <1>9
  <2>2. w[a + x] = w[a + y]
    BY <1>9
  <2>3. y - x \in Gaps
    BY <2>1, <2>2
  <2>4. d <= y - x
    <3> HIDE DEF Gaps
    <3> QED
      BY <1>4, <2>3
  <2> QED
    BY <1>6, <2>4
<1>10. \A x, y \in 1 .. d : x # y => p[x] # p[y]
  BY <1>9
<1>11. \A k \in 1 .. d - 1 : p[k] \in inputs[p[k + 1]]
  <2> TAKE k \in 1 .. d - 1
  <2>1. k \in 1 .. d /\ k + 1 \in 1 .. d /\ a + (k + 1) \in 2 .. n /\ (a + (k + 1)) - 1 = a + k
    BY <1>1, <1>6, <1>7
  <2>2. w[(a + (k + 1)) - 1] \in inputs[w[a + (k + 1)]]
    BY <1>1, <2>1
  <2> QED
    BY <2>1, <2>2
<1>12. p[d] \in inputs[p[1]]
  <2>0. a + 1 \in 1 .. n /\ a \in 1 .. n /\ n \in Nat
    BY <1>1, <1>6, <1>7
  <2>1. a + 1 \in 2 .. n /\ (a + 1) - 1 = a
    BY <2>0
  <2>2. w[(a + 1) - 1] \in inputs[w[a + 1]]
    BY <1>1, <2>1
  <2> QED
    BY <1>6, <1>8, <2>1, <2>2
<1>13. d \in Cells
  <2> HIDE DEF p
  <2>1. SUFFICES ASSUME d > CellCount PROVE FALSE
    BY <1>6, TimingAssumption DEF Cells
  <2>2. IsFiniteSet(1 .. d) /\ Cardinality(1 .. d) = d
    BY <1>6, FS_Interval
  <2>3. Cardinality(Cells) < Cardinality(1 .. d)
    BY <2>1, <2>2, FiniteCells
  <2> QED
    BY <1>8, <1>10, <2>2, <2>3, FiniteCells, FS_PigeonHole
<1>14. p \in CellPaths(p[d])
  <2> HIDE DEF p
  <2>1. Len(p) = d
    BY <1>6, <1>8, WalkIsSeq
  <2>2. p \in UNION {[1 .. m -> Cells] : m \in Cells}
    BY <1>8, <1>13
  <2> QED
    BY <1>10, <1>11, <2>1, <2>2 DEF CellPaths
<1>15. p[d] \in Cells
  BY <1>6, <1>8
<1> QED
  BY <1>12, <1>14, <1>15 DEF Cyclic

\* So in a design without a cycle the walks are the paths of the definition.
LEMMA WalkIsPath ==
    ASSUME ~Cyclic, NEW n, NEW w, NEW c \in Cells, Walk(w, n, c)
    PROVE  w \in CellPaths(c) /\ n <= CellCount
<1>1. n \in Nat \ {0} /\ w \in [1 .. n -> Cells] /\ w[n] = c
      /\ \A k \in 2 .. n : w[k - 1] \in inputs[w[k]]
  BY DEF Walk
<1>2. \A i, j \in 1 .. n : i # j => w[i] # w[j]
  <2> SUFFICES ASSUME NEW i \in 1 .. n, NEW j \in 1 .. n, i # j, w[i] = w[j] PROVE FALSE
    OBVIOUS
  <2>1. i < j \/ j < i
    OBVIOUS
  <2> QED
    BY <2>1, BackToACell
<1>3. n <= CellCount
  <2> SUFFICES ASSUME n > CellCount PROVE FALSE
    BY <1>1, TimingAssumption
  <2>1. IsFiniteSet(1 .. n) /\ Cardinality(1 .. n) = n
    BY <1>1, FS_Interval
  <2>2. Cardinality(Cells) < Cardinality(1 .. n)
    BY <2>1, FiniteCells
  <2> QED
    BY <1>1, <1>2, <2>1, <2>2, FiniteCells, FS_PigeonHole
<1>4. n \in Cells /\ Len(w) = n
  BY <1>1, <1>3, WalkIsSeq DEF Cells
<1>5. \A k \in 1 .. n - 1 : w[k] \in inputs[w[k + 1]]
  <2> TAKE k \in 1 .. n - 1
  <2>1. k + 1 \in 2 .. n /\ (k + 1) - 1 = k
    BY <1>1
  <2> QED
    BY <1>1, <2>1
<1>6. w \in UNION {[1 .. m -> Cells] : m \in Cells}
  BY <1>1, <1>4
<1> QED
  BY <1>1, <1>2, <1>3, <1>4, <1>5, <1>6 DEF CellPaths

LEMMA PathIsWalk ==
    ASSUME NEW c, NEW p \in CellPaths(c)
    PROVE  Walk(p, Len(p), c)
<1>1. PICK n \in Cells : p \in [1 .. n -> Cells]
  BY DEF CellPaths
<1>2. n \in Nat \ {0} /\ Len(p) = n
  BY <1>1, TimingAssumption, WalkIsSeq DEF Cells
<1>3. p[n] = c /\ \A k \in 1 .. n - 1 : p[k] \in inputs[p[k + 1]]
  BY <1>2 DEF CellPaths
<1>4. \A k \in 2 .. n : p[k - 1] \in inputs[p[k]]
  <2> TAKE k \in 2 .. n
  <2>1. k - 1 \in 1 .. n - 1 /\ (k - 1) + 1 = k
    BY <1>2
  <2> QED
    BY <1>3, <2>1
<1> QED
  BY <1>1, <1>2, <1>3, <1>4 DEF Walk

\* There are finitely many paths: each is one of the subsets of the pairs of
\* a position and a cell.
LEMMA FinitePaths ==
    ASSUME NEW c \in Cells
    PROVE  IsFiniteSet(CellPaths(c))
<1> DEFINE Pairs == Cells \X Cells
           Places(G) == {k \in Cells : \E x \in Cells : <<k, x>> \in G}
           PathOf(G) == [k \in Places(G) |-> CHOOSE x \in Cells : <<k, x>> \in G]
           f == [G \in SUBSET Pairs |-> PathOf(G)]
<1>1. IsFiniteSet(SUBSET Pairs)
  BY FiniteCells, FS_Product, FS_SUBSET
<1>2. IsFiniteSet({f[G] : G \in SUBSET Pairs})
  <2> HIDE DEF f
  <2> QED
    BY <1>1, FiniteValues
<1>3. ASSUME NEW p \in CellPaths(c) PROVE p \in {f[G] : G \in SUBSET Pairs}
  <2>1. PICK n \in Cells : p \in [1 .. n -> Cells]
    BY DEF CellPaths
  <2> DEFINE G == {e \in Pairs : e[1] \in 1 .. n /\ p[e[1]] = e[2]}
  <2>2. 1 .. n \subseteq Cells
    BY <2>1, TimingAssumption DEF Cells
  <2>3. \A k \in Cells, x \in Cells : <<k, x>> \in G <=> k \in 1 .. n /\ p[k] = x
    OBVIOUS
  <2> HIDE DEF G
  <2>4. Places(G) = 1 .. n
    BY <2>1, <2>2, <2>3
  <2>5. \A k \in 1 .. n : (CHOOSE x \in Cells : <<k, x>> \in G) = p[k]
    BY <2>1, <2>2, <2>3
  <2>6. PathOf(G) = p
    BY <2>1, <2>4, <2>5
  <2>7. G \in SUBSET Pairs
    BY DEF G
  <2> HIDE DEF PathOf
  <2> QED
    BY <2>6, <2>7
<1>4. CellPaths(c) \subseteq {f[G] : G \in SUBSET Pairs}
  BY <1>3
<1> HIDE DEF f
<1> QED
  BY <1>2, <1>4, FS_Subset

(***************************************************************************)
(* What a walk adds up to.                                                 *)
(***************************************************************************)
LEMMA Delays ==
    /\ \A c \in Cells : CellDelay[c] \in Nat \ {0}
    /\ \A s \in Starts : Launch[s] \in Nat
    /\ \A s \in Sources, n \in Cells \union Ends : NetDelay(s, n) \in Nat
    /\ Cells \subseteq Sources /\ Starts \subseteq Sources /\ IsFiniteSet(Sources)
BY TimingAssumption, FiniteCells, FS_Union DEF Sources

LEMMA LaunchIntoBounds ==
    ASSUME Design, NEW c \in Cells
    PROVE  /\ LaunchInto(c) \in Nat
           /\ \A s \in inputs[c] \intersect Starts : LaunchInto(c) >= Launch[s] + NetDelay(s, c)
           /\ \/ LaunchInto(c) = 0
              \/ \E s \in inputs[c] \intersect Starts : LaunchInto(c) = Launch[s] + NetDelay(s, c)
<1> DEFINE f == [s \in Starts |-> Launch[s] + NetDelay(s, c)]
           T == {f[s] : s \in inputs[c] \intersect Starts}
<1>1. IsFiniteSet(T)
  <2>1. IsFiniteSet(inputs[c] \intersect Starts)
    BY TimingAssumption, FS_Intersection
  <2> HIDE DEF f
  <2> QED
    BY <2>1, FiniteValues
<1>2. T \subseteq Nat
  BY Delays
<1>3. IsFiniteSet({0} \union T) /\ {0} \union T \in SUBSET Int /\ {0} \union T # {}
  <2> HIDE DEF T
  <2>1. IsFiniteSet({0} \union T)
    BY <1>1, FS_Singleton, FS_Union
  <2>2. {0} \union T \in SUBSET Int
    BY <1>2
  <2> QED
    BY <2>1, <2>2
<1>4. {Launch[s] + NetDelay(s, c) : s \in inputs[c] \intersect Starts} = T
  OBVIOUS
<1>5. LaunchInto(c) = Max({0} \union T)
  BY <1>4 DEF LaunchInto
<1>6. LaunchInto(c) \in {0} \union T /\ \A x \in {0} \union T : LaunchInto(c) >= x
  <2> HIDE DEF T
  <2> QED
    BY <1>3, <1>5, MaxOfFinite
<1> QED
  BY <1>2, <1>6

LEMMA PathTimesAre ==
    ASSUME Design, NEW n, NEW w, NEW c \in Cells, Walk(w, n, c)
    PROVE  /\ PathTimes(w) \in [1 .. n -> Int]
           /\ PathTimes(w)[1] = CellDelay[w[1]] + LaunchInto(w[1])
           /\ \A k \in 2 .. n : PathTimes(w)[k] = CellDelay[w[k]] + NetDelay(w[k - 1], w[k])
<1>1. n \in Nat \ {0} /\ w \in [1 .. n -> Cells] /\ Len(w) = n
  BY WalkIsSeq DEF Walk
<1>2. 1 \in 1 .. n /\ \A k \in 2 .. n : k \in 1 .. n /\ k - 1 \in 1 .. n /\ k # 1
  BY <1>1
<1>3. \A k \in 1 .. n : w[k] \in Cells /\ CellDelay[w[k]] \in Nat
  BY <1>1, Delays
<1>4. LaunchInto(w[1]) \in Nat
  BY <1>2, <1>3, LaunchIntoBounds
<1>5. \A k \in 2 .. n : NetDelay(w[k - 1], w[k]) \in Nat
  BY <1>2, <1>3, Delays
<1>6. \A k \in 1 .. n : k = 1 \/ k \in 2 .. n
  OBVIOUS
<1>7. PathTimes(w) = [k \in 1 .. n |->
         CellDelay[w[k]] + IF k = 1 THEN LaunchInto(w[1]) ELSE NetDelay(w[k - 1], w[k])]
  BY <1>1 DEF PathTimes
<1>8. \A k \in 1 .. n : PathTimes(w)[k] =
         CellDelay[w[k]] + IF k = 1 THEN LaunchInto(w[1]) ELSE NetDelay(w[k - 1], w[k])
  BY <1>7
<1>9. \A k \in 1 .. n : PathTimes(w)[k] \in Int
  BY <1>3, <1>4, <1>5, <1>6, <1>8
<1> QED
  BY <1>2, <1>7, <1>8, <1>9

\* The walk that is the cell alone, and the walk that goes one cell further.
LEMMA ShortWalk ==
    ASSUME Design, NEW c \in Cells
    PROVE  \E w : Walk(w, 1, c) /\ PathDelay(w) = CellDelay[c] + LaunchInto(c)
<1> DEFINE w == [k \in 1 .. 1 |-> c]
<1>1. Walk(w, 1, c) /\ w[1] = c
  BY DEF Walk
<1> HIDE DEF w
<1>2. PathTimes(w) \in [1 .. 1 -> Int] /\ PathTimes(w)[1] = CellDelay[c] + LaunchInto(c)
  BY <1>1, PathTimesAre
<1>3. PathDelay(w) = CellDelay[c] + LaunchInto(c)
  <2>1. 1 \in Nat \ {0}
    OBVIOUS
  <2>2. SumOf(PathTimes(w)) = RunningSums(PathTimes(w))[1]
    BY <1>2, <2>1, RunningSumsUnfold
  <2>3. RunningSums(PathTimes(w))[1] = PathTimes(w)[1]
    BY <1>2, <2>1, RunningSumsUnfold
  <2> QED
    BY <1>2, <2>2, <2>3 DEF PathDelay
<1> QED
  BY <1>1, <1>3

LEMMA LongerWalk ==
    ASSUME Design, NEW n, NEW w, NEW s \in Cells, NEW c \in Cells,
           Walk(w, n, s), s \in inputs[c]
    PROVE  \E v : /\ Walk(v, n + 1, c)
                  /\ PathDelay(v) = PathDelay(w) + NetDelay(s, c) + CellDelay[c]
<1> DEFINE v == [k \in 1 .. n + 1 |-> IF k = n + 1 THEN c ELSE w[k]]
<1>1. n \in Nat \ {0} /\ w \in [1 .. n -> Cells] /\ w[n] = s
      /\ \A k \in 2 .. n : w[k - 1] \in inputs[w[k]]
  BY DEF Walk
<1>2. n + 1 \in Nat \ {0} /\ n + 1 \in 2 .. n + 1 /\ (n + 1) - 1 = n /\ n \in 1 .. n
      /\ n + 1 \in 1 .. n + 1
  BY <1>1
<1>3. \A k \in 1 .. n + 1 : k = n + 1 \/ (k \in 1 .. n /\ k # n + 1)
  BY <1>1
<1>4. v[n + 1] = c /\ \A k \in 1 .. n : v[k] = w[k] /\ k # n + 1 /\ k \in 1 .. n + 1
  BY <1>1
<1>5. v \in [1 .. n + 1 -> Cells]
  BY <1>1, <1>3
<1> HIDE DEF v
<1>6. \A k \in 2 .. n + 1 : v[k - 1] \in inputs[v[k]]
  <2> TAKE k \in 2 .. n + 1
  <2>1. CASE k = n + 1
    BY <1>1, <1>2, <1>4, <2>1
  <2>2. CASE k # n + 1
    <3>1. k \in 2 .. n /\ k \in 1 .. n /\ k - 1 \in 1 .. n
      BY <1>1, <2>2
    <3> QED
      BY <1>1, <1>4, <3>1
  <2> QED
    BY <2>1, <2>2
<1>7. Walk(v, n + 1, c)
  BY <1>2, <1>4, <1>5, <1>6 DEF Walk
<1>8. /\ PathTimes(w) \in [1 .. n -> Int]
      /\ PathTimes(w)[1] = CellDelay[w[1]] + LaunchInto(w[1])
      /\ \A k \in 2 .. n : PathTimes(w)[k] = CellDelay[w[k]] + NetDelay(w[k - 1], w[k])
  BY PathTimesAre
<1>9. /\ PathTimes(v) \in [1 .. n + 1 -> Int]
      /\ PathTimes(v)[1] = CellDelay[v[1]] + LaunchInto(v[1])
      /\ \A k \in 2 .. n + 1 : PathTimes(v)[k] = CellDelay[v[k]] + NetDelay(v[k - 1], v[k])
  BY <1>7, PathTimesAre
<1>10. \A k \in 1 .. n : PathTimes(v)[k] = PathTimes(w)[k]
  <2> TAKE k \in 1 .. n
  <2>1. CASE k = 1
    BY <1>4, <1>8, <1>9, <2>1
  <2>2. CASE k # 1
    <3>1. k \in 2 .. n /\ k \in 2 .. n + 1 /\ k - 1 \in 1 .. n
      BY <1>1, <2>2
    <3> QED
      BY <1>4, <1>8, <1>9, <3>1
  <2> QED
    BY <2>1, <2>2
<1>11. PathTimes(v)[n + 1] = CellDelay[c] + NetDelay(s, c)
  BY <1>1, <1>2, <1>4, <1>9
<1>12. PathDelay(v) = PathDelay(w) + (CellDelay[c] + NetDelay(s, c))
  BY <1>1, <1>8, <1>9, <1>10, <1>11, SumLonger DEF PathDelay
<1>13. PathDelay(w) \in Int
  BY <1>1, <1>2, <1>8, RunningSumsUnfold DEF PathDelay
<1>14. CellDelay[c] \in Nat /\ NetDelay(s, c) \in Nat
  BY Delays
<1> QED
  BY <1>7, <1>12, <1>13, <1>14

LEMMA PathDelayInt ==
    ASSUME Design, NEW n, NEW w, NEW c \in Cells, Walk(w, n, c)
    PROVE  PathDelay(w) \in Int
<1>1. n \in Nat \ {0} /\ n \in 1 .. n
  BY DEF Walk
<1>2. PathTimes(w) \in [1 .. n -> Int]
  BY PathTimesAre
<1> QED
  BY <1>1, <1>2, RunningSumsUnfold DEF PathDelay

\* Times of the cells that respect every start and every input bound every walk.
LEMMA WalkBelow ==
    ASSUME Design, NEW a \in [Cells -> Int], NEW n, NEW w, NEW c \in Cells, Walk(w, n, c),
           \A x \in Cells : a[x] >= CellDelay[x] + LaunchInto(x),
           \A x \in Cells : \A s \in inputs[x] \intersect Cells :
              a[x] >= a[s] + NetDelay(s, x) + CellDelay[x]
    PROVE  PathDelay(w) <= a[c]
<1>1. n \in Nat \ {0} /\ w \in [1 .. n -> Cells] /\ w[n] = c
      /\ \A k \in 2 .. n : w[k - 1] \in inputs[w[k]]
  BY DEF Walk
<1>2. /\ PathTimes(w) \in [1 .. n -> Int]
      /\ PathTimes(w)[1] = CellDelay[w[1]] + LaunchInto(w[1])
      /\ \A k \in 2 .. n : PathTimes(w)[k] = CellDelay[w[k]] + NetDelay(w[k - 1], w[k])
  BY PathTimesAre
<1> DEFINE r == RunningSums(PathTimes(w))
           Below == {k \in 1 .. n : r[k] <= a[w[k]]}
<1>3. /\ r \in [1 .. n -> Int] /\ r[1] = PathTimes(w)[1]
      /\ \A k \in 2 .. n : r[k] = r[k - 1] + PathTimes(w)[k]
      /\ PathDelay(w) = r[n]
  BY <1>1, <1>2, RunningSumsUnfold DEF PathDelay
<1> HIDE DEF r
<1>4. 1 \in Below
  BY <1>1, <1>2, <1>3
<1>5. ASSUME NEW k \in 2 .. n, k - 1 \in Below PROVE k \in Below
  <2>1. k \in 1 .. n /\ k - 1 \in 1 .. n
    BY <1>1
  <2>2. w[k] \in Cells /\ w[k - 1] \in inputs[w[k]] \intersect Cells
    BY <1>1, <2>1
  <2>3. a[w[k]] >= a[w[k - 1]] + NetDelay(w[k - 1], w[k]) + CellDelay[w[k]]
    BY <2>2
  <2>4. r[k] = r[k - 1] + (CellDelay[w[k]] + NetDelay(w[k - 1], w[k])) /\ r[k - 1] <= a[w[k - 1]]
    BY <1>2, <1>3, <1>5
  <2>5. /\ CellDelay[w[k]] \in Nat /\ NetDelay(w[k - 1], w[k]) \in Nat
        /\ a[w[k]] \in Int /\ a[w[k - 1]] \in Int /\ r[k] \in Int /\ r[k - 1] \in Int
    BY <1>3, <2>1, <2>2, Delays
  <2> QED
    BY <2>1, <2>3, <2>4, <2>5
<1>6. n \in Below
  <2>1. n \in 1 .. n
    BY <1>1
  <2> HIDE DEF Below
  <2> QED
    BY <1>1, <1>4, <1>5, <2>1, Climb
<1> QED
  BY <1>1, <1>3, <1>6

(***************************************************************************)
(* The arrivals of the forward passes.                                     *)
(***************************************************************************)
Timed == arrival \in [Nodes -> Nat \union {Absent}]

\* The arrival a cell is raised to: the worst over its inputs.
OutputIsWorst ==
    \A c \in Cells :
      /\ OutputArrival(c) \in Nat \ {0}
      /\ OutputArrival(c) >= CellDelay[c]
      /\ \A s \in inputs[c] : OutputArrival(c) >= PinArrival(s, c) + CellDelay[c]
      /\ \/ OutputArrival(c) = CellDelay[c]
         \/ \E s \in inputs[c] : OutputArrival(c) = PinArrival(s, c) + CellDelay[c]

LEMMA PinsTimed ==
    ASSUME Timed, NEW s \in Sources, NEW n \in Cells \union Ends
    PROVE  ArrivalOf(s) \in Nat /\ PinArrival(s, n) \in Nat /\ PinArrival(s, n) >= ArrivalOf(s)
<1>1. arrival[s] \in Nat \union {-1} /\ NetDelay(s, n) \in Nat
  BY Delays DEF Timed, Nodes, Absent
<1> QED
  BY <1>1 DEF ArrivalOf, PinArrival, Absent

LEMMA OutputArrivalIs == Design /\ Timed => OutputIsWorst
<1> SUFFICES ASSUME Design, Timed, NEW c \in Cells
             PROVE  /\ OutputArrival(c) \in Nat \ {0}
                    /\ OutputArrival(c) >= CellDelay[c]
                    /\ \A s \in inputs[c] : OutputArrival(c) >= PinArrival(s, c) + CellDelay[c]
                    /\ \/ OutputArrival(c) = CellDelay[c]
                       \/ \E s \in inputs[c] : OutputArrival(c) = PinArrival(s, c) + CellDelay[c]
  BY DEF OutputIsWorst
<1> DEFINE f == [s \in Sources |-> PinArrival(s, c)]
           T == {f[s] : s \in inputs[c]}
<1>1. inputs[c] \subseteq Sources
  BY DEF Design
<1>2. IsFiniteSet(T)
  <2>1. IsFiniteSet(inputs[c])
    BY <1>1, Delays, FS_Subset
  <2> HIDE DEF f
  <2> QED
    BY <2>1, FiniteValues
<1>3. \A s \in inputs[c] : f[s] = PinArrival(s, c) /\ PinArrival(s, c) \in Nat
  BY <1>1, PinsTimed
<1>4. {PinArrival(s, c) : s \in inputs[c]} = T
  BY <1>3
<1>5. T \subseteq Nat
  BY <1>3
<1> DEFINE M == Max(T \union {0})
<1>6. M \in T \union {0} /\ \A x \in T \union {0} : M >= x
  <2> HIDE DEF T
  <2>1. IsFiniteSet(T \union {0})
    BY <1>2, FS_Singleton, FS_Union
  <2>2. T \union {0} \in SUBSET Int
    BY <1>5
  <2> QED
    BY <2>1, <2>2, MaxOfFinite
<1>7. OutputArrival(c) = M + CellDelay[c]
  BY <1>4 DEF OutputArrival
<1> HIDE DEF M
<1>8. CellDelay[c] \in Nat \ {0}
  BY Delays
<1>9. M \in Nat
  BY <1>5, <1>6
<1>10. ASSUME NEW s \in inputs[c] PROVE OutputArrival(c) >= PinArrival(s, c) + CellDelay[c]
  <2>1. PinArrival(s, c) \in T /\ PinArrival(s, c) \in Nat
    BY <1>3
  <2>2. M >= PinArrival(s, c)
    BY <1>6, <2>1
  <2> QED
    BY <1>7, <1>8, <1>9, <2>1, <2>2
<1>11. CASE M = 0
  BY <1>7, <1>8, <1>10, <1>11
<1>12. CASE M \in T
  <2>1. PICK s \in inputs[c] : M = PinArrival(s, c)
    BY <1>3, <1>12
  <2> QED
    BY <1>7, <1>8, <1>9, <1>10, <2>1
<1> QED
  BY <1>6, <1>11, <1>12

LEMMA OutputArrivalThen == Design' /\ Timed' => OutputIsWorst'
BY OutputArrivalIs, PTL

\* Higher arrivals make no output earlier, and arrivals that stay make none later.
LEMMA HigherArrivals ==
    ASSUME Design, Timed, Timed', UNCHANGED inputs,
           \A s \in Sources : arrival[s] <= arrival'[s]
    PROVE  \A c \in Cells :
              /\ OutputArrival(c) <= OutputArrival(c)'
              /\ (\A s \in inputs[c] : arrival'[s] = arrival[s])
                   => OutputArrival(c)' = OutputArrival(c)
<1> TAKE c \in Cells
<1>1. Design'
  BY DEF Design
<1>2. OutputIsWorst /\ OutputIsWorst'
  BY <1>1, OutputArrivalIs, OutputArrivalThen
<1>3. inputs[c] \subseteq Sources /\ c \in Cells \union Ends
  BY DEF Design
<1>4. \A s \in inputs[c] : /\ PinArrival(s, c) \in Nat
                           /\ PinArrival(s, c)' \in Nat
                           /\ PinArrival(s, c) <= PinArrival(s, c)'
                           /\ arrival'[s] = arrival[s] => PinArrival(s, c)' = PinArrival(s, c)
  <2> TAKE s \in inputs[c]
  <2>1. /\ arrival[s] \in Nat \union {-1} /\ arrival'[s] \in Nat \union {-1}
        /\ NetDelay(s, c) \in Nat /\ arrival[s] <= arrival'[s]
    BY <1>3, Delays DEF Timed, Nodes, Absent
  <2> QED
    BY <2>1 DEF PinArrival, ArrivalOf, Absent
<1>5. /\ CellDelay[c] \in Nat /\ OutputArrival(c) \in Nat /\ OutputArrival(c)' \in Nat
      /\ OutputArrival(c) >= CellDelay[c] /\ OutputArrival(c)' >= CellDelay[c]
      /\ \A s \in inputs[c] : /\ OutputArrival(c) >= PinArrival(s, c) + CellDelay[c]
                              /\ OutputArrival(c)' >= PinArrival(s, c)' + CellDelay[c]
  BY <1>2, Delays DEF OutputIsWorst
<1>6. OutputArrival(c) <= OutputArrival(c)'
  <2>1. CASE OutputArrival(c) = CellDelay[c]
    BY <1>5, <2>1
  <2>2. CASE \E s \in inputs[c] : OutputArrival(c) = PinArrival(s, c) + CellDelay[c]
    BY <1>4, <1>5, <2>2
  <2> QED
    BY <1>2, <2>1, <2>2 DEF OutputIsWorst
<1>7. ASSUME \A s \in inputs[c] : arrival'[s] = arrival[s]
      PROVE  OutputArrival(c)' = OutputArrival(c)
  <2>1. CASE OutputArrival(c)' = CellDelay[c]
    BY <1>5, <1>6, <2>1
  <2>2. CASE \E s \in inputs[c] : OutputArrival(c)' = PinArrival(s, c)' + CellDelay[c]
    BY <1>4, <1>5, <1>6, <1>7, <2>2
  <2>3. \/ OutputArrival(c)' = CellDelay[c]
        \/ \E s \in inputs[c] : OutputArrival(c)' = PinArrival(s, c)' + CellDelay[c]
    BY <1>2 DEF OutputIsWorst
  <2> QED
    BY <2>1, <2>2, <2>3
<1> QED
  BY <1>6, <1>7

\* The design does not change, so neither do its walks.
LEMMA SameWalks ==
    ASSUME UNCHANGED inputs
    PROVE  /\ Design <=> Design'
           /\ \A w, n, c : Walk(w, n, c)' <=> Walk(w, n, c)
           /\ \A w : PathDelay(w)' = PathDelay(w)
           /\ Cyclic' <=> Cyclic
<1>1. \A w, n, c : Walk(w, n, c)' <=> Walk(w, n, c)
  BY DEF Walk
<1>2. \A c : LaunchInto(c)' = LaunchInto(c)
  BY DEF LaunchInto
<1>3. \A w : PathTimes(w)' = PathTimes(w)
  BY <1>2 DEF PathTimes
<1>4. \A w : PathDelay(w)' = PathDelay(w)
  BY <1>3 DEF PathDelay
<1>5. \A c : CellPaths(c)' = CellPaths(c)
  BY DEF CellPaths
<1>6. Cyclic' <=> Cyclic
  BY <1>5 DEF Cyclic
<1> QED
  BY <1>1, <1>4, <1>6 DEF Design

(***************************************************************************)
(* The inductive invariant.                                                *)
(***************************************************************************)
\* There is a walk of at least m cells to c.
LedTo(c, m) == \E n, w : Walk(w, n, c) /\ n >= m

StaTypeInv ==
    /\ phase \in {"arrival", "required", "loop", "done"}
    /\ Design /\ Timed
    /\ pass \in 1 .. PassLimit /\ cell \in 1 .. CellCount + 1 /\ changed \in BOOLEAN
    /\ \A s \in Starts : arrival[s] = Launch[s]

\* An arrival is that of a walk, or earlier.
Attained ==
    \A c \in Cells : arrival[c] # Absent =>
       \E n, w : Walk(w, n, c) /\ PathDelay(w) >= arrival[c]

\* A cell that a pass has yet to raise is at the end of a walk as long as the
\* passes up to that one.
RaisesAreLedTo ==
    \A c \in Cells : OutputArrival(c) > arrival[c] =>
       LedTo(c, pass + IF c < cell THEN 1 ELSE 0)

ChangesAreLedTo == changed => \E c \in Cells : LedTo(c, pass)

QuietSoFar == ~changed => \A c \in Cells : c < cell => arrival[c] >= OutputArrival(c)

NotAbove == \A c \in Cells : arrival[c] <= OutputArrival(c)

\* What the end of the passes leaves behind.
Settled ==
    /\ \A c \in Cells : arrival[c] = OutputArrival(c)
    /\ \A e \in Ends : arrival[e] = ArrivalOf(EndDriver[e]) + NetDelay(EndDriver[e], e)

PassesInv ==
    /\ StaTypeInv /\ Attained /\ NotAbove
    /\ phase = "arrival" => RaisesAreLedTo /\ ChangesAreLedTo /\ QuietSoFar
    /\ phase \in {"required", "done"} => Settled
    /\ phase = "loop" => Cyclic

LEMMA PassLimitIs == PassLimit \in Nat /\ PassLimit >= 2 /\ PassLimit > CellCount
<1>1. CellCount \in Nat
  BY TimingAssumption
<1>2. IsFiniteSet({CellCount, 1})
  <2>1. {CellCount, 1} = {CellCount} \union {1}
    OBVIOUS
  <2>2. IsFiniteSet({CellCount}) /\ IsFiniteSet({1})
    BY FS_Singleton
  <2>3. IsFiniteSet({CellCount} \union {1})
    BY <2>2, FS_Union
  <2> QED
    BY <2>1, <2>3
<1>3. /\ Max({CellCount, 1}) \in {CellCount, 1}
      /\ \A x \in {CellCount, 1} : Max({CellCount, 1}) >= x
  <2>1. {CellCount, 1} \in SUBSET Int /\ {CellCount, 1} # {}
    BY <1>1
  <2> QED
    BY <1>2, <2>1, MaxOfFinite
<1>4. Max({CellCount, 1}) \in Nat /\ Max({CellCount, 1}) >= 1 /\ Max({CellCount, 1}) >= CellCount
  BY <1>1, <1>3
<1>5. PassLimit = Max({CellCount, 1}) * 2
  BY DEF PassLimit
<1> QED
  BY <1>1, <1>4, <1>5

LEMMA InitPasses == Init => PassesInv
<1> SUFFICES ASSUME Init PROVE PassesInv
  OBVIOUS
<1>1. /\ phase = "arrival" /\ inputs \in Designs /\ pass = 1 /\ cell = 1 /\ changed = FALSE
      /\ arrival = [n \in Nodes |-> IF n \in Starts THEN Launch[n] ELSE Absent]
  BY DEF Init
<1>2. Design
  BY <1>1, TimingAssumption DEF Design
<1>3. \A n \in Nodes : arrival[n] = IF n \in Starts THEN Launch[n] ELSE Absent
  BY <1>1
<1>4. Timed
  <2>1. \A s \in Starts : Launch[s] \in Nat
    BY Delays
  <2> QED
    BY <1>1, <2>1 DEF Timed
<1>5. \A s \in Starts : arrival[s] = Launch[s]
  BY <1>3, Delays DEF Nodes
<1>6. \A c \in Cells : arrival[c] = Absent
  BY <1>3, TimingAssumption DEF Nodes, Sources
<1>7. StaTypeInv
  <2>1. pass \in 1 .. PassLimit
    BY <1>1, PassLimitIs
  <2>2. cell \in 1 .. CellCount + 1
    BY <1>1, TimingAssumption
  <2> QED
    BY <1>1, <1>2, <1>4, <1>5, <2>1, <2>2 DEF StaTypeInv
<1>8. Attained
  BY <1>6 DEF Attained
<1>9. NotAbove
  <2>1. \A c \in Cells : OutputArrival(c) \in Nat \ {0}
    BY <1>2, <1>4, OutputArrivalIs DEF OutputIsWorst
  <2> QED
    BY <1>6, <2>1 DEF NotAbove, Absent
<1>10. RaisesAreLedTo
  <2> SUFFICES ASSUME NEW c \in Cells PROVE LedTo(c, pass + IF c < cell THEN 1 ELSE 0)
    BY DEF RaisesAreLedTo
  <2>1. ~(c < cell)
    BY <1>1, TimingAssumption DEF Cells
  <2>2. PICK w : Walk(w, 1, c)
    BY <1>2, ShortWalk
  <2> QED
    BY <1>1, <2>1, <2>2 DEF LedTo
<1>11. ChangesAreLedTo /\ QuietSoFar
  BY <1>1, TimingAssumption DEF ChangesAreLedTo, QuietSoFar, Cells
<1> QED
  BY <1>1, <1>7, <1>8, <1>9, <1>10, <1>11 DEF PassesInv

LEMMA StepRelaxCell == ASSUME PassesInv, RelaxCell PROVE PassesInv'
<1>1. /\ phase = "arrival" /\ cell <= CellCount /\ cell' = cell + 1
      /\ UNCHANGED <<phase, inputs, pass, required>>
  BY DEF RelaxCell
<1>2. /\ StaTypeInv /\ Attained /\ NotAbove
      /\ RaisesAreLedTo /\ ChangesAreLedTo /\ QuietSoFar
  BY <1>1 DEF PassesInv
<1>3. /\ Design /\ Timed /\ pass \in 1 .. PassLimit /\ cell \in 1 .. CellCount + 1
      /\ changed \in BOOLEAN /\ \A s \in Starts : arrival[s] = Launch[s]
      /\ CellCount \in Nat /\ PassLimit \in Nat
  BY <1>2, TimingAssumption, PassLimitIs DEF StaTypeInv
<1>4. cell \in Cells /\ cell \in Sources /\ cell \in Nodes
  BY <1>1, <1>3 DEF Cells, Sources, Nodes
<1>5. /\ Design' /\ \A w, n, c : Walk(w, n, c)' <=> Walk(w, n, c)
      /\ \A w : PathDelay(w)' = PathDelay(w)
  BY <1>1, <1>3, SameWalks
<1>6. \A c \in Cells : \A m : LedTo(c, m)' <=> LedTo(c, m)
  BY <1>5 DEF LedTo
<1>7. OutputIsWorst
  BY <1>3, OutputArrivalIs
<1>8. \A c \in Cells : arrival[c] \in Nat \union {Absent} /\ OutputArrival(c) \in Nat \ {0}
  BY <1>3, <1>7 DEF Timed, OutputIsWorst, Nodes, Sources
<1>9. \A c \in Cells : c \in Nat /\ (c < cell' <=> c < cell \/ c = cell)
  BY <1>1, <1>3 DEF Cells
<1>10. CASE OutputArrival(cell) > arrival[cell]
  <2>1. arrival' = [arrival EXCEPT ![cell] = OutputArrival(cell)] /\ changed' = TRUE
    BY <1>10 DEF RelaxCell
  <2>2. arrival'[cell] = OutputArrival(cell) /\ \A n \in Nodes : n # cell => arrival'[n] = arrival[n]
    BY <1>3, <1>4, <2>1 DEF Timed
  <2>3. Timed'
    BY <1>3, <1>8, <1>4, <2>1 DEF Timed
  <2>4. \A s \in Sources : arrival[s] <= arrival'[s]
    <3> TAKE s \in Sources
    <3>1. arrival[s] \in Nat \union {-1}
      BY <1>3 DEF Timed, Nodes, Absent
    <3>2. CASE s = cell
      BY <1>8, <1>10, <1>4, <2>2, <3>1, <3>2
    <3>3. CASE s # cell
      BY <2>2, <3>1, <3>3 DEF Nodes
    <3> QED
      BY <3>2, <3>3
  <2>5. \A c \in Cells :
           /\ OutputArrival(c) <= OutputArrival(c)'
           /\ cell \notin inputs[c] => OutputArrival(c)' = OutputArrival(c)
    <3>1. \A c \in Cells : cell \notin inputs[c] => \A s \in inputs[c] : arrival'[s] = arrival[s]
      BY <1>3, <2>2 DEF Design, Nodes
    <3> QED
      BY <1>1, <1>3, <2>3, <2>4, <3>1, HigherArrivals
  <2>6. OutputIsWorst'
    BY <1>5, <2>3, OutputArrivalThen
  <2>7. LedTo(cell, pass)
    <3>1. LedTo(cell, pass + IF cell < cell THEN 1 ELSE 0)
      BY <1>2, <1>4, <1>10 DEF RaisesAreLedTo
    <3> QED
      BY <1>3, <3>1
  <2>8. ASSUME NEW c \in Cells, cell \in inputs[c] PROVE LedTo(c, pass + 1)
    <3>1. PICK n, w : Walk(w, n, cell) /\ n >= pass
      BY <2>7 DEF LedTo
    <3>2. \E v : Walk(v, n + 1, c)
      BY <1>3, <1>4, <2>8, <3>1, LongerWalk
    <3>3. n + 1 >= pass + 1
      BY <1>3, <3>1 DEF Walk
    <3> QED
      BY <3>2, <3>3 DEF LedTo
  <2>9. StaTypeInv'
    <3>1. \A s \in Starts : arrival'[s] = Launch[s]
      BY <1>3, <1>4, <2>2, TimingAssumption DEF Nodes, Sources
    <3>2. cell' \in 1 .. CellCount + 1 /\ pass' \in 1 .. PassLimit'
      BY <1>1, <1>3 DEF PassLimit
    <3> QED
      BY <1>1, <1>5, <2>1, <2>3, <3>1, <3>2 DEF StaTypeInv
  <2>10. ASSUME NEW c \in Cells, arrival'[c] # Absent
         PROVE  \E n, w : Walk(w, n, c) /\ PathDelay(w) >= arrival'[c]
    <3>1. CASE c # cell
      BY <1>2, <2>2, <2>10, <3>1 DEF Attained, Nodes, Sources
    <3>2. CASE c = cell
      <4>1. PICK u : Walk(u, 1, c) /\ PathDelay(u) = CellDelay[c] + LaunchInto(c)
        BY <1>3, ShortWalk
      <4>2. LaunchInto(c) \in Nat /\ CellDelay[c] \in Nat
        BY <1>3, Delays, LaunchIntoBounds
      <4>3. CASE OutputArrival(c) = CellDelay[c]
        BY <2>2, <3>2, <4>1, <4>2, <4>3
      <4>4. CASE \E s \in inputs[c] : OutputArrival(c) = PinArrival(s, c) + CellDelay[c]
        <5>1. PICK s \in inputs[c] : OutputArrival(c) = PinArrival(s, c) + CellDelay[c]
          BY <4>4
        <5>2. s \in Sources /\ NetDelay(s, c) \in Nat
          BY <1>3, Delays DEF Design
        <5>3. CASE s \in Starts
          <6>1. PinArrival(s, c) = Launch[s] + NetDelay(s, c) /\ Launch[s] \in Nat
            BY <1>3, <5>3, Delays DEF PinArrival, ArrivalOf, Absent
          <6>2. LaunchInto(c) >= Launch[s] + NetDelay(s, c)
            BY <1>3, <5>3, LaunchIntoBounds
          <6> QED
            BY <2>2, <3>2, <4>1, <4>2, <5>1, <5>2, <6>1, <6>2
        <5>4. CASE s \in Cells
          <6>1. \E n, w : Walk(w, n, s) /\ PathDelay(w) >= ArrivalOf(s)
            <7>1. CASE arrival[s] = Absent
              <8>1. PICK w : Walk(w, 1, s) /\ PathDelay(w) = CellDelay[s] + LaunchInto(s)
                BY <1>3, <5>4, ShortWalk
              <8>2. CellDelay[s] + LaunchInto(s) >= 0
                BY <1>3, <5>4, Delays, LaunchIntoBounds
              <8> QED
                BY <7>1, <8>1, <8>2 DEF ArrivalOf
            <7>2. CASE arrival[s] # Absent
              BY <1>2, <5>4, <7>2 DEF ArrivalOf, Attained
            <7> QED
              BY <7>1, <7>2
          <6>2. PICK n, w : Walk(w, n, s) /\ PathDelay(w) >= ArrivalOf(s)
            BY <6>1
          <6>3. PICK v : /\ Walk(v, n + 1, c)
                         /\ PathDelay(v) = PathDelay(w) + NetDelay(s, c) + CellDelay[c]
            BY <1>3, <5>4, <6>2, LongerWalk
          <6>4. ArrivalOf(s) \in Nat /\ PathDelay(w) \in Int
            BY <1>3, <5>2, <5>4, <6>2, PinsTimed, PathDelayInt
          <6>5. OutputArrival(c) = ArrivalOf(s) + NetDelay(s, c) + CellDelay[c]
            BY <4>2, <5>1, <5>2, <6>4 DEF PinArrival
          <6>6. PathDelay(v) >= OutputArrival(c)
            BY <4>2, <5>2, <6>2, <6>3, <6>4, <6>5
          <6> QED
            BY <2>2, <3>2, <6>3, <6>6
        <5> QED
          BY <5>2, <5>3, <5>4 DEF Sources
      <4> QED
        BY <1>7, <4>3, <4>4 DEF OutputIsWorst
    <3> QED
      BY <3>1, <3>2
  <2>11. Attained'
    BY <1>5, <2>10 DEF Attained
  <2>12. NotAbove'
    <3> SUFFICES ASSUME NEW c \in Cells PROVE arrival'[c] <= OutputArrival(c)'
      BY DEF NotAbove
    <3>1. OutputArrival(c) \in Nat /\ OutputArrival(c)' \in Nat /\ OutputArrival(c) <= OutputArrival(c)'
      BY <1>8, <2>5, <2>6 DEF OutputIsWorst
    <3>2. arrival'[c] <= OutputArrival(c)
      BY <1>2, <1>8, <2>2 DEF NotAbove, Nodes, Sources
    <3>3. arrival'[c] \in Nat \union {-1}
      BY <2>3 DEF Timed, Nodes, Sources, Absent
    <3> QED
      BY <3>1, <3>2, <3>3
  <2>13. ASSUME NEW c \in Cells, OutputArrival(c)' > arrival'[c]
         PROVE  LedTo(c, pass + IF c < cell' THEN 1 ELSE 0)
    <3>1. CASE cell \in inputs[c]
      <4>1. LedTo(c, pass + 1)
        BY <2>8, <3>1
      <4>2. PICK n, w : Walk(w, n, c) /\ n >= pass + 1
        BY <4>1 DEF LedTo
      <4>3. n >= pass + IF c < cell' THEN 1 ELSE 0
        BY <1>3, <4>2 DEF Walk
      <4> QED
        BY <4>2, <4>3 DEF LedTo
    <3>2. CASE cell \notin inputs[c]
      <4>1. OutputArrival(c)' = OutputArrival(c)
        BY <2>5, <3>2
      <4>2. c # cell
        BY <1>8, <2>2, <2>13, <4>1
      <4>3. OutputArrival(c) > arrival[c]
        BY <2>2, <2>13, <4>1, <4>2 DEF Nodes, Sources
      <4>4. c < cell' <=> c < cell
        BY <1>9, <4>2
      <4> QED
        BY <1>2, <4>3, <4>4 DEF RaisesAreLedTo
    <3> QED
      BY <3>1, <3>2
  <2>14. RaisesAreLedTo'
    BY <1>1, <1>6, <2>13 DEF RaisesAreLedTo
  <2>15. ChangesAreLedTo' /\ QuietSoFar'
    BY <1>1, <1>4, <1>6, <2>1, <2>7 DEF ChangesAreLedTo, QuietSoFar
  <2> QED
    BY <1>1, <2>9, <2>11, <2>12, <2>14, <2>15 DEF PassesInv
<1>11. CASE ~(OutputArrival(cell) > arrival[cell])
  <2>1. UNCHANGED <<arrival, changed>>
    BY <1>11 DEF RelaxCell
  <2>2. \A c \in Cells : OutputArrival(c)' = OutputArrival(c)
    BY <1>1, <2>1 DEF OutputArrival, PinArrival, ArrivalOf
  <2>3. arrival[cell] >= OutputArrival(cell)
    BY <1>4, <1>8, <1>11 DEF Absent
  <2>4. StaTypeInv'
    <3>1. cell' \in 1 .. CellCount + 1
      BY <1>1, <1>3
    <3> QED
      BY <1>1, <1>2, <1>5, <2>1, <3>1 DEF StaTypeInv, Timed
  <2>5. Attained' /\ NotAbove'
    BY <1>2, <1>5, <2>1, <2>2 DEF Attained, NotAbove
  <2>6. RaisesAreLedTo'
    <3> SUFFICES ASSUME NEW c \in Cells, OutputArrival(c) > arrival[c]
                 PROVE  LedTo(c, pass + IF c < cell' THEN 1 ELSE 0)
      BY <1>1, <1>6, <2>1, <2>2 DEF RaisesAreLedTo
    <3>1. c # cell
      BY <1>11
    <3>2. c < cell' <=> c < cell
      BY <1>9, <3>1
    <3> QED
      BY <1>2, <3>2 DEF RaisesAreLedTo
  <2>7. ChangesAreLedTo'
    BY <1>1, <1>2, <1>6, <2>1 DEF ChangesAreLedTo
  <2>8. QuietSoFar'
    BY <1>1, <1>2, <1>9, <2>1, <2>2, <2>3 DEF QuietSoFar
  <2> QED
    BY <1>1, <2>4, <2>5, <2>6, <2>7, <2>8 DEF PassesInv
<1> QED
  BY <1>10, <1>11

LEMMA StepEndPass == ASSUME PassesInv, EndPass PROVE PassesInv'
<1>1. /\ phase = "arrival" /\ cell > CellCount /\ pass < PassLimit
      /\ pass' = pass + 1 /\ cell' = 1 /\ changed' = FALSE
      /\ UNCHANGED <<phase, inputs, arrival, required>>
  BY DEF EndPass
<1>2. StaTypeInv /\ Attained /\ NotAbove /\ RaisesAreLedTo
  BY <1>1 DEF PassesInv
<1>3. /\ Design' /\ \A w, n, c : Walk(w, n, c)' <=> Walk(w, n, c)
      /\ \A w : PathDelay(w)' = PathDelay(w)
  BY <1>1, <1>2, SameWalks DEF StaTypeInv
<1>4. \A c \in Cells : \A m : LedTo(c, m)' <=> LedTo(c, m)
  BY <1>3 DEF LedTo
<1>5. \A c \in Cells : OutputArrival(c)' = OutputArrival(c)
  BY <1>1 DEF OutputArrival, PinArrival, ArrivalOf
<1>6. /\ pass \in 1 .. PassLimit /\ cell \in 1 .. CellCount + 1
      /\ CellCount \in Nat /\ PassLimit \in Nat
  BY <1>2, TimingAssumption, PassLimitIs DEF StaTypeInv
<1>7. StaTypeInv'
  <2>1. pass' \in 1 .. PassLimit /\ cell' \in 1 .. CellCount + 1
    BY <1>1, <1>6
  <2> QED
    BY <1>1, <1>2, <1>3, <2>1 DEF StaTypeInv, Timed, PassLimit
<1>8. Attained' /\ NotAbove'
  BY <1>1, <1>2, <1>3, <1>5 DEF Attained, NotAbove
<1>9. RaisesAreLedTo'
  <2> SUFFICES ASSUME NEW c \in Cells, OutputArrival(c) > arrival[c]
               PROVE  LedTo(c, pass' + IF c < cell' THEN 1 ELSE 0)
    BY <1>1, <1>4, <1>5 DEF RaisesAreLedTo
  <2>1. c < cell /\ ~(c < cell')
    BY <1>1, <1>6 DEF Cells
  <2>2. LedTo(c, pass + 1)
    BY <1>2, <2>1 DEF RaisesAreLedTo
  <2>3. pass' + (IF c < cell' THEN 1 ELSE 0) = pass + 1
    BY <1>1, <1>6, <2>1
  <2> QED
    BY <2>2, <2>3
<1>10. ChangesAreLedTo' /\ QuietSoFar'
  <2>1. \A c \in Cells : ~(c < cell')
    BY <1>1 DEF Cells
  <2> QED
    BY <1>1, <2>1 DEF ChangesAreLedTo, QuietSoFar
<1> QED
  BY <1>1, <1>7, <1>8, <1>9, <1>10 DEF PassesInv

LEMMA StepCombinationalLoop == ASSUME PassesInv, CombinationalLoop PROVE PassesInv'
<1>1. /\ phase = "arrival" /\ changed /\ pass = PassLimit /\ phase' = "loop"
      /\ UNCHANGED <<inputs, arrival, pass, cell, changed, required>>
  BY DEF CombinationalLoop
<1>2. StaTypeInv /\ Attained /\ NotAbove /\ ChangesAreLedTo
  BY <1>1 DEF PassesInv
<1>3. /\ Design' /\ \A w, n, c : Walk(w, n, c)' <=> Walk(w, n, c)
      /\ \A w : PathDelay(w)' = PathDelay(w)
      /\ Cyclic' <=> Cyclic
  BY <1>1, <1>2, SameWalks DEF StaTypeInv
<1>4. \A c \in Cells : OutputArrival(c)' = OutputArrival(c)
  BY <1>1 DEF OutputArrival, PinArrival, ArrivalOf
<1>5. Cyclic
  <2>0. PICK c \in Cells : LedTo(c, PassLimit)
    BY <1>1, <1>2 DEF ChangesAreLedTo
  <2>1. PICK n, w : Walk(w, n, c) /\ n >= PassLimit
    BY <2>0 DEF LedTo
  <2>2. n \in Nat /\ CellCount \in Nat
    BY <2>1, TimingAssumption DEF Walk
  <2>3. ~(n <= CellCount)
    BY <2>1, <2>2, PassLimitIs
  <2> QED
    BY <2>1, <2>3, WalkIsPath
<1>6. StaTypeInv'
  BY <1>1, <1>2, <1>3 DEF StaTypeInv, Timed, PassLimit
<1>7. Attained'
  BY <1>1, <1>2, <1>3 DEF Attained
<1>8. NotAbove'
  BY <1>1, <1>2, <1>4 DEF NotAbove
<1> QED
  BY <1>1, <1>3, <1>5, <1>6, <1>7, <1>8 DEF PassesInv

LEMMA StepSettle == ASSUME PassesInv, Settle PROVE PassesInv'
<1>1. /\ phase = "arrival" /\ cell > CellCount /\ ~changed /\ phase' = "required"
      /\ arrival' = SinkArrivals /\ UNCHANGED <<inputs, pass, cell, changed>>
  BY DEF Settle
<1>2. StaTypeInv /\ Attained /\ NotAbove /\ QuietSoFar
  BY <1>1 DEF PassesInv
<1>3. /\ Design' /\ \A w, n, c : Walk(w, n, c)' <=> Walk(w, n, c)
      /\ \A w : PathDelay(w)' = PathDelay(w)
  BY <1>1, <1>2, SameWalks DEF StaTypeInv
<1>4. \A s \in Sources : arrival'[s] = arrival[s]
  BY <1>1, TimingAssumption DEF SinkArrivals, Nodes
<1>5. \A e \in Ends : /\ EndDriver[e] \in Sources
                      /\ arrival'[e] = ArrivalOf(EndDriver[e]) + NetDelay(EndDriver[e], e)
                      /\ arrival'[e] \in Nat
  <2> TAKE e \in Ends
  <2>1. EndDriver[e] \in Sources
    BY TimingAssumption
  <2>2. arrival'[e] = PinArrival(EndDriver[e], e)
    BY <1>1 DEF SinkArrivals, Nodes, PinArrival
  <2> QED
    BY <1>2, <2>1, <2>2, PinsTimed DEF StaTypeInv, PinArrival
<1>6. Timed'
  <2>1. \A n \in Nodes : arrival'[n] \in Nat \union {Absent}
    BY <1>2, <1>4, <1>5 DEF Nodes, StaTypeInv, Timed
  <2>2. DOMAIN arrival' = Nodes /\ arrival' = [n \in Nodes |-> arrival'[n]]
    BY <1>1 DEF SinkArrivals
  <2> QED
    BY <2>1, <2>2 DEF Timed
<1>7. \A c \in Cells : OutputArrival(c)' = OutputArrival(c)
  <2>1. \A s \in Sources : arrival[s] <= arrival'[s]
    BY <1>2, <1>4 DEF StaTypeInv, Timed, Nodes, Absent
  <2>2. \A c \in Cells : \A s \in inputs[c] : arrival'[s] = arrival[s]
    BY <1>2, <1>4 DEF StaTypeInv, Design
  <2> QED
    BY <1>1, <1>2, <1>6, <2>1, <2>2, HigherArrivals DEF StaTypeInv
<1>8. StaTypeInv'
  BY <1>1, <1>2, <1>3, <1>4, <1>6, Delays DEF StaTypeInv, PassLimit
<1>9. Attained' /\ NotAbove'
  BY <1>2, <1>3, <1>4, <1>7, Delays DEF Attained, NotAbove
<1>10. Settled'
  <2>1. ASSUME NEW c \in Cells PROVE arrival'[c] = OutputArrival(c)'
    <3>1. c < cell
      BY <1>1, <1>2, TimingAssumption DEF Cells, StaTypeInv
    <3>2. arrival[c] >= OutputArrival(c) /\ arrival[c] <= OutputArrival(c)
      BY <1>1, <1>2, <3>1 DEF QuietSoFar, NotAbove
    <3>3. OutputArrival(c) \in Nat /\ arrival[c] \in Nat \union {-1}
      BY <1>2, OutputArrivalIs DEF OutputIsWorst, StaTypeInv, Timed, Nodes, Sources, Absent
    <3> QED
      BY <1>4, <1>7, <3>2, <3>3, Delays
  <2>2. ASSUME NEW e \in Ends
        PROVE  arrival'[e] = ArrivalOf(EndDriver[e])' + NetDelay(EndDriver[e], e)
    BY <1>4, <1>5 DEF ArrivalOf
  <2> QED
    BY <2>1, <2>2 DEF Settled
<1> QED
  BY <1>1, <1>8, <1>9, <1>10 DEF PassesInv

\* The backward half and the end leave the arrivals alone.
LEMMA StepBackward ==
    ASSUME PassesInv, UNCHANGED <<inputs, arrival, pass, cell, changed>>,
           \/ phase' = phase
           \/ phase = "required" /\ phase' = "done"
    PROVE  PassesInv'
<1>1. /\ (Design <=> Design') /\ \A w, n, c : Walk(w, n, c)' <=> Walk(w, n, c)
      /\ \A w : PathDelay(w)' = PathDelay(w)
      /\ Cyclic' <=> Cyclic
  BY SameWalks
<1>2. \A c \in Cells : OutputArrival(c)' = OutputArrival(c)
  BY DEF OutputArrival, PinArrival, ArrivalOf
<1>3. \A c \in Cells : \A m : LedTo(c, m)' <=> LedTo(c, m)
  BY <1>1 DEF LedTo
<1>4. StaTypeInv' /\ Attained' /\ NotAbove'
  <2>1. StaTypeInv'
    BY <1>1 DEF PassesInv, StaTypeInv, Timed, PassLimit
  <2>2. Attained'
    BY <1>1 DEF PassesInv, Attained
  <2>3. NotAbove'
    BY <1>2 DEF PassesInv, NotAbove
  <2> QED
    BY <2>1, <2>2, <2>3
<1>5. /\ RaisesAreLedTo <=> RaisesAreLedTo'
      /\ ChangesAreLedTo <=> ChangesAreLedTo'
      /\ QuietSoFar <=> QuietSoFar'
  BY <1>2, <1>3 DEF RaisesAreLedTo, ChangesAreLedTo, QuietSoFar
<1>6. Settled <=> Settled'
  BY <1>2 DEF Settled, ArrivalOf
<1> QED
  BY <1>1, <1>4, <1>5, <1>6 DEF PassesInv

\* The passes of the analysis keep the invariant: it holds of every state
\* that analyze_timing comes to.
THEOREM PassesInvariant == Spec => []PassesInv
<1>1. PassesInv /\ [Next]_vars => PassesInv'
  <2> SUFFICES ASSUME PassesInv, [Next]_vars PROVE PassesInv'
    OBVIOUS
  <2>1. CASE RelaxCell
    BY <2>1, StepRelaxCell
  <2>2. CASE EndPass
    BY <2>2, StepEndPass
  <2>3. CASE CombinationalLoop
    BY <2>3, StepCombinationalLoop
  <2>4. CASE Settle
    BY <2>4, StepSettle
  <2>5. CASE RelaxEdge
    BY <2>5, StepBackward DEF RelaxEdge
  <2>6. CASE Report
    BY <2>6, StepBackward DEF Report
  <2>7. CASE UNCHANGED vars
    BY <2>7, StepBackward DEF vars
  <2> QED
    BY <2>1, <2>2, <2>3, <2>4, <2>5, <2>6, <2>7 DEF Next, Stopped
<1> QED
  BY InitPasses, <1>1, PTL DEF Spec

(***************************************************************************)
(* What the invariant says of the reported arrivals.                       *)
(***************************************************************************)
LEMMA LongestIs ==
    ASSUME Design, NEW c \in Cells
    PROVE  /\ \A p \in CellPaths(c) : PathDelay(p) \in Int /\ Longest(c) >= PathDelay(p)
           /\ ~Cyclic => \E p \in CellPaths(c) : Longest(c) = PathDelay(p)
<1> DEFINE f == [p \in CellPaths(c) |-> PathDelay(p)]
           T == {f[p] : p \in CellPaths(c)}
<1>1. \A p \in CellPaths(c) : f[p] = PathDelay(p) /\ PathDelay(p) \in Int
  BY PathIsWalk, PathDelayInt
<1>2. T \in SUBSET Int
  BY <1>1
<1>3. IsFiniteSet(T)
  <2> HIDE DEF f
  <2> QED
    BY FinitePaths, FiniteValues
<1>4. Longest(c) = Max(T)
  BY <1>1 DEF Longest
<1>5. T # {} => Longest(c) \in T /\ \A x \in T : Longest(c) >= x
  <2> HIDE DEF T
  <2> QED
    BY <1>2, <1>3, <1>4, MaxOfFinite
<1>6. \A p \in CellPaths(c) : Longest(c) >= PathDelay(p)
  <2> TAKE p \in CellPaths(c)
  <2>1. PathDelay(p) \in T
    BY <1>1
  <2> HIDE DEF T
  <2> QED
    BY <1>5, <2>1
<1>7. ASSUME ~Cyclic PROVE \E p \in CellPaths(c) : Longest(c) = PathDelay(p)
  <2>1. PICK w : Walk(w, 1, c)
    BY ShortWalk
  <2>2. w \in CellPaths(c)
    BY <1>7, <2>1, WalkIsPath
  <2>3. Longest(c) \in T
    <3>1. T # {}
      BY <2>2
    <3> HIDE DEF T
    <3> QED
      BY <1>5, <3>1
  <2> QED
    BY <1>1, <2>3
<1> QED
  BY <1>1, <1>6, <1>7

\* In a settled design every input of a cell has been added up.
LEMMA SettledInputs ==
    ASSUME Design, Timed, Settled, \A s \in Starts : arrival[s] = Launch[s]
    PROVE  /\ \A s \in Sources : arrival[s] \in Nat /\ ArrivalOf(s) = arrival[s]
           /\ \A c \in Cells : \A s \in inputs[c] :
                /\ NetDelay(s, c) \in Nat /\ CellDelay[c] \in Nat \ {0}
                /\ arrival[c] >= arrival[s] + NetDelay(s, c) + CellDelay[c]
<1>1. \A c \in Cells : arrival[c] = OutputArrival(c) /\ OutputArrival(c) \in Nat \ {0}
  BY OutputArrivalIs DEF Settled, OutputIsWorst
<1>2. \A s \in Sources : arrival[s] \in Nat /\ ArrivalOf(s) = arrival[s]
  BY <1>1, Delays DEF Sources, ArrivalOf, Absent
<1>3. ASSUME NEW c \in Cells, NEW s \in inputs[c]
      PROVE  /\ NetDelay(s, c) \in Nat /\ CellDelay[c] \in Nat \ {0}
             /\ arrival[c] >= arrival[s] + NetDelay(s, c) + CellDelay[c]
  <2>1. s \in Sources
    BY DEF Design
  <2>2. OutputArrival(c) >= PinArrival(s, c) + CellDelay[c]
    BY OutputArrivalIs DEF OutputIsWorst
  <2> QED
    BY <1>1, <1>2, <2>1, <2>2, Delays DEF PinArrival
<1> QED
  BY <1>2, <1>3

LEMMA SettledIsAcyclic ==
    ASSUME Design, Timed, Settled, \A s \in Starts : arrival[s] = Launch[s]
    PROVE  ~Cyclic
<1> SUFFICES ASSUME Cyclic PROVE FALSE
  OBVIOUS
<1>0. PICK c \in Cells : \E p \in CellPaths(c) : c \in inputs[p[1]]
  BY DEF Cyclic
<1>1. PICK p \in CellPaths(c) : c \in inputs[p[1]]
  BY <1>0
<1> DEFINE n == Len(p)
           Later == {k \in 1 .. n : arrival[p[k]] >= arrival[p[1]]}
<1>2. /\ n \in Nat \ {0} /\ p \in [1 .. n -> Cells] /\ p[n] = c
      /\ \A k \in 2 .. n : p[k - 1] \in inputs[p[k]]
  BY PathIsWalk DEF Walk
<1> HIDE DEF n
<1>3. 1 \in 1 .. n /\ n \in 1 .. n /\ \A k \in 1 .. n : p[k] \in Sources /\ arrival[p[k]] \in Nat
  BY <1>2, SettledInputs, Delays
<1>4. \A x \in Cells : \A s \in inputs[x] : s \in Cells => arrival[x] > arrival[s]
  BY SettledInputs, Delays
<1>5. 1 \in Later
  BY <1>3
<1>6. ASSUME NEW k \in 2 .. n, k - 1 \in Later PROVE k \in Later
  <2>1. k \in 1 .. n /\ k - 1 \in 1 .. n
    BY <1>2
  <2>2. arrival[p[k]] > arrival[p[k - 1]]
    BY <1>2, <1>4, <2>1
  <2> QED
    BY <1>3, <1>6, <2>1, <2>2
<1>7. n \in Later
  <2> HIDE DEF Later
  <2> QED
    BY <1>2, <1>3, <1>5, <1>6, Climb
<1>8. arrival[p[1]] > arrival[c]
  BY <1>1, <1>2, <1>3, <1>4
<1> QED
  BY <1>2, <1>3, <1>7, <1>8

LEMMA SettlesOnLongest ==
    ASSUME Design, Timed, Settled, \A s \in Starts : arrival[s] = Launch[s],
           NEW c \in Cells, NEW p \in CellPaths(c)
    PROVE  PathDelay(p) <= arrival[c]
<1> DEFINE a == [x \in Cells |-> arrival[x]]
<1>1. a \in [Cells -> Int]
  BY SettledInputs, Delays
<1>2. ASSUME NEW x \in Cells PROVE a[x] >= CellDelay[x] + LaunchInto(x)
  <2>1. /\ CellDelay[x] \in Nat /\ LaunchInto(x) \in Nat /\ a[x] = arrival[x]
        /\ arrival[x] = OutputArrival(x) /\ OutputArrival(x) >= CellDelay[x]
    BY Delays, LaunchIntoBounds, OutputArrivalIs DEF Settled, OutputIsWorst
  <2>2. CASE LaunchInto(x) = 0
    BY <2>1, <2>2
  <2>3. CASE \E s \in inputs[x] \intersect Starts : LaunchInto(x) = Launch[s] + NetDelay(s, x)
    <3>1. PICK s \in inputs[x] \intersect Starts : LaunchInto(x) = Launch[s] + NetDelay(s, x)
      BY <2>3
    <3>2. arrival[x] >= arrival[s] + NetDelay(s, x) + CellDelay[x] /\ NetDelay(s, x) \in Nat
      BY <3>1, SettledInputs
    <3>3. arrival[s] = Launch[s] /\ Launch[s] \in Nat
      BY Delays
    <3>4. arrival[x] \in Nat
      BY SettledInputs, Delays
    <3> QED
      BY <2>1, <3>1, <3>2, <3>3, <3>4
  <2> QED
    BY <2>2, <2>3, LaunchIntoBounds
<1>3. ASSUME NEW x \in Cells, NEW s \in inputs[x] \intersect Cells
      PROVE  a[x] >= a[s] + NetDelay(s, x) + CellDelay[x]
  BY SettledInputs
<1>4. Walk(p, Len(p), c)
  BY PathIsWalk
<1> HIDE DEF a
<1>5. PathDelay(p) <= a[c]
  BY <1>1, <1>2, <1>3, <1>4, WalkBelow
<1> QED
  BY <1>5 DEF a

\* The forward passes of compute_arrivals end on the longest paths, and with the
\* error exactly when the cells have a loop, in whatever order they are numbered.
THEOREM PassesSettleHolds == Spec => []PassesSettle
<1>1. PassesInv => PassesSettle
  <2> SUFFICES ASSUME PassesInv PROVE ArrivalIsLongestPath /\ LoopsReported
    BY DEF PassesSettle
  <2>1. /\ Design /\ Timed /\ Attained /\ \A s \in Starts : arrival[s] = Launch[s]
        /\ phase \in {"required", "done"} => Settled
        /\ phase = "loop" => Cyclic
    BY DEF PassesInv, StaTypeInv
  <2>2. LoopsReported
    BY <2>1, SettledIsAcyclic DEF LoopsReported
  <2>3. ASSUME ~Cyclic, NEW c \in Cells
        PROVE  /\ arrival[c] <= Longest(c)
               /\ phase \in {"required", "done"} => arrival[c] = Longest(c)
    <3>1. \A p \in CellPaths(c) : PathDelay(p) \in Int /\ Longest(c) >= PathDelay(p)
      BY <2>1, LongestIs
    <3>2. PICK q \in CellPaths(c) : Longest(c) = PathDelay(q)
      BY <2>1, <2>3, LongestIs
    <3>3. arrival[c] \in Nat \union {-1} /\ Longest(c) \in Int
      BY <2>1, <3>1, <3>2, Delays DEF Timed, Nodes, Absent
    <3>4. arrival[c] <= Longest(c)
      <4>1. CASE arrival[c] = Absent
        <5>1. PICK w : Walk(w, 1, c) /\ PathDelay(w) = CellDelay[c] + LaunchInto(c)
          BY <2>1, ShortWalk
        <5>2. w \in CellPaths(c) /\ PathDelay(w) >= 0
          BY <2>1, <2>3, <5>1, WalkIsPath, Delays, LaunchIntoBounds
        <5> QED
          BY <3>1, <3>3, <4>1, <5>2 DEF Absent
      <4>2. CASE arrival[c] # Absent
        <5>1. PICK n, w : Walk(w, n, c) /\ PathDelay(w) >= arrival[c]
          BY <2>1, <4>2 DEF Attained
        <5>2. w \in CellPaths(c)
          BY <2>3, <5>1, WalkIsPath
        <5> QED
          BY <3>1, <3>3, <5>1, <5>2
      <4> QED
        BY <4>1, <4>2
    <3>5. ASSUME phase \in {"required", "done"} PROVE arrival[c] = Longest(c)
      <4>1. Longest(c) <= arrival[c]
        BY <2>1, <3>2, <3>5, SettlesOnLongest
      <4> QED
        BY <3>3, <3>4, <4>1
    <3> QED
      BY <3>4, <3>5
  <2>4. ArrivalIsLongestPath
    BY <2>3 DEF ArrivalIsLongestPath
  <2> QED
    BY <2>2, <2>4
<1> QED
  BY <1>1, PassesInvariant, PTL

(***************************************************************************)
(* The trace of a path.                                                    *)
(***************************************************************************)
LEMMA LatestInputIs ==
    ASSUME Design, Timed, NEW c \in Cells, inputs[c] # {}
    PROVE  /\ LatestInput(c) \in inputs[c]
           /\ \A t \in inputs[c] : PinArrival(LatestInput(c), c) >= PinArrival(t, c)
<1> DEFINE f == [s \in inputs[c] |-> PinArrival(s, c)]
           T == {f[s] : s \in inputs[c]}
<1>1. inputs[c] \subseteq Sources /\ IsFiniteSet(inputs[c])
  BY Delays, FS_Subset DEF Design
<1>2. \A s \in inputs[c] : f[s] = PinArrival(s, c) /\ PinArrival(s, c) \in Nat
  BY <1>1, PinsTimed
<1>3. T \in SUBSET Int /\ T # {}
  <2>1. T \in SUBSET Int
    <3>1. \A x \in T : \E s \in inputs[c] : x = f[s]
      OBVIOUS
    <3> HIDE DEF f, T
    <3> QED
      BY <1>2, <3>1
  <2>2. PICK s \in inputs[c] : TRUE
    OBVIOUS
  <2>3. f[s] \in T
    OBVIOUS
  <2> QED
    BY <2>1, <2>3
<1>4. IsFiniteSet(T)
  <2> HIDE DEF f
  <2> QED
    BY <1>1, FiniteValues
<1>5. Max(T) \in T /\ \A x \in T : Max(T) >= x
  <2> HIDE DEF T
  <2> QED
    BY <1>3, <1>4, MaxOfFinite
<1>6. PICK s \in inputs[c] : Max(T) = PinArrival(s, c)
  BY <1>2, <1>5
<1>7. \A t \in inputs[c] : PinArrival(s, c) >= PinArrival(t, c)
  <2> TAKE t \in inputs[c]
  <2>1. PinArrival(t, c) \in T
    BY <1>2
  <2> HIDE DEF T
  <2> QED
    BY <1>5, <1>6, <2>1
<1> QED
  BY <1>6, <1>7 DEF LatestInput

\* The steps back from an end point, each to the latest input of a cell.
Chain(path, e) ==
    /\ path \in Seq(Nodes) /\ Len(path) >= 2
    /\ path[1] = e /\ path[2] = EndDriver[e]
    /\ \A i \in 2 .. Len(path) : path[i] \in Sources
    /\ \A i \in 2 .. Len(path) - 1 :
         path[i] \in Cells /\ inputs[path[i]] # {} /\ path[i + 1] = LatestInput(path[i])

LEMMA ChainGrows ==
    ASSUME Design, Timed, NEW e \in Ends, NEW path, Chain(path, e), ~TraceEnds(path)
    PROVE  /\ Chain(Append(path, LatestInput(Last(path))), e)
           /\ Len(Append(path, LatestInput(Last(path)))) = Len(path) + 1
<1> DEFINE n == Len(path)
           x == LatestInput(path[n])
           longer == Append(path, x)
<1>1. /\ path \in Seq(Nodes) /\ n \in Nat /\ n >= 2 /\ path[1] = e /\ path[2] = EndDriver[e]
      /\ \A i \in 2 .. n : path[i] \in Sources
      /\ \A i \in 2 .. n - 1 :
           path[i] \in Cells /\ inputs[path[i]] # {} /\ path[i + 1] = LatestInput(path[i])
  BY LenProperties DEF Chain
<1>2. path[n] \in Cells /\ inputs[path[n]] # {}
  <2>1. path[n] \in Sources
    BY <1>1
  <2> QED
    BY <2>1 DEF TraceEnds, Last, Sources
<1>3. x \in Sources /\ x \in Nodes
  BY <1>2, LatestInputIs DEF Design, Nodes
<1> HIDE DEF x, n
<1>4. /\ longer \in Seq(Nodes) /\ Len(longer) = n + 1 /\ longer[n + 1] = x
      /\ \A i \in 1 .. n : longer[i] = path[i]
  BY <1>1, <1>3 DEF n
<1> HIDE DEF longer
<1>5. \A i \in 2 .. n + 1 : longer[i] \in Sources
  <2> TAKE i \in 2 .. n + 1
  <2>1. i = n + 1 \/ i \in 2 .. n
    BY <1>1
  <2> QED
    BY <1>1, <1>3, <1>4, <2>1
<1>6. \A i \in 2 .. (n + 1) - 1 :
         longer[i] \in Cells /\ inputs[longer[i]] # {} /\ longer[i + 1] = LatestInput(longer[i])
  <2> TAKE i \in 2 .. (n + 1) - 1
  <2>1. i \in 1 .. n
    BY <1>1
  <2>2. CASE i = n
    BY <1>2, <1>4, <2>1, <2>2 DEF x
  <2>3. CASE i # n
    <3>1. i \in 2 .. n - 1 /\ i + 1 \in 1 .. n
      BY <1>1, <2>3
    <3> QED
      BY <1>1, <1>4, <2>1, <3>1
  <2> QED
    BY <2>2, <2>3
<1>7. longer[1] = e /\ longer[2] = EndDriver[e] /\ n + 1 >= 2
  <2>1. 1 \in 1 .. n /\ 2 \in 1 .. n
    BY <1>1
  <2> QED
    BY <1>1, <1>4, <2>1
<1>8. Chain(longer, e)
  BY <1>4, <1>5, <1>6, <1>7 DEF Chain
<1> QED
  BY <1>4, <1>8 DEF longer, x, n, Last

\* In a settled design a chain never comes back to a cell.
LEMMA ChainIsShort ==
    ASSUME Design, ~Cyclic, Timed, NEW e \in Ends, NEW path, Chain(path, e), Last(path) \in Cells
    PROVE  Len(path) <= CellCount + 1 /\ ~Contains(Front(path), Last(path))
<1> DEFINE n == Len(path)
           m == n - 1
           w == [k \in 1 .. m |-> path[n + 1 - k]]
<1>1. /\ path \in Seq(Nodes) /\ n \in Nat /\ n >= 2 /\ path[1] = e
      /\ path[n] \in Cells
      /\ \A i \in 2 .. n - 1 :
           path[i] \in Cells /\ inputs[path[i]] # {} /\ path[i + 1] = LatestInput(path[i])
  BY LenProperties DEF Chain, Last
<1> HIDE DEF n
<1>2. \A i \in 2 .. n : path[i] \in Cells
  <2> TAKE i \in 2 .. n
  <2>1. i = n \/ i \in 2 .. n - 1
    BY <1>1
  <2> QED
    BY <1>1, <2>1
<1>3. m \in Nat \ {0} /\ m \in 1 .. m /\ \A k \in 1 .. m : n + 1 - k \in 2 .. n
  BY <1>1
<1>4. w \in [1 .. m -> Cells] /\ w[m] = path[2]
  <2>1. n + 1 - m = 2
    BY <1>1
  <2> QED
    BY <1>2, <1>3, <2>1
<1>5. \A k \in 2 .. m : w[k - 1] \in inputs[w[k]]
  <2> TAKE k \in 2 .. m
  <2>1. /\ k \in 1 .. m /\ k - 1 \in 1 .. m /\ n + 1 - k \in 2 .. n - 1
        /\ n + 1 - (k - 1) = (n + 1 - k) + 1
    BY <1>1
  <2>2. w[k] = path[n + 1 - k] /\ w[k - 1] = path[(n + 1 - k) + 1]
    BY <2>1
  <2>3. path[(n + 1 - k) + 1] \in inputs[path[n + 1 - k]]
    BY <1>1, <2>1, LatestInputIs
  <2> QED
    BY <2>2, <2>3
<1>6. path[2] \in Cells /\ Walk(w, m, path[2])
  BY <1>2, <1>3, <1>4, <1>5 DEF Walk
<1>7. m <= CellCount
  <2> HIDE DEF w
  <2> QED
    BY <1>6, WalkIsPath
<1>8. Len(path) <= CellCount + 1
  BY <1>1, <1>7, TimingAssumption DEF n
<1>9. ASSUME Contains(Front(path), Last(path)) PROVE FALSE
  <2>1. \A i \in 1 .. n - 1 : path[i] \in Nodes
    BY <1>1, ElementOfSeq DEF n
  <2>2. Len(Front(path)) = n - 1 /\ \A i \in 1 .. n - 1 : Front(path)[i] = path[i]
    BY <1>1, <2>1, SubSeqProperties DEF Front, n
  <2>3. PICK i \in 1 .. n - 1 : path[i] = path[n]
    BY <1>9, <2>2 DEF Contains, Last, n
  <2>4. i # 1
    BY <1>1, <2>3, TimingAssumption DEF Sources
  <2> DEFINE j == n + 1 - i
  <2>5. /\ j \in 1 .. m /\ 1 \in 1 .. m /\ 1 < j /\ n + 1 - j = i /\ n + 1 - 1 = n
    BY <1>1, <2>4, SMTT(30)
  <2>6. w[1] = w[j]
    BY <2>3, <2>5
  <2> HIDE DEF w, j
  <2> QED
    BY <1>6, <2>5, <2>6, BackToACell
<1> QED
  BY <1>8, <1>9

\* The trace is a chain, worked off to its end.
LEMMA TracePathIs ==
    ASSUME Design, Timed, ~Cyclic, NEW e \in Ends
    PROVE  Chain(TracePath(e), e) /\ TraceEnds(TracePath(e))
<1> DEFINE N == CellCount + 1
           S == {path \in Seq(Nodes) : Chain(path, e)}
           On(path) == IF TraceEnds(path) THEN path ELSE Append(path, LatestInput(Last(path)))
           first == <<e, EndDriver[e]>>
           step == [k \in 2 .. N |-> [path \in S |-> On(path)]]
           Is(f) == f = [k \in 0 .. CellCount |->
                           IF k = 0 THEN <<e, EndDriver[e]>>
                           ELSE IF TraceEnds(f[k - 1]) THEN f[k - 1]
                           ELSE Append(f[k - 1], LatestInput(Last(f[k - 1])))]
<1>1. CellCount \in Nat /\ N \in Nat \ {0}
  BY TimingAssumption
<1>2. first \in S
  <2>1. e \in Nodes /\ EndDriver[e] \in Sources /\ EndDriver[e] \in Nodes
    BY TimingAssumption DEF Nodes
  <2>2. first \in Seq(Nodes) /\ Len(first) = 2 /\ first[1] = e /\ first[2] = EndDriver[e]
    BY <2>1
  <2> HIDE DEF first
  <2>3. \A i \in 2 .. Len(first) : first[i] \in Sources
    BY <2>1, <2>2
  <2>4. 2 .. Len(first) - 1 = {}
    BY <2>2
  <2>5. Chain(first, e)
    BY <2>2, <2>3, <2>4 DEF Chain
  <2> QED
    BY <2>2, <2>5
<1>3. \A path \in S : On(path) \in S
  <2> TAKE path \in S
  <2>1. CASE TraceEnds(path)
    BY <2>1
  <2>2. CASE ~TraceEnds(path)
    <3>1. Chain(Append(path, LatestInput(Last(path))), e)
      BY <2>2, ChainGrows
    <3> QED
      BY <2>2, <3>1 DEF Chain
  <2> QED
    BY <2>1, <2>2
<1> HIDE DEF S, first, On
<1>4. Stepwise(S, N, first, step)
  BY <1>1, <1>2, <1>3 DEF Stepwise
<1>5. PICK h : StepsTo(h, S, N, first, step)
  BY <1>4, StepByStep
<1>6. /\ h \in [1 .. N -> S] /\ h[1] = first
      /\ \A k \in 2 .. N : h[k] = On(h[k - 1])
  <2>1. /\ h \in [1 .. N -> S] /\ h[1] = first
        /\ \A k \in 2 .. N : h[k] = step[k][h[k - 1]]
    BY <1>5 DEF StepsTo
  <2>2. \A k \in 2 .. N : k - 1 \in 1 .. N
    BY <1>1
  <2> QED
    BY <2>1, <2>2
<1> DEFINE g == [k \in 0 .. CellCount |-> h[k + 1]]
<1>7. Is(g)
  <2> SUFFICES ASSUME NEW k \in 0 .. CellCount
               PROVE  g[k] = IF k = 0 THEN <<e, EndDriver[e]>>
                             ELSE IF TraceEnds(g[k - 1]) THEN g[k - 1]
                             ELSE Append(g[k - 1], LatestInput(Last(g[k - 1])))
    OBVIOUS
  <2>1. CASE k = 0
    BY <1>1, <1>6, <2>1 DEF first
  <2>2. CASE k # 0
    <3>1. k + 1 \in 2 .. N /\ (k + 1) - 1 = k /\ k - 1 \in 0 .. CellCount /\ (k - 1) + 1 = k
      BY <1>1, <2>2
    <3>2. g[k] = h[k + 1] /\ g[k - 1] = h[k]
      BY <3>1
    <3>3. h[k + 1] = On(h[k])
      BY <1>6, <3>1
    <3> HIDE DEF g
    <3> QED
      BY <2>2, <3>2, <3>3 DEF On
  <2> QED
    BY <2>1, <2>2
<1> DEFINE r == Traces(e)
<1>8. Is(r)
  <2>1. r = CHOOSE f : Is(f)
    BY DEF Traces
  <2> HIDE DEF Is, r, g
  <2> QED
    BY <1>7, <2>1
<1>9. r[0] = first /\ \A k \in 1 .. CellCount : r[k] = On(r[k - 1])
  <2> HIDE DEF r
  <2>1. \A k \in 0 .. CellCount :
           r[k] = IF k = 0 THEN <<e, EndDriver[e]>>
                  ELSE IF TraceEnds(r[k - 1]) THEN r[k - 1]
                  ELSE Append(r[k - 1], LatestInput(Last(r[k - 1])))
    BY <1>8
  <2>2. \A k \in 1 .. CellCount : k \in 0 .. CellCount /\ k # 0
    BY <1>1
  <2>3. 0 \in 0 .. CellCount
    BY <1>1
  <2> HIDE DEF Is
  <2> QED
    BY <2>1, <2>2, <2>3 DEF On, first
<1> HIDE DEF r, Is, g
<1> DEFINE Good == {k \in 1 .. N : /\ r[k - 1] \in S
                                   /\ TraceEnds(r[k - 1]) \/ Len(r[k - 1]) = k + 1}
<1>10. 1 \in Good
  <2>1. Len(first) = 2
    BY DEF first
  <2> QED
    BY <1>1, <1>2, <1>9, <2>1
<1>11. ASSUME NEW k \in 2 .. N, k - 1 \in Good PROVE k \in Good
  <2>1. k \in 1 .. N /\ k - 1 \in 1 .. CellCount /\ (k - 1) - 1 \in 0 .. CellCount
    BY <1>1
  <2> DEFINE before == r[(k - 1) - 1]
  <2>2. r[k - 1] = On(before) /\ before \in S
    BY <1>9, <1>11, <2>1
  <2>3. TraceEnds(before) \/ Len(before) = k
    BY <1>11
  <2> HIDE DEF before
  <2>4. r[k - 1] \in S
    BY <1>3, <2>2
  <2>5. CASE TraceEnds(before)
    BY <2>1, <2>2, <2>4, <2>5 DEF On
  <2>6. CASE ~TraceEnds(before)
    <3>1. Len(r[k - 1]) = k + 1
      BY <2>2, <2>3, <2>6, ChainGrows DEF On, S
    <3> QED
      BY <2>1, <2>4, <3>1
  <2> QED
    BY <2>5, <2>6
<1>12. N \in Good
  <2>1. N \in 1 .. N
    BY <1>1
  <2> HIDE DEF Good, N
  <2> QED
    BY <1>1, <1>10, <1>11, <2>1, Climb
<1> DEFINE path == TracePath(e)
<1>13. path = r[N - 1]
  <2>1. N - 1 = CellCount
    BY <1>1
  <2> QED
    BY <2>1 DEF TracePath, r
<1> HIDE DEF path
<1>14. Chain(path, e) /\ (TraceEnds(path) \/ Len(path) = CellCount + 2)
  BY <1>1, <1>12, <1>13 DEF S
<1>15. ASSUME ~TraceEnds(path) PROVE FALSE
  <2>1. Last(path) \in Sources
    BY <1>14, LenProperties DEF Chain, Last
  <2>2. Last(path) \in Cells
    BY <1>15, <2>1 DEF TraceEnds, Sources
  <2>3. Len(path) <= CellCount + 1
    BY <1>14, <2>2, ChainIsShort
  <2> QED
    BY <1>1, <1>14, <1>15, <2>3
<1> QED
  BY <1>14, <1>15 DEF path

LEMMA ChainAddsUp ==
    ASSUME Design, Timed, Settled, \A s \in Starts : arrival[s] = Launch[s],
           NEW e \in Ends, NEW path, Chain(path, e)
    PROVE  TraceDelay(path) = arrival[e]
<1> DEFINE n == Len(path)
           t == Increments(path)
           r == RunningSums(t)
<1>1. /\ path \in Seq(Nodes) /\ n \in Nat /\ n >= 2 /\ path[1] = e /\ path[2] = EndDriver[e]
      /\ \A i \in 2 .. n : path[i] \in Sources
      /\ \A i \in 2 .. n - 1 :
           path[i] \in Cells /\ inputs[path[i]] # {} /\ path[i + 1] = LatestInput(path[i])
  BY LenProperties DEF Chain
<1>2. \A i \in 1 .. n : path[i] \in Nodes /\ arrival[path[i]] \in Nat
  <2>1. arrival[e] \in Nat /\ e \in Nodes
    <3>1. EndDriver[e] \in Sources
      BY TimingAssumption
    <3> QED
      BY <3>1, PinsTimed DEF Settled, PinArrival, Nodes
  <2>2. \A i \in 1 .. n : i = 1 \/ i \in 2 .. n
    OBVIOUS
  <2> QED
    BY <1>1, <2>1, <2>2, SettledInputs DEF Nodes
<1>3. t = [k \in 1 .. n |-> IF k = n THEN arrival[path[k]] ELSE EdgeDelay(<<path[k + 1], path[k]>>)]
  BY DEF Increments
<1> HIDE DEF n, t
\* Every arc is the difference between the arrivals at its ends.
<1>4. ASSUME NEW k \in 1 .. n - 1
      PROVE  t[k] \in Nat /\ t[k] + arrival[path[k + 1]] = arrival[path[k]]
  <2>1. k \in 1 .. n /\ k + 1 \in 1 .. n /\ k # n
    BY <1>1
  <2>2. t[k] = EdgeDelay(<<path[k + 1], path[k]>>)
    BY <1>3, <2>1
  <2>3. CASE k = 1
    <3>1. path[k] = e /\ path[k + 1] = EndDriver[e] /\ e \notin Cells /\ EndDriver[e] \in Sources
      BY <1>1, <2>3, TimingAssumption DEF Sources
    <3>2. t[k] = NetDelay(EndDriver[e], e) + 0
      BY <2>2, <3>1 DEF EdgeDelay
    <3>3. NetDelay(EndDriver[e], e) \in Nat /\ ArrivalOf(EndDriver[e]) = arrival[EndDriver[e]]
      BY <3>1, Delays, SettledInputs
    <3>4. arrival[EndDriver[e]] \in Nat
      BY <3>1, SettledInputs
    <3> QED
      BY <3>1, <3>2, <3>3, <3>4 DEF Settled
  <2>4. CASE k # 1
    <3>1. k \in 2 .. n - 1
      BY <2>1, <2>4, <1>1
    <3> DEFINE c == path[k]
               s == path[k + 1]
    <3>2. c \in Cells /\ inputs[c] # {} /\ s = LatestInput(c)
      BY <1>1, <3>1
    <3>3. s \in inputs[c] /\ \A u \in inputs[c] : PinArrival(s, c) >= PinArrival(u, c)
      BY <3>2, LatestInputIs
    <3> HIDE DEF c, s
    <3>4. t[k] = NetDelay(s, c) + CellDelay[c]
      BY <2>2, <3>2 DEF EdgeDelay, c, s
    <3>5. /\ \A u \in inputs[c] : PinArrival(u, c) \in Nat
          /\ s \in Sources /\ NetDelay(s, c) \in Nat /\ CellDelay[c] \in Nat
          /\ PinArrival(s, c) = arrival[s] + NetDelay(s, c) /\ arrival[s] \in Nat
      BY <3>2, <3>3, PinsTimed, Delays, SettledInputs DEF Design, PinArrival
    <3>6. arrival[c] = OutputArrival(c) /\ OutputArrival(c) >= PinArrival(s, c) + CellDelay[c]
      BY <3>2, <3>3, OutputArrivalIs DEF Settled, OutputIsWorst
    <3>7. arrival[c] = PinArrival(s, c) + CellDelay[c]
      <4>1. CASE OutputArrival(c) = CellDelay[c]
        BY <3>3, <3>5, <3>6, <4>1
      <4>2. CASE \E u \in inputs[c] : OutputArrival(c) = PinArrival(u, c) + CellDelay[c]
        BY <3>3, <3>5, <3>6, <4>2
      <4> QED
        BY <3>2, <4>1, <4>2, OutputArrivalIs DEF OutputIsWorst
    <3> QED
      BY <3>4, <3>5, <3>7 DEF c, s
  <2> QED
    BY <2>3, <2>4
<1>5. t \in [1 .. n -> Int]
  <2>1. \A k \in 1 .. n : t[k] \in Int
    <3> TAKE k \in 1 .. n
    <3>1. CASE k = n
      BY <1>2, <1>3, <3>1
    <3>2. CASE k # n
      <4>1. k \in 1 .. n - 1
        BY <1>1, <3>2
      <4> QED
        BY <1>4, <4>1
    <3> QED
      BY <3>1, <3>2
  <2> QED
    BY <1>3, <2>1
<1>6. /\ n \in Nat \ {0} /\ r \in [1 .. n -> Int] /\ r[1] = t[1] /\ SumOf(t) = r[n]
      /\ \A k \in 2 .. n : r[k] = r[k - 1] + t[k]
  BY <1>1, <1>5, RunningSumsUnfold, SMTT(30)
<1> HIDE DEF r
<1> DEFINE Back == {k \in 1 .. n - 1 : r[k] + arrival[path[k + 1]] = arrival[e]}
<1>7. 1 \in Back
  BY <1>1, <1>4, <1>6
<1>8. ASSUME NEW k \in 2 .. n - 1, k - 1 \in Back PROVE k \in Back
  <2>1. k \in 1 .. n - 1 /\ k \in 2 .. n /\ k \in 1 .. n /\ k - 1 \in 1 .. n /\ k + 1 \in 1 .. n
        /\ (k - 1) + 1 = k
    BY <1>1
  <2>2. r[k - 1] + arrival[path[k]] = arrival[e]
    BY <1>8, <2>1
  <2>3. t[k] \in Nat /\ t[k] + arrival[path[k + 1]] = arrival[path[k]]
    BY <1>4, <2>1
  <2>4. r[k] = r[k - 1] + t[k] /\ r[k - 1] \in Int
    BY <1>6, <2>1
  <2>5. arrival[path[k]] \in Nat /\ arrival[path[k + 1]] \in Nat
    BY <1>2, <2>1
  <2> QED
    BY <2>1, <2>2, <2>3, <2>4, <2>5
<1>9. n - 1 \in Back
  <2>1. n - 1 \in Nat \ {0} /\ n - 1 \in 1 .. n - 1
    BY <1>1
  <2> HIDE DEF Back
  <2> QED
    BY <1>7, <1>8, <2>1, Climb
<1>10. r[n] = r[n - 1] + arrival[path[n]]
  <2>1. n \in 2 .. n /\ n \in 1 .. n
    BY <1>1
  <2> QED
    BY <1>3, <1>6, <2>1
<1>11. r[n] = arrival[e]
  <2>1. (n - 1) + 1 = n
    BY <1>1
  <2> QED
    BY <1>9, <1>10, <2>1
<1> QED
  BY <1>6, <1>11 DEF TraceDelay, t

\* The path traced behind any end point, from trace_path's walk back over the
\* latest inputs, adds up to the arrival the report gives for the end point.
THEOREM TraceReconcilesHolds == Spec => []TraceReconciles
<1>1. PassesInv => TraceReconciles
  <2> SUFFICES ASSUME PassesInv, phase = "done", NEW e \in Ends
               PROVE  /\ TraceDelay(TracePath(e)) = arrival[e]
                      /\ \/ Last(TracePath(e)) \in Starts
                         \/ inputs[Last(TracePath(e))] = {}
    BY DEF TraceReconciles
  <2>1. Design /\ Timed /\ Settled /\ \A s \in Starts : arrival[s] = Launch[s]
    BY DEF PassesInv, StaTypeInv
  <2>2. ~Cyclic
    BY <2>1, SettledIsAcyclic
  <2> DEFINE path == TracePath(e)
  <2>3. Chain(path, e) /\ TraceEnds(path)
    BY <2>1, <2>2, TracePathIs
  <2> HIDE DEF path
  <2>4. TraceDelay(path) = arrival[e]
    BY <2>1, <2>3, ChainAddsUp
  <2>5. Last(path) \in Starts \/ inputs[Last(path)] = {}
    <3>1. Last(path) \in Sources
      BY <2>3, LenProperties DEF Chain, Last
    <3>2. CASE Last(path) \in Cells
      <4>1. ~Contains(Front(path), Last(path))
        BY <2>1, <2>2, <2>3, <3>2, ChainIsShort
      <4> QED
        BY <2>3, <4>1 DEF TraceEnds
    <3> QED
      BY <3>1, <3>2 DEF Sources
  <2> QED
    BY <2>4, <2>5 DEF path
<1> QED
  BY <1>1, PassesInvariant, PTL

(***************************************************************************)
(* The constraints.                                                        *)
(***************************************************************************)
\* The net that the buffer driving net n reads.
Passes(m, n) ==
    LET by == project.drivers[n]
    IN by \in DOMAIN project.cells /\ Transparent(project.cells[by]) /\ project.cells[by].input = m

\* w leads over buffers to net n, through k nets that are not among the seen.
Way(w, k, n, seen) ==
    /\ k \in Nat \ {0} /\ w \in [1 .. k -> DrivenNets \ seen] /\ w[k] = n
    /\ \A i \in 2 .. k : Passes(w[i - 1], w[i])

Simple(w, k) == \A i, j \in 1 .. k : w[i] = w[j] => i = j

\* The ports at the start of such ways.
Origins(n, seen) ==
    {p \in DOMAIN project.ports :
       \E k, w : Way(w, k, n, seen) /\ Simple(w, k) /\ project.drivers[w[1]] = p}

\* One step of the walk back, given what the walk finds from the net before.
Unfolds(g, n, seen) ==
    LET by == project.drivers[n]
    IN g[n][seen] =
         IF n \in seen THEN NoNet
         ELSE IF by \in DOMAIN project.ports THEN by
         ELSE IF /\ by \in DOMAIN project.cells /\ Transparent(project.cells[by])
                 /\ project.cells[by].input \in DrivenNets
              THEN g[project.cells[by].input][seen \union {n}]
         ELSE NoNet

\* A way that ends behind a buffer is one net longer than a way to its input.
LEMMA WayLonger ==
    ASSUME NEW n \in DrivenNets, NEW m \in DrivenNets, NEW seen \in SUBSET DrivenNets,
           n \notin seen, Passes(m, n), NEW p \in Origins(m, seen \union {n})
    PROVE  p \in Origins(n, seen)
<1>1. PICK k, w : /\ Way(w, k, m, seen \union {n}) /\ Simple(w, k)
                          /\ project.drivers[w[1]] = p
  BY DEF Origins
<1> DEFINE v == [i \in 1 .. k + 1 |-> IF i = k + 1 THEN n ELSE w[i]]
<1>2. k \in Nat \ {0} /\ k + 1 \in Nat \ {0} /\ v[k + 1] = n /\ v[1] = w[1]
  BY <1>1 DEF Way
<1>3. \A i \in 1 .. k : v[i] = w[i] /\ w[i] \in DrivenNets \ seen /\ w[i] # n
  BY <1>1 DEF Way
<1>4. v \in [1 .. k + 1 -> DrivenNets \ seen]
  BY <1>2, <1>3
<1>5. ASSUME NEW i \in 2 .. k + 1 PROVE Passes(v[i - 1], v[i])
  <2>1. CASE i = k + 1
    <3>1. v[i - 1] = m
      BY <1>1, <1>2, <2>1 DEF Way
    <3> QED
      BY <1>2, <2>1, <3>1
  <2>2. CASE i # k + 1
    <3>1. i \in 2 .. k /\ i \in 1 .. k /\ i - 1 \in 1 .. k
      BY <1>2, <2>2
    <3>2. Passes(w[i - 1], w[i])
      BY <1>1, <3>1 DEF Way
    <3> QED
      BY <1>3, <3>1, <3>2
  <2> QED
    BY <2>1, <2>2
<1>6. ASSUME NEW i \in 1 .. k + 1, NEW j \in 1 .. k + 1, v[i] = v[j] PROVE i = j
  <2>1. \A h \in 1 .. k + 1 : h = k + 1 \/ h \in 1 .. k
    BY <1>2
  <2> QED
    BY <1>1, <1>2, <1>3, <1>6, <2>1 DEF Simple
<1> HIDE DEF v
<1>7. Way(v, k + 1, n, seen) /\ Simple(v, k + 1)
  BY <1>2, <1>4, <1>5, <1>6 DEF Way, Simple
<1> QED
  BY <1>1, <1>2, <1>7 DEF Origins

\* And the other way round: behind a buffer there is no other way.
LEMMA WayShorter ==
    ASSUME NEW n \in DrivenNets, NEW m \in DrivenNets, NEW seen \in SUBSET DrivenNets,
           Passes(m, n), NEW p \in Origins(n, seen),
           DOMAIN project.ports \intersect DOMAIN project.cells = {}
    PROVE  p \in Origins(m, seen \union {n})
<1>1. PICK k, w : /\ Way(w, k, n, seen) /\ Simple(w, k)
                          /\ project.drivers[w[1]] = p
  BY DEF Origins
<1>2. k \in Nat \ {0} /\ k # 1
  BY <1>1 DEF Way, Passes, Origins
<1> DEFINE v == [i \in 1 .. k - 1 |-> w[i]]
<1>3. k - 1 \in Nat \ {0} /\ k \in 2 .. k /\ k \in 1 .. k /\ k - 1 \in 1 .. k - 1
  BY <1>2
<1>4. v[k - 1] = m
  <2>1. Passes(w[k - 1], w[k])
    BY <1>1, <1>3 DEF Way
  <2> QED
    BY <1>1, <1>3, <2>1 DEF Way, Passes
<1>5. \A i \in 1 .. k - 1 : i \in 1 .. k /\ i # k /\ v[i] = w[i]
  BY <1>2
<1>6. v \in [1 .. k - 1 -> DrivenNets \ (seen \union {n})]
  <2>1. \A i \in 1 .. k - 1 : w[i] # n
    BY <1>1, <1>3, <1>5 DEF Way, Simple
  <2> QED
    BY <1>1, <1>5, <2>1 DEF Way
<1>7. \A i \in 2 .. k - 1 : i \in 2 .. k /\ i \in 1 .. k - 1 /\ i - 1 \in 1 .. k - 1
  BY <1>2
<1>8. v[1] = w[1]
  BY <1>3
<1> HIDE DEF v
<1>9. Way(v, k - 1, m, seen \union {n})
  BY <1>1, <1>3, <1>4, <1>5, <1>6, <1>7 DEF Way
<1>10. Simple(v, k - 1)
  BY <1>1, <1>5 DEF Simple
<1> QED
  BY <1>1, <1>3, <1>8, <1>9, <1>10 DEF Origins

\* What a net driven by a port comes from is the port.
LEMMA OriginAtPort ==
    ASSUME NEW n \in DrivenNets, NEW seen \in SUBSET DrivenNets, n \notin seen,
           project.drivers[n] \in DOMAIN project.ports,
           DOMAIN project.ports \intersect DOMAIN project.cells = {}
    PROVE  Origins(n, seen) = {project.drivers[n]}
<1>1. project.drivers[n] \in Origins(n, seen)
  <2> DEFINE w == [i \in 1 .. 1 |-> n]
  <2>1. Way(w, 1, n, seen) /\ Simple(w, 1) /\ w[1] = n
    BY DEF Way, Simple
  <2> HIDE DEF w
  <2> QED
    BY <2>1 DEF Origins
<1>2. ASSUME NEW p \in Origins(n, seen) PROVE p = project.drivers[n]
  <2>1. PICK k, w : Way(w, k, n, seen) /\ project.drivers[w[1]] = p
    BY DEF Origins
  <2>2. CASE k = 1
    BY <2>1, <2>2 DEF Way
  <2>3. CASE k # 1
    <3>1. k \in 2 .. k
      BY <2>1, <2>3 DEF Way
    <3>2. Passes(w[k - 1], w[k])
      BY <2>1, <3>1 DEF Way
    <3> QED
      BY <2>1, <3>2 DEF Way, Passes
  <2> QED
    BY <2>2, <2>3
<1> QED
  BY <1>1, <1>2

\* Where the walk ends otherwise, there is no way.
LEMMA NoOrigins ==
    ASSUME NEW n \in DrivenNets, NEW seen \in SUBSET DrivenNets,
           \/ n \in seen
           \/ /\ project.drivers[n] \notin DOMAIN project.ports
              /\ \A m \in DrivenNets : ~Passes(m, n)
    PROVE  Origins(n, seen) = {}
<1> SUFFICES ASSUME NEW p \in Origins(n, seen) PROVE FALSE
  OBVIOUS
<1>1. PICK k, w : Way(w, k, n, seen) /\ project.drivers[w[1]] = p
  BY DEF Origins
<1>2. k \in 1 .. k /\ k \in Nat \ {0}
  BY <1>1 DEF Way
<1>3. n \notin seen
  BY <1>1, <1>2 DEF Way
<1>4. CASE k = 1
  BY <1>1, <1>3, <1>4 DEF Way, Origins
<1>5. CASE k # 1
  <2>1. k \in 2 .. k /\ k - 1 \in 1 .. k
    BY <1>2, <1>5
  <2>2. Passes(w[k - 1], w[k]) /\ w[k] = n /\ w[k - 1] \in DrivenNets
    BY <1>1, <2>1 DEF Way
  <2> QED
    BY <1>3, <2>2
<1> QED
  BY <1>4, <1>5

\* The walk back is well defined: the function that gives the origin of each net
\* satisfies its equation, so that back does.
LEMMA BackUnfolds ==
    ASSUME project \in TimedProjects
    PROVE  \A n \in DrivenNets, seen \in SUBSET DrivenNets : Unfolds(back, n, seen)
<1>0. DOMAIN project.ports \intersect DOMAIN project.cells = {}
  BY TimedAssumption
<1> DEFINE origin(n, seen) == IF Origins(n, seen) = {} THEN NoNet
                              ELSE CHOOSE p : p \in Origins(n, seen)
           f == [n \in DrivenNets |-> [seen \in SUBSET DrivenNets |-> origin(n, seen)]]
           step(g, n, seen) ==
             LET by == project.drivers[n]
             IN IF n \in seen THEN NoNet
                ELSE IF by \in DOMAIN project.ports THEN by
                ELSE IF /\ by \in DOMAIN project.cells /\ Transparent(project.cells[by])
                        /\ project.cells[by].input \in DrivenNets
                     THEN g[project.cells[by].input][seen \union {n}]
                ELSE NoNet
           Fix(g) == g = [n \in DrivenNets |-> [seen \in SUBSET DrivenNets |-> step(g, n, seen)]]
<1>1. \A n \in DrivenNets, seen \in SUBSET DrivenNets : f[n][seen] = origin(n, seen)
  OBVIOUS
<1>2. ASSUME NEW n \in DrivenNets, NEW seen \in SUBSET DrivenNets
      PROVE  origin(n, seen) = step(f, n, seen)
  <2> DEFINE by == project.drivers[n]
  <2>1. CASE n \in seen
    BY <2>1, NoOrigins
  <2>2. CASE n \notin seen /\ by \in DOMAIN project.ports
    <3>1. Origins(n, seen) = {by}
      BY <1>0, <2>2, OriginAtPort
    <3> QED
      BY <2>2, <3>1
  <2>3. CASE /\ n \notin seen /\ by \notin DOMAIN project.ports
             /\ by \in DOMAIN project.cells /\ Transparent(project.cells[by])
             /\ project.cells[by].input \in DrivenNets
    <3> DEFINE m == project.cells[by].input
    <3>1. m \in DrivenNets /\ Passes(m, n) /\ seen \union {n} \in SUBSET DrivenNets
      BY <2>3 DEF Passes
    <3>2. Origins(n, seen) = Origins(m, seen \union {n})
      <4>1. n \notin seen
        BY <2>3
      <4> HIDE DEF m, by
      <4>2. \A p \in Origins(m, seen \union {n}) : p \in Origins(n, seen)
        BY <3>1, <4>1, WayLonger
      <4>3. \A p \in Origins(n, seen) : p \in Origins(m, seen \union {n})
        BY <1>0, <3>1, WayShorter
      <4> QED
        BY <4>2, <4>3
    <3>3. step(f, n, seen) = f[m][seen \union {n}]
      BY <2>3
    <3>4. f[m][seen \union {n}] = origin(m, seen \union {n})
      <4> HIDE DEF m, f, by
      <4> QED
        BY <1>1, <3>1
    <3> HIDE DEF m, f, by, step
    <3> QED
      BY <3>2, <3>3, <3>4
  <2>4. CASE /\ n \notin seen /\ by \notin DOMAIN project.ports
             /\ ~(/\ by \in DOMAIN project.cells /\ Transparent(project.cells[by])
                  /\ project.cells[by].input \in DrivenNets)
    <3>1. \A m \in DrivenNets : ~Passes(m, n)
      BY <2>4 DEF Passes
    <3> QED
      BY <2>4, <3>1, NoOrigins
  <2> QED
    BY <2>1, <2>2, <2>3, <2>4
<1>3. Fix(f)
  <2>1. f = [n \in DrivenNets |-> [seen \in SUBSET DrivenNets |-> step(f, n, seen)]]
    <3> HIDE DEF step, origin
    <3> QED
      BY <1>1, <1>2
  <2> QED
    BY <2>1
<1>4. back = CHOOSE g : Fix(g)
  BY DEF back
<1>5. Fix(back)
  <2> HIDE DEF f, Fix
  <2> QED
    BY <1>3, <1>4
<1>6. \A n \in DrivenNets, seen \in SUBSET DrivenNets : back[n][seen] = step(back, n, seen)
  <2> DEFINE next(n, seen) == step(back, n, seen)
  <2>1. back = [n \in DrivenNets |-> [seen \in SUBSET DrivenNets |-> next(n, seen)]]
    BY <1>5
  <2>2. \A n \in DrivenNets, seen \in SUBSET DrivenNets : back[n][seen] = next(n, seen)
    <3> HIDE DEF next
    <3> QED
      BY <2>1
  <2> QED
    BY <2>2
<1> QED
  BY <1>6 DEF Unfolds

\* What the walk finds is reached: it could only fail to be on a net with the
\* fewest nets left to see, and from there the walk went one net further.
LEMMA FoundIsOrigin ==
    ASSUME project \in TimedProjects, NEW n \in DrivenNets, NEW seen \in SUBSET DrivenNets,
           back[n][seen] \in DOMAIN project.ports
    PROVE  back[n][seen] \in Origins(n, seen)
<1>0. /\ DOMAIN project.ports \intersect DOMAIN project.cells = {}
      /\ NoNet \notin DOMAIN project.ports /\ IsFiniteSet(DrivenNets)
  BY TimedAssumption DEF DrivenNets
<1> DEFINE Wrong(x) == /\ back[x[1]][x[2]] \in DOMAIN project.ports
                       /\ back[x[1]][x[2]] \notin Origins(x[1], x[2])
           Bad == {x \in DrivenNets \X SUBSET DrivenNets : Wrong(x)}
           Left(x) == Cardinality(DrivenNets \ x[2])
           Sizes == {Left(x) : x \in Bad}
<1>1. \A x \in Bad : IsFiniteSet(DrivenNets \ x[2]) /\ Left(x) \in Nat
  BY <1>0, FS_Subset, FS_CardinalityType
<1>2. ASSUME Bad # {} PROVE FALSE
  <2>1. Sizes \in SUBSET Nat /\ Sizes # {}
    BY <1>1, <1>2
  <2>2. PICK least \in Sizes : \A s \in Sizes : least <= s
    <3> HIDE DEF Sizes
    <3> QED
      BY <2>1, LeastNatural
  <2>3. PICK x \in Bad : Left(x) = least
    OBVIOUS
  <2> DEFINE m == x[1]
             past == x[2]
             by == project.drivers[m]
  <2>4. m \in DrivenNets /\ past \in SUBSET DrivenNets /\ x = <<m, past>> /\ Wrong(x)
    OBVIOUS
  <2>5. Unfolds(back, m, past)
    BY <2>4, BackUnfolds
  <2>6. m \notin past
    BY <1>0, <2>4, <2>5 DEF Unfolds
  <2>7. by \notin DOMAIN project.ports
    <3>1. ASSUME by \in DOMAIN project.ports PROVE FALSE
      <4>1. Origins(m, past) = {by}
        BY <1>0, <2>4, <2>6, <3>1, OriginAtPort
      <4>2. back[m][past] = by
        BY <2>5, <2>6, <3>1 DEF Unfolds
      <4> QED
        BY <2>4, <4>1, <4>2
    <3> QED
      BY <3>1
  <2> DEFINE input == project.cells[by].input
             more == past \union {m}
  <2>8. /\ by \in DOMAIN project.cells /\ Transparent(project.cells[by])
        /\ input \in DrivenNets /\ back[m][past] = back[input][more]
    <3>1. ~(/\ by \in DOMAIN project.cells /\ Transparent(project.cells[by])
            /\ input \in DrivenNets) => back[m][past] = NoNet
      BY <2>5, <2>6, <2>7 DEF Unfolds
    <3>2. by \in DOMAIN project.cells /\ Transparent(project.cells[by]) /\ input \in DrivenNets
      BY <1>0, <2>4, <3>1
    <3> QED
      BY <2>5, <2>6, <2>7, <3>2 DEF Unfolds
  <2>9. Passes(input, m)
    BY <2>8 DEF Passes
  <2>10. <<input, more>> \notin Bad
    <3>1. DrivenNets \ more = (DrivenNets \ past) \ {m} /\ m \in DrivenNets \ past
      BY <2>4, <2>6
    <3>2. Cardinality(DrivenNets \ more) = Cardinality(DrivenNets \ past) - 1
      <4>1. IsFiniteSet(DrivenNets \ past)
        BY <1>0, FS_Subset
      <4> HIDE DEF m, past, more
      <4>2. Cardinality((DrivenNets \ past) \ {m}) = Cardinality(DrivenNets \ past) - 1
        BY <3>1, <4>1, FS_RemoveElement
      <4> QED
        BY <3>1, <4>2
    <3>3. Left(<<input, more>>) = Cardinality(DrivenNets \ more) /\ Left(x) \in Nat
      BY <1>1
    <3>4. ~(least <= Left(<<input, more>>))
      <4> HIDE DEF more, past, Bad, Left, Sizes
      <4>1. Left(x) = Cardinality(DrivenNets \ past)
        BY DEF Left, past
      <4> QED
        BY <2>3, <3>2, <3>3, <4>1
    <3> HIDE DEF Left
    <3> QED
      BY <2>2, <3>4
  <2>11. back[input][more] \in Origins(input, more)
    <3>1. more \in SUBSET DrivenNets
      BY <2>4
    <3>2. <<input, more>> \in DrivenNets \X SUBSET DrivenNets
      BY <2>8, <3>1
    <3>3. ~Wrong(<<input, more>>)
      BY <2>10, <3>2
    <3>4. back[input][more] \in DOMAIN project.ports
      BY <2>4, <2>8
    <3> HIDE DEF input, more
    <3> QED
      BY <3>3, <3>4
  <2> HIDE DEF input
  <2>12. back[input][more] \in Origins(m, past)
    <3> HIDE DEF m, past
    <3> QED
      BY <2>4, <2>6, <2>8, <2>9, <2>11, WayLonger
  <2> QED
    BY <2>4, <2>8, <2>12
<1> QED
  <2>1. <<n, seen>> \notin Bad
    BY <1>2
  <2> QED
    BY <2>1

\* A way from a port goes in no circle: what leads into a circle is in it.
LEMMA WayIsSimple ==
    ASSUME NEW w, NEW k, NEW n, NEW seen, Way(w, k, n, seen),
           project.drivers[w[1]] \in DOMAIN project.ports,
           DOMAIN project.ports \intersect DOMAIN project.cells = {}
    PROVE  Simple(w, k)
<1> DEFINE Twice(i) == \E j \in 1 .. k : i < j /\ w[i] = w[j]
           Bad == {i \in 1 .. k : Twice(i)}
<1>0. k \in Nat \ {0}
  BY DEF Way
<1>1. ASSUME Bad # {} PROVE FALSE
  <2>1. Bad \in SUBSET Nat
    BY <1>0
  <2>2. PICK i \in Bad : \A h \in Bad : i <= h
    BY <1>1, <2>1, LeastNatural
  <2>3. PICK j \in 1 .. k : i < j /\ w[i] = w[j]
    BY <2>2
  <2>4. i \in 1 .. k /\ j \in 2 .. k
    BY <1>0, <2>2, <2>3
  <2>5. Passes(w[j - 1], w[j])
    BY <2>4 DEF Way
  <2>6. i # 1
    BY <2>3, <2>5 DEF Passes
  <2>7. i \in 2 .. k /\ i - 1 \in 1 .. k /\ j - 1 \in 1 .. k /\ i - 1 < j - 1 /\ ~(i <= i - 1)
    BY <1>0, <2>3, <2>4, <2>6
  <2>8. Passes(w[i - 1], w[i])
    BY <2>7 DEF Way
  <2>9. w[i - 1] = w[j - 1]
    BY <2>3, <2>5, <2>8 DEF Passes
  <2>10. i - 1 \in Bad
    BY <2>7, <2>9
  <2> QED
    BY <2>2, <2>7, <2>10
<1> QED
  <2> SUFFICES ASSUME NEW i \in 1 .. k, NEW j \in 1 .. k, w[i] = w[j], i # j PROVE FALSE
    BY DEF Simple
  <2>1. i < j \/ j < i
    BY <1>0
  <2> QED
    BY <1>1, <2>1

\* The walk back follows every way from a port, net by net.
LEMMA WalkFollowsWay ==
    ASSUME project \in TimedProjects, NEW w, NEW k, NEW n \in DrivenNets, Way(w, k, n, {}),
           project.drivers[w[1]] \in DOMAIN project.ports
    PROVE  back[n][{}] = project.drivers[w[1]]
<1>0. /\ DOMAIN project.ports \intersect DOMAIN project.cells = {}
      /\ k \in Nat \ {0} /\ w[k] = n /\ \A i \in 1 .. k : w[i] \in DrivenNets
  BY TimedAssumption DEF Way
<1>1. Simple(w, k)
  BY <1>0, WayIsSimple
<1> DEFINE after(i) == {w[j] : j \in i + 1 .. k}
           There(i) == back[n][{}] = back[w[i]][after(i)]
           Bad == {d \in 0 .. k - 1 : ~There(k - d)}
<1>2. \A i \in 1 .. k : /\ after(i) \in SUBSET DrivenNets /\ w[i] \notin after(i)
  <2> TAKE i \in 1 .. k
  <2>1. \A j \in i + 1 .. k : j \in 1 .. k /\ j # i
    BY <1>0
  <2> QED
    BY <1>0, <1>1, <2>1 DEF Simple
<1>3. ASSUME Bad # {} PROVE FALSE
  <2>1. Bad \in SUBSET Nat
    BY <1>0
  <2>2. PICK d \in Bad : \A h \in Bad : d <= h
    BY <1>3, <2>1, LeastNatural
  <2>3. d \in 0 .. k - 1 /\ ~There(k - d)
    BY <2>2
  <2>4. d # 0
    <3>1. ASSUME d = 0 PROVE FALSE
      <4>1. k - d = k /\ k + 1 .. k = {}
        BY <1>0, <3>1
      <4>2. after(k) = {}
        BY <4>1
      <4> QED
        BY <1>0, <2>3, <4>1, <4>2
    <3> QED
      BY <3>1
  <2> DEFINE i == k - d
  <2>5. /\ i \in 1 .. k /\ i + 1 \in 1 .. k /\ i + 1 \in 2 .. k /\ d - 1 \in 0 .. k - 1
        /\ k - (d - 1) = i + 1 /\ (i + 1) - 1 = i /\ ~(d <= d - 1)
    BY <1>0, <2>3, <2>4
  <2>6. There(i + 1)
    <3>1. d - 1 \notin Bad
      BY <2>2, <2>5
    <3> HIDE DEF There
    <3> QED
      BY <2>5, <3>1
  <2>7. Passes(w[i], w[i + 1])
    <3>1. Passes(w[(i + 1) - 1], w[i + 1])
      BY <2>5 DEF Way
    <3> QED
      BY <2>5, <3>1
  <2>8. Unfolds(back, w[i + 1], after(i + 1))
    <3> HIDE DEF after
    <3> QED
      BY <1>0, <1>2, <2>5, BackUnfolds
  <2>9. after(i) = after(i + 1) \union {w[i + 1]}
    <3>1. i + 1 .. k = ((i + 1) + 1 .. k) \union {i + 1}
      BY <1>0, <2>5
    <3> HIDE DEF i
    <3> QED
      BY <3>1
  <2>10. w[i + 1] \notin after(i + 1) /\ w[i] \in DrivenNets
    BY <1>0, <1>2, <2>5
  <2>11. back[w[i + 1]][after(i + 1)] = back[w[i]][after(i + 1) \union {w[i + 1]}]
    <3> HIDE DEF after, i
    <3> QED
      BY <1>0, <2>7, <2>8, <2>10 DEF Unfolds, Passes
  <2>12. There(i)
    <3> HIDE DEF after, i
    <3> QED
      BY <2>6, <2>9, <2>11
  <2> QED
    BY <2>3, <2>12
<1>4. There(1)
  <2>1. k - 1 \in 0 .. k - 1 /\ k - (k - 1) = 1
    BY <1>0
  <2> HIDE DEF There
  <2> QED
    BY <1>3, <2>1
<1>5. 1 \in 1 .. k
  BY <1>0
<1>6. Unfolds(back, w[1], after(1)) /\ w[1] \notin after(1)
  <2> HIDE DEF after
  <2> QED
    BY <1>0, <1>2, <1>5, BackUnfolds
<1> HIDE DEF after
<1> QED
  BY <1>4, <1>6 DEF Unfolds

\* The code's walk back over buffers finds exactly the ports that reach the net.
LEMMA SourceReaches ==
    ASSUME project \in TimedProjects, NEW p \in DOMAIN project.ports, NEW net
    PROVE  SourcePort(net) = p <=> Reaches(p, net)
<1>0. /\ DOMAIN project.ports \intersect DOMAIN project.cells = {}
      /\ NoNet \notin DOMAIN project.ports /\ IsFiniteSet(DrivenNets)
  BY TimedAssumption DEF DrivenNets
<1>1. ASSUME SourcePort(net) = p PROVE Reaches(p, net)
  <2>1. net \in DrivenNets /\ back[net][{}] = p
    BY <1>0, <1>1 DEF SourcePort
  <2>2. p \in Origins(net, {})
    BY <2>1, FoundIsOrigin
  <2>3. PICK k, w : Way(w, k, net, {}) /\ Simple(w, k) /\ project.drivers[w[1]] = p
    BY <2>2 DEF Origins
  <2>4. w \in Injection(1 .. k, DrivenNets) /\ k \in Nat \ {0}
    BY <2>3 DEF Way, Simple, Injection, IsInjective
  <2>5. k \in 1 .. Cardinality(DrivenNets)
    <3>1. Cardinality(1 .. k) <= Cardinality(DrivenNets) /\ Cardinality(DrivenNets) \in Nat
      BY <1>0, <2>4, FS_Injection, FS_CardinalityType
    <3>2. Cardinality(1 .. k) = k
      BY <2>4, FS_Interval
    <3> QED
      BY <2>4, <3>1, <3>2
  <2>6. w \in [1 .. k -> DrivenNets]
    BY <2>3 DEF Way
  <2> QED
    BY <2>3, <2>5, <2>6 DEF Way, Passes, Transparent, Reaches, DrivenNets
<1>2. ASSUME Reaches(p, net) PROVE SourcePort(net) = p
  <2>1. PICK k \in 1 .. Cardinality(DrivenNets) : \E way \in [1 .. k -> DrivenNets] :
          /\ project.drivers[way[1]] = p /\ way[k] = net
          /\ \A i \in 2 .. k : Passes(way[i - 1], way[i])
    BY <1>2 DEF Reaches, Passes, Transparent, DrivenNets
  <2>2. PICK w \in [1 .. k -> DrivenNets] :
          /\ project.drivers[w[1]] = p /\ w[k] = net
          /\ \A i \in 2 .. k : Passes(w[i - 1], w[i])
    BY <2>1
  <2>3. k \in Nat \ {0} /\ k \in 1 .. k
    BY <1>0, <2>1, FS_CardinalityType
  <2>4. Way(w, k, net, {}) /\ net \in DrivenNets
    BY <2>2, <2>3 DEF Way
  <2>5. back[net][{}] = p
    BY <2>2, <2>4, WalkFollowsWay
  <2> QED
    BY <2>4, <2>5 DEF SourcePort
<1> QED
  BY <1>1, <1>2
-----------------------------------------------------------------------------

\* The entries of a list are as many as its keys: each key is of one entry.
LEMMA OneKeyEach ==
    ASSUME NEW n \in Nat, NEW K, NEW f \in [1 .. n -> K], K = {f[i] : i \in 1 .. n},
           Cardinality(K) = n
    PROVE  \A i, j \in 1 .. n : f[i] = f[j] => i = j
<1>1. f \in Surjection(1 .. n, K)
  BY DEF Surjection
<1>2. IsFiniteSet(1 .. n) /\ Cardinality(1 .. n) = n
  BY FS_Interval
<1>3. f \in Injection(1 .. n, K)
  BY <1>1, <1>2, FS_SurjSameCardinalityImpliesInj
<1> QED
  BY <1>3 DEF Injection, IsInjective

LEMMA OnePortEach ==
    ASSUME NEW S, NEW s \in Seq(S), Cardinality({e.port : e \in ToSet(s)}) = Len(s)
    PROVE  \A e, f \in ToSet(s) : e.port = f.port => e = f
<1> DEFINE K == {e.port : e \in ToSet(s)}
           key == [i \in 1 .. Len(s) |-> s[i].port]
<1>1. ToSet(s) = {s[i] : i \in 1 .. Len(s)} /\ Len(s) \in Nat
  BY DEF ToSet
<1>2. K = {key[i] : i \in 1 .. Len(s)} /\ key \in [1 .. Len(s) -> K]
  <2>2. K = {key[i] : i \in 1 .. Len(s)}
    <3>1. \A x : x \in K <=> \E e \in ToSet(s) : x = e.port
      OBVIOUS
    <3>2. \A x : x \in {key[i] : i \in 1 .. Len(s)} <=> \E i \in 1 .. Len(s) : x = s[i].port
      OBVIOUS
    <3> HIDE DEF key, K
    <3> QED
      BY <1>1, <3>1, <3>2
  <2> QED
    BY <2>2
<1>3. \A i, j \in 1 .. Len(s) : key[i] = key[j] => i = j
  <2> HIDE DEF K, key
  <2> QED
    BY <1>1, <1>2, OneKeyEach DEF K
<1> QED
  BY <1>1, <1>3

LEMMA OneNameEach ==
    ASSUME NEW S, NEW s \in Seq(S), Cardinality(Names(s)) = Len(s)
    PROVE  \A e, f \in ToSet(s) : e.name = f.name => e = f
<1> DEFINE key == [i \in 1 .. Len(s) |-> s[i].name]
<1>1. ToSet(s) = {s[i] : i \in 1 .. Len(s)} /\ Len(s) \in Nat
  BY DEF ToSet
<1>2. Names(s) = {key[i] : i \in 1 .. Len(s)} /\ key \in [1 .. Len(s) -> Names(s)]
  <2>2. Names(s) = {key[i] : i \in 1 .. Len(s)}
    <3>1. \A x : x \in Names(s) <=> \E e \in ToSet(s) : x = e.name
      BY DEF Names
    <3>2. \A x : x \in {key[i] : i \in 1 .. Len(s)} <=> \E i \in 1 .. Len(s) : x = s[i].name
      OBVIOUS
    <3> HIDE DEF key
    <3> QED
      BY <1>1, <3>1, <3>2
  <2> QED
    BY <2>2
<1>3. \A i, j \in 1 .. Len(s) : key[i] = key[j] => i = j
  <2> HIDE DEF key
  <2> QED
    BY <1>1, <1>2, OneKeyEach
<1> QED
  BY <1>1, <1>3

-----------------------------------------------------------------------------

CellAt(i) == project.cells[project.order[i]]

\* The cells compiled so far.
Made == 1 .. next_cell - 1

\* What the files and the design have been found to be when their stage is over.
FilesMerged ==
    stage \in {"validate", "cells", "judge", "judged"} =>
      Mergeable(project) /\ clocks = project.xml \o project.sdc.clocks

PortsChecked == stage \in {"cells", "judge", "judged"} => ValidPorts

CellsInOrder ==
    /\ next_cell \in 1 .. Len(project.order) + 1
    /\ stage \in {"files", "validate"} => next_cell = 1
    /\ stage \in {"judge", "judged"} => next_cell > Len(project.order)

RegistersKnown ==
    /\ IsFiniteSet(DOMAIN register_inputs)
    /\ \A i \in Made : Captured(CellAt(i)) \subseteq DOMAIN register_inputs

\* Each pin of a compiled cell is held to a clock of its domain, in the designs
\* that have clocks.
Captor(d) == CHOOSE k \in ClocksAt(d) : TRUE

PinHeld(i, d, p) ==
    /\ p \in DOMAIN endpoint_requirements
    /\ endpoint_requirements[p] = CaptureBy(Captor(d), SetupOf(CellAt(i)))

CapturesHeld ==
    IF clocks = <<>> THEN DOMAIN endpoint_requirements = {}
    ELSE \A i \in Made : \A d \in SyncDomains(CellAt(i)) :
           ClocksAt(d) # {} /\ \A p \in d.captures : PinHeld(i, d, p)

OutputHeld(o) ==
    /\ o.port \in DOMAIN endpoint_requirements
    /\ \E k \in ToSet(clocks) :
         /\ k.name = o.clock
         /\ endpoint_requirements[o.port] = k.period - o.delay - UncertaintyOf(k.name)

OutputsHeld == stage \in {"judge", "judged"} => \A o \in ToSet(project.sdc.outputs) : OutputHeld(o)

\* Whatever counts as used has a delay or a domain, and in the end everything does.
UseOf(name) ==
    \/ name \in DelayClocks
    \/ \E i \in Made : \E d \in SyncDomains(CellAt(i)) : \E k \in ClocksAt(d) : k.name = name

UsesKnown ==
    /\ \A name \in used_clocks : UseOf(name)
    /\ stage \in {"judge", "judged"} => \A c \in ToSet(clocks) : c.name \in used_clocks

Late == \E e \in DOMAIN Slacks : Slacks[e] < 0

Verdict ==
    CASE clocks = <<>> -> "UNCONSTRAINED"
      [] clocks # <<>> /\ Late -> "VIOLATED"
      [] OTHER -> IF Incomplete \/ Unmodeled THEN "PARTIALLY CONSTRAINED" ELSE "MET"

Pronounced == stage = "judged" => constraint_status = Verdict

Untouched ==
    /\ stage = "files" => clocks = <<>>
    /\ stage \in {"files", "validate"} => DOMAIN endpoint_requirements = {} /\ used_clocks = {}

\* The inductive invariant.
ConstraintsInv ==
    /\ project \in TimedProjects
    /\ stage \in {"files", "validate", "cells", "judge", "judged", "refused"}
    /\ FilesMerged /\ PortsChecked /\ CellsInOrder /\ RegistersKnown /\ Untouched
    /\ CapturesHeld /\ OutputsHeld /\ UsesKnown /\ Pronounced

LEMMA InitConstraints == ConstraintsInit => ConstraintsInv
<1> SUFFICES ASSUME ConstraintsInit PROVE ConstraintsInv
  OBVIOUS
<1>1. project \in TimedProjects /\ stage = "files" /\ clocks = <<>> /\ next_cell = 1
      /\ DOMAIN endpoint_requirements = {} /\ DOMAIN register_inputs = {} /\ used_clocks = {}
  <2>1. DOMAIN <<>> = {}
    BY SMT
  <2> QED
    BY <2>1 DEF ConstraintsInit
<1>2. Made = {}
  BY <1>1 DEF Made
<1>3. Len(project.order) \in Nat
  BY <1>1, TimedAssumption
<1> QED
  BY <1>1, <1>2, <1>3, FS_EmptySet
     DEF ConstraintsInv, FilesMerged, PortsChecked, CellsInOrder, RegistersKnown, Untouched,
         CapturesHeld, OutputsHeld, UsesKnown, Pronounced

\* What depends on the design alone, or on the design and the clocks.
LEMMA SameDesign ==
    ASSUME project' = project
    PROVE  /\ DelayClocks' = DelayClocks /\ Unmodeled' = Unmodeled
           /\ \A i : CellAt(i)' = CellAt(i)
           /\ \A c : SyncDomains(c)' = SyncDomains(c) /\ SetupOf(c)' = SetupOf(c)
           /\ \A c : Captured(c)' = Captured(c)
           /\ \A name : UncertaintyOf(name)' = UncertaintyOf(name)
           /\ \A k, setup : CaptureBy(k, setup)' = CaptureBy(k, setup)
<1>1. DelayClocks' = DelayClocks
  BY DEF DelayClocks
<1>2. Unmodeled' = Unmodeled
  BY DEF Unmodeled, SyncDomains
<1>3. \A i : CellAt(i)' = CellAt(i)
  BY DEF CellAt
<1>4. \A c : SyncDomains(c)' = SyncDomains(c) /\ SetupOf(c)' = SetupOf(c)
  BY DEF SyncDomains, SetupOf
<1>5. \A c : Captured(c)' = Captured(c)
  BY DEF Captured, SyncDomains
<1>6. \A name : UncertaintyOf(name)' = UncertaintyOf(name)
  BY DEF UncertaintyOf
<1>7. \A k, setup : CaptureBy(k, setup)' = CaptureBy(k, setup)
  BY DEF CaptureBy, UncertaintyOf
<1> QED
  BY <1>1, <1>2, <1>3, <1>4, <1>5, <1>6, <1>7

LEMMA SameClocks ==
    ASSUME project' = project, clocks' = clocks
    PROVE  /\ \A d : ClocksAt(d)' = ClocksAt(d) /\ Captor(d)' = Captor(d)
           /\ ValidPorts' = ValidPorts
<1>1. \A net : SourcePort(net)' = SourcePort(net)
  BY DEF SourcePort, back, DrivenNets
<1>2. \A d : ClocksAt(d)' = ClocksAt(d)
  BY <1>1 DEF ClocksAt
<1>3. ValidPorts' = ValidPorts
  BY DEF ValidPorts, IsInput, IsOutput
<1>4. \A d : Captor(d)' = Captor(d)
  BY <1>2 DEF Captor
<1> QED
  BY <1>2, <1>3, <1>4

LEMMA SamePins ==
    ASSUME UNCHANGED <<project, clocks, next_cell, endpoint_requirements>>, CapturesHeld
    PROVE  CapturesHeld'
<1>1. \A i, d, p : PinHeld(i, d, p)' = PinHeld(i, d, p)
  BY SameDesign, SameClocks DEF PinHeld
<1>2. Made' = Made /\ \A i : SyncDomains(CellAt(i))' = SyncDomains(CellAt(i))
  BY SameDesign DEF Made
<1> QED
  BY <1>1, <1>2, SameClocks DEF CapturesHeld

-----------------------------------------------------------------------------

LEMMA StepRefused == ASSUME ConstraintsInv, Refused PROVE ConstraintsInv'
<1>1. project' = project /\ UNCHANGED compiled /\ stage' = "refused" /\ clocks' = clocks
  BY DEF Refused, compiled
<1> USE <1>1, SameDesign, SameClocks DEF ConstraintsInv, compiled
<1>2. FilesMerged' /\ PortsChecked' /\ OutputsHeld' /\ Pronounced' /\ Untouched'
  BY DEF FilesMerged, PortsChecked, OutputsHeld, Pronounced, Untouched
<1>3. CellsInOrder' /\ RegistersKnown'
  BY DEF CellsInOrder, RegistersKnown, Made
<1>4. CapturesHeld'
  BY SamePins
<1>5. UsesKnown'
  BY DEF UsesKnown, UseOf, Made
<1> QED
  BY <1>2, <1>3, <1>4, <1>5

LEMMA StepLoadFiles ==
    ASSUME ConstraintsInv, LoadFiles, ~Refused
    PROVE  ConstraintsInv'
<1>1. /\ stage = "files" /\ stage' = "validate" /\ Mergeable(project) /\ project' = project
      /\ clocks' = project.xml \o project.sdc.clocks
      /\ UNCHANGED <<next_cell, register_inputs, endpoint_requirements, used_clocks>>
  BY DEF LoadFiles
<1>2. /\ next_cell = 1 /\ Made = {} /\ Made' = {}
      /\ DOMAIN endpoint_requirements = {} /\ used_clocks = {}
  BY <1>1 DEF ConstraintsInv, CellsInOrder, Untouched, Made
<1> USE <1>1, <1>2 DEF ConstraintsInv
<1>3. FilesMerged'
  <2>1. Mergeable(project)' = Mergeable(project)
    BY DEF Mergeable, ValidSdc
  <2> QED
    BY <2>1 DEF FilesMerged
<1>4. PortsChecked' /\ OutputsHeld' /\ Pronounced' /\ Untouched'
  BY DEF PortsChecked, OutputsHeld, Pronounced, Untouched
<1>5. CellsInOrder' /\ RegistersKnown'
  BY DEF CellsInOrder, RegistersKnown
<1>6. CapturesHeld' /\ UsesKnown'
  BY DEF CapturesHeld, UsesKnown
<1> QED
  BY <1>3, <1>4, <1>5, <1>6

LEMMA StepValidate ==
    ASSUME ConstraintsInv, Validate, ~Refused
    PROVE  ConstraintsInv'
<1>1. /\ stage = "validate" /\ stage' = "cells" /\ ValidPorts /\ project' = project
      /\ UNCHANGED compiled /\ clocks' = clocks
  BY DEF Validate, compiled
<1> USE <1>1, SameDesign, SameClocks DEF ConstraintsInv, compiled
<1>2. FilesMerged' /\ PortsChecked' /\ OutputsHeld' /\ Pronounced' /\ Untouched'
  BY DEF FilesMerged, PortsChecked, OutputsHeld, Pronounced, Untouched
<1>3. CellsInOrder' /\ RegistersKnown'
  BY DEF CellsInOrder, RegistersKnown, Made
<1>4. CapturesHeld'
  BY SamePins
<1>5. UsesKnown'
  BY DEF UsesKnown, UseOf, Made
<1> QED
  BY <1>2, <1>3, <1>4, <1>5

\* A cell captures with finitely many pins.
LEMMA FewCaptures ==
    ASSUME project \in TimedProjects, NEW x \in DOMAIN project.cells
    PROVE  IsFiniteSet(Captured(project.cells[x]))
<1> DEFINE c == project.cells[x]
           D == SyncDomains(c)
           pins == [d \in D |-> d.captures]
           S == {pins[d] : d \in D}
<1>1. IsFiniteSet(D) /\ \A d \in D : IsFiniteSet(d.captures)
  <2>1. D \subseteq c.domains
    BY DEF SyncDomains
  <2> QED
    BY <2>1, TimedAssumption, FS_Subset
<1>2. IsFiniteSet(S)
  <2> HIDE DEF D, pins
  <2>1. pins \in [D -> S]
    BY DEF pins
  <2>2. pins \in Surjection(D, S)
    BY <2>1 DEF Surjection
  <2> QED
    BY <1>1, <2>2, FS_Surjection
<1>3. \A T \in S : IsFiniteSet(T)
  BY <1>1
<1>4. Captured(c) = UNION S
  BY DEF Captured
<1> HIDE DEF S
<1> QED
  BY <1>2, <1>3, <1>4, FS_UNION

\* A pin belongs to one domain of one cell.
LEMMA OneDomainEach ==
    ASSUME project \in TimedProjects,
           NEW i \in 1 .. Len(project.order), NEW j \in 1 .. Len(project.order),
           NEW d \in SyncDomains(CellAt(i)), NEW e \in SyncDomains(CellAt(j)),
           NEW p \in d.captures, p \in e.captures
    PROVE  CellAt(i) = CellAt(j) /\ d = e
<1>1. project.order[i] \in DOMAIN project.cells /\ project.order[j] \in DOMAIN project.cells
  BY TimedAssumption
<1>2. d \in CellAt(i).domains /\ e \in CellAt(j).domains
  BY DEF SyncDomains
<1>3. <<project.order[i], d>> = <<project.order[j], e>>
  BY <1>1, <1>2, TimedAssumption DEF CellAt
<1> QED
  BY <1>3 DEF CellAt

LEMMA StepCompileCell ==
    ASSUME ConstraintsInv, CompileCell, ~Refused
    PROVE  ConstraintsInv'
<1> DEFINE c == CellAt(next_cell)
           held == [p \in Captured(c) |-> CaptureBy(Captor(DomainOf(c, p)), SetupOf(c))]
<1>1. /\ stage = "cells" /\ next_cell <= Len(project.order)
      /\ UNCHANGED <<project, stage, clocks, constraint_status>>
      /\ next_cell' = next_cell + 1
      /\ register_inputs' = Over([p \in Captured(c) |-> SetupOf(c)], register_inputs)
      /\ endpoint_requirements' = IF clocks = <<>> THEN endpoint_requirements
                                  ELSE Over(held, endpoint_requirements)
      /\ used_clocks' = used_clocks
           \union UNION {{k.name : k \in ClocksAt(d)} : d \in SyncDomains(c)}
      /\ clocks # <<>> => \A d \in SyncDomains(c) : ClocksAt(d) # {}
  BY DEF CompileCell, CellAt, Captor
<1>2. Len(project.order) \in Nat /\ next_cell \in 1 .. Len(project.order)
      /\ project.order[next_cell] \in DOMAIN project.cells
  BY <1>1, TimedAssumption DEF ConstraintsInv, CellsInOrder
<1>3. Made' = Made \union {next_cell} /\ \A i \in Made : i \in 1 .. Len(project.order)
  BY <1>1, <1>2 DEF Made
<1>4. FilesMerged' /\ PortsChecked' /\ OutputsHeld' /\ Pronounced' /\ Untouched'
  <2>1. Mergeable(project)' = Mergeable(project)
    BY <1>1 DEF Mergeable, ValidSdc
  <2> QED
    BY <1>1, <2>1, SameClocks
       DEF ConstraintsInv, FilesMerged, PortsChecked, OutputsHeld, Pronounced, Untouched
<1>5. CellsInOrder'
  BY <1>1, <1>2 DEF ConstraintsInv, CellsInOrder
<1>6. RegistersKnown'
  <2>1. DOMAIN register_inputs' = Captured(c) \union DOMAIN register_inputs
    BY <1>1 DEF Over
  <2>2. IsFiniteSet(Captured(c))
    BY <1>2, FewCaptures DEF ConstraintsInv, CellAt
  <2>3. IsFiniteSet(DOMAIN register_inputs')
    BY <2>1, <2>2, FS_Union DEF ConstraintsInv, RegistersKnown
  <2>4. \A i \in Made' : (Captured(CellAt(i)) \subseteq DOMAIN register_inputs)'
    <3> TAKE i \in Made'
    <3>1. Captured(CellAt(i))' = Captured(CellAt(i))
      BY <1>1, SameDesign
    <3>2. i = next_cell \/ Captured(CellAt(i)) \subseteq DOMAIN register_inputs
      BY <1>3 DEF ConstraintsInv, RegistersKnown
    <3> QED
      BY <2>1, <3>1, <3>2
  <2> QED
    BY <2>3, <2>4 DEF RegistersKnown
<1>7. CapturesHeld'
  <2>1. CASE clocks = <<>>
    BY <1>1, <2>1 DEF ConstraintsInv, CapturesHeld
  <2>2. CASE clocks # <<>>
    <3>1. DOMAIN endpoint_requirements' = Captured(c) \union DOMAIN endpoint_requirements
      BY <1>1, <2>2 DEF Over
    <3>2. \A p \in DOMAIN endpoint_requirements' :
            endpoint_requirements'[p] = IF p \in Captured(c) THEN held[p]
                                        ELSE endpoint_requirements[p]
      BY <1>1, <2>2 DEF Over
    <3>3. ASSUME NEW i \in Made', NEW d \in SyncDomains(CellAt(i)), NEW p \in d.captures
          PROVE  PinHeld(i, d, p)'
      <4>0. i \in 1 .. Len(project.order)
        BY <1>2, <1>3
      <4>1. CASE p \in Captured(c)
        <5>1. PICK e \in SyncDomains(c) : p \in e.captures
          BY <4>1 DEF Captured
        <5>2. DomainOf(c, p) \in SyncDomains(c) /\ p \in DomainOf(c, p).captures
          BY <5>1 DEF DomainOf
        <5>3. CellAt(i) = c /\ d = DomainOf(c, p)
          BY <1>2, <4>0, <5>2, OneDomainEach DEF ConstraintsInv
        <5>4. endpoint_requirements'[p] = CaptureBy(Captor(d), SetupOf(CellAt(i)))
          BY <3>1, <3>2, <4>1, <5>3
        <5> QED
          BY <1>1, <3>1, <4>1, <5>4, SameDesign, SameClocks DEF PinHeld
      <4>2. CASE p \notin Captured(c)
        <5>1. i # next_cell
          BY <4>2 DEF Captured
        <5>2. PinHeld(i, d, p)
          BY <1>3, <2>2, <5>1 DEF ConstraintsInv, CapturesHeld
        <5>3. p \in DOMAIN endpoint_requirements' /\ endpoint_requirements'[p] = endpoint_requirements[p]
          BY <3>1, <3>2, <4>2, <5>2 DEF PinHeld
        <5> QED
          BY <1>1, <5>2, <5>3, SameDesign, SameClocks DEF PinHeld
      <4> QED
        BY <4>1, <4>2
    <3>4. ASSUME NEW i \in Made', NEW d \in SyncDomains(CellAt(i))
          PROVE  ClocksAt(d) # {}
      BY <1>1, <1>3, <2>2 DEF ConstraintsInv, CapturesHeld
    <3>5. \A i : SyncDomains(CellAt(i))' = SyncDomains(CellAt(i))
      BY <1>1, SameDesign
    <3> QED
      BY <1>1, <2>2, <3>3, <3>4, <3>5, SameClocks DEF CapturesHeld
  <2> QED
    BY <2>1, <2>2
<1>8. UsesKnown'
  <2>1. \A i : SyncDomains(CellAt(i))' = SyncDomains(CellAt(i))
    BY <1>1, SameDesign
  <2>2. \A d : ClocksAt(d)' = ClocksAt(d)
    BY <1>1, SameClocks
  <2>3. ASSUME NEW name \in used_clocks' PROVE UseOf(name)'
    <3>1. CASE name \in used_clocks
      <4>1. UseOf(name)
        BY <3>1 DEF ConstraintsInv, UsesKnown
      <4> QED
        BY <1>1, <1>3, <2>1, <2>2, <4>1, SameDesign DEF UseOf
    <3>2. CASE name \notin used_clocks
      <4>1. PICK d \in SyncDomains(c) : name \in {k.name : k \in ClocksAt(d)}
        BY <1>1, <3>2
      <4>2. PICK k \in ClocksAt(d) : k.name = name
        BY <4>1
      <4> QED
        BY <1>3, <2>1, <2>2, <4>1, <4>2 DEF UseOf
    <3> QED
      BY <3>1, <3>2
  <2> QED
    BY <1>1, <2>3 DEF UsesKnown
<1> QED
  BY <1>1, <1>4, <1>5, <1>6, <1>7, <1>8 DEF ConstraintsInv

LEMMA JoinedLists ==
    ASSUME NEW S, NEW a \in Seq(S), NEW b \in Seq(S)
    PROVE  ToSet(a \o b) = ToSet(a) \union ToSet(b)
<1>0. /\ Len(a) \in Nat /\ Len(b) \in Nat /\ Len(a \o b) = Len(a) + Len(b)
      /\ DOMAIN a = 1 .. Len(a) /\ DOMAIN b = 1 .. Len(b)
      /\ DOMAIN (a \o b) = 1 .. Len(a) + Len(b)
  OBVIOUS
<1>1. ASSUME NEW i \in DOMAIN (a \o b) PROVE (a \o b)[i] \in ToSet(a) \union ToSet(b)
  <2>1. CASE i <= Len(a)
    BY <1>0, <2>1 DEF ToSet
  <2>2. CASE ~(i <= Len(a))
    <3>1. i - Len(a) \in DOMAIN b /\ (a \o b)[i] = b[i - Len(a)]
      BY <1>0, <2>2
    <3> QED
      BY <3>1 DEF ToSet
  <2> QED
    BY <2>1, <2>2
<1>2. ASSUME NEW i \in DOMAIN a PROVE a[i] \in ToSet(a \o b)
  <2>1. i \in DOMAIN (a \o b) /\ (a \o b)[i] = a[i]
    BY <1>0
  <2> QED
    BY <2>1 DEF ToSet
<1>3. ASSUME NEW i \in DOMAIN b PROVE b[i] \in ToSet(a \o b)
  <2>1. i + Len(a) \in DOMAIN (a \o b) /\ (a \o b)[i + Len(a)] = b[i]
    BY <1>0
  <2> QED
    BY <2>1 DEF ToSet
<1>4. \A x \in ToSet(a \o b) : x \in ToSet(a) \union ToSet(b)
  <2>1. \A x \in ToSet(a \o b) : \E i \in DOMAIN (a \o b) : x = (a \o b)[i]
    BY DEF ToSet
  <2> QED
    BY <1>1, <2>1
<1>5. \A x \in ToSet(a) \union ToSet(b) : x \in ToSet(a \o b)
  BY <1>2, <1>3 DEF ToSet
<1> QED
  BY <1>4, <1>5

LEMMA EmptyList ==
    ASSUME NEW S, NEW s \in Seq(S)
    PROVE  s = <<>> <=> ToSet(s) = {}
<1>1. DOMAIN s = 1 .. Len(s) /\ Len(s) \in Nat
  OBVIOUS
<1>2. s = <<>> <=> Len(s) = 0
  OBVIOUS
<1>3. ToSet(s) = {} <=> DOMAIN s = {}
  BY DEF ToSet
<1>4. Len(s) = 0 <=> DOMAIN s = {}
  <2>1. Len(s) # 0 => 1 \in DOMAIN s
    BY <1>1
  <2>2. Len(s) = 0 => DOMAIN s = {}
    BY <1>1
  <2> QED
    BY <2>1, <2>2
<1> QED
  BY <1>2, <1>3, <1>4

\* The merged clocks are those of both files, and their names and ports are apart.
LEMMA MergedClocks ==
    ASSUME ConstraintsInv, stage \in {"validate", "cells", "judge", "judged"}
    PROVE  /\ ToSet(clocks) = AllClocks /\ (clocks = <<>> <=> AllClocks = {})
           /\ \A k, l \in AllClocks : k.name = l.name \/ k.port = l.port => k = l
<1>1. clocks = project.xml \o project.sdc.clocks /\ ValidClocks(clocks)
  BY DEF ConstraintsInv, FilesMerged, Mergeable
<1> DEFINE S == [name : STRING, port : STRING, period : Int]
<1>2. project.xml \in Seq(S) /\ project.sdc.clocks \in Seq(S)
  BY TimedAssumption DEF ConstraintsInv
<1> HIDE DEF S
<1>3. clocks \in Seq(S)
  BY <1>1, <1>2
<1>4. ToSet(clocks) = AllClocks
  BY <1>1, <1>2, JoinedLists DEF AllClocks
<1>5. clocks = <<>> <=> AllClocks = {}
  BY <1>3, <1>4, EmptyList
<1>6. \A k, l \in AllClocks : k.name = l.name => k = l
  BY <1>1, <1>3, <1>4, OneNameEach DEF ValidClocks
<1>7. \A k, l \in AllClocks : k.port = l.port => k = l
  BY <1>1, <1>3, <1>4, OnePortEach DEF ValidClocks
<1> QED
  BY <1>4, <1>5, <1>6, <1>7

\* Each output has one delay, of a clock that exists.
LEMMA DelaysApart ==
    ASSUME project \in TimedProjects, ValidPorts
    PROVE  /\ \A o, q \in ToSet(project.sdc.outputs) : o.port = q.port => o = q
           /\ \A o \in ToSet(project.sdc.outputs) :
                o.port \in DOMAIN project.ports /\ \E k \in ToSet(clocks) : k.name = o.clock
<1>1. \A o, q \in ToSet(project.sdc.outputs) : o.port = q.port => o = q
  <2>1. /\ Cardinality({d.port : d \in ToSet(project.sdc.outputs)}) = Len(project.sdc.outputs)
        /\ project.sdc.outputs \in Seq([port : STRING, clock : STRING, delay : Int])
    BY TimedAssumption DEF ValidPorts
  <2> QED
    BY <2>1, OnePortEach
<1>2. \A o \in ToSet(project.sdc.outputs) : o.clock \in Names(clocks) /\ IsOutput(o.port)
  BY DEF ValidPorts
<1> QED
  BY <1>1, <1>2 DEF Names, IsOutput

LEMMA StepOutputs ==
    ASSUME ConstraintsInv, ConstrainOutputs, stage' = "judge"
    PROVE  ConstraintsInv'
<1> DEFINE outs == ToSet(project.sdc.outputs)
           ports == {o.port : o \in outs}
           delay(p) == CHOOSE o \in outs : o.port = p
           clock(p) == CHOOSE k \in ToSet(clocks) : k.name = delay(p).clock
           held == [p \in ports |->
                      clock(p).period - delay(p).delay - UncertaintyOf(clock(p).name)]
<1>1. /\ stage = "cells" /\ next_cell > Len(project.order)
      /\ UNCHANGED <<project, clocks, next_cell, register_inputs, constraint_status>>
      /\ used_clocks' = used_clocks \union DelayClocks
      /\ \A k \in ToSet(clocks) : k.name \in used_clocks'
      /\ endpoint_requirements' = Over(held, endpoint_requirements)
  BY DEF ConstrainOutputs
<1>2. /\ project \in TimedProjects /\ ValidPorts
      /\ Len(project.order) \in Nat /\ next_cell \in 1 .. Len(project.order) + 1
  BY <1>1, TimedAssumption DEF ConstraintsInv, PortsChecked, CellsInOrder
<1>3. /\ DOMAIN endpoint_requirements' = ports \union DOMAIN endpoint_requirements
      /\ \A p \in DOMAIN endpoint_requirements' :
           endpoint_requirements'[p] = IF p \in ports THEN held[p] ELSE endpoint_requirements[p]
  BY <1>1, SMTT(30) DEF Over
<1>4. /\ FilesMerged' /\ PortsChecked' /\ Pronounced' /\ Untouched'
      /\ CellsInOrder' /\ RegistersKnown'
  <2>1. Mergeable(project)' = Mergeable(project)
    BY <1>1 DEF Mergeable, ValidSdc
  <2>2. FilesMerged' /\ PortsChecked' /\ Pronounced' /\ Untouched'
    BY <1>1, <1>2, <2>1, SameClocks
       DEF ConstraintsInv, FilesMerged, PortsChecked, Pronounced, Untouched
  <2>3. CellsInOrder' /\ RegistersKnown'
    BY <1>1, <1>2, SameDesign DEF ConstraintsInv, CellsInOrder, RegistersKnown, Made
  <2> QED
    BY <2>2, <2>3
<1>5. OutputsHeld'
  <2> SUFFICES ASSUME NEW o \in outs PROVE OutputHeld(o)'
    BY <1>1 DEF OutputsHeld
  <2>1. o.port \in ports /\ delay(o.port) = o
    BY <1>2, DelaysApart
  <2>2. clock(o.port) \in ToSet(clocks) /\ clock(o.port).name = o.clock
    <3>1. \E k \in ToSet(clocks) : k.name = delay(o.port).clock
      BY <1>2, <2>1, DelaysApart
    <3> QED
      BY <2>1, <3>1
  <2>3. endpoint_requirements'[o.port] =
          clock(o.port).period - o.delay - UncertaintyOf(clock(o.port).name)
    BY <1>3, <2>1
  <2> HIDE DEF clock
  <2> QED
    BY <1>1, <1>3, <2>1, <2>2, <2>3, SameDesign DEF OutputHeld
<1>6. CapturesHeld'
  <2>1. CASE clocks = <<>>
    <3>1. ToSet(clocks) = {}
      BY <1>1, <2>1, MergedClocks
    <3>2. outs = {} /\ ports = {}
      BY <1>2, <3>1, DelaysApart
    <3> QED
      BY <1>1, <1>3, <2>1, <3>2 DEF ConstraintsInv, CapturesHeld
  <2>2. CASE clocks # <<>>
    <3>1. ASSUME NEW i \in Made, NEW d \in SyncDomains(CellAt(i)), NEW p \in d.captures
          PROVE  PinHeld(i, d, p)'
      <4>1. PinHeld(i, d, p)
        BY <2>2 DEF ConstraintsInv, CapturesHeld
      <4>2. p \notin DOMAIN project.ports
        <5>1. project.order[i] \in DOMAIN project.cells
          BY <1>2, TimedAssumption DEF Made
        <5>2. d \in project.cells[project.order[i]].domains
          BY DEF SyncDomains, CellAt
        <5> QED
          BY <1>2, <5>1, <5>2, TimedAssumption
      <4>3. p \notin ports
        BY <1>2, <4>2, DelaysApart
      <4> HIDE DEF ports
      <4>4. p \in DOMAIN endpoint_requirements' /\ endpoint_requirements'[p] = endpoint_requirements[p]
        BY <1>3, <4>1, <4>3 DEF PinHeld
      <4> QED
        BY <1>1, <4>1, <4>4, SameDesign, SameClocks DEF PinHeld
    <3>2. Made' = Made /\ \A i : SyncDomains(CellAt(i))' = SyncDomains(CellAt(i))
      BY <1>1, SameDesign DEF Made
    <3>3. \A i \in Made : \A d \in SyncDomains(CellAt(i)) : ClocksAt(d) # {}
      BY <2>2 DEF ConstraintsInv, CapturesHeld
    <3> QED
      BY <1>1, <2>2, <3>1, <3>2, <3>3, SameClocks DEF CapturesHeld
  <2> QED
    BY <2>1, <2>2
<1>7. UsesKnown'
  <2>1. Made' = Made /\ \A i : SyncDomains(CellAt(i))' = SyncDomains(CellAt(i))
    BY <1>1, SameDesign DEF Made
  <2>2. \A d : ClocksAt(d)' = ClocksAt(d)
    BY <1>1, SameClocks
  <2>3. ASSUME NEW name \in used_clocks' PROVE UseOf(name)'
    <3>1. UseOf(name)
      BY <1>1 DEF ConstraintsInv, UsesKnown, UseOf
    <3> QED
      BY <1>1, <2>1, <2>2, <3>1, SameDesign DEF UseOf
  <2> QED
    BY <1>1, <2>3 DEF UsesKnown
<1> QED
  BY <1>1, <1>4, <1>5, <1>6, <1>7 DEF ConstraintsInv

\* A clock that nothing uses refuses the project, and the outputs stay as they were.
LEMMA StepUnused ==
    ASSUME ConstraintsInv, ConstrainOutputs, stage' = "refused"
    PROVE  ConstraintsInv'
<1>1. /\ UNCHANGED <<project, clocks, next_cell, register_inputs, endpoint_requirements,
                    constraint_status>>
      /\ used_clocks' = used_clocks \union DelayClocks
  BY DEF ConstrainOutputs
<1>2. FilesMerged' /\ PortsChecked' /\ OutputsHeld' /\ Pronounced' /\ Untouched'
  BY DEF FilesMerged, PortsChecked, OutputsHeld, Pronounced, Untouched
<1>3. CellsInOrder' /\ RegistersKnown' /\ CapturesHeld'
  BY <1>1, SameDesign, SamePins DEF ConstraintsInv, CellsInOrder, RegistersKnown, Made
<1>4. UsesKnown'
  <2>1. \A name \in used_clocks' : UseOf(name)
    BY <1>1 DEF ConstraintsInv, UsesKnown, UseOf
  <2> QED
    BY <1>1, <2>1, SameDesign, SameClocks DEF UsesKnown, UseOf, Made
<1> QED
  BY <1>1, <1>2, <1>3, <1>4 DEF ConstraintsInv

LEMMA SameVerdict ==
    ASSUME UNCHANGED <<project, clocks, register_inputs, endpoint_requirements>>
    PROVE  Verdict' = Verdict
<1>1. Slacks' = Slacks
  <2>1. \A e : ArrivalAt(e)' = ArrivalAt(e)
    BY DEF ArrivalAt, InputDelay
  <2> QED
    BY <2>1 DEF Slacks
<1>2. Late' = Late
  BY <1>1 DEF Late
<1>3. Incomplete' = Incomplete
  BY DEF Incomplete, IsInput, IsOutput, ClockPorts
<1> QED
  BY <1>2, <1>3, SameDesign DEF Verdict

LEMMA StepJudge == ASSUME ConstraintsInv, Judge PROVE ConstraintsInv'
<1>1. /\ stage = "judge" /\ stage' = "judged" /\ constraint_status' = Verdict
      /\ UNCHANGED <<project, clocks, next_cell, register_inputs, endpoint_requirements, used_clocks>>
  BY DEF Judge, Verdict, Late
<1>2. FilesMerged' /\ PortsChecked' /\ Untouched'
  <2>1. Mergeable(project)' = Mergeable(project)
    BY <1>1 DEF Mergeable, ValidSdc
  <2> QED
    BY <1>1, <2>1, SameClocks DEF ConstraintsInv, FilesMerged, PortsChecked, Untouched
<1>3. CellsInOrder' /\ RegistersKnown' /\ CapturesHeld'
  BY <1>1, SameDesign, SamePins DEF ConstraintsInv, CellsInOrder, RegistersKnown, Made
<1>4. OutputsHeld' /\ UsesKnown'
  BY <1>1, SameDesign, SameClocks
     DEF ConstraintsInv, OutputsHeld, OutputHeld, UsesKnown, UseOf, Made
<1>5. Verdict' = Verdict
  BY <1>1, SameVerdict
<1>6. Pronounced'
  BY <1>1, <1>5 DEF Pronounced
<1> QED
  BY <1>1, <1>2, <1>3, <1>4, <1>6 DEF ConstraintsInv

LEMMA StepNothing == ASSUME ConstraintsInv, UNCHANGED constraintVars PROVE ConstraintsInv'
<1>1. /\ UNCHANGED <<project, stage, clocks, next_cell, register_inputs>>
      /\ UNCHANGED <<endpoint_requirements, used_clocks, constraint_status>>
  BY DEF constraintVars
<1>2. FilesMerged' /\ PortsChecked' /\ Untouched'
  <2>1. Mergeable(project)' = Mergeable(project)
    BY <1>1 DEF Mergeable, ValidSdc
  <2> QED
    BY <1>1, <2>1, SameClocks DEF ConstraintsInv, FilesMerged, PortsChecked, Untouched
<1>3. CellsInOrder' /\ RegistersKnown' /\ CapturesHeld'
  BY <1>1, SameDesign, SamePins DEF ConstraintsInv, CellsInOrder, RegistersKnown, Made
<1>4. OutputsHeld' /\ UsesKnown'
  BY <1>1, SameDesign, SameClocks
     DEF ConstraintsInv, OutputsHeld, OutputHeld, UsesKnown, UseOf, Made
<1>5. Pronounced'
  BY <1>1, SameVerdict DEF ConstraintsInv, Pronounced
<1> QED
  BY <1>1, <1>2, <1>3, <1>4, <1>5 DEF ConstraintsInv

\* What every state of every analysis satisfies, for any designs and files.
THEOREM ConstraintsInvariant == ConstraintsSpec => []ConstraintsInv
<1>1. ConstraintsInit => ConstraintsInv
  BY InitConstraints
<1>2. ConstraintsInv /\ [ConstraintsNext]_constraintVars => ConstraintsInv'
  <2> SUFFICES ASSUME ConstraintsInv, [ConstraintsNext]_constraintVars PROVE ConstraintsInv'
    OBVIOUS
  <2>1. CASE Refused
    BY <2>1, StepRefused
  <2>2. CASE LoadFiles /\ ~Refused
    BY <2>2, StepLoadFiles
  <2>3. CASE Validate /\ ~Refused
    BY <2>3, StepValidate
  <2>4. CASE CompileCell /\ ~Refused
    BY <2>4, StepCompileCell
  <2>5. CASE ConstrainOutputs
    <3>1. stage' = "judge" \/ stage' = "refused"
      BY <2>5 DEF ConstrainOutputs
    <3> QED
      BY <2>5, <3>1, StepOutputs, StepUnused
  <2>6. CASE Judge
    BY <2>6, StepJudge
  <2>7. CASE UNCHANGED constraintVars
    BY <2>7, StepNothing
  <2> QED
    BY <2>1, <2>2, <2>3, <2>4, <2>5, <2>6, <2>7 DEF ConstraintsNext, Concluded
<1> QED
  BY <1>1, <1>2, PTL DEF ConstraintsSpec

-----------------------------------------------------------------------------

\* The clock of a domain is the one that reaches it.
LEMMA ClocksReach ==
    ASSUME ConstraintsInv, stage = "judged", NEW d
    PROVE  ClocksAt(d) = {k \in AllClocks : Reaches(k.port, d.clock)}
<1>1. ToSet(clocks) = AllClocks
  BY MergedClocks
<1>2. ASSUME NEW k \in AllClocks
      PROVE  k.port = SourcePort(d.clock) <=> Reaches(k.port, d.clock)
  <2>1. k.port \in DOMAIN project.ports
    BY <1>1 DEF ConstraintsInv, PortsChecked, ValidPorts, IsInput
  <2> QED
    BY <2>1, SourceReaches DEF ConstraintsInv
<1> QED
  BY <1>1, <1>2 DEF ClocksAt

LEMMA AllMade ==
    ASSUME ConstraintsInv, stage = "judged"
    PROVE  /\ Made = DOMAIN project.order
           /\ \A c \in Synchronous : \E i \in Made : c = CellAt(i)
           /\ \A i \in Made : CellAt(i) \in Synchronous
<1>1. next_cell \in 1 .. Len(project.order) + 1 /\ next_cell > Len(project.order)
      /\ Len(project.order) \in Nat /\ DOMAIN project.order = 1 .. Len(project.order)
  BY TimedAssumption DEF ConstraintsInv, CellsInOrder
<1>2. Made = DOMAIN project.order
  BY <1>1 DEF Made
<1> QED
  BY <1>2 DEF Synchronous, CellAt

\* Every accepted project is held to exactly the constraints of its files: each
\* capture pin to the one clock that reaches it over buffers, each delayed output to
\* its clock, and each clock has an effect (TimingRequirements::compile).
THEOREM RequirementsTrueHolds == ConstraintsSpec => []RequirementsTrue
<1>1. ConstraintsInv => RequirementsTrue
  <2> SUFFICES ASSUME ConstraintsInv, stage = "judged" PROVE RequirementsTrue
    BY DEF RequirementsTrue
  <2>0. /\ ToSet(clocks) = AllClocks /\ (clocks = <<>> <=> AllClocks = {})
        /\ \A k, l \in AllClocks : k.name = l.name \/ k.port = l.port => k = l
    BY MergedClocks
  <2>1. ASSUME NEW c \in Synchronous, NEW d \in SyncDomains(c), NEW p \in d.captures
        PROVE  IF AllClocks = {} THEN p \notin DOMAIN endpoint_requirements
               ELSE p \in DOMAIN endpoint_requirements /\ {endpoint_requirements[p]} = Demands(c, d)
    <3>1. CASE AllClocks = {}
      BY <2>0, <3>1 DEF ConstraintsInv, CapturesHeld
    <3>2. CASE AllClocks # {}
      <4>1. PICK i \in Made : c = CellAt(i)
        BY AllMade
      <4>2. ClocksAt(d) # {} /\ PinHeld(i, d, p)
        BY <2>0, <3>2, <4>1 DEF ConstraintsInv, CapturesHeld
      <4>3. Captor(d) \in ClocksAt(d)
        BY <4>2 DEF Captor
      <4>4. ClocksAt(d) = {Captor(d)}
        BY <2>0, <4>3 DEF ClocksAt
      <4>5. Demands(c, d) = {k.period - SetupOf(c) - UncertaintyOf(k.name) : k \in {Captor(d)}}
        BY <4>4, ClocksReach DEF Demands
      <4>6. Demands(c, d) = {CaptureBy(Captor(d), SetupOf(c))}
        BY <4>5 DEF CaptureBy
      <4> QED
        BY <3>2, <4>1, <4>2, <4>6 DEF PinHeld
    <3> QED
      BY <3>1, <3>2
  <2>2. ASSUME NEW o \in ToSet(project.sdc.outputs)
        PROVE  {endpoint_requirements[o.port]} =
                 {k.period - o.delay - UncertaintyOf(k.name) : k \in {k \in AllClocks : k.name = o.clock}}
    <3>1. PICK k \in AllClocks :
            /\ k.name = o.clock
            /\ endpoint_requirements[o.port] = k.period - o.delay - UncertaintyOf(k.name)
      BY <2>0 DEF ConstraintsInv, OutputsHeld, OutputHeld
    <3>2. {l \in AllClocks : l.name = o.clock} = {k}
      BY <2>0, <3>1
    <3> QED
      BY <3>1, <3>2
  <2>3. ASSUME NEW k \in AllClocks, k.name \notin DelayClocks
        PROVE  \E c \in Synchronous : \E d \in SyncDomains(c) : Reaches(k.port, d.clock)
    <3>1. UseOf(k.name)
      BY <2>0 DEF ConstraintsInv, UsesKnown
    <3>2. PICK i \in Made : \E d \in SyncDomains(CellAt(i)) : \E l \in ClocksAt(d) : l.name = k.name
      BY <2>3, <3>1 DEF UseOf
    <3>3. PICK d \in SyncDomains(CellAt(i)) : \E l \in ClocksAt(d) : l.name = k.name
      BY <3>2
    <3>4. k \in ClocksAt(d)
      BY <2>0, <3>3 DEF ClocksAt
    <3> QED
      BY <3>4, ClocksReach, AllMade
  <2> QED
    BY <2>1, <2>2, <2>3 DEF RequirementsTrue
<1> QED
  BY <1>1, ConstraintsInvariant, PTL

\* As many delays as ports, of which each has one at most, are a delay for every port.
LEMMA CoveredByCount ==
    ASSUME NEW S, NEW T \in SUBSET S, IsFiniteSet(S), ~(Cardinality(T) < Cardinality(S))
    PROVE  T = S
<1>1. Cardinality(T) <= Cardinality(S) /\ Cardinality(T) \in Nat /\ Cardinality(S) \in Nat
  BY FS_Subset, FS_CardinalityType
<1>2. Cardinality(T) = Cardinality(S)
  BY <1>1
<1> QED
  BY <1>2, FS_Subset

\* The status is what the report makes of it: MET only when every end point and,
\* with delays for data inputs only, every data port is constrained and none is late,
\* VIOLATED exactly when one is late (timing_summary).
THEOREM StatusTrueHolds == ConstraintsSpec => []StatusTrue
<1>1. ConstraintsInv => StatusTrue
  <2> SUFFICES ASSUME ConstraintsInv, stage = "judged" PROVE StatusTrue
    BY DEF StatusTrue
  <2>0. /\ ToSet(clocks) = AllClocks /\ (clocks = <<>> <=> AllClocks = {})
        /\ constraint_status = Verdict
    BY MergedClocks DEF ConstraintsInv, Pronounced
  <2>1. /\ constraint_status = "UNCONSTRAINED" <=> AllClocks = {}
        /\ constraint_status = "VIOLATED" <=> Late /\ AllClocks # {}
        /\ Met => ~Incomplete /\ ~Unmodeled
    <3>1. CASE clocks = <<>>
      BY <2>0, <3>1 DEF Verdict, Met
    <3>2. CASE clocks # <<>> /\ Late
      BY <2>0, <3>2 DEF Verdict, Met
    <3>3. CASE clocks # <<>> /\ ~Late
      <4>1. Verdict = IF Incomplete \/ Unmodeled THEN "PARTIALLY CONSTRAINED" ELSE "MET"
        BY <3>3 DEF Verdict
      <4> QED
        BY <2>0, <3>3, <4>1 DEF Met
    <3> QED
      BY <3>1, <3>2, <3>3
  <2>2. ASSUME Met, NEW c \in Synchronous
        PROVE  Captured(c) \subseteq DOMAIN endpoint_requirements
    <3> DEFINE R == DOMAIN register_inputs
               E == DOMAIN endpoint_requirements
    <3>1. R \intersect E \in SUBSET R /\ IsFiniteSet(R)
      BY DEF ConstraintsInv, RegistersKnown
    <3>2. ~(Cardinality(R \intersect E) < Cardinality(R))
      BY <2>1, <2>2 DEF Incomplete
    <3>3. R \intersect E = R
      BY <3>1, <3>2, CoveredByCount
    <3>4. Captured(c) \subseteq R
      BY AllMade DEF ConstraintsInv, RegistersKnown
    <3> QED
      BY <3>3, <3>4
  <2>3. ASSUME Met, NEW p \in DOMAIN project.ports, IsOutput(p)
        PROVE  p \in DOMAIN endpoint_requirements
    <3> DEFINE Given == {d.port : d \in ToSet(project.sdc.outputs)}
               Wanted == {q \in DOMAIN project.ports : IsOutput(q)}
    <3>1. ValidPorts /\ IsFiniteSet(DOMAIN project.ports)
      BY TimedAssumption DEF ConstraintsInv, PortsChecked
    <3>2. Cardinality(Given) = Len(project.sdc.outputs) /\ Given \in SUBSET Wanted
      BY <3>1 DEF ValidPorts, IsOutput
    <3>3. IsFiniteSet(Wanted)
      BY <3>1, FS_Subset
    <3>4. ~(Cardinality(Given) < Cardinality(Wanted))
      BY <2>1, <2>3, <3>2 DEF Incomplete
    <3>5. Given = Wanted
      BY <3>2, <3>3, <3>4, CoveredByCount
    <3>6. p \in Given
      BY <2>3, <3>5
    <3>7. PICK o \in ToSet(project.sdc.outputs) : o.port = p
      BY <3>6
    <3> QED
      BY <3>7 DEF ConstraintsInv, OutputsHeld, OutputHeld
  <2>4. ASSUME Met, Delayed \subseteq DataInputs
        PROVE  Delayed = DataInputs
    <3>1. ValidPorts /\ IsFiniteSet(DOMAIN project.ports)
      BY TimedAssumption DEF ConstraintsInv, PortsChecked
    <3>2. Cardinality(Delayed) = Len(project.sdc.inputs)
      BY <3>1 DEF ValidPorts, Delayed
    <3>3. DataInputs = {p \in DOMAIN project.ports : IsInput(p) /\ p \notin ClockPorts}
      BY <2>0 DEF DataInputs, ClockPorts
    <3>4. IsFiniteSet(DataInputs)
      BY <3>1, <3>3, FS_Subset
    <3>5. ~(Cardinality(Delayed) < Cardinality(DataInputs))
      BY <2>1, <2>4, <3>2, <3>3 DEF Incomplete
    <3> QED
      BY <2>4, <3>4, <3>5, CoveredByCount
  <2> QED
    BY <2>1, <2>2, <2>3, <2>4 DEF StatusTrue, Late
<1> QED
  BY <1>1, ConstraintsInvariant, PTL
=============================================================================
