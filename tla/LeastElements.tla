--------------------------- MODULE LeastElements ---------------------------
(***************************************************************************)
(* Least and largest elements of sets of numbers, what goes on from entry  *)
(* to entry of a list, and what there is because it is built up from them: *)
(* loops and folds, lists put one after the other, and what is reached in  *)
(* so many steps.                                                          *)
(***************************************************************************)
EXTENDS Integers, Sequences, FiniteSetsExt, FiniteSetTheorems, WellFoundedInduction, TLAPS

\* A nonempty set of naturals has a least element: the intervals 1 .. k of its
\* elements k are finite sets, and strict inclusion of finite sets is well-founded.
LEMMA LeastNatural ==
    ASSUME NEW S \in SUBSET Nat, S # {}
    PROVE  \E m \in S : \A k \in S : m <= k
<1> DEFINE Upto(k) == 1 .. k
           T == {Upto(k) : k \in S}
<1>1. T \subseteq FiniteSubsetsOf(Nat) /\ T # {}
  <2>1. \A k \in S : Upto(k) \subseteq Nat
    OBVIOUS
  <2>2. \A k \in S : IsFiniteSet(Upto(k))
    BY FS_Interval
  <2> QED
    BY <2>1, <2>2 DEF FiniteSubsetsOf
<1>2. PICK I \in T : \A J \in T : ~ (<<J, I>> \in StrictSubsetOrdering(Nat))
  <2>1. IsWellFoundedOn(StrictSubsetOrdering(Nat), FiniteSubsetsOf(Nat))
    BY FS_StrictSubsetOrderingWellFounded
  <2> HIDE DEF T
  <2> QED
    BY <1>1, <2>1, WFMin
<1>3. PICK m \in S : I = Upto(m)
  OBVIOUS
<1>4. ASSUME NEW k \in S, k < m
      PROVE  FALSE
  <2>1. Upto(k) \subseteq Upto(m) /\ Upto(k) # Upto(m)
    <3>1. m \in Upto(m) /\ m \notin Upto(k)
      BY <1>4
    <3> QED
      BY <1>4, <3>1
  <2>2. Upto(k) \in SUBSET Nat /\ Upto(m) \in SUBSET Nat
    OBVIOUS
  <2>3. <<Upto(k), Upto(m)>> \in StrictSubsetOrdering(Nat)
    BY <2>1, <2>2 DEF StrictSubsetOrdering
  <2> QED
    BY <1>2, <1>3, <2>3
<1> QED
  BY <1>4

\* Min of a set of naturals is the least of them.
LEMMA MinInNat ==
    ASSUME NEW S \in SUBSET Nat, S # {}
    PROVE  Min(S) \in S /\ \A k \in S : Min(S) <= k
<1>1. \E m \in S : \A k \in S : m <= k
  BY LeastNatural
<1> QED
  BY <1>1 DEF Min

\* What holds at the front of a list and goes on from entry to entry holds
\* all along it.
LEMMA Climb ==
    ASSUME NEW n \in Nat \ {0}, NEW S, 1 \in S, \A k \in 2 .. n : k - 1 \in S => k \in S
    PROVE  1 .. n \subseteq S
<1> DEFINE Bad == (1 .. n) \ S
<1> SUFFICES ASSUME Bad # {} PROVE FALSE
  OBVIOUS
<1>1. Bad \in SUBSET Nat
  OBVIOUS
<1>2. PICK m \in Bad : \A k \in Bad : m <= k
  BY <1>1, LeastNatural
<1>3. m \in 2 .. n /\ m - 1 \in 1 .. n /\ ~(m <= m - 1)
  OBVIOUS
<1> QED
  BY <1>2, <1>3

\* A finite set of integers has a largest element, and Max is it.
LEMMA MaxOfFinite ==
    ASSUME NEW S \in SUBSET Int, IsFiniteSet(S), S # {}
    PROVE  Max(S) \in S /\ \A x \in S : Max(S) >= x
<1> DEFINE HasMax(T) == \E x \in T : \A y \in T : x >= y
           Bad == {T \in FiniteSubsetsOf(Int) : T # {} /\ ~HasMax(T)}
<1>1. S \in FiniteSubsetsOf(Int)
  BY DEF FiniteSubsetsOf
<1>2. ASSUME Bad # {} PROVE FALSE
  <2>1. IsWellFoundedOn(StrictSubsetOrdering(Int), FiniteSubsetsOf(Int))
    BY FS_StrictSubsetOrderingWellFounded
  <2>2. Bad \subseteq FiniteSubsetsOf(Int)
    OBVIOUS
  <2> HIDE DEF Bad
  <2>3. PICK T \in Bad : \A U \in Bad : ~ (<<U, T>> \in StrictSubsetOrdering(Int))
    BY <1>2, <2>1, <2>2, WFMin
  <2> USE DEF Bad
  <2>4. T \in SUBSET Int /\ IsFiniteSet(T) /\ T # {} /\ ~HasMax(T)
    BY DEF FiniteSubsetsOf
  <2>5. PICK x \in T : TRUE
    BY <2>4
  <2> DEFINE U == T \ {x}
  <2>6. U # {}
    <3>1. SUFFICES ASSUME U = {} PROVE FALSE
      OBVIOUS
    <3>2. \A y \in T : x >= y
      BY <2>4, <3>1
    <3> QED
      BY <2>4, <3>2
  <2>7. U \in FiniteSubsetsOf(Int)
    BY <2>4, FS_RemoveElement DEF FiniteSubsetsOf
  <2>8. <<U, T>> \in StrictSubsetOrdering(Int)
    BY <2>4, <2>5 DEF StrictSubsetOrdering
  <2>9. HasMax(U)
    BY <2>3, <2>6, <2>7, <2>8
  <2>10. PICK y \in U : \A z \in U : y >= z
    BY <2>9
  <2>11. \A z \in T : z \in Int /\ (z = x \/ z \in U)
    BY <2>4
  <2>12. CASE x >= y
    <3>1. \A z \in T : x >= z
      BY <2>10, <2>11, <2>12
    <3> QED
      BY <2>4, <3>1
  <2>13. CASE ~(x >= y)
    <3>1. \A z \in T : y >= z
      BY <2>5, <2>10, <2>11, <2>13
    <3> QED
      BY <2>4, <3>1
  <2> QED
    BY <2>12, <2>13
<1>3. HasMax(S)
  BY <1>1, <1>2
<1> QED
  BY <1>3 DEF Max

\* The values of a function on a finite set are finitely many.
LEMMA FiniteValues ==
    ASSUME NEW S, IsFiniteSet(S), NEW f
    PROVE  IsFiniteSet({f[x] : x \in S})
<1> DEFINE g == [x \in S |-> f[x]]
           T == {f[x] : x \in S}
<1>1. g \in Surjection(S, T)
  BY DEF Surjection
<1> QED
  BY <1>1, FS_Surjection

\* step makes the value of each number k from 2 to N of the value before it.
Stepwise(S, N, first, step) ==
    N \in Nat \ {0} /\ first \in S /\ step \in [2 .. N -> [S -> S]]

StepsTo(h, S, N, first, step) ==
    h \in [1 .. N -> S] /\ h[1] = first /\ \A k \in 2 .. N : h[k] = step[k][h[k - 1]]

\* The values exist: what makes a recursive function over a list the function
\* its definition says.
LEMMA StepByStep ==
    ASSUME NEW S, NEW N, NEW first, NEW step, Stepwise(S, N, first, step)
    PROVE  \E h : StepsTo(h, S, N, first, step)
<1> USE DEF Stepwise
<1> DEFINE Upto(f, m) == /\ f \in [1 .. m -> S] /\ f[1] = first
                         /\ \A k \in 2 .. m : f[k] = step[k][f[k - 1]]
           Bad == {m \in 1 .. N : ~ \E f : Upto(f, m)}
<1> HIDE DEF Upto
<1>1. N \in 1 .. N /\ 1 .. N \in SUBSET Nat
  OBVIOUS
<1>2. ASSUME Bad # {} PROVE FALSE
  <2>1. PICK m \in Bad : \A k \in Bad : m <= k
    BY <1>1, <1>2, LeastNatural
  <2>2. m \in 1 .. N /\ ~ \E f : Upto(f, m)
    OBVIOUS
  <2>3. m # 1
    <3>1. Upto([k \in 1 .. 1 |-> first], 1)
      BY DEF Upto
    <3> QED
      BY <2>2, <3>1
  <2>4. m \in 2 .. N /\ m - 1 \in 1 .. N /\ ~(m <= m - 1)
    BY <2>2, <2>3
  <2>5. PICK f : Upto(f, m - 1)
    BY <2>1, <2>4
  <2> DEFINE g == [k \in 1 .. m |-> IF k = m THEN step[m][f[m - 1]] ELSE f[k]]
  <2>6. /\ f[m - 1] \in S /\ step[m][f[m - 1]] \in S
        /\ \A k \in 1 .. m - 1 : f[k] \in S
    BY <2>4, <2>5 DEF Upto
  <2>7. g \in [1 .. m -> S] /\ g[1] = first
    BY <2>4, <2>5, <2>6 DEF Upto
  <2>8. ASSUME NEW k \in 2 .. m PROVE g[k] = step[k][g[k - 1]]
    <3>1. k \in 1 .. m /\ k - 1 \in 1 .. m /\ k - 1 # m
      BY <2>4
    <3>2. g[k - 1] = f[k - 1]
      BY <3>1
    <3>3. CASE k = m
      BY <3>1, <3>2, <3>3
    <3>4. CASE k # m
      <4>1. k \in 2 .. m - 1
        BY <2>4, <3>4
      <4> QED
        BY <2>5, <3>1, <3>2, <3>4, <4>1 DEF Upto
    <3> QED
      BY <3>3, <3>4
  <2>9. Upto(g, m)
    BY <2>7, <2>8 DEF Upto
  <2> QED
    BY <2>2, <2>9
<1>3. PICK h : Upto(h, N)
  BY <1>1, <1>2
<1> QED
  BY <1>3 DEF Upto, StepsTo

-----------------------------------------------------------------------------
\* Loops.

\* What a loop does to its state, N times.
Loop(S, N, first, step) == N \in Nat /\ first \in S /\ step \in [S -> S]

Runs(f, S, N, first, step) ==
    f \in [0 .. N -> S] /\ f[0] = first /\ \A k \in 1 .. N : f[k] = step[f[k - 1]]

LEMMA LoopRuns ==
    ASSUME NEW S, NEW N, NEW first, NEW step, Loop(S, N, first, step)
    PROVE  \E f : Runs(f, S, N, first, step)
<1> USE DEF Loop
<1> DEFINE M == N + 1
           each == [k \in 2 .. M |-> step]
<1>1. Stepwise(S, M, first, each)
  BY DEF Stepwise
<1>2. PICK h : StepsTo(h, S, M, first, each)
  BY <1>1, StepByStep
<1> DEFINE f == [k \in 0 .. N |-> h[k + 1]]
<1>3. h \in [1 .. M -> S] /\ h[1] = first /\ \A k \in 2 .. M : h[k] = each[k][h[k - 1]]
  BY <1>2 DEF StepsTo
<1>4. f \in [0 .. N -> S] /\ f[0] = first
  BY <1>3
<1>5. ASSUME NEW k \in 1 .. N PROVE f[k] = step[f[k - 1]]
  <2>1. k + 1 \in 2 .. M /\ k \in 0 .. N /\ k - 1 \in 0 .. N /\ (k - 1) + 1 = k /\ (k + 1) - 1 = k
    OBVIOUS
  <2>2. f[k] = h[k + 1] /\ f[k - 1] = h[k]
    BY <2>1
  <2>3. h[k + 1] = each[k + 1][h[k]] /\ each[k + 1] = step
    BY <1>3, <2>1
  <2> QED
    BY <2>2, <2>3
<1> QED
  BY <1>4, <1>5 DEF Runs

\* When step makes a T[k] of every T[k - 1], a loop that begins in T[0] ends in
\* T[N].
LEMMA LoopEnds ==
    ASSUME NEW S, NEW N, NEW first, NEW step, Loop(S, N, first, step),
           NEW f, f[0] = first, \A k \in 1 .. N : f[k - 1] \in S => f[k] = step[f[k - 1]],
           NEW T, first \in T[0],
           \A k \in 1 .. N : \A s \in S : s \in T[k - 1] => step[s] \in T[k]
    PROVE  f[N] \in S /\ f[N] \in T[N]
<1> USE DEF Loop
<1> DEFINE Bad == {k \in 0 .. N : ~(f[k] \in S /\ f[k] \in T[k])}
<1>1. ASSUME Bad # {} PROVE FALSE
  <2>1. Bad \in SUBSET Nat
    OBVIOUS
  <2>2. PICK k \in Bad : \A j \in Bad : k <= j
    BY <1>1, <2>1, LeastNatural
  <2>3. k # 0 /\ k \in 1 .. N /\ k - 1 \in 0 .. N /\ ~(k <= k - 1)
    OBVIOUS
  <2>4. f[k - 1] \in S /\ f[k - 1] \in T[k - 1]
    BY <2>2, <2>3
  <2> QED
    BY <2>3, <2>4
<1> QED
  BY <1>1

\* A loop that does not end.
LEMMA Forever ==
    ASSUME NEW SS, NEW first \in SS, NEW step \in [SS -> SS]
    PROVE  \E b \in [Nat -> SS] : b[0] = first /\ \A n \in Nat : b[n + 1] = step[b[n]]
<1>1. \A n \in Nat : \E f : Runs(f, SS, n, first, step)
  <2> TAKE n \in Nat
  <2>1. Loop(SS, n, first, step)
    BY DEF Loop
  <2> QED
    BY <2>1, LoopRuns
<1> DEFINE run(n) == CHOOSE f : Runs(f, SS, n, first, step)
<1>2. \A n \in Nat : Runs(run(n), SS, n, first, step)
  BY <1>1
<1> HIDE DEF run
<1>3. ASSUME NEW n \in Nat, NEW m \in Nat, n <= m PROVE run(n)[n] = run(m)[n]
  <2> DEFINE N == n + 1
             Same == {k \in 1 .. N : run(n)[k - 1] = run(m)[k - 1]}
  <2>1. 1 \in Same
    <3>1. run(n)[0] = first /\ run(m)[0] = first
      BY <1>2 DEF Runs
    <3> QED
      BY <3>1
  <2>2. ASSUME NEW k \in 2 .. N, k - 1 \in Same PROVE k \in Same
    <3>1. k - 1 \in 1 .. n /\ k - 1 \in 1 .. m /\ k \in 1 .. N
      BY <1>3
    <3>2. run(n)[k - 1] = step[run(n)[(k - 1) - 1]] /\ run(m)[k - 1] = step[run(m)[(k - 1) - 1]]
      BY <1>2, <3>1 DEF Runs
    <3>3. run(n)[(k - 1) - 1] = run(m)[(k - 1) - 1]
      BY <2>2
    <3> QED
      BY <3>1, <3>2, <3>3
  <2>3. 1 .. N \subseteq Same
    <3>1. N \in Nat \ {0}
      OBVIOUS
    <3> HIDE DEF N, Same
    <3> QED
      BY <2>1, <2>2, <3>1, Climb
  <2>4. N \in 1 .. N /\ N - 1 = n
    OBVIOUS
  <2> QED
    BY <2>3, <2>4
<1> DEFINE b == [n \in Nat |-> run(n)[n]]
<1>4. b \in [Nat -> SS]
  <2>1. ASSUME NEW n \in Nat PROVE run(n)[n] \in SS
    <3>1. n \in 0 .. n
      OBVIOUS
    <3> QED
      BY <1>2, <3>1 DEF Runs
  <2> QED
    BY <2>1
<1>5. b[0] = first
  BY <1>2 DEF Runs
<1>6. ASSUME NEW n \in Nat PROVE b[n + 1] = step[b[n]]
  <2>1. n + 1 \in Nat /\ n + 1 \in 1 .. n + 1 /\ (n + 1) - 1 = n /\ n <= n + 1
    OBVIOUS
  <2>2. run(n + 1)[n + 1] = step[run(n + 1)[(n + 1) - 1]]
    BY <1>2, <2>1 DEF Runs
  <2>3. run(n)[n] = run(n + 1)[n]
    BY <1>3, <2>1
  <2> QED
    BY <2>1, <2>2, <2>3
<1> HIDE DEF b
<1> QED
  BY <1>4, <1>5, <1>6

-----------------------------------------------------------------------------
(* Folds. *)

\* What a fold over a finite set computes exists: step takes the element that
\* is picked and the value of the rest.
Picks(D, pick) == IsFiniteSet(D) /\ \A S \in SUBSET D : S # {} => pick[S] \in S

FoldsTo(fold, D, base, pick, step) ==
  \A S \in SUBSET D :
    fold[S] = IF S = {} THEN base ELSE step[<<pick[S], fold[S \ {pick[S]}]>>]

\* Without one of its elements a finite set has one element less.
LEMMA LessByOne ==
    ASSUME NEW D, IsFiniteSet(D), NEW S \in SUBSET D
    PROVE  /\ IsFiniteSet(S) /\ Cardinality(S) \in Nat /\ Cardinality(S) <= Cardinality(D)
           /\ \A x \in S : Cardinality(S \ {x}) = Cardinality(S) - 1
<1>1. IsFiniteSet(S) /\ Cardinality(S) <= Cardinality(D)
  BY FS_Subset
<1>2. Cardinality(S) \in Nat
  BY <1>1, FS_CardinalityType
<1>3. ASSUME NEW x \in S PROVE Cardinality(S \ {x}) = Cardinality(S) - 1
  BY <1>1, FS_RemoveElement
<1> QED
  BY <1>1, <1>2, <1>3

LEMMA FoldExists ==
    ASSUME NEW D, NEW V, NEW base \in V, NEW pick, Picks(D, pick),
           NEW step \in [D \X V -> V]
    PROVE  \E fold \in [SUBSET D -> V] : FoldsTo(fold, D, base, pick, step)
<1> DEFINE N == Cardinality(D) + 1
           F == [SUBSET D -> V]
           first == [S \in SUBSET D |-> base]
           After(s, S) == IF S = {} THEN base ELSE step[<<pick[S], s[S \ {pick[S]}]>>]
           after == [s \in F |-> [S \in SUBSET D |-> After(s, S)]]
           each == [k \in 2 .. N |-> after]
           Stays(h) == {k \in 1 .. N :
                          \A S \in SUBSET D : Cardinality(S) < k => after[h[k]][S] = h[k][S]}
<1>0. IsFiniteSet(D) /\ \A S \in SUBSET D : S # {} => pick[S] \in S
  BY DEF Picks
<1>1. N \in Nat \ {0} /\ first \in F
  BY <1>0, FS_CardinalityType
<1>2. ASSUME NEW s \in F, NEW S \in SUBSET D PROVE After(s, S) \in V
  <2>1. CASE S = {}
    BY <2>1
  <2>2. CASE S # {}
    <3>1. pick[S] \in D /\ S \ {pick[S]} \in SUBSET D
      BY <1>0, <2>2
    <3>2. s[S \ {pick[S]}] \in V
      BY <3>1
    <3>3. step[<<pick[S], s[S \ {pick[S]}]>>] \in V
      BY <3>1, <3>2
    <3> QED
      BY <2>2, <3>3
  <2> QED
    BY <2>1, <2>2
<1>3. after \in [F -> F]
  <2> HIDE DEF After
  <2> QED
    BY <1>2
<1>4. Stepwise(F, N, first, each)
  BY <1>1, <1>3 DEF Stepwise
<1>5. PICK h : StepsTo(h, F, N, first, each)
  <2> HIDE DEF F, N, first, each
  <2> QED
    BY <1>4, StepByStep
<1>6. /\ h \in [1 .. N -> F] /\ h[1] = first
      /\ \A k \in 2 .. N : h[k] = after[h[k - 1]]
  BY <1>5 DEF StepsTo
<1>7. \A s \in F : \A S \in SUBSET D : after[s][S] = After(s, S)
  OBVIOUS
<1>8. 1 \in Stays(h)
  <2>3. 1 \in 1 .. N
    BY <1>1
  <2> SUFFICES ASSUME NEW S \in SUBSET D, Cardinality(S) < 1
               PROVE  after[h[1]][S] = h[1][S]
    BY <2>3
  <2>1. S = {}
    <3>1. IsFiniteSet(S) /\ Cardinality(S) = 0
      BY <1>0, LessByOne
    <3> QED
      BY <3>1, FS_EmptySet
  <2>2. after[h[1]][S] = base
    BY <1>1, <1>6, <1>7, <2>1
  <2> QED
    BY <1>6, <2>2
<1>9. ASSUME NEW k \in 2 .. N, k - 1 \in Stays(h) PROVE k \in Stays(h)
  <2>1. k \in 1 .. N /\ k - 1 \in 1 .. N
    BY <1>1
  <2>2. h[k] \in F /\ h[k - 1] \in F /\ h[k] = after[h[k - 1]]
    BY <1>6, <2>1
  <2> SUFFICES ASSUME NEW S \in SUBSET D, Cardinality(S) < k
               PROVE  after[h[k]][S] = h[k][S]
    BY <2>1
  <2>3. after[h[k]][S] = After(h[k], S) /\ h[k][S] = After(h[k - 1], S)
    BY <1>7, <2>2
  <2>4. CASE S = {}
    BY <2>3, <2>4
  <2>5. CASE S # {}
    <3> DEFINE T == S \ {pick[S]}
    <3>1. T \in SUBSET D /\ Cardinality(T) = Cardinality(S) - 1 /\ Cardinality(S) \in Nat
      BY <1>0, <2>5, LessByOne
    <3>2. Cardinality(T) < k - 1
      BY <3>1, <2>1
    <3>3. after[h[k - 1]][T] = h[k - 1][T]
      BY <1>9, <3>1, <3>2
    <3>4. h[k][T] = h[k - 1][T]
      BY <2>2, <3>3
    <3> HIDE DEF T, after
    <3> QED
      BY <2>3, <2>5, <3>4 DEF T
  <2> QED
    BY <2>4, <2>5
<1>10. N \in Stays(h)
  <2> HIDE DEF N, Stays
  <2>1. 1 .. N \subseteq Stays(h)
    BY <1>1, <1>8, <1>9, Climb
  <2> QED
    BY <1>1, <2>1
<1>11. h[N] \in F
  <2> HIDE DEF F, N
  <2>1. N \in 1 .. N
    BY <1>1
  <2> QED
    BY <1>6, <2>1
<1>12. ASSUME NEW S \in SUBSET D PROVE after[h[N]][S] = h[N][S]
  <2>1. Cardinality(S) < N
    BY <1>0, LessByOne, FS_CardinalityType
  <2> QED
    BY <1>10, <2>1
<1>13. \A S \in SUBSET D : h[N][S] = After(h[N], S)
  BY <1>7, <1>11, <1>12
<1> QED
  BY <1>11, <1>13 DEF FoldsTo

\* The list of a fold from the left: what is made of its first k entries.
LEMMA PrefixPick ==
    ASSUME NEW n \in Nat, NEW k \in 1 .. n
    PROVE  /\ 1 .. k \in SUBSET (1 .. n) /\ 1 .. k # {} /\ (1 .. k) \ {k} = 1 .. k - 1
           /\ Max(1 .. k) = k
<1>1. 1 .. k \in SUBSET (1 .. n) /\ k \in 1 .. k /\ (1 .. k) \ {k} = 1 .. k - 1
  OBVIOUS
<1>2. 1 .. k \in SUBSET Int /\ IsFiniteSet(1 .. k)
  BY FS_Interval
<1>3. Max(1 .. k) \in 1 .. k /\ \A x \in 1 .. k : Max(1 .. k) >= x
  BY <1>1, <1>2, MaxOfFinite
<1> QED
  BY <1>1, <1>3

-----------------------------------------------------------------------------
\* The entries of two lists, one after the other.
LEMMA Joined ==
    ASSUME NEW S, NEW u \in Seq(S), NEW v \in Seq(S)
    PROVE  /\ Len(u) \in Nat /\ Len(v) \in Nat /\ Len(u \o v) = Len(u) + Len(v)
           /\ \A p \in 1 .. Len(u) : p \in 1 .. Len(u \o v) /\ (u \o v)[p] = u[p]
           /\ \A m \in 1 .. Len(v) :
                Len(u) + m \in 1 .. Len(u \o v) /\ (u \o v)[Len(u) + m] = v[m]
  OBVIOUS

\* w lists what u and v list.
ListsBoth(w, u, v) ==
  /\ \A k \in 1 .. Len(u) : \E i \in 1 .. Len(w) : w[i] = u[k]
  /\ \A k \in 1 .. Len(v) : \E i \in 1 .. Len(w) : w[i] = v[k]
  /\ \A i \in 1 .. Len(w) :
       \/ \E k \in 1 .. Len(u) : w[i] = u[k]
       \/ \E k \in 1 .. Len(v) : w[i] = v[k]

\* One list after the other lists the entries of both.
LEMMA JoinedHas ==
    ASSUME NEW S, NEW u \in Seq(S), NEW v \in Seq(S)
    PROVE  ListsBoth(u \o v, u, v)
<1> DEFINE w == u \o v
<1>1. /\ \A k \in 1 .. Len(u) : k \in 1 .. Len(w) /\ w[k] = u[k]
      /\ \A k \in 1 .. Len(v) : Len(u) + k \in 1 .. Len(w) /\ w[Len(u) + k] = v[k]
  BY Joined
<1>2. \A i \in 1 .. Len(w) :
        \/ \E k \in 1 .. Len(u) : w[i] = u[k]
        \/ \E k \in 1 .. Len(v) : w[i] = v[k]
  OBVIOUS
<1> HIDE DEF w
<1> QED
  BY <1>1, <1>2 DEF w, ListsBoth

-----------------------------------------------------------------------------
(* What is reached from a set in so many steps. *)

\* b gives what is reached from S within so many steps over the pairs of R.
ReachesIn(b, W, R, S) ==
  /\ b \in [Nat -> SUBSET W] /\ b[0] = S
  /\ \A n \in Nat : b[n + 1] = b[n] \union {u \in W : \E t \in b[n] : <<t, u>> \in R}

Reach(W, R, S) == CHOOSE b : ReachesIn(b, W, R, S)

LEMMA ReachExists ==
    ASSUME NEW W, NEW R, NEW S \in SUBSET W
    PROVE  ReachesIn(Reach(W, R, S), W, R, S)
<1> DEFINE step == [B \in SUBSET W |-> B \union {u \in W : \E t \in B : <<t, u>> \in R}]
<1>1. step \in [SUBSET W -> SUBSET W]
  OBVIOUS
<1>2. PICK b \in [Nat -> SUBSET W] : b[0] = S /\ \A n \in Nat : b[n + 1] = step[b[n]]
  <2> DEFINE SS == SUBSET W
  <2>1. S \in SS /\ step \in [SS -> SS]
    BY <1>1
  <2> HIDE DEF SS, step
  <2>2. \E b \in [Nat -> SS] : b[0] = S /\ \A n \in Nat : b[n + 1] = step[b[n]]
    BY <2>1, Forever
  <2> QED
    BY <2>2 DEF SS
<1>3. \A n \in Nat : b[n] \in SUBSET W
  BY <1>2
<1>4. ReachesIn(b, W, R, S)
  BY <1>2, <1>3 DEF ReachesIn
<1> QED
  BY <1>4 DEF Reach

\* More steps reach no less.
LEMMA ReachMore ==
    ASSUME NEW W, NEW R, NEW S, NEW b, ReachesIn(b, W, R, S), NEW n \in Nat, NEW m \in Nat, n <= m
    PROVE  b[n] \subseteq b[m]
<1> DEFINE N == m + 1
           More == {k \in 1 .. N : n <= k - 1 => b[n] \subseteq b[k - 1]}
<1>1. 1 \in More
  <2>1. n <= 1 - 1 => n = 1 - 1
    OBVIOUS
  <2> QED
    BY <2>1
<1>2. ASSUME NEW k \in 2 .. N, k - 1 \in More PROVE k \in More
  <2>1. k - 2 \in Nat /\ (k - 2) + 1 = k - 1 /\ (k - 1) - 1 = k - 2
    OBVIOUS
  <2>2. b[k - 2] \subseteq b[k - 1]
    BY <2>1 DEF ReachesIn
  <2>3. n <= k - 1 => n = k - 1 \/ n <= k - 2
    OBVIOUS
  <2>4. n <= k - 2 => b[n] \subseteq b[k - 2]
    BY <1>2, <2>1
  <2> QED
    BY <2>2, <2>3, <2>4
<1>3. 1 .. N \subseteq More
  <2>1. N \in Nat \ {0}
    OBVIOUS
  <2> HIDE DEF N, More
  <2> QED
    BY <1>1, <1>2, <2>1, Climb
<1>4. N \in 1 .. N /\ N - 1 = m
  OBVIOUS
<1> QED
  BY <1>3, <1>4

\* Two functions that begin alike and go on alike are alike.
LEMMA SameReach ==
    ASSUME NEW r, NEW b, r[0] = b[0], \A n \in Nat : r[n] = b[n] => r[n + 1] = b[n + 1],
           NEW k \in Nat
    PROVE  r[k] = b[k]
<1> DEFINE N == k + 1
           Same == {m \in 1 .. N : r[m - 1] = b[m - 1]}
<1>1. 1 \in Same
  <2>1. 1 - 1 = 0 /\ 1 \in 1 .. N
    OBVIOUS
  <2> QED
    BY <2>1
<1>2. ASSUME NEW m \in 2 .. N, m - 1 \in Same PROVE m \in Same
  <2>1. m - 2 \in Nat /\ (m - 1) - 1 = m - 2 /\ (m - 2) + 1 = m - 1 /\ m \in 1 .. N
    OBVIOUS
  <2>2. r[m - 2] = b[m - 2]
    BY <1>2, <2>1
  <2>3. r[m - 1] = b[m - 1]
    BY <2>1, <2>2
  <2> QED
    BY <2>1, <2>3
<1>3. 1 .. N \subseteq Same
  <2>1. N \in Nat \ {0}
    OBVIOUS
  <2> HIDE DEF N, Same
  <2> QED
    BY <1>1, <1>2, <2>1, Climb
<1>4. N \in 1 .. N /\ N - 1 = k
  OBVIOUS
<1> QED
  BY <1>3, <1>4
=============================================================================
