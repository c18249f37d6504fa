-------------------------- MODULE SchedulerProofs --------------------------
(***************************************************************************)
(* Facts about process_eval, for every job, cluster and order of the       *)
(* nodes: what its running, wrapping totals have to do with true sums,     *)
(* whom it picks, what its plan consists of, how long it is, what it       *)
(* leaves of the nodes' capacity and what it leaves unplaced.              *)
(***************************************************************************)
EXTENDS Scheduler, Induction, FiniteSetTheorems

----------------------------------------------------------------------------
(* Sums over finite sets, in the terms of the library's folds.             *)

\* What passes from the sets with one element less holds of every subset.
LEMMA SubsetInduction ==
  ASSUME NEW S, IsFiniteSet(S), NEW Q, {} \in Q,
         \A s \in SUBSET S : s # {} /\ (\A x \in s : s \ {x} \in Q) => s \in Q
  PROVE  SUBSET S \subseteq Q
<1> DEFINE A == {k \in Nat : \A s \in SUBSET S : Cardinality(s) = k => s \in Q}
<1>0. \A s \in SUBSET S : IsFiniteSet(s) /\ Cardinality(s) \in Nat
  BY FS_Subset, FS_CardinalityType
<1>1. 0 \in A
  <2>1. ASSUME NEW s \in SUBSET S, Cardinality(s) = 0 PROVE s = {}
    BY <1>0, <2>1, FS_EmptySet
  <2> QED BY <2>1
<1>2. ASSUME NEW k \in Nat, k \in A PROVE k + 1 \in A
  <2> SUFFICES ASSUME NEW s \in SUBSET S, Cardinality(s) = k + 1 PROVE s \in Q
    OBVIOUS
  <2>1. s # {}
    <3>1. k + 1 # 0
      OBVIOUS
    <3> QED BY <3>1, FS_EmptySet
  <2>2. ASSUME NEW x \in s PROVE s \ {x} \in Q
    <3>1. Cardinality(s \ {x}) = (k + 1) - 1 /\ s \ {x} \in SUBSET S
      BY <1>0, FS_RemoveElement
    <3> QED BY <1>2, <3>1
  <2> QED BY <2>1, <2>2
<1> HIDE DEF A
<1>3. Nat \subseteq A
  BY <1>1, <1>2, SetInduction
<1> QED BY <1>0, <1>3 DEF A

\* The element a fold goes on with.
First(s) == CHOOSE x \in s : TRUE

\* g is the fold of F over the subsets of S.
IsFold(g, S, base, F) ==
  /\ g[{}] = base
  /\ \A s \in SUBSET S : s # {} => g[s] = F[<<First(s), g[s \ {First(s)}]>>]

LEMMA FirstIsIn == ASSUME NEW s, s # {} PROVE First(s) \in s
  BY DEF First

\* A function may be defined by recursion over the subsets of a finite set:
\* k rounds of the recursion settle the sets with up to k elements.
LEMMA FoldExists ==
  ASSUME NEW S, IsFiniteSet(S), NEW U, NEW base \in U, NEW F \in [S \X U -> U]
  PROVE  \E g \in [SUBSET S -> U] : IsFold(g, S, base, F)
<1> DEFINE V == [SUBSET S -> U]
           N == Cardinality(S) + 1
           Round(v) == [s \in SUBSET S |->
                          IF s = {} THEN base ELSE F[<<First(s), v[s \ {First(s)}]>>]]
           H == [y \in V \X Nat |-> Round(y[1])]
           start == [s \in SUBSET S |-> base]
<1>0. N \in Nat /\ \A s \in SUBSET S : IsFiniteSet(s) /\ Cardinality(s) \in Nat
  BY FS_Subset, FS_CardinalityType
<1>1. ASSUME NEW v \in V PROVE Round(v) \in V
  <2>1. ASSUME NEW s \in SUBSET S, s # {} PROVE F[<<First(s), v[s \ {First(s)}]>>] \in U
    <3>1. First(s) \in S /\ s \ {First(s)} \in SUBSET S
      BY <2>1, FirstIsIn
    <3> QED BY <3>1
  <2> QED BY <2>1
<1>2. IsStep(H, V) /\ \A v \in V, i \in Nat : H[<<v, i>>] = Round(v)
  <2> HIDE DEF Round, V
  <2> QED BY <1>1 DEF IsStep
<1>3. start \in V
  OBVIOUS
<1> HIDE DEF H, start
<1>4. PICK f \in [0 .. N -> V] : f[0] = start /\ \A i \in 1 .. N : f[i] = H[<<f[i - 1], i>>]
  <2> HIDE DEF V, N
  <2>1. \E f : Unfolds(f, V, start, H, N)
    BY <1>0, <1>2, <1>3, RecursionExists
  <2> QED BY <2>1 DEF Unfolds
<1>5. \A i \in 1 .. N : f[i] = Round(f[i - 1])
  <2> SUFFICES ASSUME NEW i \in 1 .. N PROVE f[i] = Round(f[i - 1])
    OBVIOUS
  <2>1. i \in Nat /\ i - 1 \in 0 .. N
    BY <1>0
  <2>2. f[i - 1] \in V
    BY <2>1
  <2> HIDE DEF Round, V
  <2> QED BY <1>2, <1>4, <2>1, <2>2
<1> DEFINE A == {k \in Nat : k + 1 <= N => \A s \in SUBSET S : Cardinality(s) <= k => f[k][s] = f[k + 1][s]}
<1>6. 0 \in A
  <2> SUFFICES ASSUME 1 <= N, NEW s \in SUBSET S, Cardinality(s) <= 0 PROVE f[0][s] = f[1][s]
    OBVIOUS
  <2>1. s = {}
    <3>1. Cardinality(s) = 0 /\ IsFiniteSet(s)
      BY <1>0
    <3> QED BY <3>1, FS_EmptySet
  <2>2. 1 \in 1 .. N
    BY <1>0
  <2>3. f[1] = Round(f[0])
    <3>1. 1 - 1 = 0
      OBVIOUS
    <3> HIDE DEF Round
    <3> QED BY <1>5, <2>2, <3>1
  <2>4. f[1][s] = base
    BY <2>1, <2>3
  <2>5. f[0][s] = base
    BY <1>4 DEF start
  <2> QED BY <2>4, <2>5
<1>7. ASSUME NEW k \in Nat, k \in A PROVE k + 1 \in A
  <2> SUFFICES ASSUME k + 2 <= N, NEW s \in SUBSET S, Cardinality(s) <= k + 1
               PROVE  f[k + 1][s] = f[k + 2][s]
    OBVIOUS
  <2> DEFINE r == s \ {First(s)}
  <2>1. f[k + 1] = Round(f[k]) /\ f[k + 2] = Round(f[k + 1])
    <3>1. k + 1 \in 1 .. N /\ k + 2 \in 1 .. N /\ (k + 1) - 1 = k /\ (k + 2) - 1 = k + 1
      BY <1>0
    <3> HIDE DEF Round
    <3> QED BY <1>5, <3>1
  <2>2. CASE s = {}
    BY <2>1, <2>2
  <2>3. CASE s # {}
    <3>1. r \in SUBSET S /\ Cardinality(r) = Cardinality(s) - 1
      BY <1>0, <2>3, FirstIsIn, FS_RemoveElement
    <3>2. f[k][r] = f[k + 1][r]
      BY <1>0, <1>7, <3>1
    <3>3. \A v : Round(v)[s] = F[<<First(s), v[r]>>]
      BY <2>3
    <3> HIDE DEF Round, r
    <3> QED BY <2>1, <3>2, <3>3
  <2> QED BY <2>2, <2>3
<1>8. N - 1 \in A /\ N - 1 \in Nat
  <2> HIDE DEF A
  <2>1. Nat \subseteq A
    BY <1>6, <1>7, SetInduction
  <2> QED BY <2>1, FS_CardinalityType
<1>9. \A s \in SUBSET S : f[N - 1][s] = f[N][s]
  <2>1. ASSUME NEW s \in SUBSET S PROVE Cardinality(s) <= N - 1
    <3>1. Cardinality(s) <= Cardinality(S)
      BY FS_Subset
    <3> QED BY <1>0, <3>1, FS_CardinalityType
  <2>2. (N - 1) + 1 = N
    BY <1>0
  <2> QED BY <1>0, <1>8, <2>1, <2>2
<1>10. f[N] = Round(f[N - 1])
  <2>1. N \in 1 .. N
    BY FS_CardinalityType
  <2> QED BY <1>5, <2>1
<1>11. f[N - 1] \in V
  <2>1. N - 1 \in 0 .. N
    BY <1>0, <1>8
  <2> HIDE DEF V
  <2> QED BY <1>4, <2>1
<1> DEFINE g == f[N - 1]
<1>12. \A s \in SUBSET S : g[s] = Round(g)[s]
  <2> HIDE DEF Round
  <2> QED BY <1>9, <1>10
<1> HIDE DEF g
<1>13. IsFold(g, S, base, F)
  BY <1>12 DEF IsFold
<1> QED BY <1>11, <1>13 DEF g

\* g is the sum of f over each of the subsets of S.
Sums(g, S, f) ==
  /\ g \in [SUBSET S -> Int]
  /\ g[{}] = 0
  /\ \A s \in SUBSET S : s # {} => g[s] = f[First(s)] + g[s \ {First(s)}]

LEMMA SumSteps ==
  ASSUME NEW S, IsFiniteSet(S), NEW f, \A x \in S : f[x] \in Int
  PROVE  \E g : Sums(g, S, f) /\ SumFunctionOnSet(f, S) = g[S]
<1> DEFINE F == [y \in S \X Int |-> f[y[1]] + y[2]]
           Adds(g) == g = [s \in SUBSET S |->
                             IF s = {} THEN 0
                             ELSE f[CHOOSE x \in s : TRUE] + g[s \ {CHOOSE x \in s : TRUE}]]
           h == CHOOSE g : Adds(g)
<1>1. SumFunctionOnSet(f, S) = h[S]
  BY DEF SumFunctionOnSet, FoldFunctionOnSet, MapThenFoldSet
<1>2. F \in [S \X Int -> Int] /\ \A x \in S, i \in Int : F[<<x, i>>] = f[x] + i
  OBVIOUS
<1> HIDE DEF F
<1>3. PICK g \in [SUBSET S -> Int] : IsFold(g, S, 0, F)
  <2>1. 0 \in Int
    OBVIOUS
  <2> QED BY <1>2, <2>1, FoldExists
<1>4. Sums(g, S, f)
  <2>1. ASSUME NEW s \in SUBSET S, s # {} PROVE g[s] = f[First(s)] + g[s \ {First(s)}]
    <3>1. First(s) \in S /\ s \ {First(s)} \in SUBSET S
      BY <2>1, FirstIsIn
    <3>2. g[s \ {First(s)}] \in Int /\ g[s] = F[<<First(s), g[s \ {First(s)}]>>]
      BY <1>3, <2>1, <3>1 DEF IsFold
    <3> QED BY <1>2, <3>1, <3>2
  <2> QED BY <1>3, <2>1 DEF Sums, IsFold
<1>5. Adds(g)
  <2>1. \A s \in SUBSET S : g[s] = IF s = {} THEN 0 ELSE f[First(s)] + g[s \ {First(s)}]
    BY <1>4 DEF Sums
  <2> QED BY <2>1 DEF First
<1>6. Adds(h)
  BY <1>5
<1> HIDE DEF h
<1>7. DOMAIN h = SUBSET S /\ \A s \in SUBSET S : h[s] = IF s = {} THEN 0 ELSE f[First(s)] + h[s \ {First(s)}]
  BY <1>6 DEF First
<1> HIDE DEF Adds
<1> DEFINE Q == {s \in SUBSET S : h[s] = g[s]}
<1>8. {} \in Q
  BY <1>4, <1>7 DEF Sums
<1>9. ASSUME NEW s \in SUBSET S, s # {}, \A x \in s : s \ {x} \in Q PROVE s \in Q
  <2>1. h[s \ {First(s)}] = g[s \ {First(s)}]
    BY <1>9, FirstIsIn
  <2> QED BY <1>4, <1>7, <1>9, <2>1 DEF Sums
<1> HIDE DEF Q
<1>10. SUBSET S \subseteq Q
  BY <1>8, <1>9, SubsetInduction
<1>11. h[S] = g[S]
  BY <1>10 DEF Q
<1> QED BY <1>1, <1>4, <1>11

\* What is summed first makes no difference.
LEMMA SumTake ==
  ASSUME NEW S, IsFiniteSet(S), NEW f, \A x \in S : f[x] \in Int, NEW g, Sums(g, S, f),
         NEW s \in SUBSET S, NEW x \in s
  PROVE  g[s] = f[x] + g[s \ {x}]
<1> DEFINE Q == {t \in SUBSET S : \A y \in t : g[t] = f[y] + g[t \ {y}]}
<1>1. {} \in Q
  OBVIOUS
<1>2. ASSUME NEW t \in SUBSET S, t # {}, \A y \in t : t \ {y} \in Q PROVE t \in Q
  <2> SUFFICES ASSUME NEW y \in t PROVE g[t] = f[y] + g[t \ {y}]
    OBVIOUS
  <2> DEFINE z == First(t)
             r == (t \ {y}) \ {z}
  <2>1. z \in t /\ g[t] = f[z] + g[t \ {z}]
    BY <1>2, FirstIsIn DEF Sums
  <2>2. CASE y = z
    BY <2>1, <2>2
  <2>3. CASE y # z
    <3>1. g[t \ {y}] = f[z] + g[r]
      BY <1>2, <2>1, <2>3
    <3>2. (t \ {z}) \ {y} = r
      OBVIOUS
    <3>3. g[t \ {z}] = f[y] + g[r]
      BY <1>2, <2>1, <2>3, <3>2
    <3>4. f[y] \in Int /\ f[z] \in Int /\ g[r] \in Int
      BY <2>1 DEF Sums
    <3> HIDE DEF z, r
    <3> QED BY <2>1, <3>1, <3>3, <3>4
  <2> QED BY <2>2, <2>3
<1> HIDE DEF Q
<1>3. SUBSET S \subseteq Q
  BY <1>1, <1>2, SubsetInduction
<1> QED BY <1>3 DEF Q

\* Where two functions agree, so do their sums.
LEMMA SumAgree ==
  ASSUME NEW S, NEW f, NEW g, Sums(g, S, f), NEW T, NEW h, NEW k, Sums(k, T, h),
         NEW C, IsFiniteSet(C), C \subseteq S, C \subseteq T, \A x \in C : f[x] = h[x]
  PROVE  g[C] = k[C]
<1> DEFINE Q == {s \in SUBSET C : g[s] = k[s]}
<1>1. {} \in Q
  BY DEF Sums
<1>2. ASSUME NEW s \in SUBSET C, s # {}, \A x \in s : s \ {x} \in Q PROVE s \in Q
  <2>1. First(s) \in s /\ g[s \ {First(s)}] = k[s \ {First(s)}] /\ f[First(s)] = h[First(s)]
    BY <1>2, FirstIsIn
  <2>2. s \in SUBSET S /\ s \in SUBSET T
    OBVIOUS
  <2> QED BY <1>2, <2>1, <2>2 DEF Sums
<1> HIDE DEF Q
<1>3. SUBSET C \subseteq Q
  BY <1>1, <1>2, SubsetInduction
<1> QED BY <1>3 DEF Q

\* A sum of integers is one.
LEMMA SumIsInt ==
  ASSUME NEW S, IsFiniteSet(S), NEW f, \A x \in S : f[x] \in Int
  PROVE  SumFunctionOnSet(f, S) \in Int
<1>1. PICK g : Sums(g, S, f) /\ SumFunctionOnSet(f, S) = g[S]
  BY SumSteps
<1> QED BY <1>1 DEF Sums

LEMMA SumEmpty == ASSUME NEW f PROVE SumFunctionOnSet(f, {}) = 0
  BY SumSteps, FS_EmptySet DEF Sums

LEMMA SumSame ==
  ASSUME NEW S, IsFiniteSet(S), NEW f, NEW h, \A x \in S : f[x] \in Int /\ h[x] = f[x]
  PROVE  SumFunctionOnSet(h, S) = SumFunctionOnSet(f, S)
<1>1. PICK g : Sums(g, S, f) /\ SumFunctionOnSet(f, S) = g[S]
  BY SumSteps
<1>2. PICK k : Sums(k, S, h) /\ SumFunctionOnSet(h, S) = k[S]
  BY SumSteps
<1>3. g[S] = k[S]
  BY <1>1, <1>2, SumAgree
<1> QED BY <1>1, <1>2, <1>3

\* One more summand.
LEMMA SumGrows ==
  ASSUME NEW S, IsFiniteSet(S), NEW f, NEW h, \A y \in S : f[y] \in Int /\ h[y] = f[y],
         NEW x, x \notin S, h[x] \in Int
  PROVE  SumFunctionOnSet(h, S \cup {x}) = SumFunctionOnSet(f, S) + h[x]
<1> DEFINE T == S \cup {x}
<1>1. IsFiniteSet(T) /\ \A y \in T : h[y] \in Int
  BY FS_AddElement
<1>2. PICK g : Sums(g, S, f) /\ SumFunctionOnSet(f, S) = g[S]
  BY SumSteps
<1>3. PICK k : Sums(k, T, h) /\ SumFunctionOnSet(h, T) = k[T]
  <2> HIDE DEF T
  <2> QED BY <1>1, SumSteps
<1>4. k[T] = h[x] + k[T \ {x}]
  <2>1. x \in T
    OBVIOUS
  <2> HIDE DEF T
  <2> QED BY <1>1, <1>3, <2>1, SumTake
<1>5. T \ {x} = S
  OBVIOUS
<1>6. k[S] = g[S]
  <2>1. S \subseteq T
    OBVIOUS
  <2> HIDE DEF T
  <2> QED BY <1>2, <1>3, <2>1, SumAgree
<1>7. g[S] \in Int
  BY <1>2 DEF Sums
<1> HIDE DEF T
<1>8. SumFunctionOnSet(h, T) = h[x] + SumFunctionOnSet(f, S) /\ SumFunctionOnSet(f, S) \in Int
  BY <1>2, <1>3, <1>4, <1>5, <1>6, <1>7
<1>9. SumFunctionOnSet(h, T) = SumFunctionOnSet(f, S) + h[x]
  BY <1>8
<1> QED BY <1>9 DEF T

\* A sum of naturals is one, and no less than any of its summands.
LEMMA SumIsNat ==
  ASSUME NEW S, IsFiniteSet(S), NEW f, \A x \in S : f[x] \in Nat
  PROVE  SumFunctionOnSet(f, S) \in Nat /\ \A x \in S : f[x] <= SumFunctionOnSet(f, S)
<1>1. PICK g : Sums(g, S, f) /\ SumFunctionOnSet(f, S) = g[S]
  BY SumSteps
<1> DEFINE Q == {s \in SUBSET S : g[s] \in Nat}
<1>2. {} \in Q
  BY <1>1 DEF Sums
<1>3. ASSUME NEW s \in SUBSET S, s # {}, \A x \in s : s \ {x} \in Q PROVE s \in Q
  <2>1. First(s) \in s
    BY <1>3, FirstIsIn
  <2>2. g[s] = f[First(s)] + g[s \ {First(s)}]
    BY <1>1, <1>3 DEF Sums
  <2>3. g[s \ {First(s)}] \in Nat /\ f[First(s)] \in Nat
    BY <1>3, <2>1
  <2> QED BY <2>2, <2>3
<1> HIDE DEF Q
<1>4. SUBSET S \subseteq Q
  BY <1>2, <1>3, SubsetInduction
<1>5. \A s \in SUBSET S : g[s] \in Nat
  BY <1>4 DEF Q
<1>6. ASSUME NEW x \in S PROVE f[x] <= g[S]
  <2>1. g[S] = f[x] + g[S \ {x}]
    BY <1>1, SumTake
  <2>2. g[S \ {x}] \in Nat /\ f[x] \in Nat
    BY <1>5
  <2> QED BY <2>1, <2>2
<1> QED BY <1>1, <1>5, <1>6

\* The sum of nothing but zeros.
LEMMA SumOfZeros ==
  ASSUME NEW S, IsFiniteSet(S), NEW f, \A x \in S : f[x] = 0
  PROVE  SumFunctionOnSet(f, S) = 0
<1>1. PICK g : Sums(g, S, f) /\ SumFunctionOnSet(f, S) = g[S]
  BY SumSteps
<1> DEFINE Q == {s \in SUBSET S : g[s] = 0}
<1>2. {} \in Q
  BY <1>1 DEF Sums
<1>3. ASSUME NEW s \in SUBSET S, s # {}, \A x \in s : s \ {x} \in Q PROVE s \in Q
  <2>1. First(s) \in s
    BY <1>3, FirstIsIn
  <2>2. g[s] = f[First(s)] + g[s \ {First(s)}]
    BY <1>1, <1>3 DEF Sums
  <2>3. g[s \ {First(s)}] = 0 /\ f[First(s)] = 0
    BY <1>3, <2>1
  <2> QED BY <2>2, <2>3
<1> HIDE DEF Q
<1>4. SUBSET S \subseteq Q
  BY <1>2, <1>3, SubsetInduction
<1> QED BY <1>1, <1>4 DEF Q

\* Up to K summands, K times any of which is between lo and hi, add up to
\* something between lo and hi.
LEMMA SumBounded ==
  ASSUME NEW S, IsFiniteSet(S), NEW f, \A x \in S : f[x] \in Int,
         NEW K \in Nat, Cardinality(S) <= K, NEW lo \in Int, NEW hi \in Int, lo <= 0, 0 <= hi,
         \A x \in S : lo <= K * f[x] /\ K * f[x] <= hi
  PROVE  lo <= SumFunctionOnSet(f, S) /\ SumFunctionOnSet(f, S) <= hi
<1>1. PICK g : Sums(g, S, f) /\ SumFunctionOnSet(f, S) = g[S]
  BY SumSteps
<1>2. \A s \in SUBSET S : IsFiniteSet(s) /\ Cardinality(s) \in Nat /\ g[s] \in Int
  BY <1>1, FS_Subset, FS_CardinalityType DEF Sums
<1> DEFINE Q == {s \in SUBSET S : Cardinality(s) * lo <= K * g[s] /\ K * g[s] <= Cardinality(s) * hi}
<1>3. {} \in Q
  BY <1>1, FS_EmptySet DEF Sums
<1>4. ASSUME NEW s \in SUBSET S, s # {}, \A x \in s : s \ {x} \in Q PROVE s \in Q
  <2> DEFINE x == First(s)
             t == s \ {x}
             c == Cardinality(t)
  <2>1. x \in s
    BY <1>4, FirstIsIn
  <2>2. g[s] = f[x] + g[t]
    BY <1>1, <1>4 DEF Sums
  <2>3. c * lo <= K * g[t] /\ K * g[t] <= c * hi /\ lo <= K * f[x] /\ K * f[x] <= hi
    BY <1>4, <2>1
  <2>4. Cardinality(s) = c + 1
    <3>1. Cardinality(t) = Cardinality(s) - 1
      BY <1>2, <2>1, FS_RemoveElement
    <3> QED BY <1>2, <3>1
  <2> DEFINE gt == g[t]
             fx == f[x]
  <2>5. gt \in Int /\ fx \in Int /\ c \in Nat
    BY <1>2, <2>1
  <2>6. g[s] = fx + gt /\ c * lo <= K * gt /\ K * gt <= c * hi /\ lo <= K * fx /\ K * fx <= hi
    BY <2>2, <2>3
  <2> HIDE DEF gt, fx, c
  <2>7. K * g[s] = K * fx + K * gt /\ (c + 1) * lo = c * lo + lo /\ (c + 1) * hi = c * hi + hi
    BY <2>5, <2>6
  <2> DEFINE pf == K * fx
             pg == K * gt
             pl == c * lo
             ph == c * hi
  <2>8. pf \in Int /\ pg \in Int /\ pl \in Int /\ ph \in Int
    BY <2>5
  <2>9. pl <= pg /\ pg <= ph /\ lo <= pf /\ pf <= hi
    BY <2>6
  <2> HIDE DEF pf, pg, pl, ph
  <2>10. pl + lo <= pf + pg /\ pf + pg <= ph + hi
    BY <2>8, <2>9
  <2>11. (c + 1) * lo <= K * g[s] /\ K * g[s] <= (c + 1) * hi
    BY <2>7, <2>10 DEF pf, pg, pl, ph
  <2> QED BY <2>4, <2>11
<1> HIDE DEF Q
<1>5. SUBSET S \subseteq Q
  BY <1>3, <1>4, SubsetInduction
<1> DEFINE c == Cardinality(S)
           v == g[S]
<1>6. c \in Nat /\ v \in Int /\ c <= K
  BY <1>2
<1>7. c * lo <= K * v /\ K * v <= c * hi
  BY <1>5 DEF Q
<1>8. c = 0 => v = 0
  BY <1>1, <1>2, FS_EmptySet DEF Sums
<1> HIDE DEF c, v
<1>9. K * lo <= c * lo /\ c * hi <= K * hi
  BY <1>6
<1>10. K * lo <= K * v /\ K * v <= K * hi
  <2> DEFINE a == K * lo
             b == c * lo
             p == K * v
             d == c * hi
             e == K * hi
  <2>1. a \in Int /\ b \in Int /\ p \in Int /\ d \in Int /\ e \in Int
    BY <1>6
  <2>2. a <= b /\ b <= p /\ p <= d /\ d <= e
    BY <1>7, <1>9
  <2> HIDE DEF a, b, p, d, e
  <2>3. a <= p /\ p <= e
    BY <2>1, <2>2
  <2> QED BY <2>3 DEF a, p, e
<1>11. CASE c = 0
  BY <1>1, <1>8, <1>11 DEF v
<1>12. CASE c # 0
  <2>1. K \in Nat \ {0}
    BY <1>6, <1>12
  <2>2. ASSUME v < lo PROVE FALSE
    <3>1. K * (lo - v) >= K /\ K * (lo - v) = K * lo - K * v
      BY <1>6, <2>1, <2>2
    <3> DEFINE a == K * lo
               p == K * v
               q == K * (lo - v)
    <3>2. a \in Int /\ p \in Int /\ q \in Int /\ a <= p
      BY <1>6, <1>10
    <3> HIDE DEF a, p, q
    <3> QED BY <2>1, <3>1, <3>2 DEF a, p, q
  <2>3. ASSUME v > hi PROVE FALSE
    <3>1. K * (v - hi) >= K /\ K * (v - hi) = K * v - K * hi
      BY <1>6, <2>1, <2>3
    <3> DEFINE a == K * hi
               p == K * v
               q == K * (v - hi)
    <3>2. a \in Int /\ p \in Int /\ q \in Int /\ p <= a
      BY <1>6, <1>10
    <3> HIDE DEF a, p, q
    <3> QED BY <2>1, <3>1, <3>2 DEF a, p, q
  <2>4. lo <= v /\ v <= hi
    BY <1>6, <2>2, <2>3
  <2> QED BY <1>1, <2>4 DEF v
<1> QED BY <1>11, <1>12

\* k is f on S and, under the names id, h on I; R is all of them.
Joins(k, R, f, S, h, I, id) ==
  /\ IsFiniteSet(S) /\ \A x \in S : f[x] \in Int /\ k[x] = f[x]
  /\ IsFiniteSet(I) /\ \A i \in I : h[i] \in Int /\ k[id[i]] = h[i] /\ id[i] \notin S
  /\ \A i, j \in I : id[i] = id[j] => i = j
  /\ R = S \cup {id[i] : i \in I}

LEMMA SumJoin ==
  ASSUME NEW k, NEW R, NEW f, NEW S, NEW h, NEW I, NEW id, Joins(k, R, f, S, h, I, id)
  PROVE  SumFunctionOnSet(k, R) = SumFunctionOnSet(f, S) + SumFunctionOnSet(h, I)
<1>0. /\ IsFiniteSet(S) /\ (\A x \in S : f[x] \in Int) /\ (\A x \in S : k[x] = f[x])
      /\ IsFiniteSet(I) /\ (\A i \in I : h[i] \in Int) /\ (\A i \in I : k[id[i]] = h[i])
      /\ (\A i \in I : id[i] \notin S) /\ (\A i, j \in I : id[i] = id[j] => i = j)
      /\ R = S \cup {id[i] : i \in I}
  BY DEF Joins
<1> DEFINE Name(t) == {id[i] : i \in t}
           Total(t) == SumFunctionOnSet(k, S \cup Name(t))
           base == SumFunctionOnSet(f, S)
           Q == {t \in SUBSET I : /\ IsFiniteSet(S \cup Name(t))
                                  /\ Total(t) = base + SumFunctionOnSet(h, t)}
<1>1. base \in Int
  BY <1>0, SumIsInt
<1>2. {} \in Q
  <2>1. S \cup Name({}) = S
    OBVIOUS
  <2>2. Total({}) = base
    BY ONLY <1>0, <2>1, SumSame DEF Total, base
  <2>3. IsFiniteSet(S \cup Name({})) /\ {} \in SUBSET I
    BY <1>0, <2>1
  <2> HIDE DEF Total, Name, base
  <2>4. Total({}) = base + SumFunctionOnSet(h, {})
    BY <1>1, <2>2, SumEmpty
  <2> QED BY <2>3, <2>4
<1>3. ASSUME NEW t \in SUBSET I, t # {}, \A i \in t : t \ {i} \in Q PROVE t \in Q
  <2>1. PICK i \in t : TRUE
    BY <1>3
  <2> DEFINE r == t \ {i}
             T == S \cup Name(r)
  <2>2. /\ IsFiniteSet(T) /\ SumFunctionOnSet(k, T) = base + SumFunctionOnSet(h, r)
        /\ r \subseteq I /\ i \in I /\ i \notin r /\ t = r \cup {i}
    BY <1>3
  <2>3. T \cup {id[i]} = S \cup Name(t) /\ id[i] \notin T
    BY <1>0, <2>2
  <2>4. \A x \in T : k[x] \in Int
    BY <1>0, <2>2
  <2>5. k[id[i]] = h[i] /\ h[i] \in Int
    BY <1>0, <2>2
  <2> HIDE DEF T, r, Name
  <2>6. Total(t) = SumFunctionOnSet(k, T) + h[i]
    <3>1. SumFunctionOnSet(k, T \cup {id[i]}) = SumFunctionOnSet(k, T) + k[id[i]]
      BY <2>2, <2>3, <2>4, <2>5, SumGrows
    <3> QED BY <2>3, <2>5, <3>1
  <2>7. SumFunctionOnSet(h, t) = SumFunctionOnSet(h, r) + h[i] /\ SumFunctionOnSet(h, r) \in Int
    <3>1. IsFiniteSet(r) /\ \A x \in r : h[x] \in Int
      BY <1>0, <2>2, FS_Subset
    <3> QED BY <2>2, <2>5, <3>1, SumGrows, SumIsInt
  <2>8. IsFiniteSet(S \cup Name(t))
    BY <2>2, <2>3, FS_AddElement
  <2> HIDE DEF Total, base
  <2>9. Total(t) = base + SumFunctionOnSet(h, t)
    BY <1>1, <2>2, <2>5, <2>6, <2>7
  <2> QED BY <2>8, <2>9
<1> HIDE DEF Q
<1>4. SUBSET I \subseteq Q
  BY <1>0, <1>2, <1>3, SubsetInduction
<1>5. Total(I) = base + SumFunctionOnSet(h, I)
  BY <1>4 DEF Q
<1> QED BY <1>0, <1>5

\* The sums of the first elements of a sequence, one after the other.
LEMMA PrefixSums ==
  ASSUME NEW n \in Nat, NEW f, \A i \in 1 .. n : f[i] \in Int
  PROVE  \E sum \in [0 .. n -> Int] :
           /\ sum[0] = 0
           /\ \A i \in 1 .. n : sum[i] = sum[i - 1] + f[i]
           /\ SumFunctionOnSet(f, 1 .. n) = sum[n]
<1> DEFINE sum == [i \in 0 .. n |-> SumFunctionOnSet(f, 1 .. i)]
<1>1. \A i \in 0 .. n : IsFiniteSet(1 .. i) /\ 1 .. i \subseteq 1 .. n
  BY FS_Interval
<1>2. \A i \in 0 .. n : SumFunctionOnSet(f, 1 .. i) \in Int
  BY <1>1, SumIsInt
<1>3. ASSUME NEW i \in 1 .. n PROVE sum[i] = sum[i - 1] + f[i]
  <2>1. i - 1 \in 0 .. n /\ i \in 0 .. n /\ 1 .. i = (1 .. (i - 1)) \cup {i} /\ i \notin 1 .. (i - 1)
    OBVIOUS
  <2>2. IsFiniteSet(1 .. (i - 1)) /\ (\A x \in 1 .. (i - 1) : f[x] \in Int) /\ f[i] \in Int
    BY <1>1, <2>1
  <2> DEFINE T == 1 .. (i - 1)
  <2>3. 1 .. i = T \cup {i} /\ i \notin T /\ IsFiniteSet(T) /\ (\A x \in T : f[x] \in Int)
    BY <2>1, <2>2
  <2> HIDE DEF T
  <2>4. SumFunctionOnSet(f, T \cup {i}) = SumFunctionOnSet(f, T) + f[i]
    BY <2>2, <2>3, SumGrows
  <2> QED BY <2>1, <2>3, <2>4 DEF T
<1>4. sum[0] = 0
  <2>1. 1 .. 0 = {} /\ 0 \in 0 .. n
    OBVIOUS
  <2> QED BY <2>1, SumEmpty
<1>5. sum \in [0 .. n -> Int] /\ sum[n] = SumFunctionOnSet(f, 1 .. n)
  BY <1>2
<1> QED BY <1>3, <1>4, <1>5

----------------------------------------------------------------------------
(* Wrapping arithmetic.                                                    *)

LEMMA WrapInRange == \A x \in Int : Wrap(x) \in I32 /\ Wrap(x) \in Int
  BY SchedulerAssumption DEF Wrap, I32

LEMMA WrapSame == \A x \in I32 : Wrap(x) = x
  BY SchedulerAssumption DEF Wrap, I32

\* Two remainders never differ by a multiple, other than not at all.
LEMMA MultipleIsZero ==
  ASSUME NEW M \in Nat \ {0}, NEW m \in Int, M * m < M, -M < M * m
  PROVE  m = 0
<1>1. ASSUME m >= 1 PROVE FALSE
  <2>1. M * m = M + M * (m - 1)
    OBVIOUS
  <2>2. M * (m - 1) >= 0
    BY <1>1
  <2> DEFINE p == M * m
             q == M * (m - 1)
  <2>3. p \in Int /\ q \in Int
    OBVIOUS
  <2> HIDE DEF p, q
  <2>4. p = M + q /\ q >= 0 /\ p < M
    BY <2>1, <2>2 DEF p, q
  <2> QED BY <2>3, <2>4
<1>2. ASSUME m <= -1 PROVE FALSE
  <2>1. M * m = -M + M * (m + 1)
    OBVIOUS
  <2>2. M * (m + 1) <= 0
    BY <1>2
  <2> DEFINE p == M * m
             q == M * (m + 1)
  <2>3. p \in Int /\ q \in Int
    OBVIOUS
  <2> HIDE DEF p, q
  <2>4. p = -M + q /\ q <= 0 /\ -M < p
    BY <2>1, <2>2 DEF p, q
  <2> QED BY <2>3, <2>4
<1> QED BY <1>1, <1>2

LEMMA WrapQuotient ==
  ASSUME NEW x \in Int
  PROVE  \E q \in Int : Wrap(x) = x - (2 * Half) * q
<1> DEFINE M == 2 * Half
           y == x + Half
           q == y \div M
<1>1. M \in Nat \ {0} /\ y \in Int /\ Half \in Int
  BY SchedulerAssumption
<1>2. Wrap(x) = (y % M) - Half
  BY DEF Wrap
<1>3. y = x + Half
  OBVIOUS
<1> HIDE DEF M, y
<1>4. q \in Int /\ y % M \in Int /\ y = M * q + (y % M)
  BY <1>1
<1> DEFINE p == M * q
           r == y % M
<1>5. p \in Int
  BY <1>1, <1>4
<1> HIDE DEF p, r, q
<1>6. Wrap(x) = x - p
  BY <1>1, <1>2, <1>3, <1>4, <1>5 DEF p, r
<1> QED BY <1>4, <1>6 DEF p, M

\* What differs by whole turns wraps to the same.
LEMMA WrapTurns ==
  ASSUME NEW a \in Int, NEW b \in Int, NEW k \in Int, b = a - (2 * Half) * k
  PROVE  Wrap(b) = Wrap(a)
<1> DEFINE M == 2 * Half
<1>0. M \in Nat \ {0} /\ Half \in Nat \ {0} /\ M = 2 * Half
  BY SchedulerAssumption
<1>1. PICK q \in Int : Wrap(a) = a - M * q
  BY WrapQuotient
<1>2. PICK r \in Int : Wrap(b) = b - M * r
  BY WrapQuotient
<1>3. Wrap(a) \in (-Half) .. (Half - 1) /\ Wrap(b) \in (-Half) .. (Half - 1)
  BY WrapInRange DEF I32
<1>b. b = a - M * k
  OBVIOUS
<1> HIDE DEF M
<1> DEFINE wa == Wrap(a)
           wb == Wrap(b)
           m == (q - k) - r
<1>4. wa \in (-Half) .. (Half - 1) /\ wb \in (-Half) .. (Half - 1)
  BY <1>3
<1> HIDE DEF wa, wb
<1>5. M * m = ((M * q) - (M * k)) - (M * r)
  BY <1>0
<1> DEFINE pq == M * q
           pk == M * k
           pr == M * r
           pm == M * m
<1>6. pq \in Int /\ pk \in Int /\ pr \in Int /\ pm \in Int /\ m \in Int
  BY <1>0
<1>7. wa = a - pq /\ wb = b - pr /\ b = a - pk /\ pm = (pq - pk) - pr
  BY <1>1, <1>2, <1>5, <1>b DEF wa, wb
<1> HIDE DEF pq, pk, pr, pm, m
<1>8. pm = wb - wa
  BY <1>4, <1>6, <1>7, <1>0
<1>9. pm < M /\ -M < pm
  BY <1>0, <1>4, <1>8
<1>10. m = 0
  BY <1>0, <1>6, <1>9, MultipleIsZero DEF pm
<1>11. pm = 0
  BY <1>0, <1>10 DEF pm
<1>12. wa = wb
  BY <1>0, <1>4, <1>8, <1>11
<1> QED BY <1>12 DEF wa, wb

\* It makes no difference whether a running total wraps at every step or only
\* at the end.
LEMMA WrapLate ==
  ASSUME NEW a \in Int, NEW b \in Int
  PROVE  Wrap(Wrap(a) + b) = Wrap(a + b) /\ Wrap(Wrap(a) - b) = Wrap(a - b)
<1>1. PICK q \in Int : Wrap(a) = a - (2 * Half) * q
  BY WrapQuotient
<1> DEFINE p == (2 * Half) * q
           wa == Wrap(a)
<1>2. p \in Int /\ wa \in Int
  BY SchedulerAssumption, WrapInRange
<1> HIDE DEF p, wa
<1>3. wa = a - p
  BY <1>1 DEF p, wa
<1>4. wa + b = (a + b) - p /\ wa - b = (a - b) - p
  BY <1>2, <1>3
<1>5. wa + b \in Int /\ a + b \in Int /\ wa - b \in Int /\ a - b \in Int
  BY <1>2
<1>6. Wrap(wa + b) = Wrap(a + b)
  <2>1. wa + b = (a + b) - (2 * Half) * q
    BY <1>4 DEF p
  <2> QED BY <1>5, <2>1, WrapTurns
<1>7. Wrap(wa - b) = Wrap(a - b)
  <2>1. wa - b = (a - b) - (2 * Half) * q
    BY <1>4 DEF p
  <2> QED BY <1>5, <2>1, WrapTurns
<1> QED BY <1>6, <1>7 DEF wa

----------------------------------------------------------------------------
(* Running totals that wrap, and the true ones.                            *)

LEMMA MinusType ==
  ASSUME NEW a, NEW b, \A d \in Dimension : a[d] \in Int /\ b[d] \in Int
  PROVE  /\ Minus(a, b) \in [Dimension -> Int] /\ Plus(a, b) \in [Dimension -> Int]
         /\ \A d \in Dimension : Minus(a, b)[d] = Wrap(a[d] - b[d])
         /\ \A d \in Dimension : Plus(a, b)[d] = Wrap(a[d] + b[d])
<1>1. \A d \in Dimension : a[d] - b[d] \in Int /\ a[d] + b[d] \in Int
  OBVIOUS
<1> QED BY <1>1, WrapInRange DEF Minus, Plus

\* desired_count is the number of instances the groups want, wrapped.
LEMMA DesiredIsTotal ==
  ASSUME NEW G, NEW groups \in Seq(G), \A i \in DOMAIN groups : groups[i].count \in Int
  PROVE  DesiredCount(groups) = Wrap(TotalCount(groups))
<1> DEFINE n == Len(groups)
           c == [i \in DOMAIN groups |-> groups[i].count]
           Count(i) == IF i \in 1 .. n THEN groups[i].count ELSE 0
           F == [y \in Int \X Nat |-> Wrap(y[1] + Count(y[2]))]
           Adds(g) == g = [i \in 0 .. n |-> IF i = 0 THEN 0 ELSE Wrap(g[i - 1] + groups[i].count)]
           f == CHOOSE g : Adds(g)
<1>0. n \in Nat /\ DOMAIN groups = 1 .. n /\ \A i \in 1 .. n : groups[i].count \in Int
  OBVIOUS
<1>1. DesiredCount(groups) = f[n]
  BY DEF DesiredCount
<1>2. PICK sum \in [0 .. n -> Int] :
        /\ sum[0] = 0
        /\ \A i \in 1 .. n : sum[i] = sum[i - 1] + c[i]
        /\ SumFunctionOnSet(c, 1 .. n) = sum[n]
  <2>1. \A i \in 1 .. n : c[i] \in Int
    BY <1>0
  <2> HIDE DEF c, n
  <2> QED BY <1>0, <2>1, PrefixSums
<1>3. TotalCount(groups) = sum[n]
  BY <1>0, <1>2 DEF TotalCount, CountOf
<1>4. IsStep(F, Int) /\ \A b \in Int, i \in Nat : F[<<b, i>>] = Wrap(b + Count(i))
  <2>1. \A i : Count(i) \in Int
    BY <1>0
  <2> HIDE DEF Count
  <2>2. \A b \in Int, i \in Nat : Wrap(b + Count(i)) \in Int
    BY <2>1, WrapInRange
  <2> QED BY <2>2 DEF IsStep
<1> HIDE DEF n
<1>5. PICK g \in [0 .. n -> Int] : g[0] = 0 /\ \A i \in 1 .. n : g[i] = F[<<g[i - 1], i>>]
  <2> HIDE DEF F
  <2>0. 0 \in Int
    OBVIOUS
  <2>1. \E g : Unfolds(g, Int, 0, F, n)
    BY <1>0, <1>4, <2>0, RecursionExists
  <2> QED BY <2>1 DEF Unfolds
<1>6. ASSUME NEW i \in 1 .. n PROVE g[i] = Wrap(g[i - 1] + groups[i].count)
  <2>1. i \in Nat /\ i - 1 \in 0 .. n /\ Count(i) = groups[i].count
    BY <1>0
  <2>2. g[i - 1] \in Int
    BY <2>1
  <2> HIDE DEF F, Count
  <2> QED BY <1>4, <1>5, <2>1, <2>2
<1> HIDE DEF F, Count
<1>7. Adds(g)
  BY <1>5, <1>6
<1>8. Adds(f)
  BY <1>7
<1>9. f[0] = 0 /\ \A i \in 1 .. n : f[i] = Wrap(f[i - 1] + groups[i].count)
  <2> HIDE DEF f
  <2>1. \A i \in 0 .. n : f[i] = IF i = 0 THEN 0 ELSE Wrap(f[i - 1] + groups[i].count)
    BY <1>8
  <2>2. 0 \in 0 .. n /\ \A i \in 1 .. n : i \in 0 .. n /\ i # 0
    BY <1>0
  <2> HIDE DEF Adds, n
  <2> QED BY <2>1, <2>2
<1> HIDE DEF f, Adds
<1> DEFINE A == {i \in Nat : i <= n => f[i] = Wrap(sum[i])}
<1>10. 0 \in A
  <2>1. Wrap(0) = 0
    <3>1. 0 \in I32
      BY SchedulerAssumption DEF I32
    <3> QED BY <3>1, WrapSame
  <2> QED BY <1>2, <1>9, <2>1
<1>11. ASSUME NEW i \in Nat, i \in A PROVE i + 1 \in A
  <2> SUFFICES ASSUME i + 1 <= n PROVE f[i + 1] = Wrap(sum[i + 1])
    OBVIOUS
  <2>1. i + 1 \in 1 .. n /\ (i + 1) - 1 = i /\ i \in 0 .. n /\ f[i] = Wrap(sum[i])
    BY <1>0, <1>11
  <2>2. f[i + 1] = Wrap(Wrap(sum[i]) + groups[i + 1].count)
    BY <1>9, <2>1
  <2>3. sum[i] \in Int /\ groups[i + 1].count \in Int /\ sum[i + 1] = sum[i] + groups[i + 1].count
    BY <1>0, <1>2, <2>1
  <2> QED BY <2>2, <2>3, WrapLate
<1> HIDE DEF A
<1>12. n \in A
  BY <1>0, <1>10, <1>11, SetInduction
<1> QED BY <1>0, <1>1, <1>3, <1>12 DEF A

\* group_resources is what the tasks of the group need, wrapped.
LEMMA DemandIsSum ==
  ASSUME NEW group, NEW T, group.tasks \in Seq(T),
         \A i \in DOMAIN group.tasks : \A d \in Dimension : group.tasks[i].resources[d] \in Int
  PROVE  /\ GroupDemand(group) \in [Dimension -> Int]
         /\ \A d \in Dimension : GroupDemand(group)[d] = Wrap(Demand(group, d))
<1> DEFINE tasks == group.tasks
           n == Len(tasks)
           U == [Dimension -> Int]
           r == [i \in DOMAIN tasks |-> tasks[i].resources]
           Step(v, i) == IF i \in 1 .. n THEN Plus(v, r[i]) ELSE v
           F == [y \in U \X Nat |-> Step(y[1], y[2])]
           Adds(g) == g = [i \in 0 .. n |-> IF i = 0 THEN NoResources ELSE Plus(g[i - 1], tasks[i].resources)]
           f == CHOOSE g : Adds(g)
<1>0. n \in Nat /\ DOMAIN tasks = 1 .. n
  OBVIOUS
<1>r. \A i \in 1 .. n : r[i] = tasks[i].resources /\ \A d \in Dimension : r[i][d] \in Int
  BY <1>0
<1>1. GroupDemand(group) = f[n]
  BY DEF GroupDemand
<1>2. IsStep(F, U) /\ \A v \in U, i \in Nat : F[<<v, i>>] = Step(v, i)
  <2>1. ASSUME NEW v \in U, NEW i \in Nat PROVE Step(v, i) \in U
    <3>1. CASE i \in 1 .. n
      <4>1. \A d \in Dimension : v[d] \in Int /\ r[i][d] \in Int
        BY <1>r, <3>1
      <4> HIDE DEF r
      <4> QED BY <3>1, <4>1, MinusType
    <3> QED BY <3>1
  <2> HIDE DEF Step, U
  <2> QED BY <2>1 DEF IsStep
<1>3. NoResources \in U
  BY DEF NoResources
<1> HIDE DEF n, r, F
<1>5. PICK g \in [0 .. n -> U] : g[0] = NoResources /\ \A i \in 1 .. n : g[i] = F[<<g[i - 1], i>>]
  <2> HIDE DEF U
  <2>1. \E g : Unfolds(g, U, NoResources, F, n)
    BY <1>0, <1>2, <1>3, RecursionExists
  <2> QED BY <2>1 DEF Unfolds
<1>6. ASSUME NEW i \in 1 .. n PROVE g[i] = Plus(g[i - 1], tasks[i].resources)
  <2>1. i \in Nat /\ i - 1 \in 0 .. n /\ Step(g[i - 1], i) = Plus(g[i - 1], tasks[i].resources)
    BY <1>0, <1>r
  <2>2. g[i - 1] \in U
    BY <2>1
  <2> HIDE DEF Step, U
  <2> QED BY <1>2, <1>5, <2>1, <2>2
<1> HIDE DEF Step
<1>7. Adds(g)
  <2> HIDE DEF U
  <2> QED BY <1>5, <1>6
<1>8. Adds(f)
  BY <1>7
<1>9. f[0] = NoResources /\ \A i \in 1 .. n : f[i] = Plus(f[i - 1], r[i])
  <2> HIDE DEF f
  <2>1. \A i \in 0 .. n : f[i] = IF i = 0 THEN NoResources ELSE Plus(f[i - 1], tasks[i].resources)
    BY <1>8
  <2> HIDE DEF Adds
  <2> QED BY <1>0, <1>r, <2>1
<1> HIDE DEF f, Adds, tasks
<1> DEFINE B == {i \in Nat : i <= n => f[i] \in U}
<1>10. 0 \in B
  BY <1>3, <1>9
<1>11. ASSUME NEW i \in Nat, i \in B PROVE i + 1 \in B
  <2> SUFFICES ASSUME i + 1 <= n PROVE f[i + 1] \in U
    OBVIOUS
  <2>1. i + 1 \in 1 .. n /\ (i + 1) - 1 = i /\ i \in 0 .. n /\ f[i] \in U
    BY <1>0, <1>11
  <2>2. f[i + 1] = Plus(f[i], r[i + 1])
    BY <1>9, <2>1
  <2>3. \A d \in Dimension : f[i][d] \in Int /\ r[i + 1][d] \in Int
    BY <1>r, <2>1
  <2> QED BY <2>2, <2>3, MinusType
<1> HIDE DEF B
<1>12. \A i \in 0 .. n : f[i] \in U
  <2>1. Nat \subseteq B
    BY <1>10, <1>11, SetInduction
  <2> QED BY <1>0, <2>1 DEF B
<1>13. ASSUME NEW d \in Dimension PROVE f[n][d] = Wrap(Demand(group, d))
  <2> DEFINE c == [i \in DOMAIN group.tasks |-> group.tasks[i].resources[d]]
  <2>0. DOMAIN group.tasks = 1 .. n /\ \A i \in 1 .. n : c[i] = r[i][d] /\ c[i] \in Int
    BY <1>0, <1>r DEF tasks
  <2>c. DOMAIN c = DOMAIN group.tasks /\ Demand(group, d) = SumFunction(c)
    BY DEF Demand
  <2> HIDE DEF c
  <2>1. PICK sum \in [0 .. n -> Int] :
          /\ sum[0] = 0
          /\ \A i \in 1 .. n : sum[i] = sum[i - 1] + c[i]
          /\ SumFunctionOnSet(c, 1 .. n) = sum[n]
    BY <1>0, <2>0, PrefixSums
  <2>2. Demand(group, d) = sum[n]
    <3>1. SumFunction(c) = SumFunctionOnSet(c, DOMAIN c)
      BY DEF SumFunction, SumFunctionOnSet, FoldFunction
    <3> QED BY <2>0, <2>c, <2>1, <3>1
  <2> DEFINE A == {i \in Nat : i <= n => f[i][d] = Wrap(sum[i])}
  <2>10. 0 \in A
    <3>1. Wrap(0) = 0
      <4>1. 0 \in I32
        BY SchedulerAssumption DEF I32
      <4> QED BY <4>1, WrapSame
    <3> QED BY <1>9, <2>1, <3>1 DEF NoResources
  <2>11. ASSUME NEW i \in Nat, i \in A PROVE i + 1 \in A
    <3> SUFFICES ASSUME i + 1 <= n PROVE f[i + 1][d] = Wrap(sum[i + 1])
      OBVIOUS
    <3>1. i + 1 \in 1 .. n /\ (i + 1) - 1 = i /\ i \in 0 .. n /\ f[i][d] = Wrap(sum[i])
      BY <1>0, <2>11
    <3>2. f[i + 1] = Plus(f[i], r[i + 1])
      BY <1>9, <3>1
    <3>3. sum[i] \in Int /\ r[i + 1][d] \in Int /\ sum[i + 1] = sum[i] + r[i + 1][d]
      BY <2>0, <2>1, <3>1
    <3>4. \A x \in Dimension : f[i][x] \in Int /\ r[i + 1][x] \in Int
      <4>1. f[i] \in U
        BY <1>12, <3>1
      <4> QED BY <1>r, <3>1, <4>1
    <3>5. f[i + 1][d] = Wrap(Wrap(sum[i]) + r[i + 1][d])
      BY <3>1, <3>2, <3>4, MinusType
    <3>6. Wrap(Wrap(sum[i]) + r[i + 1][d]) = Wrap(sum[i] + r[i + 1][d])
      BY <3>3, WrapLate
    <3> QED BY <3>3, <3>5, <3>6
  <2> HIDE DEF A
  <2>12. n \in A
    BY <1>0, <2>10, <2>11, SetInduction
  <2>13. f[n][d] = Wrap(sum[n])
    BY <1>0, <2>12 DEF A
  <2> QED BY <2>2, <2>13
<1>14. f[n] \in U
  BY <1>0, <1>12
<1> QED BY <1>1, <1>13, <1>14

\* node_free_capacity is what the node has, less what its live allocations
\* hold, wrapped.
LEMMA FreeIsDifference ==
  ASSUME NEW n, NEW nodes, NEW allocs, nodes[n].resources \in [Dimension -> I32],
         IsFiniteSet(LiveOn(n, allocs)),
         \A id \in LiveOn(n, allocs) : \A d \in Dimension : allocs[id].resources[d] \in Int
  PROVE  /\ FreeCapacity(n, nodes, allocs) \in [Dimension -> Int]
         /\ \A d \in Dimension : FreeCapacity(n, nodes, allocs)[d]
              = Wrap(nodes[n].resources[d] - Holding(LiveOn(n, allocs), d, allocs))
<1> DEFINE S == LiveOn(n, allocs)
           base == nodes[n].resources
           r == [id \in DOMAIN allocs |-> allocs[id].resources]
           U == [Dimension -> Int]
           F == [y \in S \X U |-> Minus(y[2], r[y[1]])]
           Takes(g) == g = [s \in SUBSET S |->
                              IF s = {} THEN base
                              ELSE Minus(g[s \ {CHOOSE x \in s : TRUE}], r[CHOOSE x \in s : TRUE])]
           h == CHOOSE g : Takes(g)
<1>0. S \subseteq DOMAIN allocs /\ \A x \in S : r[x] = allocs[x].resources /\ \A d \in Dimension : r[x][d] \in Int
  BY DEF LiveOn
<1>b. base \in U /\ \A d \in Dimension : base[d] \in I32 /\ base[d] \in Int
  BY SchedulerAssumption DEF I32
<1>1. FreeCapacity(n, nodes, allocs) = h[S]
  BY DEF FreeCapacity, FoldFunctionOnSet, MapThenFoldSet
<1> HIDE DEF S, base, r
<1>2. F \in [S \X U -> U] /\ \A x \in S, v \in U : F[<<x, v>>] = Minus(v, r[x])
  <2>1. ASSUME NEW x \in S, NEW v \in U PROVE Minus(v, r[x]) \in U
    <3>1. \A d \in Dimension : v[d] \in Int /\ r[x][d] \in Int
      BY <1>0
    <3> QED BY <3>1, MinusType
  <2> HIDE DEF U
  <2> QED BY <2>1
<1> HIDE DEF F
<1>3. PICK g \in [SUBSET S -> U] : IsFold(g, S, base, F)
  <2> HIDE DEF U
  <2>1. IsFiniteSet(S)
    BY DEF S
  <2> QED BY <1>2, <1>b, <2>1, FoldExists
<1>4. g[{}] = base /\ \A s \in SUBSET S : s # {} => g[s] = Minus(g[s \ {First(s)}], r[First(s)])
  <2>1. ASSUME NEW s \in SUBSET S, s # {} PROVE g[s] = Minus(g[s \ {First(s)}], r[First(s)])
    <3>1. First(s) \in S /\ s \ {First(s)} \in SUBSET S
      BY <2>1, FirstIsIn
    <3>2. g[s \ {First(s)}] \in U /\ g[s] = F[<<First(s), g[s \ {First(s)}]>>]
      <4> HIDE DEF U
      <4> QED BY <1>3, <2>1, <3>1 DEF IsFold
    <3> HIDE DEF U
    <3> QED BY <1>2, <3>1, <3>2
  <2> QED BY <1>3, <2>1 DEF IsFold
<1>5. Takes(g)
  <2> HIDE DEF U
  <2>1. \A s \in SUBSET S : g[s] = IF s = {} THEN base ELSE Minus(g[s \ {First(s)}], r[First(s)])
    BY <1>4
  <2> QED BY <1>3, <2>1 DEF First
<1>6. Takes(h)
  BY <1>5
<1> HIDE DEF h
<1>7. \A s \in SUBSET S : h[s] = IF s = {} THEN base ELSE Minus(h[s \ {First(s)}], r[First(s)])
  BY <1>6 DEF First
<1> HIDE DEF Takes
<1>f. IsFiniteSet(S)
  BY DEF S
<1> DEFINE Q == {s \in SUBSET S : h[s] = g[s]}
<1>8. {} \in Q
  BY <1>4, <1>7
<1>9. ASSUME NEW s \in SUBSET S, s # {}, \A x \in s : s \ {x} \in Q PROVE s \in Q
  <2>1. h[s \ {First(s)}] = g[s \ {First(s)}]
    BY <1>9, FirstIsIn
  <2> QED BY <1>4, <1>7, <1>9, <2>1
<1> HIDE DEF Q
<1>10. SUBSET S \subseteq Q
  BY <1>f, <1>8, <1>9, SubsetInduction
<1>11. h[S] = g[S] /\ g[S] \in U
  <2> HIDE DEF U
  <2> QED BY <1>3, <1>10 DEF Q
<1>12. ASSUME NEW d \in Dimension PROVE g[S][d] = Wrap(base[d] - Holding(S, d, allocs))
  <2> DEFINE c == [id \in DOMAIN allocs |-> allocs[id].resources[d]]
  <2>0. \A x \in S : c[x] = r[x][d] /\ c[x] \in Int
    BY <1>0
  <2>h. Holding(S, d, allocs) = SumFunctionOnSet(c, S)
    BY DEF Holding
  <2> HIDE DEF c
  <2>1. PICK k : Sums(k, S, c) /\ SumFunctionOnSet(c, S) = k[S]
    BY <1>f, <2>0, SumSteps
  <2> DEFINE P == {s \in SUBSET S : g[s][d] = Wrap(base[d] - k[s])}
  <2>2. {} \in P
    <3>1. k[{}] = 0
      BY <2>1 DEF Sums
    <3>2. base[d] \in I32 /\ base[d] - 0 = base[d]
      BY <1>b
    <3> QED BY <1>4, <3>1, <3>2, WrapSame
  <2>3. ASSUME NEW s \in SUBSET S, s # {}, \A x \in s : s \ {x} \in P PROVE s \in P
    <3> DEFINE x == First(s)
               t == s \ {x}
    <3>1. x \in S /\ t \in SUBSET S /\ g[t][d] = Wrap(base[d] - k[t])
      BY <2>3, FirstIsIn
    <3>2. g[s] = Minus(g[t], r[x]) /\ k[s] = c[x] + k[t]
      BY <1>4, <2>1, <2>3 DEF Sums
    <3>3. k[t] \in Int /\ c[x] \in Int /\ c[x] = r[x][d] /\ base[d] \in Int
      BY <1>b, <2>0, <2>1, <3>1 DEF Sums
    <3> HIDE DEF t, x
    <3>4. g[s][d] = Wrap(Wrap(base[d] - k[t]) - c[x])
      BY <3>1, <3>2, <3>3 DEF Minus
    <3>5. base[d] - k[t] \in Int /\ (base[d] - k[t]) - c[x] = base[d] - k[s]
      BY <3>2, <3>3
    <3>6. g[s][d] = Wrap((base[d] - k[t]) - c[x])
      BY <3>3, <3>4, <3>5, WrapLate
    <3> QED BY <3>5, <3>6
  <2> HIDE DEF P
  <2>4. SUBSET S \subseteq P
    BY <1>f, <2>2, <2>3, SubsetInduction
  <2> QED BY <2>1, <2>4, <2>h DEF P
<1>13. FreeCapacity(n, nodes, allocs) \in U
  BY <1>1, <1>11
<1>14. \A d \in Dimension : FreeCapacity(n, nodes, allocs)[d] = Wrap(base[d] - Holding(S, d, allocs))
  BY <1>1, <1>11, <1>12
<1> QED BY <1>13, <1>14 DEF S, base

----------------------------------------------------------------------------
(* Whom process_eval picks.                                                *)

\* find() returns one of the nodes it looks for.
LEMMA FirstOfFinds ==
  ASSUME NEW N, NEW order \in Seq(N), NEW S, NEW x \in DOMAIN order, order[x] \in S
  PROVE  FirstOf(S, order) \in S
<1> DEFINE T == {i \in DOMAIN order : order[i] \in S}
           IsFirst(i) == order[i] \in S /\ \A k \in 1 .. (i - 1) : order[k] \notin S
<1>1. T \subseteq Nat /\ T # {} /\ DOMAIN order = 1 .. Len(order)
  OBVIOUS
<1>2. PICK i \in T : \A k \in T : i <= k
  BY <1>1, LeastNat
<1>3. IsFirst(i) /\ i \in DOMAIN order
  BY <1>1, <1>2
<1>4. \E k \in DOMAIN order : IsFirst(k)
  BY <1>3
<1>5. IsFirst(CHOOSE k \in DOMAIN order : IsFirst(k))
  BY <1>4
<1> QED BY <1>5 DEF FirstOf

\* The best one so far is a candidate, as soon as there is one.
LEMMA BestOfFinds ==
  ASSUME NEW N, NEW order \in Seq(N), NEW S, NEW x \in DOMAIN order, order[x] \in S,
         NEW free, NEW need, NEW group, NEW nodes, NEW allocs
  PROVE  BestOf(S, free, need, group, nodes, allocs, order) \in S
<1> DEFINE limit == Len(order)
           score(i) == ScoreNode(order[i], free[order[i]], need, group, nodes, allocs)
           Better(b, i) == IF order[i] \in S /\ (b = 0 \/ FracLess(score(b), score(i))) THEN i ELSE b
           IsBest(g) == g = [i \in 0 .. limit |-> IF i = 0 THEN 0 ELSE Better(g[i - 1], i)]
           F == [y \in Nat \X Nat |-> Better(y[1], y[2])]
           f == CHOOSE g : IsBest(g)
           A == {i \in Nat : i <= limit =>
                   \/ f[i] = 0 /\ \A k \in 1 .. i : order[k] \notin S
                   \/ f[i] \in 1 .. i /\ order[f[i]] \in S}
<1>0. limit \in Nat /\ DOMAIN order = 1 .. limit
  OBVIOUS
<1>1. BestOf(S, free, need, group, nodes, allocs, order) = order[f[limit]]
  BY DEF BestOf
<1> HIDE DEF score, limit
<1>2. IsStep(F, Nat) /\ \A b, i \in Nat : F[<<b, i>>] = Better(b, i)
  BY DEF IsStep
<1> HIDE DEF F
<1>3. PICK g \in [0 .. limit -> Nat] : g[0] = 0 /\ \A i \in 1 .. limit : g[i] = F[<<g[i - 1], i>>]
  <2>1. \E g : Unfolds(g, Nat, 0, F, limit)
    BY <1>0, <1>2, RecursionExists
  <2> QED BY <2>1 DEF Unfolds
<1>4. ASSUME NEW i \in 1 .. limit PROVE g[i] = Better(g[i - 1], i)
  <2>1. i \in Nat /\ i - 1 \in 0 .. limit
    BY <1>0
  <2>2. g[i - 1] \in Nat
    BY <2>1
  <2> HIDE DEF Better
  <2> QED BY <1>2, <1>3, <2>1, <2>2
<1> HIDE DEF Better
<1>5. IsBest(g)
  BY <1>3, <1>4
<1>6. IsBest(f)
  BY <1>5
<1>7. f[0] = 0 /\ \A i \in 1 .. limit : f[i] = Better(f[i - 1], i)
  <2> HIDE DEF f
  <2>1. \A i \in 0 .. limit : f[i] = IF i = 0 THEN 0 ELSE Better(f[i - 1], i)
    BY <1>6
  <2> HIDE DEF IsBest
  <2> QED BY <1>0, <2>1
<1> HIDE DEF f, IsBest
<1>8. 0 \in A
  BY <1>7
<1>9. ASSUME NEW i \in Nat, i \in A PROVE i + 1 \in A
  <2> SUFFICES ASSUME i + 1 <= limit
               PROVE  \/ f[i + 1] = 0 /\ \A k \in 1 .. (i + 1) : order[k] \notin S
                      \/ f[i + 1] \in 1 .. (i + 1) /\ order[f[i + 1]] \in S
    OBVIOUS
  <2>1. /\ i + 1 \in 1 .. limit /\ (i + 1) - 1 = i
        /\ \/ f[i] = 0 /\ \A k \in 1 .. i : order[k] \notin S
           \/ f[i] \in 1 .. i /\ order[f[i]] \in S
    BY <1>0, <1>9
  <2>2. f[i + 1] = Better(f[i], i + 1)
    BY <1>7, <2>1
  <2> QED BY <2>1, <2>2 DEF Better
<1> HIDE DEF A
<1>10. limit \in A
  BY <1>0, <1>8, <1>9, SetInduction
<1>11. order[f[limit]] \in S
  BY <1>0, <1>10 DEF A
<1> QED BY <1>1, <1>11

\* The node that takes the next instance is one of the candidates.
LEMMA PickFinds ==
  ASSUME NEW N, NEW order \in Seq(N), NEW S, S # {}, S \subseteq {order[i] : i \in DOMAIN order},
         NEW free, NEW need, NEW group, NEW nodes, NEW allocs
  PROVE  Pick(S, free, need, group, nodes, allocs, order) \in S
<1>1. PICK x \in DOMAIN order : order[x] \in S
  OBVIOUS
<1> QED BY <1>1, FirstOfFinds, BestOfFinds DEF Pick

----------------------------------------------------------------------------
(* What a plan consists of.                                                *)

\* PlaceGroup goes on from one instance to the next.
LEMMA PlaceGroupSteps ==
  ASSUME NEW acc, NEW group, group.count \in Nat, NEW nodes, NEW allocs, NEW order
  PROVE  \E f : /\ f[0] = acc
                /\ \A i \in 1 .. group.count : f[i] = PlaceOne(f[i - 1], group, nodes, allocs, order)
                /\ PlaceGroup(acc, group, nodes, allocs, order) = f[group.count]
<1> DEFINE limit == group.count
           One(a) == PlaceOne(a, group, nodes, allocs, order)
           Runs(g, m) == g = [i \in 0 .. m |-> IF i = 0 THEN acc ELSE One(g[i - 1])]
           f == CHOOSE g : Runs(g, limit)
           M == {m \in Nat : \E g : Runs(g, m)}
<1>1. PlaceGroup(acc, group, nodes, allocs, order) = f[limit]
  BY DEF PlaceGroup
<1> HIDE DEF One, limit
<1>3. 0 \in M
  <2> DEFINE g == [i \in 0 .. 0 |-> acc]
  <2>1. Runs(g, 0)
    OBVIOUS
  <2> QED BY <2>1
<1>4. ASSUME NEW m \in Nat, m \in M PROVE m + 1 \in M
  <2>1. PICK g : Runs(g, m)
    BY <1>4
  <2> DEFINE h == [i \in 0 .. (m + 1) |-> IF i = m + 1 THEN One(g[m]) ELSE g[i]]
  <2>2. ASSUME NEW i \in 0 .. (m + 1) PROVE h[i] = IF i = 0 THEN acc ELSE One(h[i - 1])
    <3>1. CASE i = 0
      BY <2>1, <3>1
    <3>2. CASE i # 0 /\ i # m + 1
      <4>1. i \in 0 .. m /\ i - 1 \in 0 .. (m + 1) /\ i - 1 # m + 1
        BY <3>2
      <4>2. g[i] = One(g[i - 1])
        BY <2>1, <3>2, <4>1
      <4> QED BY <3>2, <4>1, <4>2
    <3>3. CASE i = m + 1
      <4>1. i # 0 /\ i - 1 = m /\ m \in 0 .. (m + 1) /\ m # m + 1
        BY <3>3
      <4> QED BY <3>3, <4>1
    <3> QED BY <3>1, <3>2, <3>3
  <2>3. h = [i \in 0 .. (m + 1) |-> h[i]]
    OBVIOUS
  <2> HIDE DEF h
  <2>4. Runs(h, m + 1)
    BY <2>2, <2>3
  <2> QED BY <2>4
<1>5. limit \in Nat
  BY DEF limit
<1>6. limit \in M
  <2> HIDE DEF M
  <2> QED BY <1>3, <1>4, <1>5, SetInduction
<1>7. Runs(f, limit)
  BY <1>6
<1>8. f[0] = acc /\ \A i \in 1 .. limit : f[i] = One(f[i - 1])
  <2> HIDE DEF f
  <2>1. \A i \in 0 .. limit : f[i] = IF i = 0 THEN acc ELSE One(f[i - 1])
    BY <1>7
  <2> HIDE DEF Runs
  <2> QED BY <1>5, <2>1
<1> HIDE DEF f
<1> QED BY <1>1, <1>8 DEF One, limit

\* ProcessEval goes on from one group to the next.
LEMMA ProcessEvalSteps ==
  ASSUME NEW G, NEW groups \in Seq(G), NEW nodes, NEW allocs, NEW order
  PROVE  \E f : /\ f[0] = StartPlan(nodes, allocs)
                /\ \A i \in 1 .. Len(groups) : f[i] = PlaceGroup(f[i - 1], groups[i], nodes, allocs, order)
                /\ ProcessEval(groups, nodes, allocs, order) = f[Len(groups)].plan
<1> DEFINE limit == Len(groups)
           start == StartPlan(nodes, allocs)
           Group(a, i) == PlaceGroup(a, groups[i], nodes, allocs, order)
           Runs(g, m) == g = [i \in 0 .. m |-> IF i = 0 THEN start ELSE Group(g[i - 1], i)]
           f == CHOOSE g : Runs(g, limit)
           M == {m \in Nat : \E g : Runs(g, m)}
<1>0. limit \in Nat
  OBVIOUS
<1>1. ProcessEval(groups, nodes, allocs, order) = f[limit].plan
  BY DEF ProcessEval
<1> HIDE DEF Group, limit, start
<1>5. 0 \in M
  <2> DEFINE g == [i \in 0 .. 0 |-> start]
  <2>1. Runs(g, 0)
    OBVIOUS
  <2> QED BY <2>1
<1>6. ASSUME NEW m \in Nat, m \in M PROVE m + 1 \in M
  <2>1. PICK g : Runs(g, m)
    BY <1>6
  <2> DEFINE h == [i \in 0 .. (m + 1) |-> IF i = m + 1 THEN Group(g[m], i) ELSE g[i]]
  <2>2. ASSUME NEW i \in 0 .. (m + 1) PROVE h[i] = IF i = 0 THEN start ELSE Group(h[i - 1], i)
    <3>1. CASE i = 0
      BY <2>1, <3>1
    <3>2. CASE i # 0 /\ i # m + 1
      <4>1. i \in 0 .. m /\ i - 1 \in 0 .. (m + 1) /\ i - 1 # m + 1
        BY <3>2
      <4>2. g[i] = Group(g[i - 1], i)
        BY <2>1, <3>2, <4>1
      <4> QED BY <3>2, <4>1, <4>2
    <3>3. CASE i = m + 1
      <4>1. i # 0 /\ i - 1 = m /\ m \in 0 .. (m + 1) /\ m # m + 1
        BY <3>3
      <4> QED BY <3>3, <4>1
    <3> QED BY <3>1, <3>2, <3>3
  <2>3. h = [i \in 0 .. (m + 1) |-> h[i]]
    OBVIOUS
  <2> HIDE DEF h
  <2>4. Runs(h, m + 1)
    BY <2>2, <2>3
  <2> QED BY <2>4
<1>7. limit \in M
  <2> HIDE DEF M
  <2> QED BY <1>0, <1>5, <1>6, SetInduction
<1>8. Runs(f, limit)
  BY <1>7
<1>9. f[0] = start /\ \A i \in 1 .. limit : f[i] = Group(f[i - 1], i)
  <2> HIDE DEF f
  <2>1. \A i \in 0 .. limit : f[i] = IF i = 0 THEN start ELSE Group(f[i - 1], i)
    BY <1>8
  <2> HIDE DEF Runs
  <2> QED BY <1>0, <2>1
<1> HIDE DEF f
<1> QED BY <1>1, <1>9 DEF Group, limit, start

\* acc has a capacity for each node of E, and at most k placements, from P.
IsPartial(acc, E, P, k) ==
  DOMAIN acc.free = E /\ acc.plan \in Seq(P) /\ Len(acc.plan) <= k

\* P has every placement of the group on a node of E that meets its constraints.
HasRoomFor(P, group, E, nodes) ==
  \A n \in E : MeetsConstraints(nodes[n], group) => MakeAlloc(group, GroupDemand(group), n) \in P

\* r is acc with one more placement of the group, from P, on a candidate.
OneMore(acc, r, group, E, P, nodes) ==
  \E n \in E :
    /\ n \in Candidates(acc.free, group, GroupDemand(group), nodes)
    /\ MakeAlloc(group, GroupDemand(group), n) \in P
    /\ r = [free |-> [acc.free EXCEPT ![n] = Minus(@, GroupDemand(group))],
            plan |-> Append(acc.plan, MakeAlloc(group, GroupDemand(group), n))]

\* One more instance: nothing changes without a candidate, and with one there
\* is one more placement, on a candidate.
LEMMA PlaceOneEffect ==
  ASSUME NEW N, NEW order \in Seq(N), NEW E, E \subseteq {order[i] : i \in DOMAIN order},
         NEW P, NEW group, NEW acc, NEW nodes, HasRoomFor(P, group, E, nodes),
         DOMAIN acc.free = E, acc.plan \in Seq(P), NEW allocs
  PROVE  \/ /\ Candidates(acc.free, group, GroupDemand(group), nodes) = {}
            /\ PlaceOne(acc, group, nodes, allocs, order) = acc
         \/ OneMore(acc, PlaceOne(acc, group, nodes, allocs, order), group, E, P, nodes)
<1> DEFINE need == GroupDemand(group)
           S == Candidates(acc.free, group, need, nodes)
           n == Pick(S, acc.free, need, group, nodes, allocs, order)
           new == MakeAlloc(group, need, n)
           r == PlaceOne(acc, group, nodes, allocs, order)
<1>1. S \subseteq E /\ \A m \in S : MeetsConstraints(nodes[m], group)
  BY DEF Candidates
<1>2. CASE S = {}
  <2>1. r = acc
    BY <1>2 DEF PlaceOne
  <2> QED BY <1>2, <2>1
<1>3. CASE S # {}
  <2>1. r = [free |-> [acc.free EXCEPT ![n] = Minus(@, need)], plan |-> Append(acc.plan, new)]
    BY <1>3 DEF PlaceOne
  <2> HIDE DEF S, r
  <2>2. n \in S
    BY <1>1, <1>3, PickFinds
  <2>3. n \in E /\ new \in P
    BY <1>1, <2>2 DEF HasRoomFor
  <2> HIDE DEF n
  <2>4. OneMore(acc, r, group, E, P, nodes)
    BY <2>1, <2>2, <2>3 DEF OneMore, S
  <2> QED BY <2>4 DEF r
<1> QED BY <1>2, <1>3

LEMMA PlaceOneAdds ==
  ASSUME NEW N, NEW order \in Seq(N), NEW E, E \subseteq {order[i] : i \in DOMAIN order},
         NEW P, NEW group, NEW nodes, HasRoomFor(P, group, E, nodes),
         NEW k \in Nat, NEW acc, IsPartial(acc, E, P, k), NEW allocs
  PROVE  IsPartial(PlaceOne(acc, group, nodes, allocs, order), E, P, k + 1)
<1> DEFINE need == GroupDemand(group)
           r == PlaceOne(acc, group, nodes, allocs, order)
<1>1. DOMAIN acc.free = E /\ acc.plan \in Seq(P) /\ Len(acc.plan) <= k /\ Len(acc.plan) \in Nat
  BY DEF IsPartial
<1>2. CASE r = acc
  BY <1>1, <1>2 DEF IsPartial
<1>3. ASSUME NEW n \in E, MakeAlloc(group, need, n) \in P,
             r = [free |-> [acc.free EXCEPT ![n] = Minus(@, need)],
                  plan |-> Append(acc.plan, MakeAlloc(group, need, n))]
      PROVE  IsPartial(r, E, P, k + 1)
  <2> DEFINE new == MakeAlloc(group, need, n)
  <2>1. new \in P
    BY <1>3
  <2> HIDE DEF new
  <2>4. Append(acc.plan, new) \in Seq(P) /\ Len(Append(acc.plan, new)) <= k + 1
    BY <1>1, <2>1
  <2>5. DOMAIN [acc.free EXCEPT ![n] = Minus(@, need)] = E
    BY <1>1
  <2>6. r.plan = Append(acc.plan, new) /\ DOMAIN r.free = E
    BY <1>3, <2>5 DEF new
  <2> QED BY <2>4, <2>6 DEF IsPartial
<1>4. r = acc \/ OneMore(acc, r, group, E, P, nodes)
  BY <1>1, PlaceOneEffect
<1>5. ASSUME OneMore(acc, r, group, E, P, nodes) PROVE IsPartial(r, E, P, k + 1)
  BY <1>3, <1>5 DEF OneMore
<1> QED BY <1>2, <1>4, <1>5

\* The instances of a group add at most as many placements as it counts.
LEMMA PlaceGroupAdds ==
  ASSUME NEW N, NEW order \in Seq(N), NEW E, E \subseteq {order[i] : i \in DOMAIN order},
         NEW P, NEW group, NEW nodes, HasRoomFor(P, group, E, nodes), group.count \in Nat,
         NEW k \in Nat, NEW acc, IsPartial(acc, E, P, k), NEW allocs
  PROVE  IsPartial(PlaceGroup(acc, group, nodes, allocs, order), E, P, k + group.count)
<1> DEFINE limit == group.count
           One(a) == PlaceOne(a, group, nodes, allocs, order)
<1>1. PICK f : /\ f[0] = acc
               /\ \A i \in 1 .. limit : f[i] = One(f[i - 1])
               /\ PlaceGroup(acc, group, nodes, allocs, order) = f[limit]
  BY PlaceGroupSteps
<1>2. ASSUME NEW a, NEW m \in Nat, IsPartial(a, E, P, m) PROVE IsPartial(One(a), E, P, m + 1)
  BY <1>2, PlaceOneAdds
<1>5. limit \in Nat
  OBVIOUS
<1> HIDE DEF One, limit
<1> DEFINE A == {m \in Nat : m <= limit => IsPartial(f[m], E, P, k + m)}
<1>9. 0 \in A
  BY <1>1
<1>10. ASSUME NEW m \in Nat, m \in A PROVE m + 1 \in A
  <2> SUFFICES ASSUME m + 1 <= limit PROVE IsPartial(f[m + 1], E, P, k + (m + 1))
    OBVIOUS
  <2>1. /\ m + 1 \in 1 .. limit /\ (m + 1) - 1 = m /\ k + m \in Nat /\ (k + m) + 1 = k + (m + 1)
        /\ IsPartial(f[m], E, P, k + m)
    BY <1>5, <1>10
  <2>2. f[m + 1] = One(f[m])
    BY <1>1, <2>1
  <2> QED BY <1>2, <2>1, <2>2
<1> HIDE DEF A
<1>11. limit \in A
  BY <1>5, <1>9, <1>10, SetInduction
<1>12. IsPartial(f[limit], E, P, k + limit)
  BY <1>5, <1>11 DEF A
<1> QED BY <1>1, <1>12 DEF limit

\* TotalCount adds up the counts of the groups, one after the other.
LEMMA TotalSteps ==
  ASSUME NEW G, NEW groups \in Seq(G), \A i \in DOMAIN groups : groups[i].count \in Nat
  PROVE  \E sum \in [0 .. Len(groups) -> Nat] :
           /\ sum[0] = 0
           /\ \A i \in 1 .. Len(groups) : sum[i] = sum[i - 1] + groups[i].count
           /\ TotalCount(groups) = sum[Len(groups)]
<1> DEFINE limit == Len(groups)
           c == [i \in DOMAIN groups |-> groups[i].count]
<1>0. /\ limit \in Nat /\ DOMAIN groups = 1 .. limit
      /\ \A i \in 1 .. limit : c[i] \in Nat /\ c[i] \in Int /\ c[i] = groups[i].count
  OBVIOUS
<1>1. TotalCount(groups) = SumFunctionOnSet(c, 1 .. limit)
  BY <1>0 DEF TotalCount, CountOf
<1> HIDE DEF limit, c
<1>2. PICK sum \in [0 .. limit -> Int] :
        /\ sum[0] = 0
        /\ \A i \in 1 .. limit : sum[i] = sum[i - 1] + c[i]
        /\ SumFunctionOnSet(c, 1 .. limit) = sum[limit]
  BY <1>0, PrefixSums
<1> DEFINE A == {i \in Nat : i <= limit => sum[i] \in Nat}
<1>3. 0 \in A
  BY <1>2
<1>4. ASSUME NEW i \in Nat, i \in A PROVE i + 1 \in A
  <2> SUFFICES ASSUME i + 1 <= limit PROVE sum[i + 1] \in Nat
    OBVIOUS
  <2>1. i + 1 \in 1 .. limit /\ (i + 1) - 1 = i /\ sum[i] \in Nat
    BY <1>0, <1>4
  <2>2. sum[i + 1] = sum[i] + c[i + 1] /\ c[i + 1] \in Nat
    BY <1>0, <1>2, <2>1
  <2> QED BY <2>1, <2>2
<1> HIDE DEF A
<1>5. \A i \in 0 .. limit : sum[i] \in Nat
  <2>1. Nat \subseteq A
    BY <1>3, <1>4, SetInduction
  <2> QED BY <1>0, <2>1 DEF A
<1>6. sum \in [0 .. limit -> Nat]
  BY <1>5
<1>7. \A i \in 1 .. limit : sum[i] = sum[i - 1] + groups[i].count
  BY <1>0, <1>2
<1> QED BY <1>1, <1>2, <1>6, <1>7 DEF limit

\* The nodes that may be placed on.
Usable(nodes) == {m \in DOMAIN nodes : NodeEligible(nodes[m])}

\* The placements that a plan for these groups may consist of.
Placements(groups, nodes) ==
  UNION {{MakeAlloc(groups[i], GroupDemand(groups[i]), n) :
            n \in {m \in Usable(nodes) : MeetsConstraints(nodes[m], groups[i])}} :
         i \in DOMAIN groups}

LEMMA PlacementsHaveRoom ==
  ASSUME NEW groups, NEW nodes, NEW i \in DOMAIN groups
  PROVE  HasRoomFor(Placements(groups, nodes), groups[i], Usable(nodes), nodes)
  BY DEF HasRoomFor, Placements

\* Where a placement came from.
LEMMA PlacementOf ==
  ASSUME NEW groups, NEW nodes, NEW p \in Placements(groups, nodes)
  PROVE  \E i \in DOMAIN groups, n \in Usable(nodes) :
           /\ MeetsConstraints(nodes[n], groups[i])
           /\ p = MakeAlloc(groups[i], GroupDemand(groups[i]), n)
  BY DEF Placements

\* A plan consists of placements for the job's groups on nodes that may be
\* placed on, and has at most as many as the job wants.
LEMMA PlanFacts ==
  ASSUME NEW N, NEW order \in Seq(N), NEW nodes, DOMAIN nodes \subseteq {order[i] : i \in DOMAIN order},
         NEW G, NEW groups \in Seq(G), \A i \in DOMAIN groups : groups[i].count \in Nat,
         NEW allocs
  PROVE  /\ ProcessEval(groups, nodes, allocs, order) \in Seq(Placements(groups, nodes))
         /\ Len(ProcessEval(groups, nodes, allocs, order)) <= TotalCount(groups)
         /\ TotalCount(groups) \in Nat
<1> DEFINE limit == Len(groups)
           E == Usable(nodes)
           P == Placements(groups, nodes)
           Group(a, i) == PlaceGroup(a, groups[i], nodes, allocs, order)
<1>0. limit \in Nat /\ DOMAIN groups = 1 .. limit
  OBVIOUS
<1>1. PICK f : /\ f[0] = StartPlan(nodes, allocs)
               /\ \A i \in 1 .. limit : f[i] = Group(f[i - 1], i)
               /\ ProcessEval(groups, nodes, allocs, order) = f[limit].plan
  BY ProcessEvalSteps
<1>2. PICK sum \in [0 .. limit -> Nat] :
        /\ sum[0] = 0
        /\ \A i \in 1 .. limit : sum[i] = sum[i - 1] + groups[i].count
        /\ TotalCount(groups) = sum[limit]
  BY TotalSteps
<1>3. ASSUME NEW i \in 1 .. limit, NEW a, NEW k \in Nat, IsPartial(a, E, P, k)
      PROVE  IsPartial(Group(a, i), E, P, k + groups[i].count)
  <2>1. HasRoomFor(P, groups[i], E, nodes)
    BY <1>0, PlacementsHaveRoom
  <2>2. E \subseteq {order[x] : x \in DOMAIN order} /\ groups[i].count \in Nat
    BY <1>0 DEF Usable
  <2> HIDE DEF E, P
  <2> QED BY <1>3, <2>1, <2>2, PlaceGroupAdds
<1>4. IsPartial(f[0], E, P, 0)
  BY <1>1 DEF StartPlan, IsPartial, Usable
<1> HIDE DEF Group, limit, E, P
<1> DEFINE A == {m \in Nat : m <= limit => IsPartial(f[m], E, P, sum[m])}
<1>10. 0 \in A
  BY <1>2, <1>4
<1>11. ASSUME NEW m \in Nat, m \in A PROVE m + 1 \in A
  <2> SUFFICES ASSUME m + 1 <= limit PROVE IsPartial(f[m + 1], E, P, sum[m + 1])
    OBVIOUS
  <2>1. /\ m + 1 \in 1 .. limit /\ (m + 1) - 1 = m /\ m \in 0 .. limit
        /\ IsPartial(f[m], E, P, sum[m])
    BY <1>0, <1>11
  <2>2. f[m + 1] = Group(f[m], m + 1) /\ sum[m + 1] = sum[m] + groups[m + 1].count /\ sum[m] \in Nat
    BY <1>1, <1>2, <2>1
  <2>3. IsPartial(Group(f[m], m + 1), E, P, sum[m] + groups[m + 1].count)
    BY <1>3, <2>1, <2>2
  <2> QED BY <2>2, <2>3
<1> HIDE DEF A
<1>12. limit \in A
  BY <1>0, <1>10, <1>11, SetInduction
<1>13. IsPartial(f[limit], E, P, sum[limit]) /\ sum[limit] \in Nat
  BY <1>0, <1>2, <1>12 DEF A
<1> QED BY <1>1, <1>2, <1>13 DEF IsPartial, P

----------------------------------------------------------------------------
(* What a plan leaves: of the nodes' capacity, and unplaced.               *)

\* What the live ones of these allocations hold of d on node n; a plan is a
\* function from allocation ids too.
Hold(n, d, allocs) == Holding(LiveOn(n, allocs), d, allocs)

\* The free capacity is what the allocations and the plan leave, exactly, and
\* a node that was placed on is not overdrawn.
Tight(acc, E, P, nodes, allocs) ==
  /\ acc.free \in [E -> [Dimension -> I32]]
  /\ acc.plan \in Seq(P)
  /\ \A n \in E : \A d \in Dimension :
       acc.free[n][d] = (nodes[n].resources[d] - Hold(n, d, allocs)) - Hold(n, d, acc.plan)
  /\ \A i \in DOMAIN acc.plan : \A d \in Dimension : acc.free[acc.plan[i].node][d] >= 0

\* The cluster is one whose totals do not wrap, as far as E and P go.
Sound(E, P, nodes, allocs) ==
  /\ \A n \in E : \A d \in Dimension : nodes[n].resources[d] \in Int /\ Hold(n, d, allocs) \in Int
  /\ \A p \in P : /\ p.node \in E
                  /\ IsLive(p.client_status)
                  /\ \A d \in Dimension : p.resources[d] \in Int

\* What one more placement adds to what its node holds.
LEMMA HoldGrows ==
  ASSUME NEW P, NEW plan \in Seq(P), NEW new \in P,
         \A p \in P : IsLive(p.client_status) /\ \A d \in Dimension : p.resources[d] \in Int,
         NEW n, NEW d \in Dimension
  PROVE  /\ Hold(n, d, plan) \in Int
         /\ Hold(n, d, Append(plan, new)) =
              Hold(n, d, plan) + IF new.node = n THEN new.resources[d] ELSE 0
<1> DEFINE longer == Append(plan, new)
           k == Len(plan) + 1
           S == LiveOn(n, plan)
           T == LiveOn(n, longer)
           f == [i \in DOMAIN plan |-> plan[i].resources[d]]
           h == [i \in DOMAIN longer |-> longer[i].resources[d]]
<1>1. /\ k \in Nat /\ DOMAIN plan = 1 .. (k - 1) /\ DOMAIN longer = 1 .. k /\ k \notin DOMAIN plan
      /\ longer[k] = new /\ \A i \in DOMAIN plan : longer[i] = plan[i] /\ plan[i] \in P
  OBVIOUS
<1>l. DOMAIN longer = DOMAIN plan \cup {k}
  BY <1>1
<1>2. IsFiniteSet(S) /\ S \subseteq DOMAIN plan /\ k \notin S
  <2>1. IsFiniteSet(1 .. (k - 1))
    BY <1>1, FS_Interval
  <2> QED BY <1>1, <2>1, FS_Subset DEF LiveOn
<1> HIDE DEF longer, k
<1>3. \A i \in S : f[i] \in Int /\ h[i] = f[i]
  BY <1>1, <1>2, <1>l
<1>4. h[k] = new.resources[d] /\ h[k] \in Int
  BY <1>1, <1>l
<1>5. T = IF new.node = n THEN S \cup {k} ELSE S
  BY <1>1, <1>l DEF LiveOn
<1>6. Hold(n, d, plan) = SumFunctionOnSet(f, S) /\ Hold(n, d, longer) = SumFunctionOnSet(h, T)
  BY DEF Hold, Holding
<1> HIDE DEF f, h, S, T
<1>7. Hold(n, d, plan) \in Int
  BY <1>2, <1>3, <1>6, SumIsInt
<1>8. CASE new.node = n
  <2>0. IsFiniteSet(S) /\ (\A y \in S : f[y] \in Int /\ h[y] = f[y]) /\ k \notin S /\ h[k] \in Int
    BY <1>2, <1>3, <1>4
  <2>1. SumFunctionOnSet(h, S \cup {k}) = SumFunctionOnSet(f, S) + h[k]
    BY ONLY <2>0, SumGrows
  <2> QED BY <1>4, <1>5, <1>6, <1>7, <1>8, <2>1 DEF longer
<1>9. CASE new.node # n
  <2>1. SumFunctionOnSet(h, S) = SumFunctionOnSet(f, S)
    BY <1>2, <1>3, SumSame
  <2> QED BY <1>5, <1>6, <1>7, <1>9, <2>1 DEF longer
<1> QED BY <1>8, <1>9

\* One more placement keeps the books.
LEMMA OneMoreTight ==
  ASSUME NEW E, NEW P, NEW nodes, NEW allocs, Sound(E, P, nodes, allocs),
         NEW group, \A d \in Dimension : GroupDemand(group)[d] \in Nat,
         NEW acc, Tight(acc, E, P, nodes, allocs), NEW r, OneMore(acc, r, group, E, P, nodes)
  PROVE  /\ Tight(r, E, P, nodes, allocs)
         /\ \A n \in E : \A d \in Dimension : r.free[n][d] <= acc.free[n][d]
<1> DEFINE need == GroupDemand(group)
<1>0. /\ acc.free \in [E -> [Dimension -> I32]] /\ acc.plan \in Seq(P)
      /\ \A n \in E : \A d \in Dimension : acc.free[n][d] \in I32 /\ acc.free[n][d] \in Int
      /\ \A d \in Dimension : need[d] \in Nat
  BY SchedulerAssumption DEF Tight, I32
<1>1. PICK n \in E :
        /\ n \in Candidates(acc.free, group, need, nodes)
        /\ MakeAlloc(group, need, n) \in P
        /\ r = [free |-> [acc.free EXCEPT ![n] = Minus(@, need)],
                plan |-> Append(acc.plan, MakeAlloc(group, need, n))]
  BY DEF OneMore
<1> HIDE DEF need
<1> DEFINE new == MakeAlloc(group, need, n)
<1>2. r.free = [acc.free EXCEPT ![n] = Minus(@, need)] /\ r.plan = Append(acc.plan, new) /\ new \in P
  BY <1>1
<1>3. new.node = n /\ new.resources = need
  BY DEF MakeAlloc
<1> HIDE DEF new
<1>4. ASSUME NEW d \in Dimension
      PROVE  /\ acc.free[n][d] - need[d] \in I32
             /\ 0 <= acc.free[n][d] - need[d]
             /\ Minus(acc.free[n], need)[d] = acc.free[n][d] - need[d]
  <2>1. need[d] <= acc.free[n][d]
    BY <1>0, <1>1 DEF Candidates, Fits
  <2>2. acc.free[n][d] - need[d] \in I32 /\ 0 <= acc.free[n][d] - need[d]
    <3> DEFINE a == acc.free[n][d]
               b == need[d]
    <3>1. a \in I32 /\ b \in Nat /\ b <= a
      BY <1>0, <2>1
    <3> HIDE DEF a, b
    <3>2. a - b \in I32 /\ 0 <= a - b
      BY <3>1, SchedulerAssumption DEF I32
    <3> QED BY <3>2 DEF a, b
  <2> QED BY <2>2, WrapSame DEF Minus
<1>5. Minus(acc.free[n], need) \in [Dimension -> I32]
  <2>1. \A d \in Dimension : Minus(acc.free[n], need)[d] \in I32
    BY <1>4
  <2> QED BY <2>1 DEF Minus
<1>6. r.free \in [E -> [Dimension -> I32]]
  BY <1>0, <1>2, <1>5
<1>7. r.plan \in Seq(P)
  BY <1>0, <1>2
<1>8. ASSUME NEW m \in E, NEW d \in Dimension
      PROVE  /\ r.free[m][d] = acc.free[m][d] - IF m = n THEN need[d] ELSE 0
             /\ r.free[m][d] \in Int /\ r.free[m][d] <= acc.free[m][d]
             /\ (m = n => r.free[m][d] >= 0) /\ (m # n => r.free[m][d] = acc.free[m][d])
  <2>1. CASE m = n
    <3>1. r.free[m][d] = acc.free[n][d] - need[d]
      BY <1>0, <1>2, <1>4, <2>1
    <3> QED BY <1>0, <1>4, <2>1, <3>1
  <2>2. CASE m # n
    <3>1. r.free[m] = acc.free[m]
      BY <1>0, <1>2, <2>2
    <3> QED BY <1>0, <2>2, <3>1
  <2> QED BY <2>1, <2>2
<1>9. ASSUME NEW m \in E, NEW d \in Dimension
      PROVE  r.free[m][d] = (nodes[m].resources[d] - Hold(m, d, allocs)) - Hold(m, d, r.plan)
  <2> DEFINE x == nodes[m].resources[d]
             y == Hold(m, d, allocs)
             z == Hold(m, d, acc.plan)
             s == IF m = n THEN need[d] ELSE 0
  <2>1. x \in Int /\ y \in Int /\ s \in Int
    BY <1>0 DEF Sound
  <2>2. z \in Int /\ Hold(m, d, r.plan) = z + s
    <3>1. \A p \in P : IsLive(p.client_status) /\ \A c \in Dimension : p.resources[c] \in Int
      BY DEF Sound
    <3> QED BY <1>0, <1>2, <1>3, <3>1, HoldGrows
  <2>3. acc.free[m][d] = (x - y) - z
    BY DEF Tight
  <2>4. r.free[m][d] = acc.free[m][d] - s
    BY <1>8
  <2> HIDE DEF x, y, z, s
  <2>5. r.free[m][d] = (x - y) - Hold(m, d, r.plan)
    BY <2>1, <2>2, <2>3, <2>4
  <2> QED BY <2>5 DEF x, y
<1>10. ASSUME NEW i \in DOMAIN r.plan, NEW d \in Dimension PROVE r.free[r.plan[i].node][d] >= 0
  <2>1. CASE r.plan[i] = new
    BY <1>3, <1>8, <2>1
  <2>2. CASE r.plan[i] # new
    <3>1. i \in DOMAIN acc.plan /\ r.plan[i] = acc.plan[i]
      BY <1>0, <1>2, <2>2
    <3> DEFINE m == acc.plan[i].node
    <3>2. m \in E /\ acc.free[m][d] >= 0
      BY <1>0, <3>1 DEF Tight, Sound
    <3> HIDE DEF m
    <3>3. r.free[m][d] >= 0
      BY <1>8, <3>2
    <3> QED BY <3>1, <3>3 DEF m
  <2> QED BY <2>1, <2>2
<1>11. Tight(r, E, P, nodes, allocs)
  BY <1>6, <1>7, <1>9, <1>10 DEF Tight
<1> QED BY <1>8, <1>11

\* The placements for groups of that name.
Named(plan, name) == {i \in DOMAIN plan : plan[i].task_group = name}

LEMMA NamedGrows ==
  ASSUME NEW P, NEW plan \in Seq(P), NEW new, NEW name
  PROVE  /\ Cardinality(Named(plan, name)) \in Nat
         /\ Cardinality(Named(Append(plan, new), name)) =
              Cardinality(Named(plan, name)) + IF new.task_group = name THEN 1 ELSE 0
<1> DEFINE longer == Append(plan, new)
           k == Len(plan) + 1
           S == Named(plan, name)
<1>1. /\ k \in Nat /\ DOMAIN plan = 1 .. (k - 1) /\ DOMAIN longer = 1 .. k /\ k \notin DOMAIN plan
      /\ longer[k] = new /\ \A i \in DOMAIN plan : longer[i] = plan[i]
  OBVIOUS
<1>2. DOMAIN longer = DOMAIN plan \cup {k}
  BY <1>1
<1>3. IsFiniteSet(S) /\ k \notin S
  <2>1. IsFiniteSet(1 .. (k - 1))
    BY <1>1, FS_Interval
  <2> QED BY <1>1, <2>1, FS_Subset DEF Named
<1>c. Cardinality(S) \in Nat
  BY <1>3, FS_CardinalityType
<1> HIDE DEF longer, k
<1>4. Named(longer, name) = IF new.task_group = name THEN S \cup {k} ELSE S
  BY <1>1, <1>2 DEF Named
<1> HIDE DEF S
<1>5. Cardinality(S \cup {k}) = Cardinality(S) + 1
  BY <1>3, FS_AddElement
<1>6. Cardinality(Named(longer, name)) = Cardinality(S) + IF new.task_group = name THEN 1 ELSE 0
  <2>1. CASE new.task_group = name
    BY <1>4, <1>5, <2>1
  <2>2. CASE new.task_group # name
    BY <1>4, <1>c, <2>2
  <2> QED BY <2>1, <2>2
<1> QED BY <1>c, <1>6 DEF longer, S

NoCandidate(acc, group, nodes) == Candidates(acc.free, group, GroupDemand(group), nodes) = {}

\* r comes from acc by trying to place m instances of the group.
Progress(acc, r, group, m, E, nodes) ==
  /\ \A n \in E : \A d \in Dimension : r.free[n][d] <= acc.free[n][d]
  /\ Len(r.plan) \in Len(acc.plan) .. (Len(acc.plan) + m)
  /\ \A name : Cardinality(Named(r.plan, name)) = Cardinality(Named(acc.plan, name))
                 + IF name = group.name THEN Len(r.plan) - Len(acc.plan) ELSE 0
  /\ Len(r.plan) < Len(acc.plan) + m => NoCandidate(r, group, nodes)

LEMMA ProgressOne ==
  ASSUME NEW N, NEW order \in Seq(N), NEW E, E \subseteq {order[i] : i \in DOMAIN order},
         NEW P, NEW nodes, NEW allocs, Sound(E, P, nodes, allocs),
         NEW group, HasRoomFor(P, group, E, nodes),
         \A d \in Dimension : GroupDemand(group)[d] \in Nat,
         NEW acc, acc.plan \in Seq(P), NEW a, Tight(a, E, P, nodes, allocs),
         \A n \in E : \A d \in Dimension : acc.free[n][d] \in Int,
         NEW m \in Nat, Progress(acc, a, group, m, E, nodes)
  PROVE  /\ Tight(PlaceOne(a, group, nodes, allocs, order), E, P, nodes, allocs)
         /\ Progress(acc, PlaceOne(a, group, nodes, allocs, order), group, m + 1, E, nodes)
<1> DEFINE r == PlaceOne(a, group, nodes, allocs, order)
           la == Len(acc.plan)
           k == Len(a.plan)
<1>0. /\ DOMAIN a.free = E /\ a.plan \in Seq(P) /\ la \in Nat /\ k \in Nat
      /\ \A n \in E : \A d \in Dimension : a.free[n][d] \in Int
  BY SchedulerAssumption DEF Tight, I32
<1>1. \/ NoCandidate(a, group, nodes) /\ r = a
      \/ OneMore(a, r, group, E, P, nodes)
  BY <1>0, PlaceOneEffect DEF NoCandidate
<1>p. k \in la .. (la + m) /\ (k < la + m => NoCandidate(a, group, nodes))
  BY DEF Progress
<1> HIDE DEF r, la, k
<1>2. CASE NoCandidate(a, group, nodes) /\ r = a
  <2>1. k \in la .. (la + (m + 1))
    BY <1>0, <1>p
  <2>2. Progress(acc, a, group, m + 1, E, nodes)
    BY <1>2, <2>1 DEF Progress, la, k
  <2> QED BY <1>2, <2>2 DEF r
<1>3. CASE OneMore(a, r, group, E, P, nodes)
  <2>1. Tight(r, E, P, nodes, allocs) /\ \A n \in E : \A d \in Dimension : r.free[n][d] <= a.free[n][d]
    BY <1>3, OneMoreTight
  <2>2. PICK n \in E :
          /\ n \in Candidates(a.free, group, GroupDemand(group), nodes)
          /\ r.plan = Append(a.plan, MakeAlloc(group, GroupDemand(group), n))
    BY <1>3 DEF OneMore
  <2>3. ~NoCandidate(a, group, nodes)
    BY <2>2 DEF NoCandidate
  <2>4. k = la + m
    BY <1>0, <1>p, <2>3
  <2> DEFINE new == MakeAlloc(group, GroupDemand(group), n)
  <2>5. new.task_group = group.name
    BY DEF MakeAlloc
  <2> HIDE DEF new
  <2>6. r.plan = Append(a.plan, new) /\ Len(r.plan) = k + 1
    BY <1>0, <2>2 DEF new, k
  <2>7. ASSUME NEW c \in E, NEW d \in Dimension PROVE r.free[c][d] <= acc.free[c][d]
    <3>1. r.free[c][d] <= a.free[c][d] /\ a.free[c][d] <= acc.free[c][d]
      BY <2>1 DEF Progress
    <3>2. r.free[c][d] \in Int /\ a.free[c][d] \in Int /\ acc.free[c][d] \in Int
      BY <1>0, <2>1, SchedulerAssumption DEF Tight, I32
    <3> QED BY <3>1, <3>2
  <2>8. ASSUME NEW name
        PROVE  Cardinality(Named(r.plan, name)) = Cardinality(Named(acc.plan, name))
                 + IF name = group.name THEN Len(r.plan) - la ELSE 0
    <3>0. /\ Cardinality(Named(a.plan, name)) \in Nat
          /\ Cardinality(Named(Append(a.plan, new), name)) =
               Cardinality(Named(a.plan, name)) + IF new.task_group = name THEN 1 ELSE 0
      BY <1>0, NamedGrows
    <3>a. Cardinality(Named(acc.plan, name)) \in Nat
      BY NamedGrows
    <3>1. /\ Cardinality(Named(a.plan, name)) \in Nat /\ Cardinality(Named(acc.plan, name)) \in Nat
          /\ Cardinality(Named(r.plan, name)) =
               Cardinality(Named(a.plan, name)) + IF group.name = name THEN 1 ELSE 0
      BY <2>5, <2>6, <3>0, <3>a
    <3>2. Cardinality(Named(a.plan, name)) = Cardinality(Named(acc.plan, name))
            + IF name = group.name THEN k - la ELSE 0
      BY DEF Progress, k, la
    <3> DEFINE cr == Cardinality(Named(r.plan, name))
               ca == Cardinality(Named(a.plan, name))
               cc == Cardinality(Named(acc.plan, name))
    <3>4. ca \in Nat /\ cc \in Nat
      BY <3>1
    <3>5. CASE name = group.name
      <4>1. cr = ca + 1 /\ ca = cc + (k - la)
        BY <3>1, <3>2, <3>5
      <4> HIDE DEF cr, ca, cc
      <4>2. cr = cc + (Len(r.plan) - la)
        BY <1>0, <2>6, <3>4, <4>1
      <4> QED BY <3>5, <4>2 DEF cr, cc
    <3>6. CASE name # group.name
      BY <3>1, <3>2, <3>6
    <3> QED BY <3>5, <3>6
  <2>9. Len(r.plan) = la + (m + 1) /\ la + (m + 1) \in la .. (la + (m + 1))
    BY <1>0, <2>4, <2>6
  <2>10. ~(Len(r.plan) < la + (m + 1))
    BY <1>0, <2>9
  <2>11. Progress(acc, r, group, m + 1, E, nodes)
    BY <2>7, <2>8, <2>9, <2>10 DEF Progress, la
  <2> QED BY <2>1, <2>11 DEF r
<1> QED BY <1>1, <1>2, <1>3

LEMMA ProgressGroup ==
  ASSUME NEW N, NEW order \in Seq(N), NEW E, E \subseteq {order[i] : i \in DOMAIN order},
         NEW P, NEW nodes, NEW allocs, Sound(E, P, nodes, allocs),
         NEW group, HasRoomFor(P, group, E, nodes), group.count \in Nat,
         \A d \in Dimension : GroupDemand(group)[d] \in Nat,
         NEW acc, Tight(acc, E, P, nodes, allocs)
  PROVE  /\ Tight(PlaceGroup(acc, group, nodes, allocs, order), E, P, nodes, allocs)
         /\ Progress(acc, PlaceGroup(acc, group, nodes, allocs, order), group, group.count, E, nodes)
<1> DEFINE limit == group.count
           One(a) == PlaceOne(a, group, nodes, allocs, order)
           Good(a, m) == Tight(a, E, P, nodes, allocs) /\ Progress(acc, a, group, m, E, nodes)
<1>0. /\ acc.plan \in Seq(P) /\ Len(acc.plan) \in Nat /\ limit \in Nat
      /\ \A n \in E : \A d \in Dimension : acc.free[n][d] \in Int
  BY SchedulerAssumption DEF Tight, I32
<1>1. PICK f : /\ f[0] = acc
               /\ \A i \in 1 .. limit : f[i] = One(f[i - 1])
               /\ PlaceGroup(acc, group, nodes, allocs, order) = f[limit]
  BY PlaceGroupSteps
<1>2. ASSUME NEW a, NEW m \in Nat, Good(a, m) PROVE Good(One(a), m + 1)
  BY <1>0, <1>2, ProgressOne
<1>3. Good(acc, 0)
  <2>1. \A name : Cardinality(Named(acc.plan, name)) \in Nat
    BY <1>0, NamedGrows
  <2>2. \A name : Cardinality(Named(acc.plan, name)) = Cardinality(Named(acc.plan, name))
                    + IF name = group.name THEN Len(acc.plan) - Len(acc.plan) ELSE 0
    BY <1>0, <2>1
  <2>3. \A n \in E : \A d \in Dimension : acc.free[n][d] <= acc.free[n][d]
    BY <1>0
  <2>4. Len(acc.plan) \in Len(acc.plan) .. (Len(acc.plan) + 0) /\ ~(Len(acc.plan) < Len(acc.plan) + 0)
    BY <1>0
  <2> QED BY <2>2, <2>3, <2>4 DEF Progress
<1> HIDE DEF One, Good, limit
<1> DEFINE A == {m \in Nat : m <= limit => Good(f[m], m)}
<1>4. 0 \in A
  BY <1>1, <1>3
<1>5. ASSUME NEW m \in Nat, m \in A PROVE m + 1 \in A
  <2> SUFFICES ASSUME m + 1 <= limit PROVE Good(f[m + 1], m + 1)
    OBVIOUS
  <2>1. m + 1 \in 1 .. limit /\ (m + 1) - 1 = m /\ Good(f[m], m)
    BY <1>0, <1>5
  <2>2. f[m + 1] = One(f[m])
    BY <1>1, <2>1
  <2> QED BY <1>2, <2>1, <2>2
<1> HIDE DEF A
<1>6. limit \in A
  BY <1>0, <1>4, <1>5, SetInduction
<1>7. Good(f[limit], limit)
  BY <1>0, <1>6 DEF A
<1> QED BY <1>1, <1>7 DEF Good, limit

\* Less capacity, fewer candidates.
LEMMA NoneStaysNone ==
  ASSUME NEW E, NEW a, NEW r, DOMAIN a.free = E, DOMAIN r.free = E,
         \A n \in E : \A d \in Dimension :
           a.free[n][d] \in Int /\ r.free[n][d] \in Int /\ r.free[n][d] <= a.free[n][d],
         NEW group, \A d \in Dimension : GroupDemand(group)[d] \in Nat,
         NEW nodes, NoCandidate(a, group, nodes)
  PROVE  NoCandidate(r, group, nodes)
<1> DEFINE need == GroupDemand(group)
<1>0. \A d \in Dimension : need[d] \in Int
  OBVIOUS
<1> HIDE DEF need
<1>1. ASSUME NEW n \in E, Fits(r.free[n], need) PROVE Fits(a.free[n], need)
  <2>1. ASSUME NEW d \in Dimension PROVE a.free[n][d] >= need[d]
    <3>1. r.free[n][d] >= need[d]
      BY <1>1 DEF Fits
    <3>2. a.free[n][d] \in Int /\ r.free[n][d] \in Int /\ r.free[n][d] <= a.free[n][d]
      OBVIOUS
    <3> QED BY <1>0, <3>1, <3>2
  <2> QED BY <2>1 DEF Fits
<1>2. Candidates(r.free, group, need, nodes) \subseteq Candidates(a.free, group, need, nodes)
  BY <1>1 DEF Candidates
<1> QED BY <1>2 DEF NoCandidate, need

\* No total that process_eval makes of the nodes and allocations wraps.
Books(nodes, allocs) ==
  \A n \in Usable(nodes) :
    /\ nodes[n].resources \in [Dimension -> I32]
    /\ IsFiniteSet(LiveOn(n, allocs))
    /\ \A id \in LiveOn(n, allocs) : \A d \in Dimension : allocs[id].resources[d] \in Int
    /\ \A d \in Dimension : nodes[n].resources[d] - Hold(n, d, allocs) \in I32

\* Nor any that it makes of the groups.
Measured(groups) ==
  \A i \in DOMAIN groups :
    /\ groups[i].count \in Nat
    /\ \A d \in Dimension : GroupDemand(groups[i])[d] \in Nat

LEMMA BooksSound ==
  ASSUME NEW groups, NEW nodes, NEW allocs, Books(nodes, allocs), Measured(groups)
  PROVE  Sound(Usable(nodes), Placements(groups, nodes), nodes, allocs)
<1>1. ASSUME NEW n \in Usable(nodes), NEW d \in Dimension
      PROVE  nodes[n].resources[d] \in Int /\ Hold(n, d, allocs) \in Int
  <2>1. nodes[n].resources[d] \in Int
    BY SchedulerAssumption DEF Books, I32
  <2> DEFINE f == [id \in DOMAIN allocs |-> allocs[id].resources[d]]
             S == LiveOn(n, allocs)
  <2>2. IsFiniteSet(S) /\ \A id \in S : f[id] \in Int
    BY DEF Books, LiveOn
  <2>3. Hold(n, d, allocs) = SumFunctionOnSet(f, S)
    BY DEF Hold, Holding
  <2> HIDE DEF f, S
  <2> QED BY <2>1, <2>2, <2>3, SumIsInt
<1>2. ASSUME NEW p \in Placements(groups, nodes)
      PROVE  /\ p.node \in Usable(nodes) /\ IsLive(p.client_status)
             /\ \A d \in Dimension : p.resources[d] \in Int
  <2>1. PICK i \in DOMAIN groups, n \in Usable(nodes) : p = MakeAlloc(groups[i], GroupDemand(groups[i]), n)
    BY PlacementOf
  <2>2. p.node = n /\ p.resources = GroupDemand(groups[i]) /\ IsLive(p.client_status)
    BY <2>1 DEF MakeAlloc, IsLive
  <2>3. \A d \in Dimension : GroupDemand(groups[i])[d] \in Int
    BY DEF Measured
  <2> QED BY <2>2, <2>3
<1> QED BY <1>1, <1>2 DEF Sound

LEMMA StartTight ==
  ASSUME NEW nodes, NEW allocs, Books(nodes, allocs), NEW P
  PROVE  Tight(StartPlan(nodes, allocs), Usable(nodes), P, nodes, allocs)
<1> DEFINE E == Usable(nodes)
           start == StartPlan(nodes, allocs)
<1>1. start.plan = <<>> /\ start.free = [n \in E |-> FreeCapacity(n, nodes, allocs)]
  BY DEF StartPlan, Usable
<1>2. ASSUME NEW n \in E
      PROVE  /\ FreeCapacity(n, nodes, allocs) \in [Dimension -> I32]
             /\ \A d \in Dimension : FreeCapacity(n, nodes, allocs)[d] =
                                       (nodes[n].resources[d] - Hold(n, d, allocs)) - Hold(n, d, <<>>)
  <2> DEFINE Left(d) == nodes[n].resources[d] - Hold(n, d, allocs)
  <2>1. /\ nodes[n].resources \in [Dimension -> I32]
        /\ IsFiniteSet(LiveOn(n, allocs))
        /\ \A id \in LiveOn(n, allocs) : \A d \in Dimension : allocs[id].resources[d] \in Int
        /\ \A d \in Dimension : Left(d) \in I32
    BY DEF Books
  <2>2. /\ FreeCapacity(n, nodes, allocs) \in [Dimension -> Int]
        /\ \A d \in Dimension : FreeCapacity(n, nodes, allocs)[d] = Wrap(Left(d))
    BY <2>1, FreeIsDifference DEF Hold
  <2> HIDE DEF Left
  <2>3. \A d \in Dimension : FreeCapacity(n, nodes, allocs)[d] = Left(d)
    BY <2>1, <2>2, WrapSame
  <2>4. ASSUME NEW d \in Dimension PROVE Hold(n, d, <<>>) = 0
    <3>1. LiveOn(n, <<>>) = {}
      BY DEF LiveOn
    <3> QED BY <3>1, SumEmpty DEF Hold, Holding
  <2>5. \A d \in Dimension : Left(d) - Hold(n, d, <<>>) = Left(d)
    BY <2>1, <2>4, SchedulerAssumption DEF I32
  <2>6. FreeCapacity(n, nodes, allocs) \in [Dimension -> I32]
    BY <2>1, <2>2, <2>3
  <2> QED BY <2>3, <2>5, <2>6 DEF Left
<1> HIDE DEF E, start
<1>3. start.free \in [E -> [Dimension -> I32]]
  BY <1>1, <1>2
<1>4. start.plan \in Seq(P) /\ DOMAIN start.plan = {}
  BY <1>1
<1>5. \A n \in E : \A d \in Dimension :
        start.free[n][d] = (nodes[n].resources[d] - Hold(n, d, allocs)) - Hold(n, d, start.plan)
  BY <1>1, <1>2
<1>6. Tight(start, E, P, nodes, allocs)
  BY <1>3, <1>4, <1>5 DEF Tight
<1> QED BY <1>6 DEF E, start

\* How many instances the groups of that name want.
CountNamed(groups, name) == CountOf({i \in DOMAIN groups : groups[i].name = name}, groups)

\* What a plan achieves: its books are exact, it has none too many of any
\* name, too few only where a group of that name has no candidate left, and
\* whoever has a group with more instances than the whole plan has no
\* candidate left for it.
Achieves(acc, groups, nodes, allocs) ==
  /\ Tight(acc, Usable(nodes), Placements(groups, nodes), nodes, allocs)
  /\ \A name :
       /\ Cardinality(Named(acc.plan, name)) <= CountNamed(groups, name)
       /\ Cardinality(Named(acc.plan, name)) < CountNamed(groups, name) =>
            \E i \in DOMAIN groups : groups[i].name = name /\ NoCandidate(acc, groups[i], nodes)
  /\ \A i \in DOMAIN groups : groups[i].count <= Len(acc.plan) \/ NoCandidate(acc, groups[i], nodes)

LEMMA PlanAchieves ==
  ASSUME NEW N, NEW order \in Seq(N), NEW nodes, DOMAIN nodes \subseteq {order[i] : i \in DOMAIN order},
         NEW G, NEW groups \in Seq(G), Measured(groups), NEW allocs, Books(nodes, allocs)
  PROVE  \E acc : /\ ProcessEval(groups, nodes, allocs, order) = acc.plan
                  /\ Achieves(acc, groups, nodes, allocs)
<1> DEFINE limit == Len(groups)
           E == Usable(nodes)
           P == Placements(groups, nodes)
           Group(a, i) == PlaceGroup(a, groups[i], nodes, allocs, order)
           c == [i \in DOMAIN groups |-> groups[i].count]
           Of(m, name) == {i \in 1 .. m : groups[i].name = name}
           Want(m, name) == SumFunctionOnSet(c, Of(m, name))
           Have(a, name) == Cardinality(Named(a.plan, name))
           Stage(a, m) ==
             /\ Tight(a, E, P, nodes, allocs)
             /\ \A name : /\ Have(a, name) <= Want(m, name)
                          /\ Have(a, name) < Want(m, name) =>
                               \E i \in 1 .. m : groups[i].name = name /\ NoCandidate(a, groups[i], nodes)
             /\ \A i \in 1 .. m : groups[i].count <= Len(a.plan) \/ NoCandidate(a, groups[i], nodes)
<1>0. /\ limit \in Nat /\ DOMAIN groups = 1 .. limit
      /\ \A i \in 1 .. limit : c[i] = groups[i].count /\ c[i] \in Nat
  BY DEF Measured
<1>s. Sound(E, P, nodes, allocs)
  BY BooksSound
<1>1. PICK f : /\ f[0] = StartPlan(nodes, allocs)
               /\ \A i \in 1 .. limit : f[i] = Group(f[i - 1], i)
               /\ ProcessEval(groups, nodes, allocs, order) = f[limit].plan
  BY ProcessEvalSteps
<1>2. ASSUME NEW i \in 1 .. limit, NEW a, Tight(a, E, P, nodes, allocs)
      PROVE  /\ Tight(Group(a, i), E, P, nodes, allocs)
             /\ Progress(a, Group(a, i), groups[i], groups[i].count, E, nodes)
  <2>1. HasRoomFor(P, groups[i], E, nodes)
    BY <1>0, PlacementsHaveRoom
  <2>2. E \subseteq {order[x] : x \in DOMAIN order}
    BY DEF Usable
  <2>3. groups[i].count \in Nat /\ \A d \in Dimension : GroupDemand(groups[i])[d] \in Nat
    BY <1>0 DEF Measured
  <2> HIDE DEF E, P
  <2> QED BY <1>2, <1>s, <2>1, <2>2, <2>3, ProgressGroup
<1>t. Tight(f[0], E, P, nodes, allocs)
  BY <1>1, StartTight
<1>e. f[0].plan = <<>>
  BY <1>1 DEF StartPlan
<1> HIDE DEF Group, limit, E, P, c
<1>3. ASSUME NEW m \in 0 .. limit, NEW name
      PROVE  /\ Want(m, name) \in Nat
             /\ m > 0 => Want(m, name) = Want(m - 1, name)
                           + IF groups[m].name = name THEN groups[m].count ELSE 0
  <2>1. ASSUME NEW k \in 0 .. limit PROVE IsFiniteSet(Of(k, name)) /\ \A i \in Of(k, name) : c[i] \in Nat
    <3>1. IsFiniteSet(1 .. k) /\ 1 .. k \subseteq 1 .. limit
      BY <1>0, FS_Interval
    <3> QED BY <1>0, <3>1, FS_Subset
  <2>2. Want(m, name) \in Nat
    <3> HIDE DEF Of
    <3> QED BY <2>1, SumIsNat
  <2>3. ASSUME m > 0
        PROVE  Want(m, name) = Want(m - 1, name) + IF groups[m].name = name THEN groups[m].count ELSE 0
    <3> DEFINE S == Of(m - 1, name)
    <3>0. m - 1 \in 0 .. limit /\ m \in 1 .. limit
      BY <1>0, <2>3
    <3>1. IsFiniteSet(S) /\ (\A y \in S : c[y] \in Int /\ c[y] = c[y]) /\ m \notin S /\ c[m] \in Int
      <4>1. IsFiniteSet(S) /\ \A y \in S : c[y] \in Nat
        <5> HIDE DEF Of
        <5> QED BY <2>1, <3>0
      <4>2. m \notin S /\ c[m] \in Int
        BY <1>0, <3>0
      <4> HIDE DEF S
      <4> QED BY <4>1, <4>2
    <3>2. Of(m, name) = IF groups[m].name = name THEN S \cup {m} ELSE S
      BY <1>0, <3>0
    <3>3. SumFunctionOnSet(c, S) \in Nat
      <4> HIDE DEF S, Of
      <4>1. \A y \in S : c[y] \in Nat
        BY <2>1, <3>0 DEF S
      <4> QED BY <3>1, <4>1, SumIsNat
    <3>4. c[m] = groups[m].count
      BY <1>0, <3>0
    <3> DEFINE w == SumFunctionOnSet(c, S)
    <3>5. Want(m - 1, name) = w
      OBVIOUS
    <3> HIDE DEF S, Of
    <3>6. SumFunctionOnSet(c, S \cup {m}) = w + c[m]
      BY ONLY <3>1, SumGrows
    <3> HIDE DEF w
    <3>7. CASE groups[m].name = name
      BY <3>2, <3>4, <3>5, <3>6, <3>7
    <3>8. CASE groups[m].name # name
      <4>1. Want(m, name) = w
        BY <3>2, <3>8 DEF w
      <4> QED BY <3>3, <3>5, <3>8, <4>1 DEF w
    <3> QED BY <3>7, <3>8
  <2> QED BY <2>2, <2>3
<1> DEFINE A == {m \in Nat : m <= limit => Stage(f[m], m)}
<1>4. 0 \in A
  <2>1. ASSUME NEW name PROVE Have(f[0], name) = 0 /\ Want(0, name) = 0
    <3>1. Named(f[0].plan, name) = {} /\ Of(0, name) = {}
      BY <1>e DEF Named
    <3> HIDE DEF Of
    <3> QED BY <3>1, FS_EmptySet, SumEmpty
  <2> HIDE DEF Have, Want
  <2> QED BY <1>t, <2>1
<1>5. ASSUME NEW k \in Nat, k \in A PROVE k + 1 \in A
  <2> DEFINE m == k + 1
  <2> SUFFICES ASSUME m <= limit PROVE Stage(f[m], m)
    OBVIOUS
  <2> DEFINE a == f[k]
             r == f[m]
             g == groups[m]
  <2>0. m \in 1 .. limit /\ m \in 0 .. limit /\ m > 0 /\ k \in 0 .. limit /\ m - 1 = k /\ m \in Nat
    BY <1>0
  <2>1. Stage(a, k)
    BY <1>0, <1>5
  <2>2. r = Group(a, m)
    BY <1>1, <2>0
  <2>3. Tight(r, E, P, nodes, allocs) /\ Progress(a, r, g, g.count, E, nodes)
    BY <1>2, <2>0, <2>1, <2>2
  <2>4. /\ DOMAIN a.free = E /\ DOMAIN r.free = E
        /\ \A n \in E : \A d \in Dimension :
             a.free[n][d] \in Int /\ r.free[n][d] \in Int /\ r.free[n][d] <= a.free[n][d]
    BY <2>1, <2>3, SchedulerAssumption DEF Tight, I32, Progress
  <2>5. ASSUME NEW i \in 1 .. limit, NoCandidate(a, groups[i], nodes) PROVE NoCandidate(r, groups[i], nodes)
    <3>1. \A d \in Dimension : GroupDemand(groups[i])[d] \in Nat
      BY <1>0 DEF Measured
    <3> HIDE DEF a, r
    <3> QED BY <2>4, <2>5, <3>1, NoneStaysNone
  <2> DEFINE la == Len(a.plan)
             lr == Len(r.plan)
             gc == g.count
  <2>6. la \in Nat /\ lr \in Nat /\ gc \in Nat
    BY <1>0, <2>0, <2>1, <2>3 DEF Tight, Measured
  <2>7. /\ lr \in la .. (la + gc)
        /\ lr < la + gc => NoCandidate(r, g, nodes)
        /\ \A name : Have(r, name) = Have(a, name) + IF name = g.name THEN lr - la ELSE 0
    BY <2>3 DEF Progress
  <2>8. \A name : Have(a, name) \in Nat
    <3>1. a.plan \in Seq(P)
      BY <2>1 DEF Tight
    <3> QED BY <3>1, NamedGrows
  <2>w. \A name : /\ Want(k, name) \in Nat
                  /\ Want(m, name) = Want(k, name) + IF g.name = name THEN gc ELSE 0
    <3> HIDE DEF Want
    <3> QED BY <1>3, <2>0
  <2>s. /\ \A name : /\ Have(a, name) <= Want(k, name)
                     /\ Have(a, name) < Want(k, name) =>
                          \E i \in 1 .. k : groups[i].name = name /\ NoCandidate(a, groups[i], nodes)
        /\ \A i \in 1 .. k : groups[i].count <= la \/ NoCandidate(a, groups[i], nodes)
    BY <2>1
  <2>g. \A i \in 1 .. k : i \in 1 .. m /\ i \in 1 .. limit
    BY <1>0, <2>0
  <2>h. m \in 1 .. m
    BY <2>0
  <2> HIDE DEF la, lr, gc, Have, Want, a, r, m
  <2>9. ASSUME NEW name
        PROVE  /\ Have(r, name) <= Want(m, name)
               /\ Have(r, name) < Want(m, name) =>
                    \E i \in 1 .. m : groups[i].name = name /\ NoCandidate(r, groups[i], nodes)
    <3>1. Have(a, name) \in Nat /\ Want(k, name) \in Nat /\ Have(a, name) <= Want(k, name)
      BY <2>8, <2>s, <2>w
    <3>2. Have(a, name) < Want(k, name) =>
            \E i \in 1 .. m : groups[i].name = name /\ NoCandidate(r, groups[i], nodes)
      BY <2>5, <2>g, <2>s
    <3>3. CASE g.name = name
      <4>1. Have(r, name) = Have(a, name) + (lr - la) /\ Want(m, name) = Want(k, name) + gc
        BY <2>7, <2>w, <3>3
      <4>2. Have(r, name) <= Want(m, name)
        BY <2>6, <2>7, <3>1, <4>1
      <4>3. Have(r, name) < Want(m, name) => Have(a, name) < Want(k, name) \/ lr < la + gc
        BY <2>6, <2>7, <3>1, <4>1
      <4>4. lr < la + gc => \E i \in 1 .. m : groups[i].name = name /\ NoCandidate(r, groups[i], nodes)
        BY <2>7, <2>h, <3>3
      <4> QED BY <3>2, <4>2, <4>3, <4>4
    <3>4. CASE g.name # name
      <4>1. Have(r, name) = Have(a, name) /\ Want(m, name) = Want(k, name)
        BY <2>7, <2>w, <3>1, <3>4
      <4> QED BY <3>1, <3>2, <4>1
    <3> QED BY <3>3, <3>4
  <2>10. ASSUME NEW i \in 1 .. m PROVE groups[i].count <= lr \/ NoCandidate(r, groups[i], nodes)
    <3>1. CASE i = m
      <4>1. lr < la + gc \/ gc <= lr
        BY <2>6, <2>7
      <4> QED BY <2>7, <3>1, <4>1 DEF gc
    <3>2. CASE i # m
      <4>1. i \in 1 .. k
        BY <2>0, <3>2 DEF m
      <4>2. i \in 1 .. limit /\ groups[i].count \in Int
        BY <1>0, <2>g, <4>1
      <4>3. groups[i].count <= la => groups[i].count <= lr
        BY <2>6, <2>7, <4>2
      <4> QED BY <2>5, <2>s, <4>1, <4>2, <4>3
    <3> QED BY <3>1, <3>2
  <2>11. Stage(r, m)
    BY <2>3, <2>9, <2>10 DEF lr
  <2> QED BY <2>11 DEF r, m
<1> HIDE DEF A
<1>6. limit \in A
  BY <1>0, <1>4, <1>5, SetInduction
<1>7. Stage(f[limit], limit)
  BY <1>0, <1>6 DEF A
<1>8. \A name : Want(limit, name) = CountNamed(groups, name)
  BY <1>0 DEF CountNamed, CountOf, c
<1> HIDE DEF Want, Of
<1>9. Achieves(f[limit], groups, nodes, allocs)
  <2>1. \A name : /\ Cardinality(Named(f[limit].plan, name)) <= CountNamed(groups, name)
                  /\ Cardinality(Named(f[limit].plan, name)) < CountNamed(groups, name) =>
                       \E i \in DOMAIN groups : groups[i].name = name /\ NoCandidate(f[limit], groups[i], nodes)
    BY <1>0, <1>7, <1>8
  <2>2. \A i \in DOMAIN groups : groups[i].count <= Len(f[limit].plan) \/ NoCandidate(f[limit], groups[i], nodes)
    BY <1>0, <1>7
  <2>3. Tight(f[limit], Usable(nodes), Placements(groups, nodes), nodes, allocs)
    BY <1>7 DEF E, P
  <2> HIDE DEF Stage, Have
  <2> QED BY <2>1, <2>2, <2>3 DEF Achieves
<1> QED BY <1>1, <1>9

----------------------------------------------------------------------------
(* Exact totals, and the cluster after a plan was applied.                 *)

\* A demand that fits an i32 is computed exactly.
LEMMA DemandExact ==
  ASSUME NEW group, NEW T, group.tasks \in Seq(T),
         \A i \in DOMAIN group.tasks : \A d \in Dimension : group.tasks[i].resources[d] \in Nat,
         NEW d \in Dimension, Demand(group, d) < Half
  PROVE  Demand(group, d) \in Nat /\ GroupDemand(group)[d] = Demand(group, d)
<1> DEFINE c == [i \in DOMAIN group.tasks |-> group.tasks[i].resources[d]]
           S == DOMAIN group.tasks
<1>1. Demand(group, d) = SumFunctionOnSet(c, S)
  BY DEF Demand, SumFunction, SumFunctionOnSet, FoldFunction
<1>2. IsFiniteSet(S) /\ \A i \in S : c[i] \in Nat
  <2>1. S = 1 .. Len(group.tasks) /\ Len(group.tasks) \in Nat
    OBVIOUS
  <2>2. IsFiniteSet(1 .. Len(group.tasks))
    BY <2>1, FS_Interval
  <2> QED BY <2>1, <2>2
<1> HIDE DEF c, S
<1>3. Demand(group, d) \in Nat
  BY <1>1, <1>2, SumIsNat
<1>4. Demand(group, d) \in I32
  <2> DEFINE x == Demand(group, d)
  <2>1. x \in Nat /\ x < Half
    BY <1>3
  <2> HIDE DEF x
  <2>2. x \in I32
    BY <2>1, SchedulerAssumption DEF I32
  <2> QED BY <2>2 DEF x
<1>5. \A i \in DOMAIN group.tasks : \A x \in Dimension : group.tasks[i].resources[x] \in Int
  OBVIOUS
<1>6. GroupDemand(group)[d] = Wrap(Demand(group, d))
  BY <1>5, DemandIsSum
<1> QED BY <1>3, <1>4, <1>6, WrapSame

\* A number of instances that fits an i32 is computed exactly; it is 0 if no
\* group wants any.
LEMMA DesiredExact ==
  ASSUME NEW G, NEW groups \in Seq(G), \A i \in DOMAIN groups : groups[i].count \in Nat,
         TotalCount(groups) < Half
  PROVE  /\ DesiredCount(groups) \in Nat
         /\ DesiredCount(groups) = 0 <=> \A i \in DOMAIN groups : groups[i].count = 0
<1> DEFINE c == [i \in DOMAIN groups |-> groups[i].count]
           S == DOMAIN groups
<1>1. TotalCount(groups) = SumFunctionOnSet(c, S)
  BY DEF TotalCount, CountOf
<1>2. IsFiniteSet(S) /\ \A i \in S : c[i] \in Nat /\ c[i] = groups[i].count
  <2>1. S = 1 .. Len(groups) /\ Len(groups) \in Nat
    OBVIOUS
  <2>2. IsFiniteSet(1 .. Len(groups))
    BY <2>1, FS_Interval
  <2> QED BY <2>1, <2>2
<1>d. DesiredCount(groups) = Wrap(TotalCount(groups))
  <2>1. \A i \in DOMAIN groups : groups[i].count \in Int
    OBVIOUS
  <2> QED BY <2>1, DesiredIsTotal
<1>s. S = DOMAIN groups
  OBVIOUS
<1> HIDE DEF c, S
<1>3. SumFunctionOnSet(c, S) \in Nat /\ \A i \in S : c[i] <= SumFunctionOnSet(c, S)
  BY <1>2, SumIsNat
<1>4. TotalCount(groups) \in I32
  <2> DEFINE x == TotalCount(groups)
  <2>1. x \in Nat /\ x < Half
    BY <1>1, <1>3
  <2> HIDE DEF x
  <2>2. x \in I32
    BY <2>1, SchedulerAssumption DEF I32
  <2> QED BY <2>2 DEF x
<1>5. DesiredCount(groups) = SumFunctionOnSet(c, S)
  BY <1>1, <1>4, <1>d, WrapSame
<1>6. ASSUME SumFunctionOnSet(c, S) = 0 PROVE \A i \in S : c[i] = 0
  BY <1>2, <1>3, <1>6
<1>7. ASSUME \A i \in S : c[i] = 0 PROVE SumFunctionOnSet(c, S) = 0
  BY <1>2, <1>7, SumOfZeros
<1> QED BY <1>2, <1>3, <1>5, <1>6, <1>7, <1>s

\* after is allocs with the placements of the plan under ids <<e, i>>.
Joined(after, allocs, e, plan) ==
  /\ DOMAIN after = DOMAIN allocs \cup {<<e, i>> : i \in DOMAIN plan}
  /\ \A id \in DOMAIN allocs : after[id] = allocs[id]
  /\ \A i \in DOMAIN plan :
       /\ <<e, i>> \notin DOMAIN allocs
       /\ after[<<e, i>>].node = plan[i].node
       /\ after[<<e, i>>].resources = plan[i].resources
       /\ after[<<e, i>>].client_status = plan[i].client_status

LEMMA HoldJoined ==
  ASSUME NEW allocs, NEW e, NEW P, NEW plan \in Seq(P), NEW after, Joined(after, allocs, e, plan),
         NEW n, NEW d \in Dimension, IsFiniteSet(LiveOn(n, allocs)),
         \A id \in LiveOn(n, allocs) : allocs[id].resources[d] \in Int,
         \A p \in P : p.resources[d] \in Int
  PROVE  Hold(n, d, after) = Hold(n, d, allocs) + Hold(n, d, plan)
<1> DEFINE S == LiveOn(n, allocs)
           I == LiveOn(n, plan)
           T == LiveOn(n, after)
           f == [id \in DOMAIN allocs |-> allocs[id].resources[d]]
           h == [i \in DOMAIN plan |-> plan[i].resources[d]]
           k == [id \in DOMAIN after |-> after[id].resources[d]]
<1>1. S \subseteq DOMAIN allocs /\ I \subseteq DOMAIN plan
  BY DEF LiveOn
<1>2. IsFiniteSet(S) /\ \A x \in S : f[x] \in Int
  BY <1>1
<1>3. IsFiniteSet(I) /\ \A i \in I : h[i] \in Int
  <2>1. DOMAIN plan = 1 .. Len(plan) /\ Len(plan) \in Nat /\ \A i \in DOMAIN plan : plan[i] \in P
    OBVIOUS
  <2>2. IsFiniteSet(1 .. Len(plan))
    BY <2>1, FS_Interval
  <2>3. IsFiniteSet(I)
    BY <1>1, <2>1, <2>2, FS_Subset
  <2> QED BY <1>1, <2>1, <2>3
<1>4. \A i \in I : <<e, i>> \notin S /\ <<e, i>> \in DOMAIN after /\ k[<<e, i>>] = h[i]
  BY <1>1 DEF Joined
<1>5. \A x \in S : k[x] = f[x]
  BY <1>1 DEF Joined
<1>6. T = S \cup {<<e, i>> : i \in I}
  <2>1. ASSUME NEW x \in T PROVE x \in S \cup {<<e, i>> : i \in I}
    BY <2>1 DEF LiveOn, Joined
  <2>2. S \subseteq T
    BY DEF LiveOn, Joined
  <2>3. ASSUME NEW i \in I PROVE <<e, i>> \in T
    BY <2>3 DEF LiveOn, Joined
  <2> QED BY <2>1, <2>2, <2>3
<1>7. /\ Hold(n, d, allocs) = SumFunctionOnSet(f, S) /\ Hold(n, d, plan) = SumFunctionOnSet(h, I)
      /\ Hold(n, d, after) = SumFunctionOnSet(k, T)
  BY DEF Hold, Holding
<1> HIDE DEF S, I, T, f, h, k
<1>8. SumFunctionOnSet(k, T) = SumFunctionOnSet(f, S) + SumFunctionOnSet(h, I)
  <2> DEFINE id == [i \in I |-> <<e, i>>]
  <2>1. \A i \in I : id[i] \notin S /\ k[id[i]] = h[i]
    BY <1>4
  <2>2. \A i, j \in I : id[i] = id[j] => i = j
    OBVIOUS
  <2>3. T = S \cup {id[i] : i \in I}
    BY <1>6
  <2> HIDE DEF id
  <2>4. Joins(k, T, f, S, h, I, id)
    BY <1>2, <1>3, <1>5, <2>1, <2>2, <2>3 DEF Joins
  <2> QED BY <2>4, SumJoin
<1> QED BY <1>7, <1>8

\* after is the store once a plan that was made of it is applied.
Planned(after, e, acc, groups, nodes, allocs) ==
  /\ Measured(groups)
  /\ Books(nodes, allocs)
  /\ Tight(acc, Usable(nodes), Placements(groups, nodes), nodes, allocs)
  /\ Joined(after, allocs, e, acc.plan)

\* What is left of each node once the plan is applied.
LEMMA AfterPlan ==
  ASSUME NEW after, NEW e, NEW acc, NEW groups, NEW nodes, NEW allocs,
         Planned(after, e, acc, groups, nodes, allocs), NEW n, NEW d \in Dimension
  PROVE  /\ n \in Usable(nodes) =>
              /\ nodes[n].resources[d] - Hold(n, d, after) = acc.free[n][d]
              /\ acc.free[n][d] \in I32
              /\ acc.free[n][d] <= nodes[n].resources[d] - Hold(n, d, allocs)
              /\ \/ acc.free[n][d] >= 0
                 \/ acc.free[n][d] = nodes[n].resources[d] - Hold(n, d, allocs)
         /\ (n \notin Usable(nodes) /\ IsFiniteSet(LiveOn(n, allocs))
               /\ \A id \in LiveOn(n, allocs) : allocs[id].resources[d] \in Int) =>
              Hold(n, d, after) = Hold(n, d, allocs)
<1> DEFINE E == Usable(nodes)
           P == Placements(groups, nodes)
           plan == acc.plan
<1>0. /\ Measured(groups) /\ Books(nodes, allocs) /\ Tight(acc, E, P, nodes, allocs)
      /\ Joined(after, allocs, e, plan)
  BY DEF Planned
<1> USE <1>0
<1>1. plan \in Seq(P) /\ DOMAIN plan = 1 .. Len(plan) /\ Len(plan) \in Nat
  BY DEF Tight
<1>2. Sound(E, P, nodes, allocs)
  BY BooksSound
<1>3. \A p \in P : p.node \in E /\ p.resources[d] \in Nat
  <2> SUFFICES ASSUME NEW p \in P PROVE p.node \in E /\ p.resources[d] \in Nat
    OBVIOUS
  <2>1. PICK i \in DOMAIN groups, m \in E : p = MakeAlloc(groups[i], GroupDemand(groups[i]), m)
    BY PlacementOf
  <2>2. p.node = m /\ p.resources = GroupDemand(groups[i])
    BY <2>1 DEF MakeAlloc
  <2> QED BY <2>2 DEF Measured
<1> DEFINE h == [i \in DOMAIN plan |-> plan[i].resources[d]]
           I == LiveOn(n, plan)
<1>4. IsFiniteSet(I) /\ (\A i \in I : h[i] \in Nat) /\ I \subseteq DOMAIN plan
  <2>1. IsFiniteSet(1 .. Len(plan)) /\ I \subseteq DOMAIN plan
    BY <1>1, FS_Interval DEF LiveOn
  <2>2. IsFiniteSet(I)
    BY <1>1, <2>1, FS_Subset
  <2>3. \A i \in DOMAIN plan : plan[i] \in P
    BY <1>1
  <2> QED BY <1>3, <2>1, <2>2, <2>3
<1>5. Hold(n, d, plan) = SumFunctionOnSet(h, I)
  BY DEF Hold, Holding
<1>6. Hold(n, d, plan) \in Nat
  <2> HIDE DEF h, I
  <2> QED BY <1>4, <1>5, SumIsNat
<1>7. I = {} => Hold(n, d, plan) = 0
  <2> HIDE DEF h
  <2> QED BY <1>5, SumEmpty
<1>8. I # {} => n \in E /\ acc.free[n][d] >= 0
  <2> SUFFICES ASSUME NEW i \in I PROVE n \in E /\ acc.free[n][d] >= 0
    OBVIOUS
  <2>1. i \in DOMAIN plan /\ plan[i].node = n /\ plan[i] \in P
    BY <1>1, <1>4 DEF LiveOn
  <2> QED BY <1>3, <2>1 DEF Tight
<1>p. \A p \in P : p.resources[d] \in Int
  BY <1>3
<1> HIDE DEF I, h, P
<1>9. ASSUME n \in E
      PROVE  /\ nodes[n].resources[d] - Hold(n, d, after) = acc.free[n][d]
             /\ acc.free[n][d] \in I32
             /\ acc.free[n][d] <= nodes[n].resources[d] - Hold(n, d, allocs)
             /\ acc.free[n][d] >= 0 \/ acc.free[n][d] = nodes[n].resources[d] - Hold(n, d, allocs)
  <2> DEFINE x == nodes[n].resources[d]
             y == Hold(n, d, allocs)
             z == Hold(n, d, plan)
             w == Hold(n, d, after)
             v == acc.free[n][d]
  <2>1. x \in Int /\ y \in Int /\ z \in Nat
    BY <1>2, <1>6, <1>9 DEF Sound
  <2>2. v \in I32 /\ v = (x - y) - z
    BY <1>9 DEF Tight
  <2>3. w = y + z
    <3>1. IsFiniteSet(LiveOn(n, allocs)) /\ \A id \in LiveOn(n, allocs) : allocs[id].resources[d] \in Int
      BY <1>9 DEF Books
    <3> QED BY <1>1, <1>p, <3>1, HoldJoined
  <2>4. z = 0 \/ v >= 0
    BY <1>7, <1>8
  <2> HIDE DEF x, y, z, w, v
  <2>5. x - w = v /\ v \in I32 /\ v <= x - y /\ (v >= 0 \/ v = x - y)
    BY <2>1, <2>2, <2>3, <2>4
  <2> QED BY <2>5 DEF x, y, z, w, v
<1>10. ASSUME n \notin E, IsFiniteSet(LiveOn(n, allocs)),
              \A id \in LiveOn(n, allocs) : allocs[id].resources[d] \in Int
       PROVE  Hold(n, d, after) = Hold(n, d, allocs)
  <2>1. Hold(n, d, after) = Hold(n, d, allocs) + Hold(n, d, plan)
    BY <1>1, <1>10, <1>p, HoldJoined
  <2>2. Hold(n, d, plan) = 0
    BY <1>7, <1>8, <1>10
  <2>3. Hold(n, d, allocs) \in Int
    <3> DEFINE f == [id \in DOMAIN allocs |-> allocs[id].resources[d]]
               S == LiveOn(n, allocs)
    <3>1. IsFiniteSet(S) /\ \A id \in S : f[id] \in Int
      BY <1>10 DEF LiveOn
    <3>2. Hold(n, d, allocs) = SumFunctionOnSet(f, S)
      BY DEF Hold, Holding
    <3> HIDE DEF f, S
    <3> QED BY <3>1, <3>2, SumIsInt
  <2> QED BY <2>1, <2>2, <2>3
<1> QED BY <1>9, <1>10

\* An allocation that is not finished is live.
LEMMA LiveNotTerminal ==
  ASSUME NEW allocs, \A id \in DOMAIN allocs : allocs[id].client_status \in ClientStatus, NEW n
  PROVE  {id \in DOMAIN allocs : allocs[id].node = n /\ allocs[id].client_status \notin TerminalClientStatus}
           = LiveOn(n, allocs)
  BY DEF LiveOn, IsLive, ClientStatus, TerminalClientStatus

\* A constraint that is satisfied has an operand that is known.
LEMMA SatisfiedIsKnown ==
  ASSUME NEW c, NEW attributes, SatisfiedBy(c, attributes)
  PROVE  c.operand \in KnownOperands
  BY DEF SatisfiedBy, KnownOperands

============================================================================
