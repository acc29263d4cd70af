------------------------------ MODULE Arithmetic ------------------------------
(***************************************************************************)
(* Facts about numbers that the proofs of several components cite: the     *)
(* ranges into which a loop is cut, least elements, and finite sums.       *)
(***************************************************************************)
EXTENDS ZPartition, FiniteSetTheorems, WellFoundedInduction, NaturalsInduction, TLAPS

\* Division with remainder, the fact behind the closed forms.
LEMMA DivMod ==
  ASSUME NEW Nz \in Nat, NEW n \in Nat \ {0}
  PROVE  /\ BaseSize(Nz, n) \in Nat
         /\ Remainder(Nz, n) \in 0 .. n - 1
         /\ Nz = n * BaseSize(Nz, n) + Remainder(Nz, n)
BY DEF BaseSize, Remainder

\* Products of naturals: what the linear solvers do not know.
LEMMA Times ==
  ASSUME NEW k \in Nat, NEW n \in Nat, NEW q \in Nat
  PROVE  /\ k * q \in Nat
         /\ (k + 1) * q = k * q + q
         /\ k <= n => k * q <= n * q
<1>1. k * q \in Nat /\ (k + 1) * q = k * q + q
  OBVIOUS
<1>2. ASSUME k <= n PROVE k * q <= n * q
  <2> DEFINE d == n - k
  <2>1. d \in Nat /\ n = k + d
    BY <1>2
  <2>2. n * q = k * q + d * q
    BY <2>1
  <2>3. d * q \in Nat
    BY <2>1
  <2> QED BY <1>1, <2>2, <2>3
<1> QED BY <1>1, <1>2

\* Thread k's range ends where thread k + 1's begins.
LEMMA BeginStep ==
  ASSUME NEW Nz \in Nat, NEW n \in Nat \ {0}, NEW k \in Nat
  PROVE  /\ RangeBegin(Nz, n, k) \in Nat
         /\ RangeSize(Nz, n, k) \in Nat
         /\ RangeBegin(Nz, n, k + 1) = RangeBegin(Nz, n, k) + RangeSize(Nz, n, k)
<1> DEFINE q == BaseSize(Nz, n)
           r == Remainder(Nz, n)
<1>1. q \in Nat /\ r \in Nat
  BY DivMod
<1>2. k * q \in Nat /\ (k + 1) * q = k * q + q
  BY <1>1, Times
<1> HIDE DEF q, r
<1>3. /\ k * q + (IF k < r THEN k ELSE r) \in Nat
      /\ q + (IF k < r THEN 1 ELSE 0) \in Nat
      /\ (k + 1) * q + (IF k + 1 < r THEN k + 1 ELSE r)
           = k * q + (IF k < r THEN k ELSE r) + (q + (IF k < r THEN 1 ELSE 0))
  BY <1>1, <1>2
<1> QED BY <1>3 DEF RangeBegin, RangeSize, q, r

\* The ranges stay within the total, and the last one reaches it.
LEMMA BeginBound ==
  ASSUME NEW Nz \in Nat, NEW n \in Nat \ {0}, NEW k \in 0 .. n
  PROVE  /\ RangeBegin(Nz, n, k) \in 0 .. Nz
         /\ RangeBegin(Nz, n, 0) = 0
         /\ RangeBegin(Nz, n, n) = Nz
<1> DEFINE q == BaseSize(Nz, n)
           r == Remainder(Nz, n)
<1>1. q \in Nat /\ r \in 0 .. n - 1 /\ Nz = n * q + r
  BY DivMod
<1>2. k * q \in Nat /\ n * q \in Nat /\ k * q <= n * q /\ 0 * q = 0
  BY <1>1, Times
<1> HIDE DEF q, r
<1>3. /\ k * q + (IF k < r THEN k ELSE r) \in 0 .. Nz
      /\ 0 * q + (IF 0 < r THEN 0 ELSE r) = 0
      /\ n * q + (IF n < r THEN n ELSE r) = Nz
  BY <1>1, <1>2
<1> QED BY <1>3 DEF RangeBegin, q, r

\* The threads with a plane are the first NumRanges of them.
LEMMA SizePositive ==
  ASSUME NEW Nz \in Nat, NEW n \in Nat \ {0}, NEW k \in 0 .. n - 1
  PROVE  RangeSize(Nz, n, k) > 0 <=> k < NumRanges(Nz, n)
<1> DEFINE q == BaseSize(Nz, n)
           r == Remainder(Nz, n)
<1>1. q \in Nat /\ r \in 0 .. n - 1 /\ Nz = n * q + r
  BY DivMod
<1>2. CASE q = 0
  <2>1. n * q = 0
    BY <1>2
  <2>2. Nz = r
    BY <1>1, <2>1
  <2> QED BY <1>1, <1>2, <2>2 DEF RangeSize, NumRanges
<1>3. CASE q > 0
  <2>1. n * q >= n * 1
    BY <1>1, <1>3, Times, n * q = q * n, n * 1 = 1 * n, 1 <= q
  <2>2. Nz >= n
    BY <1>1, <2>1
  <2> QED BY <1>1, <1>3, <2>2 DEF RangeSize, NumRanges
<1> QED BY <1>1, <1>2, <1>3

\* A set of naturals has a least element.
LEMMA LeastElement ==
  ASSUME NEW S \in SUBSET Nat, S # {}
  PROVE  \E m \in S : \A k \in S : m <= k
<1> DEFINE R == {ss \in Nat \X Nat : ss[1] < ss[2]}
<1>1. IsWellFoundedOn(R, Nat)
  BY NatLessThanWellFounded DEF OpToRel
<1>2. PICK m \in S : \A k \in S : ~ (<<k, m>> \in R)
  <2> HIDE DEF R
  <2> QED BY <1>1, WFMin
<1>3. ASSUME NEW k \in S PROVE m <= k
  <2>1. ~ (<<k, m>> \in R) /\ k \in Nat /\ m \in Nat
    BY <1>2
  <2>2. ~ (k < m)
    BY <2>1
  <2> QED BY <2>1, <2>2
<1> QED BY <1>3

\* The range of thread k: where it is, and that it ends where the next one begins.
LEMMA RangeOf ==
  ASSUME NEW Nz \in Nat, NEW n \in Nat \ {0}, NEW k \in 0 .. NumRanges(Nz, n) - 1
  PROVE  /\ k \in 0 .. n - 1
         /\ RangeBegin(Nz, n, k) \in Nat
         /\ RangeEnd(Nz, n, k) \in Nat
         /\ RangeBegin(Nz, n, k) < RangeEnd(Nz, n, k)
         /\ RangeEnd(Nz, n, k) <= Nz
         /\ RangeEnd(Nz, n, k) = RangeBegin(Nz, n, k + 1)
<1>1. NumRanges(Nz, n) \in 0 .. n
  BY DEF NumRanges
<1>2. k \in 0 .. n - 1 /\ k \in Nat /\ k + 1 \in 0 .. n /\ k < NumRanges(Nz, n)
  BY <1>1
<1>3. RangeSize(Nz, n, k) > 0
  BY <1>2, SizePositive
<1>4. RangeEnd(Nz, n, k) = RangeBegin(Nz, n, k + 1)
  BY <1>2, BeginStep DEF RangeEnd
<1>5. RangeBegin(Nz, n, k) \in Nat /\ RangeSize(Nz, n, k) \in Nat
  BY <1>2, BeginStep
<1>6. RangeBegin(Nz, n, k + 1) \in 0 .. Nz
  BY <1>2, BeginBound
<1> QED BY <1>2, <1>3, <1>4, <1>5, <1>6 DEF RangeEnd

\* The ranges are in the order of the threads.
LEMMA RangeOrder ==
  ASSUME NEW Nz \in Nat, NEW n \in Nat \ {0},
         NEW j \in 0 .. NumRanges(Nz, n) - 1, NEW k \in 0 .. NumRanges(Nz, n) - 1, j < k
  PROVE  RangeEnd(Nz, n, j) <= RangeBegin(Nz, n, k)
<1> DEFINE q == BaseSize(Nz, n)
           r == Remainder(Nz, n)
<1>1. q \in Nat /\ r \in Nat
  BY DivMod
<1>2. j \in Nat /\ k \in Nat /\ j + 1 <= k
  BY DEF NumRanges
<1>3. (j + 1) * q \in Nat /\ k * q \in Nat /\ (j + 1) * q <= k * q
  BY <1>1, <1>2, Times
<1> HIDE DEF q, r
<1>4. (j + 1) * q + (IF j + 1 < r THEN j + 1 ELSE r) <= k * q + (IF k < r THEN k ELSE r)
  BY <1>1, <1>2, <1>3
<1>5. RangeBegin(Nz, n, j + 1) <= RangeBegin(Nz, n, k)
  BY <1>4 DEF RangeBegin, q, r
<1> QED BY <1>5, RangeOf

\* Every plane is in the range of a thread: the last one that begins at or before it.
LEMMA RangeCovers ==
  ASSUME NEW Nz \in Nat, NEW n \in Nat \ {0}, NEW z \in 0 .. Nz - 1
  PROVE  \E k \in 0 .. NumRanges(Nz, n) - 1 :
           RangeBegin(Nz, n, k) <= z /\ z < RangeEnd(Nz, n, k)
<1> DEFINE Beyond == {j \in 0 .. n : RangeBegin(Nz, n, j) > z}
<1>1. n \in Beyond /\ 0 \notin Beyond
  BY BeginBound
<1>2. Beyond \in SUBSET Nat /\ Beyond # {}
  BY <1>1
<1>3. PICK m \in Beyond : \A j \in Beyond : m <= j
  <2> HIDE DEF Beyond
  <2> QED BY <1>2, LeastElement
<1> DEFINE k == m - 1
<1>4. m \in 1 .. n /\ RangeBegin(Nz, n, m) > z
  BY <1>1, <1>3
<1>5. k \in 0 .. n - 1 /\ k \in Nat /\ k + 1 = m
  BY <1>4
<1>6. k \notin Beyond
  BY <1>3, <1>5
<1>7. RangeBegin(Nz, n, k) \in Nat /\ RangeBegin(Nz, n, k) <= z
  BY <1>5, <1>6, BeginStep
<1>8. /\ RangeSize(Nz, n, k) \in Nat
      /\ RangeEnd(Nz, n, k) = RangeBegin(Nz, n, m)
  BY <1>5, BeginStep DEF RangeEnd
<1>9. RangeSize(Nz, n, k) > 0
  BY <1>4, <1>7, <1>8 DEF RangeEnd
<1>10. k < NumRanges(Nz, n)
  BY <1>5, <1>9, SizePositive
<1>11. k \in 0 .. NumRanges(Nz, n) - 1
  BY <1>5, <1>10 DEF NumRanges
<1> QED BY <1>4, <1>7, <1>8, <1>11

-----------------------------------------------------------------------------
(* The numbers of a finite set can be put in order: if not for some bound,   *)
(* take the least such bound, and put the largest number behind the others.  *)

LEMMA Enumeration ==
  ASSUME NEW N \in Nat, NEW S \in SUBSET (0 .. N - 1)
  PROVE  \E q \in [1 .. Cardinality(S) -> S] :
           \A i, j \in 1 .. Cardinality(S) : i < j => q[i] < q[j]
<1> DEFINE Part(n) == S \cap (0 .. n - 1)
           Ordered(n) == \E q \in [1 .. Cardinality(Part(n)) -> Part(n)] :
                           \A i, j \in 1 .. Cardinality(Part(n)) : i < j => q[i] < q[j]
           Bad == {n \in 0 .. N : ~ Ordered(n)}
<1>1. \A n \in 0 .. N : IsFiniteSet(Part(n)) /\ Cardinality(Part(n)) \in Nat
  <2> SUFFICES ASSUME NEW n \in 0 .. N
               PROVE  IsFiniteSet(Part(n)) /\ Cardinality(Part(n)) \in Nat
    OBVIOUS
  <2>1. IsFiniteSet(0 .. n - 1) /\ Part(n) \subseteq 0 .. n - 1
    BY FS_Interval
  <2> HIDE DEF Part
  <2> QED BY <2>1, FS_Subset, FS_CardinalityType
<1>2. Bad = {}
  <2> SUFFICES ASSUME Bad # {} PROVE FALSE
    OBVIOUS
  <2>1. PICK n \in Bad : \A k \in Bad : n <= k
    <3>1. Bad \in SUBSET Nat
      OBVIOUS
    <3> HIDE DEF Bad
    <3> QED BY <3>1, LeastElement
  <2>2. n \in 0 .. N /\ ~ Ordered(n)
    OBVIOUS
  <2>3. n # 0
    <3> SUFFICES ASSUME n = 0 PROVE Ordered(n)
      BY <2>2
    <3>1. Part(n) = {}
      OBVIOUS
    <3>2. Cardinality({}) = 0
      BY FS_EmptySet
    <3> DEFINE q == [i \in 1 .. 0 |-> 0]
    <3>3. q \in [1 .. 0 -> {}] /\ \A i, j \in 1 .. 0 : i < j => q[i] < q[j]
      OBVIOUS
    <3> HIDE DEF q, Part
    <3> QED BY <3>1, <3>2, <3>3
  <2> DEFINE m == n - 1
  <2>4. m \in 0 .. N /\ m \notin Bad
    <3>1. m \in 0 .. N /\ ~ (n <= m)
      BY <2>2, <2>3
    <3> HIDE DEF Bad, m
    <3> QED BY <2>1, <3>1
  <2>5. Ordered(m)
    BY <2>4
  <2> DEFINE k == Cardinality(Part(m))
  <2>6. PICK q \in [1 .. k -> Part(m)] : \A i, j \in 1 .. k : i < j => q[i] < q[j]
    BY <2>5
  <2>7. k \in Nat /\ IsFiniteSet(Part(m))
    BY <1>1, <2>4
  <2>8. CASE m \notin S
    <3>1. Part(n) = Part(m)
      BY <2>2, <2>3, <2>8
    <3> HIDE DEF Part
    <3> QED BY <2>2, <2>5, <3>1
  <2>9. CASE m \in S
    <3>1. Part(n) = Part(m) \cup {m} /\ m \notin Part(m)
      BY <2>2, <2>3, <2>9
    <3>2. \A x \in Part(m) : x < m
      BY <2>2, <2>3
    <3>3. Cardinality(Part(n)) = k + 1
      BY <2>7, <3>1, FS_AddElement
    <3> DEFINE r == [i \in 1 .. k + 1 |-> IF i = k + 1 THEN m ELSE q[i]]
    <3> HIDE DEF Part, k
    <3>4. r \in [1 .. k + 1 -> Part(n)]
      BY <2>6, <2>7, <3>1
    <3>5. ASSUME NEW i \in 1 .. k + 1, NEW j \in 1 .. k + 1, i < j PROVE r[i] < r[j]
      <4>1. i \in 1 .. k /\ r[i] = q[i]
        BY <2>7, <3>5
      <4>2. CASE j = k + 1
        BY <2>6, <3>2, <4>1, <4>2
      <4>3. CASE j # k + 1
        BY <2>6, <2>7, <3>5, <4>1, <4>3
      <4> QED BY <4>2, <4>3
    <3> HIDE DEF r
    <3>6. Ordered(n)
      BY <3>3, <3>4, <3>5
    <3> QED BY <2>2, <3>6
  <2> QED BY <2>8, <2>9
<1>3. Ordered(N)
  <2>1. N \in 0 .. N
    OBVIOUS
  <2> HIDE DEF Ordered
  <2> QED BY <1>2, <2>1
<1>4. Part(N) = S
  OBVIOUS
<1> HIDE DEF Part
<1> QED BY <1>3, <1>4

-----------------------------------------------------------------------------
(* Sums over finite sets.  The folds of the community modules take the       *)
(* elements of a set in an order that is not known.  AddsUp says what the    *)
(* sums over all subsets are, whatever the order; an invariant that has such *)
(* a function as a witness is kept by a step that changes one summand, and   *)
(* the fold is its value at the whole set.                                   *)

SumStep(g, f, S) ==
  [s \in SUBSET S |->
     IF s = {} THEN 0 ELSE LET x == CHOOSE x \in s : TRUE IN f[x] + g[s \ {x}]]

\* MapThenSumSet(LAMBDA x : f[x], S), and FoldFunction(+, 0, f) if S is the domain of f.
SumOf(f, S) ==
  LET iter[s \in SUBSET S] ==
        IF s = {} THEN 0 ELSE LET x == CHOOSE x \in s : TRUE IN f[x] + iter[s \ {x}]
  IN  iter[S]

AddsUp(sigma, f, S) ==
  /\ sigma \in [SUBSET S -> Int]
  /\ sigma[{}] = 0
  /\ \A T \in SUBSET S : \A x \in T : f[x] \in Int /\ sigma[T] = f[x] + sigma[T \ {x}]

\* Two functions that take the elements away one by one have the same value: a smallest set
\* where they differ is not empty, and without one element they agree.
LEMMA SumIsUnique ==
  ASSUME NEW S, IsFiniteSet(S), NEW f, NEW sigma, AddsUp(sigma, f, S), NEW g,
         g = SumStep(g, f, S)
  PROVE  g[S] = sigma[S]
<1> DEFINE Wrong == {T \in SUBSET S : g[T] # sigma[T]}
           sizes == {Cardinality(T) : T \in Wrong}
<1>1. \A T \in SUBSET S : IsFiniteSet(T) /\ Cardinality(T) \in Nat
  BY FS_Subset, FS_CardinalityType
<1>2. SUFFICES ASSUME Wrong # {} PROVE FALSE
  OBVIOUS
<1>3. PICK m \in sizes : \A k \in sizes : m <= k
  <2>1. sizes \in SUBSET Nat /\ sizes # {}
    BY <1>1, <1>2
  <2> HIDE DEF sizes
  <2> QED BY <2>1, LeastElement
<1>4. PICK T \in SUBSET S : g[T] # sigma[T] /\ m = Cardinality(T)
  BY <1>3
<1>5. T # {}
  BY <1>4 DEF AddsUp, SumStep
<1> DEFINE x == CHOOSE x \in T : TRUE
           R == T \ {x}
<1>6. x \in T
  BY <1>5
<1>7. g[T] = f[x] + g[R]
  BY <1>5 DEF SumStep
<1> HIDE DEF x
<1>8. R \in SUBSET S /\ sigma[T] = f[x] + sigma[R]
  BY <1>4, <1>6 DEF AddsUp
<1>9. Cardinality(R) = Cardinality(T) - 1
  BY <1>1, <1>4, <1>6, FS_RemoveElement
<1>10. R \notin Wrong
  <2>1. ~ (m <= Cardinality(R))
    BY <1>1, <1>4, <1>9
  <2>2. Cardinality(R) \notin sizes
    BY <1>3, <2>1
  <2> QED BY <2>2
<1>11. g[R] = sigma[R]
  BY <1>8, <1>10
<1> QED BY <1>4, <1>7, <1>8, <1>11

\* The fold is the sum that adds up.
LEMMA SumIs ==
  ASSUME NEW S, IsFiniteSet(S), NEW f, NEW sigma, AddsUp(sigma, f, S)
  PROVE  SumOf(f, S) = sigma[S]
<1> DEFINE g == CHOOSE h : h = SumStep(h, f, S)
<1>1. sigma = SumStep(sigma, f, S)
  <2>1. ASSUME NEW s \in SUBSET S
        PROVE  sigma[s] = IF s = {} THEN 0 ELSE LET x == CHOOSE x \in s : TRUE IN f[x] + sigma[s \ {x}]
    <3>1. CASE s = {}
      BY <3>1 DEF AddsUp
    <3>2. CASE s # {}
      <4> DEFINE x == CHOOSE x \in s : TRUE
      <4>1. x \in s
        BY <3>2
      <4> HIDE DEF x
      <4>2. sigma[s] = f[x] + sigma[s \ {x}]
        BY <4>1 DEF AddsUp
      <4> QED BY <3>2, <4>2 DEF x
    <3> QED BY <3>1, <3>2
  <2>2. sigma = [s \in SUBSET S |-> sigma[s]]
    BY DEF AddsUp
  <2> QED BY <2>1, <2>2 DEF SumStep
<1>2. g = SumStep(g, f, S)
  BY <1>1
<1>3. g[S] = sigma[S]
  <2> HIDE DEF g
  <2> QED BY <1>2, SumIsUnique
<1>4. SumOf(f, S) = g[S]
  BY DEF SumOf, SumStep
<1> QED BY <1>3, <1>4

\* One summand grows.
LEMMA SumGrows ==
  ASSUME NEW S, NEW f, NEW sigma, AddsUp(sigma, f, S), NEW x \in S, NEW d \in Int,
         NEW h, \A y \in S : h[y] = IF y = x THEN f[y] + d ELSE f[y]
  PROVE  \E tau : AddsUp(tau, h, S) /\ tau[S] = sigma[S] + d
<1> DEFINE tau == [T \in SUBSET S |-> IF x \in T THEN sigma[T] + d ELSE sigma[T]]
<1>1. tau \in [SUBSET S -> Int] /\ tau[{}] = 0
  BY DEF AddsUp
<1>2. ASSUME NEW T \in SUBSET S, NEW y \in T PROVE h[y] \in Int /\ tau[T] = h[y] + tau[T \ {y}]
  <2>1. /\ f[y] \in Int /\ sigma[T] = f[y] + sigma[T \ {y}] /\ T \ {y} \in SUBSET S
        /\ sigma[T \ {y}] \in Int
    BY DEF AddsUp
  <2>2. h[y] = IF y = x THEN f[y] + d ELSE f[y]
    OBVIOUS
  <2>3. tau[T] = IF x \in T THEN sigma[T] + d ELSE sigma[T]
    OBVIOUS
  <2>4. tau[T \ {y}] = IF x \in T \ {y} THEN sigma[T \ {y}] + d ELSE sigma[T \ {y}]
    BY <2>1
  <2> HIDE DEF tau
  <2>5. CASE y = x
    BY <2>1, <2>2, <2>3, <2>4, <2>5
  <2>6. CASE y # x
    BY <2>1, <2>2, <2>3, <2>4, <2>6
  <2> QED BY <2>5, <2>6
<1>3. tau[S] = sigma[S] + d
  OBVIOUS
<1> HIDE DEF tau
<1> QED BY <1>1, <1>2, <1>3 DEF AddsUp

\* One element is added.
LEMMA SumExtends ==
  ASSUME NEW S, NEW f, NEW sigma, AddsUp(sigma, f, S), NEW x, x \notin S,
         NEW h, \A y \in S : h[y] = f[y], h[x] \in Int
  PROVE  \E tau : AddsUp(tau, h, S \cup {x}) /\ tau[S \cup {x}] = sigma[S] + h[x]
<1> DEFINE S2 == S \cup {x}
           tau == [T \in SUBSET S2 |-> IF x \in T THEN sigma[T \ {x}] + h[x] ELSE sigma[T]]
<1>1. tau \in [SUBSET S2 -> Int] /\ tau[{}] = 0
  <2>1. \A T \in SUBSET S2 : T \ {x} \in SUBSET S /\ (x \notin T => T \in SUBSET S)
    OBVIOUS
  <2> QED BY <2>1 DEF AddsUp
<1>2. ASSUME NEW T \in SUBSET S2, NEW y \in T PROVE h[y] \in Int /\ tau[T] = h[y] + tau[T \ {y}]
  <2> DEFINE U == T \ {x}
  <2>1. U \in SUBSET S /\ sigma[U] \in Int
    BY DEF AddsUp
  <2>2. tau[T] = IF x \in T THEN sigma[U] + h[x] ELSE sigma[T]
    OBVIOUS
  <2>3. tau[T \ {y}] = IF x \in T \ {y} THEN sigma[(T \ {y}) \ {x}] + h[x] ELSE sigma[T \ {y}]
    BY T \ {y} \in SUBSET S2
  <2> HIDE DEF tau
  <2>4. CASE y = x
    BY <2>1, <2>2, <2>3, <2>4
  <2>5. CASE y # x
    <3>1. y \in U /\ h[y] = f[y] /\ f[y] \in Int /\ sigma[U] = f[y] + sigma[U \ {y}]
      BY <2>1, <2>5 DEF AddsUp
    <3>2. (T \ {y}) \ {x} = U \ {y} /\ sigma[U \ {y}] \in Int
      BY <2>1 DEF AddsUp
    <3>3. x \notin T => U = T
      OBVIOUS
    <3>4. x \notin T => T \ {y} = U \ {y}
      OBVIOUS
    <3>5. x \in T <=> x \in T \ {y}
      BY <2>5
    <3> HIDE DEF U
    <3>6. h[x] \in Int
      OBVIOUS
    <3>7. CASE x \in T
      <4>1. tau[T \ {y}] = sigma[U \ {y}] + h[x] /\ tau[T] = sigma[U] + h[x]
        BY <2>2, <2>3, <3>2, <3>5, <3>7
      <4> QED BY <2>1, <3>1, <3>2, <3>6, <4>1
    <3>8. CASE x \notin T
      BY <2>1, <2>2, <2>3, <3>1, <3>2, <3>3, <3>4, <3>5, <3>8
    <3> QED BY <3>7, <3>8
  <2> QED BY <2>4, <2>5
<1>3. tau[S2] = sigma[S] + h[x]
  <2>1. S2 \ {x} = S /\ x \in S2 /\ S2 \in SUBSET S2
    OBVIOUS
  <2> QED BY <2>1
<1> HIDE DEF tau
<1> QED BY <1>1, <1>2, <1>3 DEF AddsUp

\* There is such a function, and so a sum: a smallest subset without one is not empty, and
\* the one of the subset without an element extends to it.
LEMMA SumExists ==
  ASSUME NEW S, IsFiniteSet(S), NEW f, \A x \in S : f[x] \in Int
  PROVE  \E sigma : AddsUp(sigma, f, S) /\ SumOf(f, S) = sigma[S] /\ sigma[S] \in Int
<1> DEFINE Without == {T \in SUBSET S : ~ \E sigma : AddsUp(sigma, f, T)}
           sizes == {Cardinality(T) : T \in Without}
<1>1. \A T \in SUBSET S : IsFiniteSet(T) /\ Cardinality(T) \in Nat
  BY FS_Subset, FS_CardinalityType
<1>2. Without = {}
  <2> SUFFICES ASSUME Without # {} PROVE FALSE
    OBVIOUS
  <2>1. PICK m \in sizes : \A k \in sizes : m <= k
    <3>1. sizes \in SUBSET Nat /\ sizes # {}
      BY <1>1
    <3> HIDE DEF sizes
    <3> QED BY <3>1, LeastElement
  <2>2. PICK T \in Without : m = Cardinality(T)
    OBVIOUS
  <2>3. T # {}
    <3> DEFINE zero == [s \in SUBSET {} |-> 0]
    <3>1. AddsUp(zero, f, {})
      BY DEF AddsUp
    <3> HIDE DEF zero
    <3> QED BY <3>1
  <2>4. PICK x : x \in T
    BY <2>3
  <2> DEFINE R == T \ {x}
  <2>5. Cardinality(R) = Cardinality(T) - 1 /\ R \in SUBSET S
    BY <1>1, <2>4, FS_RemoveElement
  <2>6. R \notin Without
    <3>1. ~ (m <= Cardinality(R))
      BY <1>1, <2>2, <2>5
    <3>2. Cardinality(R) \notin sizes
      BY <2>1, <3>1
    <3> QED BY <3>2
  <2>7. PICK sigma : AddsUp(sigma, f, R)
    BY <2>5, <2>6
  <2>8. x \notin R /\ R \cup {x} = T /\ f[x] \in Int
    BY <2>4
  <2> HIDE DEF R
  <2>9. \E tau : AddsUp(tau, f, R \cup {x})
    BY <2>7, <2>8, SumExtends
  <2> QED BY <2>8, <2>9
<1>3. PICK sigma : AddsUp(sigma, f, S)
  BY <1>2
<1>4. sigma[S] \in Int
  BY <1>3 DEF AddsUp
<1> QED BY <1>3, <1>4, SumIs

\* How sums change.
LEMMA SumType ==
  ASSUME NEW S, IsFiniteSet(S), NEW f, \A x \in S : f[x] \in Int
  PROVE  SumOf(f, S) \in Int
BY SumExists

LEMMA SumEmpty == ASSUME NEW f PROVE SumOf(f, {}) = 0
<1>1. PICK sigma : AddsUp(sigma, f, {}) /\ SumOf(f, {}) = sigma[{}]
  BY SumExists, FS_EmptySet
<1> QED BY <1>1 DEF AddsUp

LEMMA SumSame ==
  ASSUME NEW S, IsFiniteSet(S), NEW f, \A x \in S : f[x] \in Int,
         NEW h, \A x \in S : h[x] = f[x]
  PROVE  SumOf(h, S) = SumOf(f, S)
<1>1. PICK sigma : AddsUp(sigma, f, S) /\ SumOf(f, S) = sigma[S]
  BY SumExists
<1>2. AddsUp(sigma, h, S)
  BY <1>1 DEF AddsUp
<1> QED BY <1>1, <1>2, SumIs

LEMMA SumChanges ==
  ASSUME NEW S, IsFiniteSet(S), NEW f, \A x \in S : f[x] \in Int,
         NEW x \in S, NEW d \in Int,
         NEW h, \A y \in S : h[y] = IF y = x THEN f[y] + d ELSE f[y]
  PROVE  SumOf(h, S) = SumOf(f, S) + d
<1>1. PICK sigma : AddsUp(sigma, f, S) /\ SumOf(f, S) = sigma[S]
  BY SumExists
<1>2. PICK tau : AddsUp(tau, h, S) /\ tau[S] = sigma[S] + d
  BY <1>1, SumGrows
<1>3. SumOf(h, S) = tau[S]
  BY <1>2, SumIs
<1> QED BY <1>1, <1>2, <1>3

LEMMA SumWith ==
  ASSUME NEW S, IsFiniteSet(S), NEW f, \A y \in S : f[y] \in Int,
         NEW x, x \notin S, NEW h, \A y \in S : h[y] = f[y], h[x] \in Int
  PROVE  SumOf(h, S \cup {x}) = SumOf(f, S) + h[x]
<1>1. PICK sigma : AddsUp(sigma, f, S) /\ SumOf(f, S) = sigma[S]
  BY SumExists
<1>2. \E tau : AddsUp(tau, h, S \cup {x}) /\ tau[S \cup {x}] = sigma[S] + h[x]
  <2>1. AddsUp(sigma, f, S)
    BY <1>1
  <2> QED BY ONLY <2>1, x \notin S, \A y \in S : h[y] = f[y], h[x] \in Int, SumExtends
<1>3. IsFiniteSet(S \cup {x})
  BY FS_AddElement
<1>4. PICK tau : AddsUp(tau, h, S \cup {x}) /\ tau[S \cup {x}] = sigma[S] + h[x]
  BY <1>2
<1>5. SumOf(h, S \cup {x}) = tau[S \cup {x}]
  BY <1>3, <1>4, SumIs
<1> QED BY <1>1, <1>4, <1>5

\* The sum of two functions, by the sum of their witnesses.
LEMMA SumPlus ==
  ASSUME NEW S, IsFiniteSet(S), NEW f, \A x \in S : f[x] \in Int,
         NEW g, \A x \in S : g[x] \in Int, NEW h, \A x \in S : h[x] = f[x] + g[x]
  PROVE  SumOf(h, S) = SumOf(f, S) + SumOf(g, S)
<1>1. PICK sigma : AddsUp(sigma, f, S) /\ SumOf(f, S) = sigma[S]
  BY SumExists
<1>2. PICK tau : AddsUp(tau, g, S) /\ SumOf(g, S) = tau[S]
  BY SumExists
<1> DEFINE both == [T \in SUBSET S |-> sigma[T] + tau[T]]
<1>3. AddsUp(both, h, S)
  <2>1. both \in [SUBSET S -> Int] /\ both[{}] = 0
    BY <1>1, <1>2 DEF AddsUp
  <2>2. ASSUME NEW T \in SUBSET S, NEW x \in T
        PROVE  h[x] \in Int /\ both[T] = h[x] + both[T \ {x}]
    <3>1. /\ f[x] \in Int /\ sigma[T] = f[x] + sigma[T \ {x}] /\ sigma[T \ {x}] \in Int
          /\ g[x] \in Int /\ tau[T] = g[x] + tau[T \ {x}] /\ tau[T \ {x}] \in Int
      BY <1>1, <1>2 DEF AddsUp
    <3>2. h[x] = f[x] + g[x]
      OBVIOUS
    <3>3. both[T] = sigma[T] + tau[T] /\ both[T \ {x}] = sigma[T \ {x}] + tau[T \ {x}]
      OBVIOUS
    <3> HIDE DEF both
    <3> QED BY <3>1, <3>2, <3>3
  <2> HIDE DEF both
  <2> QED BY <2>1, <2>2 DEF AddsUp
<1>4. both[S] = sigma[S] + tau[S]
  OBVIOUS
<1> HIDE DEF both
<1>5. SumOf(h, S) = both[S]
  BY <1>3, SumIs
<1> QED BY <1>1, <1>2, <1>4, <1>5

\* Sums over intervals: f[a] + ... + f[b - 1].
SumTo(f, a, b) == SumOf(f, a .. b - 1)

LEMMA IntervalType ==
  ASSUME NEW a \in Int, NEW b \in Int, NEW f, \A x \in a .. b - 1 : f[x] \in Int
  PROVE  SumTo(f, a, b) \in Int
BY FS_Interval, SumType DEF SumTo

LEMMA IntervalEmpty ==
  ASSUME NEW a \in Int, NEW f
  PROVE  SumTo(f, a, a) = 0
<1>1. a .. a - 1 = {}
  OBVIOUS
<1> QED BY <1>1, SumEmpty DEF SumTo

LEMMA IntervalNext ==
  ASSUME NEW a \in Int, NEW b \in Int, a <= b, NEW f, \A x \in a .. b : f[x] \in Int
  PROVE  SumTo(f, a, b + 1) = SumTo(f, a, b) + f[b]
<1> DEFINE S == a .. b - 1
<1>1. IsFiniteSet(S) /\ b \notin S /\ S \cup {b} = a .. (b + 1) - 1
  <2>1. IsFiniteSet(S)
    BY FS_Interval
  <2>2. b \notin S /\ S \cup {b} = a .. (b + 1) - 1
    OBVIOUS
  <2> HIDE DEF S
  <2> QED BY <2>1, <2>2
<1>2. (\A x \in S : f[x] \in Int) /\ f[b] \in Int
  OBVIOUS
<1>3. SumTo(f, a, b + 1) = SumOf(f, S \cup {b})
  BY <1>1 DEF SumTo
<1>4. SumTo(f, a, b) = SumOf(f, S)
  BY DEF SumTo
<1> HIDE DEF S
<1>5. SumOf(f, S \cup {b}) = SumOf(f, S) + f[b]
  BY <1>1, <1>2, SumWith
<1> QED BY <1>3, <1>4, <1>5

\* Two intervals that meet: if it fails for some end of the second one, take the nearest such.
LEMMA IntervalJoin ==
  ASSUME NEW a \in Int, NEW b \in Int, NEW c \in Int, a <= b, b <= c,
         NEW f, \A x \in a .. c - 1 : f[x] \in Int
  PROVE  SumTo(f, a, c) = SumTo(f, a, b) + SumTo(f, b, c)
<1> DEFINE Fails(k) == SumTo(f, a, b + k) # SumTo(f, a, b) + SumTo(f, b, b + k)
           Bad == {k \in 0 .. c - b : Fails(k)}
<1>1. Bad = {}
  <2> SUFFICES ASSUME Bad # {} PROVE FALSE
    OBVIOUS
  <2>1. PICK k \in Bad : \A m \in Bad : k <= m
    <3>1. Bad \in SUBSET Nat
      OBVIOUS
    <3> HIDE DEF Bad
    <3> QED BY <3>1, LeastElement
  <2>2. k \in 0 .. c - b /\ Fails(k)
    OBVIOUS
  <2>3. SumTo(f, a, b) \in Int
    BY IntervalType
  <2>4. k # 0
    <3>1. b + 0 = b /\ SumTo(f, b, b) = 0
      BY IntervalEmpty
    <3> QED BY <2>2, <2>3, <3>1
  <2> DEFINE m == k - 1
  <2>5. m \in 0 .. c - b /\ ~ Fails(m)
    <3>1. m \in 0 .. c - b /\ ~ (k <= m)
      BY <2>2, <2>4
    <3>2. m \notin Bad
      <4> HIDE DEF Bad, m
      <4> QED BY <2>1, <3>1
    <3> QED BY <3>1, <3>2
  <2> DEFINE e == b + m
  <2>6. /\ e \in Int /\ a <= e /\ b <= e /\ e + 1 = b + k
        /\ \A x \in a .. e : f[x] \in Int
        /\ \A x \in b .. e : f[x] \in Int
    BY <2>2, <2>4
  <2>7. SumTo(f, a, e) = SumTo(f, a, b) + SumTo(f, b, e)
    BY <2>5
  <2> HIDE DEF m, e
  <2>8. /\ SumTo(f, a, e + 1) = SumTo(f, a, e) + f[e]
        /\ SumTo(f, b, e + 1) = SumTo(f, b, e) + f[e]
    BY <2>6, IntervalNext
  <2>9. SumTo(f, b, e) \in Int /\ f[e] \in Int
    <3>1. \A x \in b .. e - 1 : f[x] \in Int
      BY <2>6
    <3>2. e \in b .. e
      BY <2>6
    <3> QED BY <2>6, <3>1, <3>2, IntervalType
  <2> QED BY <2>2, <2>3, <2>6, <2>7, <2>8, <2>9
<1>2. ~ Fails(c - b) /\ b + (c - b) = c
  <2>1. c - b \in 0 .. c - b
    OBVIOUS
  <2> HIDE DEF Fails
  <2> QED BY <1>1, <2>1
<1> QED BY <1>2

\* Numbers that step divides.
LEMMA DivisiblePlus ==
  ASSUME NEW a \in Nat, NEW b \in Nat, NEW s \in Nat \ {0}, a % s = 0, b % s = 0
  PROVE  (a + b) % s = 0
<1> DEFINE p == a \div s
           q == b \div s
<1>1. p \in Nat /\ q \in Nat /\ a = s * p /\ b = s * q
  OBVIOUS
<1> HIDE DEF p, q
<1>2. a + b = s * (p + q) /\ p + q \in Nat
  BY <1>1
<1>3. ASSUME NEW n \in Nat PROVE (s * n) % s = 0
  OBVIOUS
<1> QED BY <1>2, <1>3

LEMMA DivisibleClose ==
  ASSUME NEW a \in Nat, NEW b \in Nat, NEW s \in Nat \ {0}, a % s = 0, b % s = 0,
         a <= b, b < a + s
  PROVE  a = b
<1> DEFINE p == a \div s
           q == b \div s
<1>1. p \in Nat /\ q \in Nat /\ a = s * p /\ b = s * q
  OBVIOUS
<1> HIDE DEF p, q
<1> DEFINE d == q - p
<1>2. d \in Int /\ s * d = b - a
  BY <1>1
<1> HIDE DEF d
<1>3. ~ (d >= 1)
  <2> SUFFICES ASSUME d >= 1 PROVE FALSE
    OBVIOUS
  <2>1. s * (d - 1) >= 0 /\ s * (d - 1) = s * d - s
    BY <1>2
  <2> QED BY <1>2, <2>1
<1>4. ~ (d <= -1)
  <2> SUFFICES ASSUME d <= -1 PROVE FALSE
    OBVIOUS
  <2>1. s * ((-1) - d) >= 0 /\ s * ((-1) - d) = (- s) - s * d
    BY <1>2
  <2> QED BY <1>2, <2>1
<1>5. d = 0
  BY <1>2, <1>3, <1>4
<1> QED BY <1>2, <1>5
=============================================================================
