----------------------------- MODULE ListProofs -----------------------------
(***************************************************************************)
(* What the proofs about computations over lists need: an element that is  *)
(* least, the values a loop takes on its way through a list and what its   *)
(* steps preserve, sorted numbers, filters and sums.                       *)
(***************************************************************************)
EXTENDS Lists, FiniteSetsExt, SequencesExt, FiniteSetTheorems, FunctionTheorems,
        SequenceTheorems, WellFoundedInduction, TLAPS

(* A set of numbers that is not empty has a least one.                      *)
LEMMA LeastIndexExists ==
  ASSUME NEW S \in SUBSET Nat, S # {}
  PROVE  \E x \in S : \A y \in S : x <= y
<1>1. PICK x \in S : \A y \in S : ~ (<< y, x >> \in OpToRel(<, Nat))
  BY WFMin, NatLessThanWellFounded, Zenon
<1>2. \A y \in S : ~ (y < x)
  BY <1>1 DEF OpToRel
<1> QED
  BY <1>2

(* The values a computation takes on its way through a list of N elements.  *)
Runs(S, N, base, step) ==
  { f \in [0 .. N -> S] : f[0] = base /\ \A n \in 1 .. N : f[n] = step[<< f[n - 1], n >>] }

(* They exist for every list, ...                                           *)
LEMMA FoldExists ==
  ASSUME NEW S, NEW N \in Nat, NEW base \in S, NEW step \in [S \X (1 .. N) -> S]
  PROVE  Runs(S, N, base, step) # {}
<1> DEFINE Upto(m) == \E f \in [0 .. m -> S] :
             f[0] = base /\ \A n \in 1 .. m : f[n] = step[<< f[n - 1], n >>]
           Bad == { m \in 0 .. N : ~ Upto(m) }
<1>1. Upto(0)
  <2>1. [n \in 0 .. 0 |-> base] \in [0 .. 0 -> S] /\ [n \in 0 .. 0 |-> base][0] = base
        /\ 1 .. 0 = {}
    OBVIOUS
  <2> QED
    BY <2>1
<1>2. ASSUME NEW m \in 1 .. N, Upto(m - 1)
      PROVE  Upto(m)
  <2>1. PICK f \in [0 .. m - 1 -> S] :
          f[0] = base /\ \A n \in 1 .. m - 1 : f[n] = step[<< f[n - 1], n >>]
    BY <1>2
  <2> DEFINE g == [n \in 0 .. m |-> IF n = m THEN step[<< f[m - 1], m >>] ELSE f[n]]
  <2>2. step[<< f[m - 1], m >>] \in S
    <3>1. f[m - 1] \in S
      BY <2>1
    <3> QED
      BY <3>1
  <2>3. g \in [0 .. m -> S]
    BY <2>1, <2>2
  <2>4. g[0] = base
    BY <2>1
  <2>5. ASSUME NEW n \in 1 .. m
        PROVE  g[n] = step[<< g[n - 1], n >>]
    <3>1. n - 1 \in 0 .. m /\ n - 1 # m /\ n \in 0 .. m
      OBVIOUS
    <3>2. g[n - 1] = f[n - 1]
      BY <3>1
    <3>3. CASE n = m
      <4>1. g[n] = step[<< f[m - 1], m >>]
        BY <3>1, <3>3
      <4> QED
        BY <3>2, <3>3, <4>1
    <3>4. CASE n # m
      <4>1. n \in 1 .. m - 1 /\ g[n] = f[n]
        BY <3>4
      <4> QED
        BY <2>1, <3>2, <4>1
    <3> QED
      BY <3>3, <3>4
  <2> HIDE DEF g
  <2> QED
    BY <2>3, <2>4, <2>5
<1>3. Bad = {}
  <2> SUFFICES ASSUME Bad # {} PROVE FALSE
    OBVIOUS
  <2> HIDE DEF Upto
  <2>1. PICK m \in Bad : \A y \in Bad : m <= y
    <3>1. Bad \in SUBSET Nat
      OBVIOUS
    <3> HIDE DEF Bad
    <3> QED
      BY <3>1, LeastIndexExists
  <2>2. m # 0
    BY <1>1
  <2>3. m - 1 \in 0 .. N /\ m \in 1 .. N /\ m - 1 \notin Bad
    BY <2>1, <2>2
  <2> QED
    BY <1>2, <2>1, <2>3
<1> QED
  <2>1. Upto(N)
    BY <1>3
  <2> QED
    BY <2>1 DEF Runs

(* ... and what each step preserves holds at its end.                       *)
LEMMA FoldInvariant ==
  ASSUME NEW Good, NEW N \in Nat, NEW f, f[0] \in Good,
         \A n \in 1 .. N : f[n - 1] \in Good => f[n] \in Good
  PROVE  f[N] \in Good
<1> DEFINE Bad == { m \in 0 .. N : f[m] \notin Good }
<1>1. Bad = {}
  <2> SUFFICES ASSUME Bad # {} PROVE FALSE
    OBVIOUS
  <2>1. PICK m \in Bad : \A y \in Bad : m <= y
    <3>1. Bad \in SUBSET Nat
      OBVIOUS
    <3> HIDE DEF Bad
    <3> QED
      BY <3>1, LeastIndexExists
  <2>2. m # 0
    BY <2>1
  <2>3. m - 1 \in 0 .. N /\ m \in 1 .. N /\ m - 1 \notin Bad
    BY <2>1, <2>2
  <2> QED
    BY <2>1, <2>3
<1> QED
  BY <1>1

(* Induction up to a number, and the greatest and the least of numbers.     *)
LEMMA CountUpTo ==
  ASSUME NEW Good, NEW N \in Nat, 0 \in Good,
         \A n \in 1 .. N : n - 1 \in Good => n \in Good
  PROVE  N \in Good
<1> DEFINE f == [i \in 0 .. N |-> i]
<1>1. f[0] = 0 /\ f[N] = N /\ \A n \in 1 .. N : f[n - 1] = n - 1 /\ f[n] = n
  OBVIOUS
<1> HIDE DEF f
<1>2. f[0] \in Good /\ \A n \in 1 .. N : f[n - 1] \in Good => f[n] \in Good
  BY <1>1
<1>3. f[N] \in Good
  BY <1>2, FoldInvariant
<1> QED
  BY <1>1, <1>3

LEMMA GreatestIndexExists ==
  ASSUME NEW n \in Nat, NEW S \in SUBSET (0 .. n), S # {}
  PROVE  Max(S) \in S /\ \A y \in S : y <= Max(S)
<1> DEFINE R == { n - x : x \in S }
<1>1. R \in SUBSET Nat /\ R # {}
  OBVIOUS
<1> HIDE DEF R
<1>2. PICK r \in R : \A y \in R : r <= y
  BY <1>1, LeastIndexExists
<1>3. PICK x \in S : r = n - x
  BY DEF R
<1>4. \A y \in S : y <= x
  <2> SUFFICES ASSUME NEW y \in S PROVE y <= x
    OBVIOUS
  <2>1. n - y \in R
    BY DEF R
  <2> QED
    BY <1>2, <1>3, <2>1
<1>5. \E m \in S : \A y \in S : m >= y
  BY <1>4
<1>6. Max(S) \in S /\ \A y \in S : Max(S) >= y
  BY <1>5 DEF Max
<1> QED
  BY <1>6

LEMMA LeastOfNumbers ==
  ASSUME NEW S \in SUBSET Nat, S # {}
  PROVE  Min(S) \in S /\ \A y \in S : Min(S) <= y
<1>1. \E m \in S : \A y \in S : m <= y
  BY LeastIndexExists
<1> QED
  BY <1>1 DEF Min

(* What is taken from the front of a sequence and put to its end.           *)
LEMMA TailProperties ==
  ASSUME NEW S, NEW q \in Seq(S), q # << >>
  PROVE  /\ Tail(q) \in Seq(S) /\ Len(Tail(q)) = Len(q) - 1 /\ Len(q) \in Nat \ {0}
         /\ \A i \in 1 .. Len(Tail(q)) : Tail(q)[i] = q[i + 1]
         /\ Head(q) = q[1] /\ Head(q) \in Range(q) /\ Range(Tail(q)) \subseteq Range(q)
<1>1. /\ Tail(q) \in Seq(S) /\ Len(Tail(q)) = Len(q) - 1
      /\ \A i \in 1 .. Len(Tail(q)) : Tail(q)[i] = q[i + 1]
  BY HeadTailProperties
<1>2. Head(q) = q[1] /\ 1 \in DOMAIN q /\ Len(q) \in Nat \ {0}
  OBVIOUS
<1>3. Range(Tail(q)) \subseteq Range(q)
  BY <1>1, <1>2 DEF Range
<1> QED
  BY <1>1, <1>2, <1>3 DEF Range

LEMMA AppendRange ==
  ASSUME NEW S, NEW q \in Seq(S), NEW x \in S
  PROVE  Range(Append(q, x)) = Range(q) \cup {x} /\ Len(q) \in Nat
<1>1. /\ Append(q, x) \in Seq(S) /\ Len(Append(q, x)) = Len(q) + 1
      /\ \A i \in 1 .. Len(q) : Append(q, x)[i] = q[i]
      /\ Append(q, x)[Len(q) + 1] = x /\ Len(q) \in Nat
  OBVIOUS
<1> QED
  BY <1>1 DEF Range

-----------------------------------------------------------------------------
(* The elements of a set of numbers in order, each at its rank.             *)
Rank(S, x) == Cardinality({ y \in S : y <= x })

LEMMA RankProperties ==
  ASSUME NEW S \in SUBSET Int, IsFiniteSet(S), NEW x \in S
  PROVE  /\ Rank(S, x) \in 1 .. Cardinality(S) /\ Cardinality(S) \in Nat
         /\ \A z \in S : z < x => Rank(S, z) < Rank(S, x)
<1> DEFINE Upto(z) == { y \in S : y <= z }
<1>1. \A z : IsFiniteSet(Upto(z)) /\ Cardinality(Upto(z)) \in Nat
             /\ Cardinality(Upto(z)) <= Cardinality(S)
  <2> SUFFICES ASSUME NEW z
               PROVE  IsFiniteSet(Upto(z)) /\ Cardinality(Upto(z)) \in Nat
                      /\ Cardinality(Upto(z)) <= Cardinality(S)
    OBVIOUS
  <2>1. Upto(z) \in SUBSET S
    OBVIOUS
  <2> HIDE DEF Upto
  <2> QED
    BY <2>1, FS_Subset, FS_CardinalityType
<1>2. \A z : Rank(S, z) = Cardinality(Upto(z))
  BY DEF Rank
<1>3. x \in Upto(x)
  OBVIOUS
<1>4. Cardinality(Upto(x)) # 0
  BY <1>1, <1>3, FS_EmptySet
<1>5. ASSUME NEW z \in S, z < x
      PROVE  Rank(S, z) < Rank(S, x)
  <2>1. Upto(z) \in SUBSET Upto(x) /\ x \notin Upto(z)
    <3>1. \A y \in S : y \in Int /\ (y <= z => y <= x) /\ ~ (x <= z)
      BY <1>5
    <3> QED
      BY <3>1
  <2> HIDE DEF Upto
  <2>2. Cardinality(Upto(z)) <= Cardinality(Upto(x))
        /\ Cardinality(Upto(z)) # Cardinality(Upto(x))
    BY <1>1, <1>3, <2>1, FS_Subset
  <2> QED
    BY <1>1, <1>2, <2>2
<1> HIDE DEF Upto
<1> QED
  BY <1>1, <1>2, <1>4, <1>5, FS_CardinalityType

LEMMA RankIsUnique ==
  ASSUME NEW S \in SUBSET Int, IsFiniteSet(S), NEW x \in S, NEW y \in S,
         Rank(S, x) = Rank(S, y)
  PROVE  x = y
<1>1. Rank(S, x) \in Int /\ (x < y => Rank(S, x) < Rank(S, y))
      /\ (y < x => Rank(S, y) < Rank(S, x))
  BY RankProperties
<1> QED
  BY <1>1

LEMMA EveryRankTaken ==
  ASSUME NEW S \in SUBSET Int, IsFiniteSet(S), NEW k \in 1 .. Cardinality(S)
  PROVE  \E x \in S : Rank(S, x) = k
<1> DEFINE n == Cardinality(S)
           rank == [x \in S |-> Rank(S, x)]
<1>1. n \in Nat
  BY FS_CardinalityType
<1>2. rank \in [S -> 1 .. n]
  BY RankProperties
<1>3. \A x, y \in S : rank[x] = rank[y] => x = y
  BY RankIsUnique
<1>4. IsFiniteSet(1 .. n) /\ Cardinality(1 .. n) = n
  BY <1>1, FS_Interval
<1> HIDE DEF n, rank
<1>5. rank \in Injection(S, 1 .. n)
  BY <1>2, <1>3 DEF Injection, IsInjective
<1>6. rank \in Surjection(S, 1 .. n)
  BY <1>4, <1>5, FS_Injection DEF n
<1>7. \E x \in S : rank[x] = k
  BY <1>6 DEF Surjection, n
<1> QED
  BY <1>7 DEF rank

LEMMA AscendingProperties ==
  ASSUME NEW S \in SUBSET Int, IsFiniteSet(S)
  PROVE  LET A == Ascending(S)
             n == Cardinality(S)
         IN  /\ n \in Nat /\ A \in [1 .. n -> S]
             /\ \A k \in 1 .. n : Rank(S, A[k]) = k
             /\ \A j, k \in 1 .. n : j < k => A[j] < A[k]
             /\ \A x \in S : \E k \in 1 .. n : A[k] = x
<1> DEFINE A == Ascending(S)
           n == Cardinality(S)
<1>1. n \in Nat
  BY FS_CardinalityType
<1>2. \A k \in 1 .. n : A[k] \in S /\ Rank(S, A[k]) = k
  <2> SUFFICES ASSUME NEW k \in 1 .. n PROVE A[k] \in S /\ Rank(S, A[k]) = k
    OBVIOUS
  <2>1. A[k] = CHOOSE x \in S : Rank(S, x) = k
    BY DEF Ascending, Rank
  <2>2. \E x \in S : Rank(S, x) = k
    BY EveryRankTaken
  <2> HIDE DEF A
  <2> QED
    BY <2>1, <2>2
<1>3. A \in [1 .. n -> S]
  <2> DEFINE At(k) == CHOOSE x \in S : Cardinality({ y \in S : y <= x }) = k
  <2>0. A = [k \in 1 .. n |-> At(k)]
    BY DEF Ascending
  <2> HIDE DEF A, At
  <2>1. A = [k \in 1 .. n |-> A[k]]
    BY <2>0
  <2> QED
    BY <1>2, <2>1
<1> HIDE DEF A, n
<1>4. \A j, k \in 1 .. n : j < k => A[j] < A[k]
  <2> SUFFICES ASSUME NEW j \in 1 .. n, NEW k \in 1 .. n, j < k PROVE A[j] < A[k]
    OBVIOUS
  <2>1. A[j] \in Int /\ A[k] \in Int
    BY <1>2
  <2>2. A[k] < A[j] => Rank(S, A[k]) < Rank(S, A[j])
    BY <1>2, RankProperties
  <2>3. A[j] # A[k]
    BY <1>2
  <2> QED
    BY <1>2, <2>1, <2>2, <2>3
<1>5. \A x \in S : \E k \in 1 .. n : A[k] = x
  <2> SUFFICES ASSUME NEW x \in S PROVE \E k \in 1 .. n : A[k] = x
    OBVIOUS
  <2>1. Rank(S, x) \in 1 .. n
    BY RankProperties DEF n
  <2>2. A[Rank(S, x)] \in S /\ Rank(S, A[Rank(S, x)]) = Rank(S, x)
    BY <1>2, <2>1
  <2>3. A[Rank(S, x)] = x
    <3>1. \A y \in S : Rank(S, y) = Rank(S, x) => y = x
      BY RankIsUnique
    <3> QED
      BY <2>2, <3>1
  <2> QED
    BY <2>1, <2>3
<1> QED
  BY <1>1, <1>2, <1>3, <1>4, <1>5 DEF A, n

(* What is added above all others comes after them.                         *)
LEMMA AscendingExtends ==
  ASSUME NEW T \in SUBSET Int, IsFiniteSet(T), NEW S \in SUBSET T,
         \A x \in S : \A y \in T \ S : x < y
  PROVE  /\ Cardinality(S) <= Cardinality(T)
         /\ \A k \in 1 .. Cardinality(S) : Ascending(T)[k] = Ascending(S)[k]
         /\ \A k \in 1 .. Cardinality(T) : k > Cardinality(S) => Ascending(T)[k] \in T \ S
<1> DEFINE A == Ascending(S)
           B == Ascending(T)
           m == Cardinality(S)
           n == Cardinality(T)
<1>1. IsFiniteSet(S) /\ m <= n /\ S \in SUBSET Int
  BY FS_Subset
<1>2. /\ m \in Nat /\ A \in [1 .. m -> S]
      /\ \A k \in 1 .. m : Rank(S, A[k]) = k
      /\ \A x \in S : \E k \in 1 .. m : A[k] = x
  BY <1>1, AscendingProperties
<1>3. /\ n \in Nat /\ B \in [1 .. n -> T]
      /\ \A k \in 1 .. n : Rank(T, B[k]) = k
      /\ \A j, k \in 1 .. n : j < k => B[j] < B[k]
  BY AscendingProperties
<1>4. ASSUME NEW x \in S
      PROVE  Rank(T, x) = Rank(S, x)
  <2>1. \A y \in T : y <= x => y \in S
    <3> SUFFICES ASSUME NEW y \in T, y \notin S PROVE ~ (y <= x)
      OBVIOUS
    <3>1. x < y /\ x \in Int /\ y \in Int
      OBVIOUS
    <3> QED
      BY <3>1
  <2>2. { y \in T : y <= x } = { y \in S : y <= x }
    BY <2>1
  <2> QED
    BY <2>2 DEF Rank
<1> HIDE DEF A, B, m, n
<1>5. \A k \in 1 .. m : B[k] = A[k]
  <2> SUFFICES ASSUME NEW k \in 1 .. m PROVE B[k] = A[k]
    OBVIOUS
  <2>1. k \in 1 .. n
    BY <1>1, <1>2, <1>3
  <2>2. B[k] \in T /\ A[k] \in T /\ Rank(T, B[k]) = k /\ Rank(T, A[k]) = k
    BY <1>2, <1>3, <1>4, <2>1
  <2>3. \A x, y \in T : Rank(T, x) = Rank(T, y) => x = y
    BY RankIsUnique
  <2> QED
    BY <2>2, <2>3
<1>6. ASSUME NEW k \in 1 .. n, k > m
      PROVE  B[k] \in T \ S
  <2> SUFFICES ASSUME B[k] \in S PROVE FALSE
    BY <1>3
  <2>1. PICK j \in 1 .. m : A[j] = B[k]
    BY <1>2
  <2>2. B[j] = B[k] /\ j \in 1 .. n /\ j < k
    BY <1>1, <1>2, <1>3, <1>5, <1>6, <2>1
  <2>3. B[j] < B[k] /\ B[k] \in Int
    BY <1>3, <2>2
  <2> QED
    BY <2>2, <2>3
<1> QED
  BY <1>1, <1>5, <1>6 DEF A, B, m, n

(* What a filter leaves.                                                    *)
PicksOf(picked, list, places, A, m) ==
  /\ m \in Nat /\ Len(picked) = m
  /\ A \in [1 .. m -> places]
  /\ \A k \in 1 .. m : picked[k] = list[A[k]]
  /\ \A j, k \in 1 .. m : j < k => A[j] < A[k]
  /\ \A x \in places : \E k \in 1 .. m : A[k] = x

LEMMA PickedProperties ==
  ASSUME NEW T, NEW n \in Nat, NEW list \in [1 .. n -> T], NEW places \in SUBSET (1 .. n)
  PROVE  /\ Picked(list, places) \in Seq(T)
         /\ PicksOf(Picked(list, places), list, places, Ascending(places), Cardinality(places))
<1> DEFINE A == Ascending(places)
           m == Cardinality(places)
           p == Picked(list, places)
<1>1. IsFiniteSet(places) /\ places \in SUBSET Int
  <2>1. IsFiniteSet(1 .. n)
    BY FS_Interval
  <2>2. IsFiniteSet(places)
    BY <2>1, FS_Subset
  <2> QED
    BY <2>2
<1>2. /\ m \in Nat /\ A \in [1 .. m -> places]
      /\ \A j, k \in 1 .. m : j < k => A[j] < A[k]
      /\ \A x \in places : \E k \in 1 .. m : A[k] = x
  BY <1>1, AscendingProperties
<1>3. p = [k \in DOMAIN A |-> list[A[k]]]
  BY DEF Picked
<1> HIDE DEF A, m, p
<1>4. \A k \in 1 .. m : A[k] \in places /\ list[A[k]] \in T
  BY <1>2
<1>5. p \in [1 .. m -> T] /\ \A k \in 1 .. m : p[k] = list[A[k]]
  BY <1>2, <1>3, <1>4
<1>6. p \in Seq(T) /\ Len(p) = m
  BY <1>2, <1>5
<1> QED
  BY <1>2, <1>5, <1>6 DEF PicksOf, A, m, p

(* The sums on the way to a total.                                          *)
SumsOf(f, values, n) ==
  /\ f \in [0 .. n -> Int] /\ f[0] = 0
  /\ \A k \in 1 .. n : f[k] = f[k - 1] + values[k]
  /\ Total(values) = f[n]

LEMMA TotalUnfolds ==
  ASSUME NEW n \in Nat, NEW values \in [1 .. n -> Int]
  PROVE  \E f : SumsOf(f, values, n)
<1> DEFINE step == [ x \in Int \X (1 .. n) |-> x[1] + values[x[2]] ]
           Is(g) == g = [ k \in 0 .. Len(values) |->
                            IF k = 0 THEN 0 ELSE g[k - 1] + values[k] ]
           upto == CHOOSE g : Is(g)
<1>1. Len(values) = n
  OBVIOUS
<1>2. step \in [Int \X (1 .. n) -> Int]
  OBVIOUS
<1>3. \A x \in Int, k \in 1 .. n : step[<< x, k >>] = x + values[k]
  OBVIOUS
<1> HIDE DEF step
<1>4. PICK g \in [0 .. n -> Int] :
        g[0] = 0 /\ \A k \in 1 .. n : g[k] = step[<< g[k - 1], k >>]
  <2>1. Runs(Int, n, 0, step) # {}
    <3> DEFINE Numbers == Int
    <3>1. 0 \in Numbers /\ step \in [Numbers \X (1 .. n) -> Numbers]
      BY <1>2
    <3> HIDE DEF Numbers
    <3>2. Runs(Numbers, n, 0, step) # {}
      BY <3>1, FoldExists
    <3> QED
      BY <3>2 DEF Numbers
  <2> QED
    BY <2>1 DEF Runs
<1>5. \A k \in 1 .. n : g[k] = g[k - 1] + values[k]
  <2>1. \A k \in 1 .. n : k - 1 \in 0 .. n /\ g[k - 1] \in Int
    BY <1>4
  <2> QED
    BY <1>3, <1>4, <2>1
<1>6. Is(g)
  BY <1>1, <1>4, <1>5
<1>7. Is(upto)
  BY <1>6
<1>8. Total(values) = upto[n]
  BY <1>1 DEF Total
<1> HIDE DEF upto
<1>9. upto[0] = 0 /\ \A k \in 1 .. n : upto[k] = upto[k - 1] + values[k]
  BY <1>1, <1>7
<1>10. \A m \in 0 .. n : upto[m] \in Int
  <2> SUFFICES ASSUME NEW m \in 0 .. n PROVE upto[m] \in Int
    OBVIOUS
  <2>1. \A k \in 1 .. m : upto[k - 1] \in Int => upto[k] \in Int
    <3> SUFFICES ASSUME NEW k \in 1 .. m, upto[k - 1] \in Int PROVE upto[k] \in Int
      OBVIOUS
    <3>1. k \in 1 .. n /\ values[k] \in Int
      OBVIOUS
    <3> QED
      BY <1>9, <3>1
  <2> DEFINE Numbers == Int
  <2>2. upto[0] \in Numbers /\ \A k \in 1 .. m : upto[k - 1] \in Numbers => upto[k] \in Numbers
    BY <1>9, <2>1
  <2> HIDE DEF Numbers
  <2>3. upto[m] \in Numbers
    BY <2>2, FoldInvariant
  <2> QED
    BY <2>3 DEF Numbers
<1>11. upto \in [0 .. n -> Int]
  <2>1. upto = [ k \in 0 .. n |-> upto[k] ]
    BY <1>1, <1>7
  <2> QED
    BY <1>10, <2>1
<1> QED
  BY <1>8, <1>9, <1>11 DEF SumsOf
=============================================================================
