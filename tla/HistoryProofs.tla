---------------------------- MODULE HistoryProofs ----------------------------
(***************************************************************************)
(* What is kept and reported of the past, for every value of the           *)
(* constants.  Retention: type correctness, and that each row is counted   *)
(* exactly once and each sample staged before it is deleted.  The reports: *)
(* that the pairs of closes, the reactions to events, the curves, leads,   *)
(* regions and signals mean what they are called for every series of hours *)
(* and every set of closes, and stay as they are while both grow.          *)
(***************************************************************************)
EXTENDS Retention, Reports, ListProofs

-----------------------------------------------------------------------------
(* A row in the table was inserted: what the runners count is what the      *)
(* storage stage wrote.                                                     *)
StoredInserted == \A row \in posts : Inserted(row)

(* Type correctness, for every instance of the constants.                   *)
THEOREM TypeCorrect == SafetySpec => []TypeOK
<1> USE HourAssumption, SampledAssumption, BoundsAssumption
<1>1. Init => TypeOK
  BY DEF Init, TypeOK, Hour, Row
<1>2. TypeOK /\ [Next]_vars => TypeOK'
  <2> SUFFICES ASSUME TypeOK, [Next]_vars PROVE TypeOK'
    OBVIOUS
  <2> USE DEF TypeOK
  <2>1. ASSUME NEW k \in Key, InsertPost(k) PROVE TypeOK'
    <3>1. inserts[k] + 1 \in 1 .. MaxInserts
      BY <2>1 DEF InsertPost
    <3>2. << k, inserts[k] + 1 >> \in Row
      BY <3>1 DEF Row
    <3> QED
      BY <2>1, <3>1, <3>2 DEF InsertPost, runnerVars
  <2>2. CASE Tick
    BY <2>2 DEF Tick, runnerVars, Hour
  <2>3. ASSUME NEW r \in Runner, StartRun(r) PROVE TypeOK'
    BY <2>3 DEF StartRun, Send, Backend
  <2>4. ASSUME NEW r \in Runner, ConnectionLost(r) PROVE TypeOK'
    BY <2>4 DEF ConnectionLost, Send, Fault, Backend
  <2>5. ASSUME NEW r \in Runner, RunAbandoned(r) PROVE TypeOK'
    BY <2>5 DEF RunAbandoned, Fault
  <2>6. ASSUME NEW b \in Backend, EnsurePartitions(b) PROVE TypeOK'
    BY <2>6 DEF EnsurePartitions, Send, EndStatement, runnerVars
  <2>7. ASSUME NEW b \in Backend, AcquireLock(b) PROVE TypeOK'
    BY <2>7 DEF AcquireLock, runnerVars
  <2>8. ASSUME NEW b \in Backend, CommitPrune(b) PROVE TypeOK'
    BY <2>8 DEF CommitPrune, EndStatement, EndRun, Backend
  <2>9. ASSUME NEW b \in Backend, RefusePrune(b) PROVE TypeOK'
    BY <2>9 DEF RefusePrune, EndStatement, EndRun, Backend
  <2>10. ASSUME NEW b \in Backend, BackendDies(b) PROVE TypeOK'
    BY <2>10 DEF BackendDies, EndStatement, runnerVars
  <2>11. CASE UNCHANGED vars
    BY <2>11 DEF vars, runnerVars
  <2> QED
    BY <2>1, <2>2, <2>3, <2>4, <2>5, <2>6, <2>7, <2>8, <2>9, <2>10, <2>11
       DEF Next, BackendStep
<1> QED
  BY <1>1, <1>2, PTL DEF SafetySpec

(* The inductive invariant behind the two theorems below.  The facts of a   *)
(* row change only when DELETE returned it, and DELETE returns only rows    *)
(* that are in the table, which were inserted and not yet counted.          *)
Inductive ==
  /\ TypeOK /\ StoredInserted
  /\ CountedExactlyOnce /\ SampledBeforePruned

LEMMA InductiveInit == Init => Inductive
<1> SUFFICES ASSUME Init PROVE Inductive
  OBVIOUS
<1>1. TypeOK
  BY HourAssumption, BoundsAssumption DEF Init, TypeOK, Hour, Row
<1>2. ASSUME NEW row \in Row PROVE ~ Inserted(row)
  BY DEF Init, Row, Inserted, KeyOf
<1> QED
  BY <1>1, <1>2 DEF Init, Inductive, StoredInserted, CountedExactlyOnce,
                    SampledBeforePruned

(* InsertPost adds a row that was never counted.                            *)
LEMMA InsertPostCounts ==
  ASSUME Inductive, NEW k \in Key, InsertPost(k)
  PROVE  StoredInserted' /\ CountedExactlyOnce' /\ SampledBeforePruned'
<1> DEFINE new == << k, inserts[k] + 1 >>
<1> USE BoundsAssumption DEF Inductive, TypeOK
<1>1. new \in Row
  BY DEF InsertPost, Row
<1>2. ASSUME NEW row \in Row
      PROVE Inserted(row)' <=> Inserted(row) \/ row = new
  <2>1. PICK q \in Key, n \in 1 .. MaxInserts : row = << q, n >>
    BY DEF Row
  <2>2. inserts[k] \in Nat /\ inserts[q] \in Nat
    OBVIOUS
  <2>3. inserts' = [inserts EXCEPT ![k] = @ + 1]
    BY DEF InsertPost
  <2> QED
    BY <2>1, <2>2, <2>3 DEF Inserted, KeyOf
<1>3. ~ Inserted(new)
  BY <1>1 DEF Row, Inserted, KeyOf
<1>4. facts' = facts /\ staged' = staged /\ posts' = posts \cup {new}
  BY DEF InsertPost
<1>5. StoredInserted'
  BY <1>1, <1>2, <1>4 DEF StoredInserted
<1>6. CountedExactlyOnce'
  BY <1>1, <1>2, <1>3, <1>4 DEF CountedExactlyOnce, StoredInserted
<1>7. SampledBeforePruned'
  BY <1>4 DEF SampledBeforePruned
<1> QED
  BY <1>5, <1>6, <1>7

(* CommitPrune counts what it deletes, and nothing it does not delete.      *)
LEMMA CommitPruneCounts ==
  ASSUME Inductive, NEW b \in Backend, CommitPrune(b)
  PROVE  StoredInserted' /\ CountedExactlyOnce' /\ SampledBeforePruned'
<1> USE DEF Inductive, TypeOK
<1>1. posts' = posts \ Deleted(b) /\ inserts' = inserts
  BY DEF CommitPrune
<1>2. Deleted(b) \subseteq posts /\ Deleted(b) \subseteq Candidates(b)
  BY DEF Deleted
<1>3. ASSUME NEW row \in Row
      PROVE  facts'[row] = IF row \in Deleted(b) THEN facts[row] + 1 ELSE facts[row]
  BY DEF CommitPrune, Counted
<1>4. ASSUME NEW row PROVE Inserted(row)' <=> Inserted(row)
  BY <1>1 DEF Inserted, KeyOf
<1>5. StoredInserted'
  BY <1>1, <1>4 DEF StoredInserted
<1>6. CountedExactlyOnce'
  <2> SUFFICES ASSUME NEW row \in Row
               PROVE facts'[row] = IF Inserted(row)' /\ row \notin posts' THEN 1 ELSE 0
    BY DEF CountedExactlyOnce
  <2>1. CASE row \in Deleted(b)
    BY <2>1, <1>1, <1>2, <1>3, <1>4 DEF CountedExactlyOnce, StoredInserted
  <2>2. CASE row \notin Deleted(b)
    BY <2>2, <1>1, <1>3, <1>4 DEF CountedExactlyOnce
  <2> QED
    BY <2>1, <2>2
<1>7. SampledBeforePruned'
  <2> SUFFICES ASSUME NEW row \in Row, facts'[row] > 0, KeyOf(row) \in Sampled
               PROVE  KeyOf(row) \in staged'
    BY DEF SampledBeforePruned, KeyOf
  <2>1. staged' = staged \cup ({ KeyOf(r) : r \in Candidates(b) } \cap Sampled)
    BY DEF CommitPrune
  <2>2. CASE row \in Deleted(b)
    BY <2>1, <2>2, <1>2
  <2>3. CASE row \notin Deleted(b)
    BY <2>1, <2>3, <1>3 DEF SampledBeforePruned
  <2> QED
    BY <2>2, <2>3
<1> QED
  BY <1>5, <1>6, <1>7

(* Every other step leaves rows, facts and samples alone.                   *)
LEMMA NothingCounted ==
  ASSUME Inductive, UNCHANGED << posts, inserts, facts, staged >>
  PROVE  StoredInserted' /\ CountedExactlyOnce' /\ SampledBeforePruned'
BY DEF Inductive, StoredInserted, CountedExactlyOnce, SampledBeforePruned,
       Inserted, KeyOf

LEMMA InductiveStep == Inductive /\ TypeOK' /\ [Next]_vars => Inductive'
<1> SUFFICES ASSUME Inductive, TypeOK', [Next]_vars PROVE Inductive'
  OBVIOUS
<1>1. ASSUME NEW k \in Key, InsertPost(k) PROVE Inductive'
  BY <1>1, InsertPostCounts DEF Inductive
<1>2. ASSUME NEW b \in Backend, CommitPrune(b) PROVE Inductive'
  BY <1>2, CommitPruneCounts DEF Inductive
<1>3. CASE UNCHANGED << posts, inserts, facts, staged >>
  BY <1>3, NothingCounted DEF Inductive
<1>4. \/ \E k \in Key : InsertPost(k)
      \/ \E b \in Backend : CommitPrune(b)
      \/ UNCHANGED << posts, inserts, facts, staged >>
  BY DEF Next, BackendStep, vars, Tick, StartRun, ConnectionLost, RunAbandoned,
         EnsurePartitions, AcquireLock, RefusePrune, BackendDies
<1> QED
  BY <1>1, <1>2, <1>3, <1>4

LEMMA InductiveInvariant == SafetySpec => []Inductive
<1>1. Init => Inductive
  BY InductiveInit
<1>2. Inductive /\ TypeOK' /\ [Next]_vars => Inductive'
  BY InductiveStep
<1>3. SafetySpec => []TypeOK
  BY TypeCorrect
<1> QED
  BY <1>1, <1>2, <1>3, PTL DEF SafetySpec

(* Every row ever inserted is in the posts table or counted in the facts,   *)
(* exactly once, with any number of runners, backends that nobody listens   *)
(* to any more, lost connections and retries.                               *)
THEOREM RowsCountedExactlyOnce == SafetySpec => []CountedExactlyOnce
<1>1. Inductive => CountedExactlyOnce
  BY DEF Inductive
<1> QED
  BY <1>1, InductiveInvariant, PTL

(* A row is never counted and deleted without its sample being staged.      *)
THEOREM SamplesStagedFirst == SafetySpec => []SampledBeforePruned
<1>1. Inductive => SampledBeforePruned
  BY DEF Inductive
<1> QED
  BY <1>1, InductiveInvariant, PTL

-----------------------------------------------------------------------------
-----------------------------------------------------------------------------
(* Closes with one bar per end, as the primary key has it, and their        *)
(* returns.                                                                 *)
Bars(closes) ==
  /\ IsFiniteSet(closes) /\ closes \in SUBSET [end : Nat, usable : BOOLEAN]
  /\ \A c, d \in closes : c.end = d.end => c = d

LEMMA InTimeProperties ==
  ASSUME NEW closes, Bars(closes)
  PROVE  LET E == EndsOf(closes)
             n == Cardinality(E)
             s == InTime(closes)
         IN  /\ E \in SUBSET Nat /\ IsFiniteSet(E) /\ n \in Nat
             /\ s \in [1 .. n -> closes] /\ Len(s) = n
             /\ \A k \in 1 .. n : s[k].end = Ascending(E)[k]
             /\ \A j, k \in 1 .. n : j < k => s[j].end < s[k].end
             /\ \A c \in closes : \E k \in 1 .. n : s[k] = c
<1> DEFINE E == EndsOf(closes)
           n == Cardinality(E)
           s == InTime(closes)
           A == Ascending(E)
<1>1. /\ IsFiniteSet(closes) /\ \A c \in closes : c.end \in Nat
      /\ \A c, d \in closes : c.end = d.end => c = d
  BY DEF Bars
<1>2. E \in SUBSET Nat
  BY <1>1 DEF EndsOf
<1>3. IsFiniteSet(E)
  <2> DEFINE f == [c \in closes |-> c.end]
  <2>1. f \in Surjection(closes, E)
    BY DEF Surjection, EndsOf
  <2> QED
    BY <1>1, <2>1, FS_Surjection
<1>4. /\ n \in Nat /\ A \in [1 .. n -> E]
      /\ \A j, k \in 1 .. n : j < k => A[j] < A[k]
      /\ \A x \in E : \E k \in 1 .. n : A[k] = x
  BY <1>2, <1>3, AscendingProperties
<1>5. \A k \in 1 .. n : s[k] \in closes /\ s[k].end = A[k]
  <2> SUFFICES ASSUME NEW k \in 1 .. n PROVE s[k] \in closes /\ s[k].end = A[k]
    OBVIOUS
  <2>1. s[k] = CHOOSE c \in closes : c.end = A[k]
    BY DEF InTime
  <2>2. \E c \in closes : c.end = A[k]
    BY <1>4 DEF EndsOf
  <2> HIDE DEF s, A
  <2> QED
    BY <2>1, <2>2
<1>6. s \in [1 .. n -> closes] /\ Len(s) = n
  <2>1. s = [k \in 1 .. n |-> s[k]]
    BY DEF InTime
  <2> HIDE DEF s, n
  <2>2. s \in [1 .. n -> closes]
    BY <1>5, <2>1
  <2> QED
    BY <1>4, <2>2
<1> HIDE DEF s, n, A
<1>7. \A j, k \in 1 .. n : j < k => s[j].end < s[k].end
  BY <1>4, <1>5
<1>8. \A c \in closes : \E k \in 1 .. n : s[k] = c
  <2> SUFFICES ASSUME NEW c \in closes PROVE \E k \in 1 .. n : s[k] = c
    OBVIOUS
  <2>1. c.end \in E
    BY DEF EndsOf
  <2>2. PICK k \in 1 .. n : A[k] = c.end
    BY <1>4, <2>1
  <2> QED
    BY <1>1, <1>5, <2>2
<1> QED
  BY <1>2, <1>3, <1>4, <1>5, <1>6, <1>7, <1>8 DEF s, n, A

(* The places of usable neighbours.                                         *)
Usable(closes) ==
  LET s == InTime(closes)
  IN  { k \in 1 .. Len(s) - 1 : s[k].usable /\ s[k + 1].usable }

LEMMA UsableProperties ==
  ASSUME NEW closes, Bars(closes)
  PROVE  LET n == Cardinality(EndsOf(closes))
         IN  /\ Usable(closes) \in SUBSET (1 .. n - 1) /\ IsFiniteSet(Usable(closes))
             /\ Usable(closes) \in SUBSET Int /\ n \in Nat
             /\ \A k \in 1 .. n - 1 : k \in 1 .. n /\ k + 1 \in 1 .. n
<1> DEFINE n == Cardinality(EndsOf(closes))
<1>1. n \in Nat /\ Len(InTime(closes)) = n
  BY InTimeProperties
<1>2. Usable(closes) \in SUBSET (1 .. n - 1)
  BY <1>1 DEF Usable
<1>3. IsFiniteSet(1 .. n - 1)
  BY <1>1, FS_Interval
<1> HIDE DEF n
<1>4. IsFiniteSet(Usable(closes))
  BY <1>2, <1>3, FS_Subset
<1> QED
  BY <1>1, <1>2, <1>4 DEF n

(* Returns are of neighbours, in order.                                     *)
LEMMA ReturnsProperties ==
  ASSUME NEW closes, Bars(closes)
  PROVE  LET s == InTime(closes)
             A == Ascending(Usable(closes))
             m == Cardinality(Usable(closes))
             r == Returns(closes)
         IN  /\ m \in Nat /\ DOMAIN r = 1 .. m /\ r \in Seq(Nat \X Nat) /\ Len(r) = m
             /\ A \in [1 .. m -> Usable(closes)]
             /\ \A k \in 1 .. m : r[k] = << s[A[k]].end, s[A[k] + 1].end >>
             /\ \A k \in 1 .. m : r[k][1] < r[k][2]
             /\ \A j, k \in 1 .. m : j < k => r[j][2] < r[k][2]
<1> DEFINE s == InTime(closes)
           n == Cardinality(EndsOf(closes))
           U == Usable(closes)
           A == Ascending(U)
           m == Cardinality(U)
           r == Returns(closes)
<1>1. /\ U \in SUBSET (1 .. n - 1) /\ IsFiniteSet(U) /\ U \in SUBSET Int /\ n \in Nat
  BY UsableProperties
<1>2. /\ s \in [1 .. n -> closes]
      /\ \A j, k \in 1 .. n : j < k => s[j].end < s[k].end
  BY InTimeProperties
<1>3. /\ m \in Nat /\ A \in [1 .. m -> U]
      /\ \A j, k \in 1 .. m : j < k => A[j] < A[k]
  BY <1>1, AscendingProperties
<1>4. r = [k \in DOMAIN A |-> << s[A[k]].end, s[A[k] + 1].end >>]
  BY DEF Returns, Usable
<1>5. \A c \in closes : c.end \in Nat
  BY DEF Bars
<1> HIDE DEF s, n, U, A, m, r
<1>6. DOMAIN r = 1 .. m /\ \A k \in 1 .. m : r[k] = << s[A[k]].end, s[A[k] + 1].end >>
  BY <1>3, <1>4
<1>7. \A k \in 1 .. m : A[k] \in 1 .. n /\ A[k] + 1 \in 1 .. n /\ A[k] \in Int
  <2> SUFFICES ASSUME NEW k \in 1 .. m
               PROVE  A[k] \in 1 .. n /\ A[k] + 1 \in 1 .. n /\ A[k] \in Int
    OBVIOUS
  <2>1. A[k] \in U
    BY <1>3
  <2>2. A[k] \in 1 .. n - 1
    BY <1>1, <2>1
  <2> QED
    BY <1>1, <2>2
<1>8. \A k \in 1 .. m : s[A[k]].end \in Nat /\ s[A[k] + 1].end \in Nat
  BY <1>2, <1>5, <1>7
<1>9. r \in [1 .. m -> Nat \X Nat]
  BY <1>4, <1>3, <1>8
<1>10. r \in Seq(Nat \X Nat) /\ Len(r) = m
  BY <1>3, <1>9
<1>11. ASSUME NEW k \in 1 .. m
       PROVE  r[k][1] < r[k][2]
  <2>1. A[k] < A[k] + 1
    BY <1>7
  <2>2. s[A[k]].end < s[A[k] + 1].end
    BY <1>2, <1>7, <2>1
  <2> QED
    BY <1>6, <2>2
<1>12. ASSUME NEW j \in 1 .. m, NEW k \in 1 .. m, j < k
       PROVE  r[j][2] < r[k][2]
  <2>1. A[j] + 1 < A[k] + 1
    BY <1>3, <1>7, <1>12
  <2>2. s[A[j] + 1].end < s[A[k] + 1].end
    BY <1>2, <1>7, <2>1
  <2> QED
    BY <1>6, <2>2
<1> QED
  BY <1>3, <1>6, <1>10, <1>11, <1>12 DEF s, A, m, r, U

(* A return spans no close.                                                 *)
LEMMA ReturnsSpanNothing ==
  ASSUME NEW closes, Bars(closes), NEW k \in DOMAIN Returns(closes), NEW x \in EndsOf(closes)
  PROVE  ~ (Returns(closes)[k][1] < x /\ x < Returns(closes)[k][2])
<1> DEFINE s == InTime(closes)
           n == Cardinality(EndsOf(closes))
           A == Ascending(Usable(closes))
<1>1. /\ k \in 1 .. Cardinality(Usable(closes))
      /\ A[k] \in Usable(closes)
      /\ Returns(closes)[k] = << s[A[k]].end, s[A[k] + 1].end >>
  BY ReturnsProperties
<1>2. A[k] \in 1 .. n /\ A[k] + 1 \in 1 .. n /\ n \in Nat
  BY <1>1, UsableProperties
<1>3. /\ s \in [1 .. n -> closes]
      /\ \A j, l \in 1 .. n : j < l => s[j].end < s[l].end
      /\ \A c \in closes : \E l \in 1 .. n : s[l] = c
  BY InTimeProperties
<1>4. \A c \in closes : c.end \in Nat
  BY DEF Bars
<1> HIDE DEF s, n, A
<1>5. PICK l \in 1 .. n : s[l].end = x
  BY <1>3 DEF EndsOf
<1>6. s[l].end \in Nat /\ s[A[k]].end \in Nat /\ s[A[k] + 1].end \in Nat
  BY <1>2, <1>3, <1>4
<1>7. CASE l <= A[k]
  <2>1. s[l].end <= s[A[k]].end
    <3>1. CASE l = A[k]
      BY <1>6, <3>1
    <3>2. CASE l # A[k]
      <4>1. l < A[k]
        BY <1>2, <1>7, <3>2
      <4>2. s[l].end < s[A[k]].end
        BY <1>2, <1>3, <4>1
      <4> QED
        BY <1>6, <4>2
    <3> QED
      BY <3>1, <3>2
  <2> QED
    BY <1>1, <1>5, <1>6, <2>1
<1>8. CASE l >= A[k] + 1
  <2>1. s[A[k] + 1].end <= s[l].end
    <3>1. CASE l = A[k] + 1
      BY <1>6, <3>1
    <3>2. CASE l # A[k] + 1
      <4>1. A[k] + 1 < l
        BY <1>2, <1>8, <3>2
      <4>2. s[A[k] + 1].end < s[l].end
        BY <1>2, <1>3, <4>1
      <4> QED
        BY <1>6, <4>2
    <3> QED
      BY <3>1, <3>2
  <2> QED
    BY <1>1, <1>5, <1>6, <2>1
<1> QED
  BY <1>2, <1>7, <1>8

-----------------------------------------------------------------------------
(* Places that are closed downwards are the first ones.                     *)
LEMMA FirstPlaces ==
  ASSUME NEW m \in Nat, NEW K \in SUBSET (1 .. m),
         \A k \in K : \A j \in 1 .. m : j < k => j \in K
  PROVE  Cardinality(K) \in 0 .. m /\ K = 1 .. Cardinality(K)
<1> DEFINE n == Cardinality(K)
<1>1. IsFiniteSet(1 .. m) /\ Cardinality(1 .. m) = m
  BY FS_Interval
<1>2. IsFiniteSet(K) /\ n \in 0 .. m /\ K \in SUBSET Int
  <2>1. IsFiniteSet(K) /\ n <= m
    BY <1>1, FS_Subset
  <2>2. n \in Nat
    BY <2>1, FS_CardinalityType
  <2>3. \A k \in K : k \in Int
    OBVIOUS
  <2> QED
    BY <2>1, <2>2, <2>3
<1>3. \A k \in K : Rank(K, k) = k
  <2> SUFFICES ASSUME NEW k \in K PROVE Rank(K, k) = k
    OBVIOUS
  <2>1. k \in 1 .. m /\ \A y \in K : y \in 1 .. m
    OBVIOUS
  <2>2. \A y \in K : y <= k => y \in 1 .. k
    BY <2>1
  <2>3. \A y \in 1 .. k : y \in K /\ y <= k
    <3> SUFFICES ASSUME NEW y \in 1 .. k PROVE y \in K /\ y <= k
      OBVIOUS
    <3>1. y \in 1 .. m /\ (y < k \/ y = k) /\ y <= k
      BY <2>1
    <3> QED
      BY <3>1
  <2>4. { y \in K : y <= k } = 1 .. k
    BY <2>2, <2>3
  <2>5. Cardinality(1 .. k) = k
    BY <2>1, FS_Interval
  <2> QED
    BY <2>4, <2>5 DEF Rank
<1>4. \A k \in K : k \in 1 .. n
  BY <1>2, <1>3, RankProperties
<1>5. \A k \in 1 .. n : k \in K
  BY <1>2, <1>3, EveryRankTaken
<1> QED
  BY <1>2, <1>4, <1>5

(* bisect_right: the returns that are not later are the first ones.         *)
LEMMA FirstLaterProperties ==
  ASSUME NEW closes, Bars(closes), NEW e \in Nat
  PROVE  LET r == Returns(closes)
             F == FirstLater(r, e)
         IN  /\ F \in 0 .. Len(r)
             /\ \A k \in 1 .. Len(r) : r[k][2] <= e <=> k <= F
<1> DEFINE r == Returns(closes)
           K == { k \in DOMAIN r : r[k][2] <= e }
<1>1. /\ DOMAIN r = 1 .. Len(r) /\ Len(r) \in Nat
      /\ \A k \in 1 .. Len(r) : r[k] \in Nat \X Nat
      /\ \A j, k \in 1 .. Len(r) : j < k => r[j][2] < r[k][2]
  BY ReturnsProperties
<1> HIDE DEF r
<1>2. \A k \in K : \A j \in 1 .. Len(r) : j < k => j \in K
  <2> SUFFICES ASSUME NEW k \in K, NEW j \in 1 .. Len(r), j < k PROVE j \in K
    OBVIOUS
  <2>1. r[j][2] < r[k][2] /\ r[k][2] <= e /\ r[j][2] \in Nat /\ r[k][2] \in Nat
    BY <1>1
  <2> QED
    BY <1>1, <2>1
<1>3. Cardinality(K) \in 0 .. Len(r) /\ K = 1 .. Cardinality(K)
  BY <1>1, <1>2, FirstPlaces
<1>4. FirstLater(r, e) = Cardinality(K)
  BY DEF FirstLater
<1>5. \A k \in 1 .. Len(r) : r[k][2] <= e <=> k \in K
  BY <1>1
<1> QED
  BY <1>1, <1>3, <1>4, <1>5 DEF r

(* What the correlations are of: the partners, in the order of the factor.  *)
Paired(factor, stock, lag) ==
  { k \in DOMAIN Returns(factor) :
      Partner(Returns(stock), Returns(factor)[k][2], lag) \in DOMAIN Returns(stock) }

PairsOf(pairs, f, s, lag, A, m) ==
  \A k \in 1 .. m :
    /\ f[A[k]] \in Nat \X Nat
    /\ Partner(s, f[A[k]][2], lag) \in 1 .. Len(s)
    /\ pairs[k] = << f[A[k]], s[Partner(s, f[A[k]][2], lag)] >>

LEMMA PairsProperties ==
  ASSUME NEW factor, Bars(factor), NEW stock, Bars(stock), NEW lag \in Nat
  PROVE  LET f == Returns(factor)
             s == Returns(stock)
             P == Paired(factor, stock, lag)
             A == Ascending(P)
             m == Cardinality(P)
             pairs == AllPairs(factor, stock, lag)
         IN  /\ P \in SUBSET (1 .. Len(f)) /\ IsFiniteSet(P) /\ P \in SUBSET Int
             /\ m \in Nat /\ A \in [1 .. m -> P]
             /\ \A j, k \in 1 .. m : j < k => A[j] < A[k]
             /\ DOMAIN pairs = 1 .. m /\ pairs \in Seq((Nat \X Nat) \X (Nat \X Nat))
             /\ Len(pairs) = m
             /\ PairsOf(pairs, f, s, lag, A, m)
<1> DEFINE f == Returns(factor)
           s == Returns(stock)
           P == Paired(factor, stock, lag)
           A == Ascending(P)
           m == Cardinality(P)
           pairs == AllPairs(factor, stock, lag)
           Of(k) == << f[A[k]], s[Partner(s, f[A[k]][2], lag)] >>
<1>1. DOMAIN f = 1 .. Len(f) /\ Len(f) \in Nat /\ f \in Seq(Nat \X Nat)
  BY ReturnsProperties
<1>2. DOMAIN s = 1 .. Len(s) /\ Len(s) \in Nat /\ s \in Seq(Nat \X Nat)
  BY ReturnsProperties
<1>3. P \in SUBSET (1 .. Len(f))
  BY <1>1 DEF Paired
<1>4. IsFiniteSet(1 .. Len(f))
  BY <1>1, FS_Interval
<1>5. IsFiniteSet(P) /\ P \in SUBSET Int
  BY <1>3, <1>4, FS_Subset
<1>6. m \in Nat /\ A \in [1 .. m -> P] /\ \A j, k \in 1 .. m : j < k => A[j] < A[k]
  BY <1>5, AscendingProperties
<1>7. \A k \in P : Partner(s, f[k][2], lag) \in 1 .. Len(s)
  BY <1>2 DEF Paired
<1>8. pairs = [k \in DOMAIN A |-> Of(k)]
  BY DEF AllPairs, Paired
<1> HIDE DEF f, s, P, A, m, pairs
<1>9. \A k \in 1 .. m : /\ f[A[k]] \in Nat \X Nat
                        /\ Partner(s, f[A[k]][2], lag) \in 1 .. Len(s)
                        /\ s[Partner(s, f[A[k]][2], lag)] \in Nat \X Nat
  <2> SUFFICES ASSUME NEW k \in 1 .. m
               PROVE  /\ f[A[k]] \in Nat \X Nat
                      /\ Partner(s, f[A[k]][2], lag) \in 1 .. Len(s)
                      /\ s[Partner(s, f[A[k]][2], lag)] \in Nat \X Nat
    OBVIOUS
  <2>1. A[k] \in P
    BY <1>6
  <2>2. A[k] \in 1 .. Len(f) /\ Partner(s, f[A[k]][2], lag) \in 1 .. Len(s)
    BY <1>3, <1>7, <2>1
  <2>3. f[A[k]] \in Nat \X Nat
    BY <1>1, <2>2
  <2>4. s[Partner(s, f[A[k]][2], lag)] \in Nat \X Nat
    BY <1>2, <2>2
  <2> QED
    BY <2>2, <2>3, <2>4
<1>10. DOMAIN pairs = 1 .. m /\ \A k \in 1 .. m : pairs[k] = Of(k)
  BY <1>6, <1>8
<1>11. \A k \in 1 .. m : Of(k) \in (Nat \X Nat) \X (Nat \X Nat)
  BY <1>9
<1> HIDE DEF Of
<1>12. pairs = [k \in 1 .. m |-> Of(k)]
  BY <1>6, <1>8
<1>13. pairs \in [1 .. m -> (Nat \X Nat) \X (Nat \X Nat)]
  BY <1>11, <1>12
<1>14. pairs \in Seq((Nat \X Nat) \X (Nat \X Nat)) /\ Len(pairs) = m
  BY <1>6, <1>13
<1>15. PairsOf(pairs, f, s, lag, A, m)
  BY <1>9, <1>10 DEF PairsOf, Of
<1> QED
  BY <1>3, <1>5, <1>6, <1>10, <1>14, <1>15 DEF f, s, P, A, m, pairs

(* The stock return follows, with exactly lag others in between.            *)
Follows(pair, s, lag) ==
  LET g == pair[1][2]
      e == pair[2][2]
  IN  g < e /\ Cardinality({ j \in DOMAIN s : g < s[j][2] /\ s[j][2] < e }) = lag

LEMMA PartnersFollow ==
  ASSUME NEW factor, Bars(factor), NEW stock, Bars(stock), NEW lag \in Nat,
         NEW k \in DOMAIN AllPairs(factor, stock, lag)
  PROVE  Follows(AllPairs(factor, stock, lag)[k], Returns(stock), lag)
<1> DEFINE f == Returns(factor)
           s == Returns(stock)
           A == Ascending(Paired(factor, stock, lag))
           g == f[A[k]][2]
           F == FirstLater(s, g)
           p == Partner(s, g, lag)
           e == s[p][2]
           Between == { j \in DOMAIN s : g < s[j][2] /\ s[j][2] < e }
<1>1. /\ k \in 1 .. Cardinality(Paired(factor, stock, lag))
      /\ f[A[k]] \in Nat \X Nat /\ p \in 1 .. Len(s)
      /\ AllPairs(factor, stock, lag)[k] = << f[A[k]], s[p] >>
  <2>1. k \in 1 .. Cardinality(Paired(factor, stock, lag))
    BY PairsProperties
  <2>2. PairsOf(AllPairs(factor, stock, lag), f, s, lag, A,
                Cardinality(Paired(factor, stock, lag)))
    BY PairsProperties
  <2> HIDE DEF f, s, A
  <2> QED
    BY <2>1, <2>2 DEF PairsOf, p, g
<1>2. /\ DOMAIN s = 1 .. Len(s) /\ Len(s) \in Nat
      /\ \A j \in 1 .. Len(s) : s[j] \in Nat \X Nat
      /\ \A i, j \in 1 .. Len(s) : i < j => s[i][2] < s[j][2]
  <2> DEFINE m == Cardinality(Usable(stock))
  <2>1. m \in Nat /\ DOMAIN s = 1 .. m /\ s \in Seq(Nat \X Nat) /\ Len(s) = m
    BY ReturnsProperties
  <2>2. \A i, j \in 1 .. m : i < j => s[i][2] < s[j][2]
    BY ReturnsProperties
  <2> HIDE DEF m, s
  <2>3. \A j \in 1 .. m : s[j] \in Nat \X Nat
    BY <2>1
  <2> QED
    BY <2>1, <2>2, <2>3
<1>3. g \in Nat
  BY <1>1
<1>4. F \in 0 .. Len(s) /\ \A j \in 1 .. Len(s) : s[j][2] <= g <=> j <= F
  BY <1>3, FirstLaterProperties
<1>5. p = F + lag + 1
  BY DEF Partner
<1> HIDE DEF f, s, A, F, p
<1>6. p \in 1 .. Len(s) /\ p > F
  BY <1>1, <1>4, <1>5
<1>7. g < e /\ e \in Nat
  BY <1>2, <1>3, <1>4, <1>6
<1>8. \A j \in 1 .. Len(s) : (g < s[j][2] /\ s[j][2] < e) <=> j \in F + 1 .. p - 1
  <2> SUFFICES ASSUME NEW j \in 1 .. Len(s)
               PROVE  (g < s[j][2] /\ s[j][2] < e) <=> j \in F + 1 .. p - 1
    OBVIOUS
  <2>1. s[j][2] \in Nat /\ (s[j][2] <= g <=> j <= F)
    BY <1>2, <1>4
  <2>2. (j < p => s[j][2] < e) /\ (p < j => e < s[j][2]) /\ (j = p => s[j][2] = e)
    BY <1>2, <1>6
  <2>3. g < s[j][2] <=> j > F
    BY <1>3, <1>4, <2>1
  <2>4. s[j][2] < e <=> j < p
    BY <1>6, <1>7, <2>1, <2>2
  <2> QED
    BY <1>4, <1>6, <2>3, <2>4
<1>9. Between = F + 1 .. p - 1
  <2>1. \A j \in F + 1 .. p - 1 : j \in 1 .. Len(s)
    BY <1>2, <1>4, <1>6
  <2> QED
    BY <1>2, <1>8, <2>1
<1>10. Cardinality(F + 1 .. p - 1) = lag
  <2> DEFINE a == F + 1
             b == p - 1
  <2>1. a \in Int /\ b \in Int /\ b = a + lag - 1 /\ ~ (a > b + 1)
    BY <1>4, <1>5
  <2> HIDE DEF a, b
  <2>2. Cardinality(a .. b) = IF a > b THEN 0 ELSE b - a + 1
    BY <2>1, FS_Interval
  <2>3. Cardinality(a .. b) = lag
    BY <2>1, <2>2
  <2> QED
    BY <2>3 DEF a, b
<1> HIDE DEF g, e
<1>11. AllPairs(factor, stock, lag)[k][1][2] = g /\ AllPairs(factor, stock, lag)[k][2][2] = e
  BY <1>1 DEF g, e
<1> QED
  BY <1>7, <1>9, <1>10, <1>11 DEF s, Follows

-----------------------------------------------------------------------------
(* What bars that arrive in order change: nothing of what was there.        *)
Grown(S, T) == S \in SUBSET T /\ \A c \in T \ S : InOrder(S, c.end)

LEMMA EndsGrow ==
  ASSUME NEW T, Bars(T), NEW S, Grown(S, T)
  PROVE  /\ Bars(S)
         /\ EndsOf(S) \in SUBSET EndsOf(T)
         /\ \A x \in EndsOf(S) : \A y \in EndsOf(T) \ EndsOf(S) : x < y
<1>1. S \in SUBSET T /\ IsFiniteSet(T) /\ \A c \in T \ S : InOrder(S, c.end)
  BY DEF Grown, Bars
<1>2. IsFiniteSet(S)
  BY <1>1, FS_Subset
<1>3. Bars(S)
  BY <1>1, <1>2 DEF Bars
<1>4. EndsOf(S) \in SUBSET EndsOf(T)
  BY <1>1 DEF EndsOf
<1>5. ASSUME NEW x \in EndsOf(S), NEW y \in EndsOf(T) \ EndsOf(S)
      PROVE  x < y
  <2>1. PICK c \in T : c.end = y
    BY DEF EndsOf
  <2>2. c \notin S
    BY <1>5, <2>1 DEF EndsOf
  <2> QED
    BY <1>1, <2>1, <2>2 DEF InOrder
<1> QED
  BY <1>3, <1>4, <1>5

LEMMA InTimeGrows ==
  ASSUME NEW T, Bars(T), NEW S, Grown(S, T)
  PROVE  LET n == Cardinality(EndsOf(S))
             N == Cardinality(EndsOf(T))
         IN  /\ n \in Nat /\ N \in Nat /\ n <= N
             /\ \A k \in 1 .. n : k \in 1 .. N /\ InTime(T)[k] = InTime(S)[k]
             /\ \A k \in 1 .. N : k > n => \A x \in EndsOf(S) : x < InTime(T)[k].end
<1> DEFINE n == Cardinality(EndsOf(S))
           N == Cardinality(EndsOf(T))
           s == InTime(S)
           t == InTime(T)
<1>1. /\ Bars(S) /\ EndsOf(S) \in SUBSET EndsOf(T)
      /\ \A x \in EndsOf(S) : \A y \in EndsOf(T) \ EndsOf(S) : x < y
  BY EndsGrow
<1>2. /\ n \in Nat /\ s \in [1 .. n -> S]
      /\ \A k \in 1 .. n : s[k].end = Ascending(EndsOf(S))[k]
  BY <1>1, InTimeProperties
<1>3. /\ N \in Nat /\ t \in [1 .. N -> T]
      /\ \A k \in 1 .. N : t[k].end = Ascending(EndsOf(T))[k]
  BY InTimeProperties
<1>4. EndsOf(T) \in SUBSET Int /\ IsFiniteSet(EndsOf(T))
  <2>1. EndsOf(T) \in SUBSET Nat /\ IsFiniteSet(EndsOf(T))
    BY InTimeProperties
  <2> QED
    BY <2>1
<1>5. /\ n <= N
      /\ \A k \in 1 .. n : Ascending(EndsOf(T))[k] = Ascending(EndsOf(S))[k]
      /\ \A k \in 1 .. N : k > n => Ascending(EndsOf(T))[k] \in EndsOf(T) \ EndsOf(S)
  BY <1>1, <1>4, AscendingExtends
<1>6. S \in SUBSET T /\ \A c, d \in T : c.end = d.end => c = d
  BY DEF Grown, Bars
<1> HIDE DEF n, N, s, t
<1>7. ASSUME NEW k \in 1 .. n PROVE k \in 1 .. N /\ t[k] = s[k]
  <2>1. k \in 1 .. N
    BY <1>2, <1>3, <1>5
  <2>2. t[k] \in T /\ s[k] \in T /\ t[k].end = s[k].end
    BY <1>2, <1>3, <1>5, <1>6, <2>1
  <2> QED
    BY <1>6, <2>1, <2>2
<1>8. ASSUME NEW k \in 1 .. N, k > n, NEW x \in EndsOf(S) PROVE x < t[k].end
  BY <1>1, <1>3, <1>5, <1>8
<1> QED
  BY <1>2, <1>3, <1>5, <1>7, <1>8 DEF n, N, s, t

LEMMA UsableGrows ==
  ASSUME NEW T, Bars(T), NEW S, Grown(S, T)
  PROVE  /\ Usable(S) \in SUBSET Usable(T)
         /\ \A x \in Usable(S) : \A y \in Usable(T) \ Usable(S) : x < y
         /\ \A y \in Usable(T) \ Usable(S) : y >= Cardinality(EndsOf(S))
<1> DEFINE n == Cardinality(EndsOf(S))
           N == Cardinality(EndsOf(T))
           s == InTime(S)
           t == InTime(T)
<1>1. Bars(S)
  BY EndsGrow
<1>2. /\ n \in Nat /\ N \in Nat /\ n <= N
      /\ \A k \in 1 .. n : k \in 1 .. N /\ t[k] = s[k]
  BY InTimeGrows
<1>3. Len(s) = n
  BY <1>1, InTimeProperties
<1>4. Len(t) = N
  BY InTimeProperties
<1>5. \A k : k \in Usable(S) <=> k \in 1 .. n - 1 /\ s[k].usable /\ s[k + 1].usable
  BY <1>3 DEF Usable
<1>6. \A k : k \in Usable(T) <=> k \in 1 .. N - 1 /\ t[k].usable /\ t[k + 1].usable
  BY <1>4 DEF Usable
<1> HIDE DEF n, N, s, t
<1>7. \A k \in 1 .. n - 1 : /\ k \in 1 .. N - 1
                            /\ t[k] = s[k] /\ t[k + 1] = s[k + 1]
  <2> SUFFICES ASSUME NEW k \in 1 .. n - 1
               PROVE  k \in 1 .. N - 1 /\ t[k] = s[k] /\ t[k + 1] = s[k + 1]
    OBVIOUS
  <2>1. k \in 1 .. n /\ k + 1 \in 1 .. n /\ k \in 1 .. N - 1
    BY <1>2
  <2> QED
    BY <1>2, <2>1
<1>8. Usable(S) \in SUBSET Usable(T)
  BY <1>5, <1>6, <1>7
<1>9. \A y \in Usable(T) \ Usable(S) : y >= n /\ y \in Int
  <2> SUFFICES ASSUME NEW y \in Usable(T), y \notin Usable(S) PROVE y >= n /\ y \in Int
    OBVIOUS
  <2>1. y \in 1 .. N - 1 /\ t[y].usable /\ t[y + 1].usable
    BY <1>6
  <2>2. ~ (y \in 1 .. n - 1)
    BY <1>5, <1>7, <2>1
  <2> QED
    BY <1>2, <2>1, <2>2
<1>10. \A x \in Usable(S) : x < n /\ x \in Int
  BY <1>2, <1>5
<1> QED
  <2>1. \A x \in Usable(S) : \A y \in Usable(T) \ Usable(S) : x < y
    BY <1>2, <1>9, <1>10
  <2> QED
    BY <1>8, <1>9, <2>1 DEF n

LEMMA ReturnsGrow ==
  ASSUME NEW T, Bars(T), NEW S, Grown(S, T)
  PROVE  LET r == Returns(S)
             q == Returns(T)
         IN  /\ Len(r) \in Nat /\ Len(q) \in Nat /\ Len(r) <= Len(q)
             /\ \A k \in 1 .. Len(r) : k \in 1 .. Len(q) /\ q[k] = r[k]
<1> DEFINE r == Returns(S)
           q == Returns(T)
           U == Usable(S)
           V == Usable(T)
           A == Ascending(U)
           B == Ascending(V)
           n == Cardinality(EndsOf(S))
           s == InTime(S)
           t == InTime(T)
<1>1. Bars(S)
  BY EndsGrow
<1>2. U \in SUBSET V /\ \A x \in U : \A y \in V \ U : x < y
  BY UsableGrows
<1>3. V \in SUBSET Int /\ IsFiniteSet(V)
  BY UsableProperties
<1>4. /\ Cardinality(U) <= Cardinality(V)
      /\ \A k \in 1 .. Cardinality(U) : B[k] = A[k]
  BY <1>2, <1>3, AscendingExtends
<1>5. /\ Cardinality(U) \in Nat /\ Len(r) = Cardinality(U)
      /\ A \in [1 .. Cardinality(U) -> U]
      /\ \A k \in 1 .. Cardinality(U) : r[k] = << s[A[k]].end, s[A[k] + 1].end >>
  BY <1>1, ReturnsProperties
<1>6. /\ Cardinality(V) \in Nat /\ Len(q) = Cardinality(V)
      /\ \A k \in 1 .. Cardinality(V) : q[k] = << t[B[k]].end, t[B[k] + 1].end >>
  BY ReturnsProperties
<1>7. U \in SUBSET (1 .. n - 1) /\ \A k \in 1 .. n - 1 : k \in 1 .. n /\ k + 1 \in 1 .. n
  BY <1>1, UsableProperties
<1>8. \A k \in 1 .. n : t[k] = s[k]
  BY InTimeGrows
<1> HIDE DEF r, q, U, V, A, B, n, s, t
<1>9. ASSUME NEW k \in 1 .. Len(r) PROVE k \in 1 .. Len(q) /\ q[k] = r[k]
  <2>1. k \in 1 .. Cardinality(U) /\ k \in 1 .. Cardinality(V)
    BY <1>4, <1>5, <1>6
  <2>2. A[k] \in 1 .. n /\ A[k] + 1 \in 1 .. n /\ B[k] = A[k]
    BY <1>4, <1>5, <1>7, <2>1
  <2> QED
    BY <1>5, <1>6, <1>8, <2>1, <2>2
<1> QED
  BY <1>4, <1>5, <1>6, <1>9 DEF r, q

(* A partner that was there stays the partner.                              *)
LEMMA PartnerKept ==
  ASSUME NEW T, Bars(T), NEW S, Grown(S, T), NEW e \in Nat, NEW lag \in Nat,
         Partner(Returns(S), e, lag) \in DOMAIN Returns(S)
  PROVE  /\ Partner(Returns(T), e, lag) = Partner(Returns(S), e, lag)
         /\ Partner(Returns(T), e, lag) \in DOMAIN Returns(T)
         /\ Returns(T)[Partner(Returns(T), e, lag)] = Returns(S)[Partner(Returns(S), e, lag)]
<1> DEFINE r == Returns(S)
           q == Returns(T)
           F == FirstLater(r, e)
           G == FirstLater(q, e)
           p == Partner(r, e, lag)
<1>1. Bars(S)
  BY EndsGrow
<1>2. /\ Len(r) \in Nat /\ Len(q) \in Nat /\ Len(r) <= Len(q)
      /\ \A k \in 1 .. Len(r) : k \in 1 .. Len(q) /\ q[k] = r[k]
  BY ReturnsGrow
<1>3. F \in 0 .. Len(r) /\ \A k \in 1 .. Len(r) : r[k][2] <= e <=> k <= F
  BY <1>1, FirstLaterProperties
<1>4. G \in 0 .. Len(q) /\ \A k \in 1 .. Len(q) : q[k][2] <= e <=> k <= G
  BY FirstLaterProperties
<1>5. DOMAIN r = 1 .. Len(r)
  BY <1>1, ReturnsProperties
<1>6. DOMAIN q = 1 .. Len(q)
  BY ReturnsProperties
<1>7. p = F + lag + 1 /\ Partner(q, e, lag) = G + lag + 1 /\ p \in 1 .. Len(r)
  BY <1>5 DEF Partner
<1> HIDE DEF r, q, F, G, p
<1>8. G = F
  <2>1. F + 1 \in 1 .. Len(r)
    BY <1>2, <1>3, <1>7
  <2>2. F + 1 \in 1 .. Len(q) /\ ~ (F + 1 <= G)
    BY <1>2, <1>3, <1>4, <2>1
  <2>3. F >= 1 => F <= G
    <3> SUFFICES ASSUME F >= 1 PROVE F <= G
      OBVIOUS
    <3>1. F \in 1 .. Len(r) /\ F \in 1 .. Len(q)
      BY <1>2, <1>3
    <3> QED
      BY <1>2, <1>3, <1>4, <3>1
  <2> QED
    BY <1>2, <1>3, <1>4, <2>2, <2>3
<1> QED
  BY <1>2, <1>6, <1>7, <1>8 DEF r, q, p

(* The pairs there were stay, in their order, before those that come.       *)
LEMMA PairedGrows ==
  ASSUME NEW f, Bars(f), NEW g, Grown(g, f), NEW s, Bars(s), NEW h, Grown(h, s),
         NEW lag \in Nat
  PROVE  /\ Paired(g, h, lag) \in SUBSET Paired(f, s, lag)
         /\ \A x \in Paired(g, h, lag) : \A y \in Paired(f, s, lag) \ Paired(g, h, lag) : x < y
<1>1. Bars(g) /\ Bars(h)
  BY EndsGrow
<1> DEFINE rg == Returns(g)
           rf == Returns(f)
           rh == Returns(h)
           rs == Returns(s)
<1>2. /\ Len(rg) \in Nat /\ Len(rf) \in Nat /\ Len(rg) <= Len(rf)
      /\ \A k \in 1 .. Len(rg) : k \in 1 .. Len(rf) /\ rf[k] = rg[k]
  BY ReturnsGrow
<1>3. /\ DOMAIN rg = 1 .. Len(rg) /\ \A k \in 1 .. Len(rg) : rg[k] \in Nat \X Nat
      /\ \A j, k \in 1 .. Len(rg) : j < k => rg[j][2] < rg[k][2]
  BY <1>1, ReturnsProperties
<1>4. DOMAIN rf = 1 .. Len(rf)
  BY ReturnsProperties
<1>5. DOMAIN rh = 1 .. Len(rh) /\ Len(rh) \in Nat
  BY <1>1, ReturnsProperties
<1>6. \A k : k \in Paired(g, h, lag) <=>
               k \in 1 .. Len(rg) /\ Partner(rh, rg[k][2], lag) \in 1 .. Len(rh)
  BY <1>3, <1>5 DEF Paired
<1>7. \A k : k \in Paired(f, s, lag) <=>
               k \in 1 .. Len(rf) /\ Partner(rs, rf[k][2], lag) \in DOMAIN rs
  BY <1>4 DEF Paired
<1>8. \A k \in 1 .. Len(rg) : Partner(rh, rg[k][2], lag) \in 1 .. Len(rh) =>
        Partner(rs, rg[k][2], lag) \in DOMAIN rs
  <2> SUFFICES ASSUME NEW k \in 1 .. Len(rg), Partner(rh, rg[k][2], lag) \in 1 .. Len(rh)
               PROVE  Partner(rs, rg[k][2], lag) \in DOMAIN rs
    OBVIOUS
  <2>1. rg[k][2] \in Nat
    BY <1>3
  <2> QED
    BY <1>5, <2>1, PartnerKept
<1> HIDE DEF rg, rf, rh, rs
<1>9. Paired(g, h, lag) \in SUBSET Paired(f, s, lag)
  <2> SUFFICES ASSUME NEW k \in Paired(g, h, lag) PROVE k \in Paired(f, s, lag)
    OBVIOUS
  <2>1. k \in 1 .. Len(rg) /\ Partner(rh, rg[k][2], lag) \in 1 .. Len(rh)
    BY <1>6
  <2>2. Partner(rs, rg[k][2], lag) \in DOMAIN rs /\ k \in 1 .. Len(rf) /\ rf[k] = rg[k]
    BY <1>2, <1>8, <2>1
  <2> QED
    BY <1>7, <2>2
<1>10. ASSUME NEW x \in Paired(g, h, lag), NEW y \in Paired(f, s, lag), y \notin Paired(g, h, lag)
       PROVE  x < y
  <2>1. x \in 1 .. Len(rg) /\ Partner(rh, rg[x][2], lag) \in 1 .. Len(rh) /\ y \in 1 .. Len(rf)
    BY <1>6, <1>7
  <2>2. CASE y > Len(rg)
    BY <1>2, <2>1, <2>2
  <2>3. CASE y \in 1 .. Len(rg)
    <3>1. ~ (Partner(rh, rg[y][2], lag) \in 1 .. Len(rh))
      BY <1>6, <1>10, <2>3
    <3> SUFFICES ASSUME y <= x PROVE FALSE
      BY <2>1, <2>3
    <3>2. rg[y][2] \in Nat /\ rg[x][2] \in Nat /\ rg[y][2] <= rg[x][2]
      BY <1>3, <2>1, <2>3
    <3> DEFINE Fx == FirstLater(rh, rg[x][2])
               Fy == FirstLater(rh, rg[y][2])
    <3>3. /\ Fx \in 0 .. Len(rh) /\ \A k \in 1 .. Len(rh) : rh[k][2] <= rg[x][2] <=> k <= Fx
          /\ Fy \in 0 .. Len(rh) /\ \A k \in 1 .. Len(rh) : rh[k][2] <= rg[y][2] <=> k <= Fy
      BY <1>1, <3>2, FirstLaterProperties DEF rh
    <3>4. \A k \in 1 .. Len(rh) : rh[k][2] \in Nat
      <4>1. \A k \in 1 .. Len(rh) : rh[k] \in Nat \X Nat
        BY <1>1, ReturnsProperties DEF rh
      <4> QED
        BY <4>1
    <3>5. Partner(rh, rg[x][2], lag) = Fx + lag + 1 /\ Partner(rh, rg[y][2], lag) = Fy + lag + 1
      BY DEF Partner
    <3> HIDE DEF Fx, Fy
    <3>6. Fy <= Fx
      <4> SUFFICES ASSUME Fy >= 1 PROVE Fy <= Fx
        BY <1>5, <3>3
      <4>1. Fy \in 1 .. Len(rh)
        BY <1>5, <3>3
      <4>2. rh[Fy][2] <= rg[y][2] /\ rh[Fy][2] \in Nat
        BY <3>3, <3>4, <4>1
      <4>3. rh[Fy][2] <= rg[x][2]
        BY <3>2, <4>2
      <4> QED
        BY <3>3, <4>1, <4>3
    <3> QED
      BY <1>5, <2>1, <3>1, <3>3, <3>5, <3>6
  <2> QED
    BY <1>2, <2>1, <2>2, <2>3
<1> QED
  BY <1>9, <1>10

LEMMA AllPairsGrow ==
  ASSUME NEW f, Bars(f), NEW g, Grown(g, f), NEW s, Bars(s), NEW h, Grown(h, s),
         NEW lag \in Nat
  PROVE  LET old == AllPairs(g, h, lag)
             new == AllPairs(f, s, lag)
         IN  /\ Len(old) \in Nat /\ Len(new) \in Nat /\ Len(old) <= Len(new)
             /\ \A k \in 1 .. Len(old) : k \in 1 .. Len(new) /\ new[k] = old[k]
<1> DEFINE old == AllPairs(g, h, lag)
           new == AllPairs(f, s, lag)
           P == Paired(g, h, lag)
           Q == Paired(f, s, lag)
           A == Ascending(P)
           B == Ascending(Q)
           m == Cardinality(P)
           n == Cardinality(Q)
<1>1. Bars(g) /\ Bars(h)
  BY EndsGrow
<1>2. P \in SUBSET Q /\ \A x \in P : \A y \in Q \ P : x < y
  BY PairedGrows
<1>3. /\ m \in Nat /\ Len(old) = m /\ A \in [1 .. m -> P]
      /\ P \in SUBSET (1 .. Len(Returns(g))) /\ PairsOf(old, Returns(g), Returns(h), lag, A, m)
  BY <1>1, PairsProperties
<1>4. /\ n \in Nat /\ Len(new) = n /\ Q \in SUBSET Int /\ IsFiniteSet(Q)
      /\ PairsOf(new, Returns(f), Returns(s), lag, B, n)
  BY PairsProperties
<1>5. m <= n /\ \A k \in 1 .. m : B[k] = A[k]
  BY <1>2, <1>4, AscendingExtends
<1>6. \A k \in 1 .. Len(Returns(g)) : Returns(f)[k] = Returns(g)[k]
  BY ReturnsGrow
<1>7. DOMAIN Returns(h) = 1 .. Len(Returns(h))
  BY <1>1, ReturnsProperties
<1> HIDE DEF old, new, P, Q, A, B, m, n
<1>8. \A k \in 1 .. m :
        /\ Returns(g)[A[k]] \in Nat \X Nat
        /\ Partner(Returns(h), Returns(g)[A[k]][2], lag) \in 1 .. Len(Returns(h))
        /\ old[k] = << Returns(g)[A[k]],
                       Returns(h)[Partner(Returns(h), Returns(g)[A[k]][2], lag)] >>
  BY <1>3 DEF PairsOf
<1>9. \A k \in 1 .. n :
        new[k] = << Returns(f)[B[k]],
                    Returns(s)[Partner(Returns(s), Returns(f)[B[k]][2], lag)] >>
  BY <1>4 DEF PairsOf
<1>10. ASSUME NEW k \in 1 .. m PROVE k \in 1 .. n /\ new[k] = old[k]
  <2> DEFINE r == Returns(g)[A[k]]
  <2>1. k \in 1 .. n /\ B[k] = A[k] /\ A[k] \in 1 .. Len(Returns(g))
    <3>1. k \in 1 .. n /\ B[k] = A[k]
      BY <1>3, <1>4, <1>5
    <3>2. A[k] \in P
      BY <1>3
    <3> QED
      BY <1>3, <3>1, <3>2
  <2>2. Returns(f)[B[k]] = r /\ r \in Nat \X Nat
    BY <1>6, <1>8, <2>1
  <2>3. Partner(Returns(h), r[2], lag) \in DOMAIN Returns(h)
    BY <1>7, <1>8
  <2>4. Returns(s)[Partner(Returns(s), r[2], lag)] = Returns(h)[Partner(Returns(h), r[2], lag)]
    BY <2>2, <2>3, PartnerKept
  <2>5. old[k] = << r, Returns(h)[Partner(Returns(h), r[2], lag)] >>
    BY <1>8
  <2>6. new[k] = << r, Returns(s)[Partner(Returns(s), r[2], lag)] >>
    BY <1>9, <2>1, <2>2
  <2> QED
    BY <2>1, <2>4, <2>5, <2>6
<1> QED
  BY <1>3, <1>4, <1>5, <1>10 DEF old, new

-----------------------------------------------------------------------------
(* Pairs that are added at the end push out the oldest, once there are      *)
(* enough.                                                                  *)
LEMMA GreaterOf ==
  ASSUME NEW a \in Int, NEW b \in Int
  PROVE  Max({a, b}) = IF a >= b THEN a ELSE b
<1>1. \E x \in {a, b} : \A y \in {a, b} : x >= y
  BY SMT
<1>2. Max({a, b}) \in {a, b} /\ \A y \in {a, b} : Max({a, b}) >= y
  BY <1>1 DEF Max
<1> QED
  BY <1>2

LEMMA CutProperties ==
  ASSUME NEW X, NEW p \in Seq(X)
  PROVE  LET H == HorizonSessions
             n == Len(CutToHorizon(p))
             from == IF Len(p) <= H THEN 1 ELSE Len(p) - H + 1
         IN  /\ CutToHorizon(p) \in Seq(X) /\ Len(p) \in Nat /\ H \in Nat \ {0}
             /\ n = Len(p) - from + 1
             /\ \A i \in 1 .. n : CutToHorizon(p)[i] = p[from + i - 1]
<1> DEFINE H == HorizonSessions
           from == IF Len(p) <= H THEN 1 ELSE Len(p) - H + 1
<1>1. H \in Nat \ {0} /\ Len(p) \in Nat
  BY ContextAssumption
<1>2. from \in Int /\ Max({1, Len(p) - H + 1}) = from
  BY <1>1, GreaterOf
<1>3. CutToHorizon(p) = SubSeq(p, from, Len(p))
  BY <1>2 DEF CutToHorizon
<1>4. from >= 1 /\ from <= Len(p) + 1
  BY <1>1
<1> HIDE DEF from, H
<1>5. \A i \in from .. Len(p) : p[i] \in X
  BY <1>1, <1>2, <1>4
<1>6. /\ SubSeq(p, from, Len(p)) \in Seq(X)
      /\ Len(SubSeq(p, from, Len(p))) = IF from <= Len(p) THEN Len(p) - from + 1 ELSE 0
      /\ \A i \in 1 .. Len(p) - from + 1 : SubSeq(p, from, Len(p))[i] = p[from + i - 1]
  BY <1>1, <1>2, <1>5, SubSeqProperties
<1>7. Len(SubSeq(p, from, Len(p))) = Len(p) - from + 1
  BY <1>1, <1>2, <1>4, <1>6
<1> QED
  BY <1>1, <1>3, <1>6, <1>7 DEF from, H

LEMMA CutGrows ==
  ASSUME NEW X, NEW p \in Seq(X), NEW q \in Seq(X), Len(p) <= Len(q),
         \A k \in 1 .. Len(p) : q[k] = p[k]
  PROVE  \E k \in 1 .. Len(CutToHorizon(p)) + 1 :
           /\ IsPrefix(SubSeq(CutToHorizon(p), k, Len(CutToHorizon(p))), CutToHorizon(q))
           /\ k > 1 => Len(CutToHorizon(q)) = HorizonSessions
<1> DEFINE H == HorizonSessions
           c == CutToHorizon(p)
           d == CutToHorizon(q)
           a == IF Len(p) <= H THEN 1 ELSE Len(p) - H + 1
           b == IF Len(q) <= H THEN 1 ELSE Len(q) - H + 1
           k == IF b - a <= Len(c) THEN b - a + 1 ELSE Len(c) + 1
           rest == SubSeq(c, k, Len(c))
<1>1. /\ c \in Seq(X) /\ Len(p) \in Nat /\ H \in Nat \ {0} /\ Len(c) = Len(p) - a + 1
      /\ \A i \in 1 .. Len(c) : c[i] = p[a + i - 1]
  BY CutProperties
<1>2. /\ d \in Seq(X) /\ Len(q) \in Nat /\ Len(d) = Len(q) - b + 1
      /\ \A i \in 1 .. Len(d) : d[i] = q[b + i - 1]
  BY CutProperties
<1> HIDE DEF c, d, H, k
<1>3. /\ a \in Int /\ b \in Int /\ a >= 1 /\ b >= a /\ Len(c) \in Nat /\ Len(d) \in Nat
      /\ b > 1 => Len(d) = H
  BY <1>1, <1>2
<1> HIDE DEF a, b
<1>4. /\ k \in 1 .. Len(c) + 1 /\ k \in Int
      /\ k <= b - a + 1 /\ (k <= Len(c) => k = b - a + 1)
  <2>1. CASE b - a <= Len(c)
    <3>1. k = b - a + 1
      BY <2>1 DEF k
    <3> QED
      BY <1>3, <2>1, <3>1
  <2>2. CASE ~ (b - a <= Len(c))
    <3>1. k = Len(c) + 1
      BY <2>2 DEF k
    <3> QED
      BY <1>3, <2>2, <3>1
  <2> QED
    BY <2>1, <2>2
<1>5. /\ Len(c) - k + 1 <= Len(d) /\ Len(c) - k + 1 \in Nat
      /\ k > 1 => Len(d) = H
  BY <1>1, <1>2, <1>3, <1>4
<1>6. /\ rest \in Seq(X) /\ Len(rest) = Len(c) - k + 1
      /\ \A i \in 1 .. Len(rest) : rest[i] = c[k + i - 1]
  <2>1. \A i \in k .. Len(c) : c[i] \in X
    BY <1>1, <1>3, <1>4, <1>5
  <2>2. /\ rest \in Seq(X) /\ Len(rest) = IF k <= Len(c) THEN Len(c) - k + 1 ELSE 0
        /\ \A i \in 1 .. Len(c) - k + 1 : rest[i] = c[k + i - 1]
    BY <1>3, <1>4, <2>1, SubSeqProperties
  <2>3. Len(rest) = Len(c) - k + 1
    BY <1>3, <1>4, <1>5, <2>2
  <2> QED
    BY <2>2, <2>3
<1> HIDE DEF rest
<1> DEFINE start == SubSeq(d, 1, Len(rest))
<1>7. /\ start \in Seq(X) /\ Len(start) = Len(rest)
      /\ \A i \in 1 .. Len(rest) : start[i] = d[i]
  <2>1. Len(rest) \in Nat /\ \A i \in 1 .. Len(rest) : d[i] \in X
    BY <1>2, <1>3, <1>5, <1>6
  <2>2. /\ start \in Seq(X) /\ Len(start) = IF 1 <= Len(rest) THEN Len(rest) - 1 + 1 ELSE 0
        /\ \A i \in 1 .. Len(rest) - 1 + 1 : start[i] = d[1 + i - 1]
    BY <2>1, SubSeqProperties
  <2>3. \A i \in 1 .. Len(rest) : i \in 1 .. Len(rest) - 1 + 1 /\ 1 + i - 1 = i
    BY <2>1
  <2>4. Len(start) = Len(rest)
    BY <2>1, <2>2
  <2> HIDE DEF start
  <2> QED
    BY <2>2, <2>3, <2>4
<1>8. SubSeq(rest, 1, Len(rest)) = rest
  BY <1>6, SubSeqFull
<1> HIDE DEF start
<1>9. \A i \in 1 .. Len(rest) : rest[i] = start[i]
  <2> SUFFICES ASSUME NEW i \in 1 .. Len(rest) PROVE rest[i] = start[i]
    OBVIOUS
  <2>1. k <= Len(c) /\ k + i - 1 \in 1 .. Len(c) /\ i \in 1 .. Len(d)
    BY <1>3, <1>4, <1>5, <1>6
  <2>2. rest[i] = p[a + (k + i - 1) - 1]
    BY <1>1, <1>6, <2>1
  <2>3. start[i] = q[b + i - 1]
    BY <1>2, <1>7, <2>1
  <2>4. a + (k + i - 1) - 1 = b + i - 1 /\ b + i - 1 \in 1 .. Len(p)
    BY <1>1, <1>3, <1>4, <1>5, <2>1
  <2> QED
    BY <2>2, <2>3, <2>4
<1>10. rest = start
  BY <1>6, <1>7, <1>9, SeqEqual
<1>11. IsPrefix(rest, d)
  BY <1>5, <1>6, <1>10 DEF IsPrefix, start
<1> QED
  BY <1>4, <1>5, <1>11 DEF rest, c, d, H

-----------------------------------------------------------------------------
(* Reports: the closes stay finitely many.  Nothing else is needed of the   *)
(* past, for a report is computed from the closes there are.                *)
ContextInductive ==
  ContextTypeOK /\ IsFiniteSet(factorCloses) /\ IsFiniteSet(stockCloses)

LEMMA ContextBars ==
  ContextInductive => Bars(factorCloses) /\ Bars(stockCloses)
<1> SUFFICES ASSUME ContextInductive PROVE Bars(factorCloses) /\ Bars(stockCloses)
  OBVIOUS
<1>1. FactorEnds \in SUBSET Nat /\ StockEnds \in SUBSET Nat
  BY ContextAssumption
<1>2. /\ factorCloses \subseteq [end : FactorEnds, usable : BOOLEAN]
      /\ stockCloses \subseteq [end : StockEnds, usable : BOOLEAN]
      /\ \A c, d \in factorCloses : c.end = d.end => c = d
      /\ \A c, d \in stockCloses : c.end = d.end => c = d
  BY DEF ContextInductive, ContextTypeOK
<1>3. factorCloses \in SUBSET [end : Nat, usable : BOOLEAN]
      /\ stockCloses \in SUBSET [end : Nat, usable : BOOLEAN]
  BY <1>1, <1>2
<1> QED
  BY <1>2, <1>3 DEF Bars, ContextInductive

LEMMA UpsertKeeps ==
  ASSUME NEW ends, NEW closes \in SUBSET [end : ends, usable : BOOLEAN], IsFiniteSet(closes),
         \A c, d \in closes : c.end = d.end => c = d,
         NEW bar \in [end : ends, usable : BOOLEAN]
  PROVE  /\ Upserted(closes, bar) \in SUBSET [end : ends, usable : BOOLEAN]
         /\ IsFiniteSet(Upserted(closes, bar))
         /\ \A c, d \in Upserted(closes, bar) : c.end = d.end => c = d
<1> DEFINE others == { x \in closes : x.end # bar.end }
<1>1. others \in SUBSET closes
  OBVIOUS
<1>2. IsFiniteSet(others)
  BY <1>1, FS_Subset
<1>3. Upserted(closes, bar) = others \cup {bar}
  BY DEF Upserted
<1>4. \A x \in others : x.end # bar.end
  OBVIOUS
<1> HIDE DEF others
<1>5. IsFiniteSet(others \cup {bar})
  BY <1>2, FS_AddElement
<1> QED
  BY <1>1, <1>3, <1>4, <1>5

LEMMA ContextInductiveInit == ContextInit => ContextInductive
<1> SUFFICES ASSUME ContextInit PROVE ContextInductive
  OBVIOUS
<1>1. moment \in 0 .. LastMoment /\ barFaults \in 0 .. MaxBarFaults
  BY ContextAssumption DEF ContextInit
<1>2. IsFiniteSet(factorCloses) /\ IsFiniteSet(stockCloses)
  BY FS_EmptySet DEF ContextInit
<1> QED
  BY <1>1, <1>2 DEF ContextInit, ContextInductive, ContextTypeOK

LEMMA ContextInductiveStep == ContextInductive /\ [ContextNext]_contextVars => ContextInductive'
<1> SUFFICES ASSUME ContextInductive, [ContextNext]_contextVars PROVE ContextInductive'
  OBVIOUS
<1>1. /\ moment \in 0 .. LastMoment /\ barFaults \in 0 .. MaxBarFaults
      /\ factorCloses \in SUBSET [end : FactorEnds, usable : BOOLEAN]
      /\ stockCloses \in SUBSET [end : StockEnds, usable : BOOLEAN]
      /\ \A c, d \in factorCloses : c.end = d.end => c = d
      /\ \A c, d \in stockCloses : c.end = d.end => c = d
      /\ IsFiniteSet(factorCloses) /\ IsFiniteSet(stockCloses)
      /\ LastMoment \in Nat /\ MaxBarFaults \in Nat
  BY ContextAssumption DEF ContextInductive, ContextTypeOK
<1>2. CASE ContextTick
  <2>1. moment' \in 0 .. LastMoment
    BY <1>1, <1>2 DEF ContextTick
  <2> QED
    BY <1>1, <1>2, <2>1 DEF ContextTick, ContextInductive, ContextTypeOK
<1>3. CASE StoreFactorClose
  <2>1. PICK c \in [end : FactorEnds, usable : BOOLEAN] :
          /\ factorCloses' = Upserted(factorCloses, c)
          /\ UNCHANGED barFaults \/ BarFault
    BY <1>3 DEF StoreFactorClose, Closed
  <2>2. barFaults' \in 0 .. MaxBarFaults
    BY <1>1, <2>1 DEF BarFault
  <2>3. /\ factorCloses' \in SUBSET [end : FactorEnds, usable : BOOLEAN]
        /\ IsFiniteSet(factorCloses')
        /\ \A x, y \in factorCloses' : x.end = y.end => x = y
    BY <1>1, <2>1, UpsertKeeps
  <2> QED
    BY <1>1, <1>3, <2>2, <2>3 DEF StoreFactorClose, ContextInductive, ContextTypeOK
<1>4. CASE StoreStockClose
  <2>1. PICK c \in [end : StockEnds, usable : BOOLEAN] :
          /\ stockCloses' = Upserted(stockCloses, c)
          /\ UNCHANGED barFaults \/ BarFault
    BY <1>4 DEF StoreStockClose, Closed
  <2>2. barFaults' \in 0 .. MaxBarFaults
    BY <1>1, <2>1 DEF BarFault
  <2>3. /\ stockCloses' \in SUBSET [end : StockEnds, usable : BOOLEAN]
        /\ IsFiniteSet(stockCloses')
        /\ \A x, y \in stockCloses' : x.end = y.end => x = y
    BY <1>1, <2>1, UpsertKeeps
  <2> QED
    BY <1>1, <1>4, <2>2, <2>3 DEF StoreStockClose, ContextInductive, ContextTypeOK
<1>5. CASE UNCHANGED contextVars
  BY <1>5 DEF contextVars, ContextInductive, ContextTypeOK
<1> QED
  BY <1>2, <1>3, <1>4, <1>5 DEF ContextNext

LEMMA ContextInductiveSound == ContextInductive => PairsSound
<1> SUFFICES ASSUME ContextInductive PROVE PairsSound
  OBVIOUS
<1>1. Bars(factorCloses) /\ Bars(stockCloses)
  BY ContextBars
<1>2. Lags \in SUBSET Nat
  BY ContextAssumption
<1>3. PairsFollow
  <2> SUFFICES ASSUME NEW lag \in Lags, NEW k \in DOMAIN AllPairs(factorCloses, stockCloses, lag)
               PROVE  Follows(AllPairs(factorCloses, stockCloses, lag)[k], Returns(stockCloses), lag)
    BY DEF PairsFollow, Follows
  <2>1. lag \in Nat
    BY <1>2
  <2> QED
    BY <1>1, <2>1, PartnersFollow
<1>4. ReturnsSpanOneSession
  <2>1. \A S \in {factorCloses, stockCloses} : Bars(S)
    BY <1>1
  <2> QED
    BY <2>1, ReturnsSpanNothing DEF ReturnsSpanOneSession
<1> QED
  BY <1>3, <1>4 DEF PairsSound

(* A close that arrives in order adds pairs, and takes none back.           *)
LEMMA PairsAreAppended == []ContextInductive => PairsOnlyGrow
<1> DEFINE Kept ==
             InOrderStep =>
               \A lag \in Lags :
                 LET old == CutToHorizon(AllPairs(factorCloses, stockCloses, lag))
                     new == CutToHorizon(AllPairs(factorCloses', stockCloses', lag))
                 IN  \E k \in 1 .. Len(old) + 1 :
                       /\ IsPrefix(SubSeq(old, k, Len(old)), new)
                       /\ k > 1 => Len(new) = HorizonSessions
<1>1. ContextInductive /\ ContextInductive' => Kept
  <2> SUFFICES ASSUME ContextInductive, ContextInductive', InOrderStep, NEW lag \in Lags
               PROVE  LET old == CutToHorizon(AllPairs(factorCloses, stockCloses, lag))
                          new == CutToHorizon(AllPairs(factorCloses', stockCloses', lag))
                      IN  \E k \in 1 .. Len(old) + 1 :
                            /\ IsPrefix(SubSeq(old, k, Len(old)), new)
                            /\ k > 1 => Len(new) = HorizonSessions
    OBVIOUS
  <2>1. Bars(factorCloses) /\ Bars(stockCloses)
    BY ContextBars
  <2>2. Bars(factorCloses') /\ Bars(stockCloses')
    <3>1. (ContextInductive => Bars(factorCloses) /\ Bars(stockCloses))'
      BY ContextBars, PTL
    <3> QED
      BY <3>1
  <2>3. Grown(factorCloses, factorCloses') /\ Grown(stockCloses, stockCloses')
    BY DEF InOrderStep, Grown
  <2>4. lag \in Nat
    BY ContextAssumption
  <2> DEFINE p == AllPairs(factorCloses, stockCloses, lag)
             q == AllPairs(factorCloses', stockCloses', lag)
             Pair == (Nat \X Nat) \X (Nat \X Nat)
  <2>5. p \in Seq(Pair)
    BY <2>1, <2>4, PairsProperties
  <2>6. q \in Seq(Pair)
    BY <2>2, <2>4, PairsProperties
  <2>7. Len(p) <= Len(q) /\ \A k \in 1 .. Len(p) : q[k] = p[k]
    BY <2>2, <2>3, <2>4, AllPairsGrow
  <2> HIDE DEF p, q, Pair
  <2>8. \E k \in 1 .. Len(CutToHorizon(p)) + 1 :
          /\ IsPrefix(SubSeq(CutToHorizon(p), k, Len(CutToHorizon(p))), CutToHorizon(q))
          /\ k > 1 => Len(CutToHorizon(q)) = HorizonSessions
    BY <2>5, <2>6, <2>7, CutGrows
  <2> QED
    BY <2>8 DEF p, q
<1> QED
  BY <1>1, PTL DEF PairsOnlyGrow

(* The reaction to an event, once there is one, is not moved by closes that *)
(* arrive in order.                                                         *)
LEMMA ReactionsAreFixed == []ContextInductive => ReactionFixed
<1> DEFINE Fixed ==
             InOrderStep =>
               \A t \in EventTimes :
                 NextCloseMove(stockCloses, t) # {} =>
                   NextCloseMove(stockCloses', t) = NextCloseMove(stockCloses, t)
<1>1. ContextInductive /\ ContextInductive' => Fixed
  <2> SUFFICES ASSUME ContextInductive, ContextInductive', InOrderStep, NEW t \in EventTimes,
                      NextCloseMove(stockCloses, t) # {}
               PROVE  NextCloseMove(stockCloses', t) = NextCloseMove(stockCloses, t)
    OBVIOUS
  <2> DEFINE S == stockCloses
             T == stockCloses'
  <2>1. /\ Bars(T)
        /\ Grown(S, T) /\ t \in Nat
    <3>1. (ContextInductive => Bars(factorCloses) /\ Bars(stockCloses))'
      BY ContextBars, PTL
    <3>2. Grown(S, T)
      BY DEF InOrderStep, Grown
    <3> QED
      BY <3>1, <3>2, ContextAssumption
  <2> HIDE DEF S, T
  <2>2. S \in SUBSET T /\ \A c \in T : c.end \in Nat
    BY <2>1 DEF Grown, Bars
  <2>3. EndsOf(S) \in SUBSET EndsOf(T)
        /\ \A x \in EndsOf(S) : \A y \in EndsOf(T) \ EndsOf(S) : x < y
    BY <2>1, EndsGrow
  <2>4. \A c \in T \ S : \A x \in EndsOf(S) : x < c.end
    BY <2>1 DEF Grown, InOrder
  <2>5. \A c \in T : c.end \in EndsOf(T)
    BY DEF EndsOf
  <2>6. \A c \in S : c.end \in EndsOf(S)
    BY DEF EndsOf
  <2>7. \A x \in EndsOf(T) : x \in Nat
    BY <2>2 DEF EndsOf
  <2>8. PICK a \in After(S, t) : TRUE
    BY DEF NextCloseMove, S
  <2>9. a \in S /\ a.end \in EndsOf(S) /\ a.end \in Nat /\ a.end > t
        /\ \A x \in EndsOf(S) : x > t => a.end <= x
    BY <2>2, <2>6, <2>8 DEF After
  <2>10. \A c \in T \ S : c.end > a.end
    BY <2>2, <2>4, <2>9
  <2>11. \A y \in EndsOf(T) \ EndsOf(S) : y > a.end
    BY <2>3, <2>7, <2>9
  <2>12. After(T, t) = After(S, t)
    <3>1. ASSUME NEW c \in After(T, t) PROVE c \in After(S, t)
      <4>1. c \in T /\ c.end > t /\ \A x \in EndsOf(T) : x > t => c.end <= x
        BY <3>1 DEF After
      <4>2. c.end <= a.end
        BY <2>3, <2>9, <4>1
      <4>3. c \in S
        BY <2>2, <2>9, <2>10, <4>1, <4>2
      <4> QED
        BY <2>3, <4>1, <4>3 DEF After
    <3>2. ASSUME NEW c \in After(S, t) PROVE c \in After(T, t)
      <4>1. c \in S /\ c.end > t /\ \A x \in EndsOf(S) : x > t => c.end <= x
        BY <3>2 DEF After
      <4>2. c \in T /\ c.end \in Nat /\ c.end <= a.end
        BY <2>2, <2>9, <4>1
      <4>3. \A x \in EndsOf(T) : x > t => c.end <= x
        BY <2>7, <2>9, <2>11, <4>1, <4>2
      <4> QED
        BY <4>1, <4>2, <4>3 DEF After
    <3> QED
      BY <3>1, <3>2
  <2>13. Before(T, t) = Before(S, t)
    <3>1. ASSUME NEW c \in Before(T, t) PROVE c \in Before(S, t)
      <4>1. c \in T /\ c.end < t /\ \A x \in EndsOf(T) : x < t => x <= c.end
        BY <3>1 DEF Before
      <4>2. c \in S
        BY <2>1, <2>2, <2>9, <2>10, <4>1
      <4> QED
        BY <2>3, <4>1, <4>2 DEF Before
    <3>2. ASSUME NEW c \in Before(S, t) PROVE c \in Before(T, t)
      <4>1. c \in S /\ c.end < t /\ \A x \in EndsOf(S) : x < t => x <= c.end
        BY <3>2 DEF Before
      <4>2. c \in T
        BY <2>2, <4>1
      <4>3. \A x \in EndsOf(T) : x < t => x <= c.end
        BY <2>1, <2>7, <2>9, <2>11, <4>1
      <4> QED
        BY <4>1, <4>2, <4>3 DEF Before
    <3> QED
      BY <3>1, <3>2
  <2> QED
    BY <2>12, <2>13 DEF NextCloseMove, S, T
<1> QED
  BY <1>1, PTL DEF ReactionFixed

-----------------------------------------------------------------------------
(* The hours of a series.                                                   *)
LEMMA SeriesProperties ==
  ASSUME SeriesTypeOK
  PROVE  /\ Len(series) \in Nat /\ DOMAIN series = Indices /\ Indices = 1 .. Len(series)
         /\ \A i \in Indices :
              /\ i \in Nat /\ i >= 1 /\ i <= Len(series)
              /\ series[i] \in HourBucket
              /\ series[i].posts \in BOOLEAN /\ series[i].sent \in Int
              /\ series[i].priced \in BOOLEAN /\ series[i].price \in Nat
              /\ series[i].open \in BOOLEAN
<1>1. series \in Seq(HourBucket)
  BY DEF SeriesTypeOK
<1>2. \A b \in HourBucket :
        /\ b.posts \in BOOLEAN /\ b.sent \in Int /\ b.priced \in BOOLEAN
        /\ b.price \in Nat /\ b.open \in BOOLEAN
  <2> SUFFICES ASSUME NEW b \in HourBucket
               PROVE  /\ b.posts \in BOOLEAN /\ b.sent \in Int /\ b.priced \in BOOLEAN
                      /\ b.price \in Nat /\ b.open \in BOOLEAN
    OBVIOUS
  <2>1. b \in [posts : BOOLEAN, sent : SentimentValues \cup {0}, priced : BOOLEAN,
                price : HourPrices, open : BOOLEAN]
    BY DEF HourBucket
  <2>2. SentimentValues \cup {0} \subseteq Int /\ HourPrices \subseteq Nat
    BY SeriesAssumption
  <2>3. b.sent \in SentimentValues \cup {0} /\ b.price \in HourPrices
    BY <2>1
  <2> QED
    BY <2>1, <2>2, <2>3
<1>3. Len(series) \in Nat /\ DOMAIN series = 1 .. Len(series)
      /\ \A i \in 1 .. Len(series) : series[i] \in HourBucket
  BY <1>1
<1> QED
  BY <1>2, <1>3 DEF Indices

(* The oldest hour with posts opens the lines; each hour after it carries   *)
(* an index.                                                                *)
LEMMA CarriedProperties ==
  ASSUME SeriesTypeOK
  PROVE  /\ DOMAIN Carried(series) = Indices
         /\ \A i \in Indices : Carried(series)[i] # << >> <=> \E j \in Told : j <= i
<1>1. DOMAIN Carried(series) = Indices
  BY SeriesProperties DEF Carried
<1>2. ASSUME NEW i \in Indices
      PROVE  Carried(series)[i] # << >> <=> \E j \in Told : j <= i
  <2> DEFINE told == { j \in 1 .. i : series[j].posts }
  <2>1. Carried(series)[i] = IF told = {} THEN << >> ELSE << series[Max(told)].sent >>
    BY SeriesProperties DEF Carried
  <2>2. told # {} <=> \E j \in Told : j <= i
    <3>1. i \in Nat /\ i <= Len(series) /\ Indices = 1 .. Len(series) /\ Len(series) \in Nat
      BY SeriesProperties
    <3>2. \A j \in 1 .. i : j \in Indices
      BY <3>1
    <3>3. \A j \in Indices : j <= i => j \in 1 .. i
      BY <3>1
    <3> QED
      BY <3>2, <3>3 DEF Told
  <2> HIDE DEF told
  <2> QED
    BY <2>1, <2>2
<1> QED
  BY <1>1, <1>2

LEMMA WindowProperties ==
  ASSUME NEW values, NEW i, NEW period
  PROVE  WindowSum(values, i, period) # << >> <=>
           ~ (i < period) /\ \A j \in i - period + 1 .. i : values[j] # << >>
<1>1. \A x : << x >> # << >>
  OBVIOUS
<1> QED
  BY <1>1, Zenon DEF WindowSum

LEMMA MacdProperties ==
  ASSUME SeriesTypeOK
  PROVE  /\ DOMAIN MacdLine(series) = Indices
         /\ \A i \in Indices : MacdLine(series)[i] # << >> <=>
              \E j \in Told : j + Slow - 1 <= i
<1>1. DOMAIN MacdLine(series) = Indices
  BY SeriesProperties DEF MacdLine
<1>2. ASSUME NEW i \in Indices
      PROVE  MacdLine(series)[i] # << >> <=> \E j \in Told : j + Slow - 1 <= i
  <2> DEFINE v == Carried(series)
             f == WindowSum(v, i, Fast)
             s == WindowSum(v, i, Slow)
  <2>1. MacdLine(series)[i] = IF f = << >> \/ s = << >> THEN << >>
                              ELSE << Slow * f[1] - Fast * s[1] >>
    BY SeriesProperties DEF MacdLine
  <2>2. f # << >> <=> ~ (i < Fast) /\ \A j \in i - Fast + 1 .. i : v[j] # << >>
    BY WindowProperties
  <2>3. s # << >> <=> ~ (i < Slow) /\ \A j \in i - Slow + 1 .. i : v[j] # << >>
    BY WindowProperties
  <2>4. \A j \in Indices : v[j] # << >> <=> \E t \in Told : t <= j
    BY CarriedProperties
  <2>5. /\ Indices = 1 .. Len(series) /\ Len(series) \in Nat /\ i \in Nat /\ i <= Len(series)
        /\ \A t \in Told : t \in Nat /\ t >= 1
        /\ Fast \in Nat \ {0} /\ Slow \in Nat \ {0} /\ Fast <= Slow
    BY SeriesProperties, SeriesAssumption DEF Told
  <2> DEFINE x == Slow * f[1] - Fast * s[1]
  <2>6. MacdLine(series)[i] # << >> <=> f # << >> /\ s # << >>
    <3>1. << x >> # << >>
      OBVIOUS
    <3> HIDE DEF f, s, x
    <3> QED
      BY <2>1, <3>1, Zenon DEF x
  <2> HIDE DEF v, f, s
  <2>7. ASSUME NEW t \in Told, t + Slow - 1 <= i
        PROVE  f # << >> /\ s # << >>
    <3>1. ~ (i < Fast) /\ ~ (i < Slow)
      BY <2>5, <2>7
    <3>2. \A j \in i - Slow + 1 .. i : v[j] # << >>
      <4> SUFFICES ASSUME NEW j \in i - Slow + 1 .. i PROVE v[j] # << >>
        OBVIOUS
      <4>1. j \in Indices /\ t <= j
        BY <2>5, <2>7
      <4> QED
        BY <2>4, <4>1
    <3>3. \A j \in i - Fast + 1 .. i : v[j] # << >>
      <4> SUFFICES ASSUME NEW j \in i - Fast + 1 .. i PROVE v[j] # << >>
        OBVIOUS
      <4>1. j \in i - Slow + 1 .. i
        BY <2>5
      <4> QED
        BY <3>2, <4>1
    <3> QED
      BY <2>2, <2>3, <3>1, <3>2, <3>3
  <2>8. ASSUME s # << >>
        PROVE  \E t \in Told : t + Slow - 1 <= i
    <3>1. ~ (i < Slow) /\ \A j \in i - Slow + 1 .. i : v[j] # << >>
      BY <2>3, <2>8
    <3>2. i - Slow + 1 \in Indices /\ i - Slow + 1 \in i - Slow + 1 .. i
      BY <2>5, <3>1
    <3>3. PICK t \in Told : t <= i - Slow + 1
      BY <2>4, <3>1, <3>2
    <3>4. t + Slow - 1 <= i
      BY <2>5, <3>3
    <3> QED
      BY <3>4
  <2> QED
    BY <2>6, <2>7, <2>8
<1> QED
  BY <1>1, <1>2

LEMMA LinesAreFull == SeriesTypeOK => LinesStartWhenFull
<1> SUFFICES ASSUME SeriesTypeOK, NEW i \in Indices
             PROVE  /\ MacdLine(series)[i] # << >> <=> \E j \in Told : j + Slow - 1 <= i
                    /\ SignalLine(series)[i] # << >> <=>
                         \E j \in Told : j + Slow - 1 + Smooth - 1 <= i
  BY DEF LinesStartWhenFull
<1> DEFINE line == MacdLine(series)
<1>1. \A j \in Indices : line[j] # << >> <=> \E t \in Told : t + Slow - 1 <= j
  BY MacdProperties
<1>2. SignalLine(series)[i] = WindowSum(line, i, Smooth)
  BY SeriesProperties DEF SignalLine
<1>3. WindowSum(line, i, Smooth) # << >> <=>
        ~ (i < Smooth) /\ \A j \in i - Smooth + 1 .. i : line[j] # << >>
  BY WindowProperties
<1>4. /\ Indices = 1 .. Len(series) /\ Len(series) \in Nat /\ i \in Nat /\ i <= Len(series)
      /\ \A t \in Told : t \in Nat /\ t >= 1
      /\ Slow \in Nat \ {0} /\ Smooth \in Nat \ {0}
  BY SeriesProperties, SeriesAssumption DEF Told
<1> HIDE DEF line
<1>5. ASSUME NEW t \in Told, t + Slow - 1 + Smooth - 1 <= i
      PROVE  WindowSum(line, i, Smooth) # << >>
  <2>1. ~ (i < Smooth)
    BY <1>4, <1>5
  <2>2. \A j \in i - Smooth + 1 .. i : line[j] # << >>
    <3> SUFFICES ASSUME NEW j \in i - Smooth + 1 .. i PROVE line[j] # << >>
      OBVIOUS
    <3>1. j \in Indices /\ t + Slow - 1 <= j
      BY <1>4, <1>5
    <3> QED
      BY <1>1, <3>1
  <2> QED
    BY <1>3, <2>1, <2>2
<1>6. ASSUME WindowSum(line, i, Smooth) # << >>
      PROVE  \E t \in Told : t + Slow - 1 + Smooth - 1 <= i
  <2>1. ~ (i < Smooth) /\ \A j \in i - Smooth + 1 .. i : line[j] # << >>
    BY <1>3, <1>6
  <2>2. i - Smooth + 1 \in Indices /\ i - Smooth + 1 \in i - Smooth + 1 .. i
    BY <1>4, <2>1
  <2>3. PICK t \in Told : t + Slow - 1 <= i - Smooth + 1
    BY <1>1, <2>1, <2>2
  <2>4. t + Slow - 1 + Smooth - 1 <= i
    BY <1>4, <2>3
  <2> QED
    BY <2>4
<1>7. MacdLine(series)[i] # << >> <=> \E j \in Told : j + Slow - 1 <= i
  BY <1>1 DEF line
<1> QED
  BY <1>2, <1>5, <1>6, <1>7

(* Hours that repeat the index they would carry change nothing.             *)
LEMMA RepeatedCarries ==
  ASSUME SeriesTypeOK
  PROVE  Carried(Repeated) = Carried(series)
<1>1. /\ Indices = 1 .. Len(series) /\ Len(series) \in Nat /\ DOMAIN series = Indices
      /\ \A i \in Indices : i \in Nat /\ i >= 1 /\ i <= Len(series)
  BY SeriesProperties
<1>2. DOMAIN Repeated = Indices
  BY DEF Repeated
<1> DEFINE upto(i) == { j \in Told : j <= i }
           told(i) == { j \in 1 .. i : series[j].posts }
           again(i) == { j \in 1 .. i : Repeated[j].posts }
<1>3. ASSUME NEW i \in Indices
      PROVE  upto(i) = told(i)
  <2>1. \A j \in 1 .. i : j \in Indices /\ j <= i
    BY <1>1
  <2>2. \A j \in Indices : j <= i => j \in 1 .. i
    BY <1>1
  <2> QED
    BY <2>1, <2>2 DEF Told
<1>4. ASSUME NEW i \in Indices
      PROVE  Repeated[i].posts = (upto(i) # {})
             /\ (upto(i) # {} => Repeated[i].sent = series[Max(upto(i))].sent)
  BY DEF Repeated
<1>5. ASSUME NEW i \in Indices
      PROVE  /\ again(i) = {} <=> told(i) = {}
             /\ again(i) # {} => Max(again(i)) = i
  <2>1. i \in 1 .. i /\ \A j \in 1 .. i : j \in Indices /\ j <= i
    BY <1>1
  <2>2. \A j \in 1 .. i : upto(j) \subseteq upto(i)
    <3> SUFFICES ASSUME NEW j \in 1 .. i, NEW t \in Told, t <= j PROVE t <= i
      OBVIOUS
    <3> QED
      BY <1>1 DEF Told
  <2>3. again(i) # {} => told(i) # {}
    BY <1>3, <1>4, <2>1, <2>2
  <2>4. told(i) # {} => i \in again(i)
    BY <1>3, <1>4, <2>1
  <2>5. i \in again(i) => Max(again(i)) = i
    <3> SUFFICES ASSUME i \in again(i) PROVE Max(again(i)) = i
      OBVIOUS
    <3>1. i \in Nat /\ \A y \in again(i) : y \in Nat /\ i >= y
      BY <1>1
    <3> HIDE DEF again
    <3>2. Max(again(i)) \in again(i) /\ \A y \in again(i) : Max(again(i)) >= y
      BY <3>1 DEF Max
    <3> QED
      BY <3>1, <3>2
  <2> QED
    BY <2>3, <2>4, <2>5
<1>6. ASSUME NEW i \in Indices
      PROVE  (IF again(i) = {} THEN << >> ELSE << Repeated[Max(again(i))].sent >>)
               = (IF told(i) = {} THEN << >> ELSE << series[Max(told(i))].sent >>)
  BY <1>3, <1>4, <1>5, Zenon
<1>7. Carried(Repeated) = [i \in Indices |-> IF again(i) = {} THEN << >>
                                             ELSE << Repeated[Max(again(i))].sent >>]
  BY <1>2 DEF Carried
<1>8. Carried(series) = [i \in Indices |-> IF told(i) = {} THEN << >>
                                           ELSE << series[Max(told(i))].sent >>]
  BY <1>1 DEF Carried
<1> HIDE DEF told, again
<1> QED
  BY <1>6, <1>7, <1>8, Zenon

LEMMA MomentumIsMeasured == SeriesTypeOK => MomentumNotCadence
<1> SUFFICES ASSUME SeriesTypeOK PROVE MomentumNotCadence
  OBVIOUS
<1>1. Carried(Repeated) = Carried(series)
  BY RepeatedCarries
<1>2. DOMAIN Repeated = DOMAIN series
  BY SeriesProperties DEF Repeated
<1>3. MacdLine(Repeated) = MacdLine(series)
  BY <1>1, <1>2, Zenon DEF MacdLine
<1>4. SignalLine(Repeated) = SignalLine(series)
  BY <1>2, <1>3, Zenon DEF SignalLine
<1> QED
  BY <1>3, <1>4 DEF MomentumNotCadence

-----------------------------------------------------------------------------
(* The support price is the price of some hour: with all prices at or below *)
(* the highest, there always is a least one that is high enough.            *)
LEMMA SupportIsPrice ==
  ASSUME SeriesTypeOK, NEW before \in HourPrices \cup {0}
  PROVE  SupportPrice(before) \in Nat
<1> DEFINE priced == { i \in Indices : series[i].priced }
           n == Cardinality(priced)
           own == { series[i].price : i \in priced }
           prices == own \cup ({before} \ {0})
           upto(p) == { i \in priced : series[i].price <= p }
           count(p) == Cardinality(upto(p)) + (IF before # 0 /\ before <= p THEN 1 ELSE 0)
           all == n + (IF before # 0 THEN 1 ELSE 0)
           place == 1 + ((all - 1) * 5) \div 100
           enough == { p \in prices : count(p) >= place }
<1>1. /\ Len(series) \in Nat /\ Indices = 1 .. Len(series)
      /\ \A i \in Indices : series[i].price \in Nat
  BY SeriesProperties
<1>2. SupportPrice(before) = IF prices = {} THEN 0 ELSE Min(enough)
  BY DEF SupportPrice
<1>3. before \in Nat
  BY SeriesAssumption
<1>4. IsFiniteSet(priced) /\ prices \in SUBSET Nat /\ IsFiniteSet(prices)
  <2>1. IsFiniteSet(Indices)
    BY <1>1, FS_Interval
  <2>2. priced \in SUBSET Indices
    OBVIOUS
  <2>3. IsFiniteSet(priced)
    BY <2>1, <2>2, FS_Subset
  <2> DEFINE f == [i \in priced |-> series[i].price]
  <2>4. f \in Surjection(priced, own)
    BY DEF Surjection
  <2>5. own \in SUBSET Nat
    BY <1>1
  <2> HIDE DEF priced, own, f
  <2>6. IsFiniteSet(own)
    BY <2>3, <2>4, FS_Surjection
  <2>7. IsFiniteSet({before} \ {0})
    <3>1. IsFiniteSet({before})
      BY FS_Singleton
    <3> QED
      BY <3>1, FS_Subset
  <2>8. IsFiniteSet(prices)
    BY <2>6, <2>7, FS_Union
  <2> QED
    BY <1>3, <2>3, <2>5, <2>8
<1> HIDE DEF prices, enough
<1> SUFFICES ASSUME prices # {} PROVE Min(enough) \in Nat
  BY <1>2
<1> USE DEF prices, enough
<1>5. PICK top \in prices : \A p \in prices : p <= top
  <2> DEFINE A == Ascending(prices)
             m == Cardinality(prices)
  <2>1. /\ m \in Nat /\ A \in [1 .. m -> prices]
        /\ \A j, k \in 1 .. m : j < k => A[j] < A[k]
        /\ \A x \in prices : \E k \in 1 .. m : A[k] = x
    <3> HIDE DEF prices
    <3>1. prices \in SUBSET Int /\ IsFiniteSet(prices)
      BY <1>4
    <3> QED
      BY <3>1, AscendingProperties
  <2>2. prices # {}
    OBVIOUS
  <2> HIDE DEF A, m, prices
  <2>3. m >= 1 /\ m \in 1 .. m
    BY <2>1, <2>2
  <2>4. \A p \in prices : p <= A[m]
    <3> SUFFICES ASSUME NEW p \in prices PROVE p <= A[m]
      OBVIOUS
    <3>1. PICK k \in 1 .. m : A[k] = p
      BY <2>1
    <3>2. k < m \/ k = m
      BY <2>1
    <3>3. p \in Nat /\ A[m] \in Nat
      BY <1>4, <2>1, <2>3
    <3> QED
      BY <2>1, <2>3, <3>1, <3>2, <3>3
  <2> QED
    BY <2>1, <2>3, <2>4
<1>6. upto(top) = priced
  <2>1. \A i \in priced : series[i].price \in prices
    OBVIOUS
  <2> HIDE DEF prices
  <2> QED
    BY <1>5, <2>1
<1>7. before # 0 => before <= top
  <2>1. before # 0 => before \in prices
    OBVIOUS
  <2> HIDE DEF prices
  <2> QED
    BY <1>5, <2>1
<1>8. n \in Nat
  BY <1>4, FS_CardinalityType
<1>9. all \in Nat \ {0}
  <2>1. priced # {} \/ before # 0
    OBVIOUS
  <2> HIDE DEF priced
  <2>2. priced # {} => n # 0
    BY <1>4, FS_EmptySet
  <2> QED
    BY <1>8, <2>1, <2>2
<1>10. count(top) = all
  BY <1>6, <1>7
<1> HIDE DEF all, count, prices
<1>11. all >= place
  BY <1>9
<1> HIDE DEF place
<1>12. top \in enough
  BY <1>5, <1>10, <1>11
<1>13. enough \in SUBSET Nat
  BY <1>4
<1> HIDE DEF enough
<1> QED
  BY <1>12, <1>13, LeastOfNumbers

(* Mood and valuation bring 14 half points at the most.                     *)
LEMMA StrongBuysNearSupport == SeriesTypeOK => StrongBuyNearSupport
<1> SUFFICES ASSUME SeriesTypeOK, NEW i \in Indices, NEW r \in Inputs, Score(i, r) >= 15
             PROVE  /\ series[i].priced
                    /\ 20 * (series[i].price - SupportPrice(r.before)) <= series[i].price
  BY DEF StrongBuyNearSupport
<1> DEFINE p == series[i].price
           s == SupportPrice(r.before)
<1>0. r.before \in HourPrices \cup {0} /\ r.pe \in {"below", "equal", "above", "unknown"}
  BY DEF Inputs
<1>1. p \in Nat /\ s \in Nat /\ series[i].priced \in BOOLEAN
  BY <1>0, SeriesProperties, SupportIsPrice
<1>2. CrossoverPoints(i) \in {0, 3, 6}
  BY Zenon DEF CrossoverPoints
<1>3. DivergencePoints(i) \in {0, 4}
  BY Zenon DEF DivergencePoints
<1>4. ValuationPoints(r.pe) \in {0, 2, 4}
  BY <1>0 DEF ValuationPoints
<1> DEFINE points == SupportPoints(i, r.before)
<1>5. points = IF ~ series[i].priced \/ p = 0 \/ s = 0 THEN 0
               ELSE IF 40 * (p - s) <= p THEN 6
               ELSE IF 20 * (p - s) <= p THEN 3 ELSE 0
  BY DEF SupportPoints
<1>6. Score(i, r) = points + CrossoverPoints(i) + DivergencePoints(i) + ValuationPoints(r.pe)
  BY DEF Score
<1> HIDE DEF points, p, s
<1>7. points # 0
  BY <1>2, <1>3, <1>4, <1>5, <1>6
<1>8. series[i].priced /\ (40 * (p - s) <= p \/ 20 * (p - s) <= p)
  BY <1>1, <1>5, <1>7
<1>9. 20 * (p - s) <= p
  BY <1>1, <1>8
<1> QED
  BY <1>8, <1>9 DEF p, s

-----------------------------------------------------------------------------
(* The verdict on an hour: the hours after it are looked at from the oldest *)
(* on, and what is over stands, whatever the hour in progress and the hours *)
(* to come will bring.                                                      *)
LEMMA NumberOfTwo ==
  ASSUME NEW S, IsFiniteSet(S), NEW T \in SUBSET S, Cardinality(T) = 2
  PROVE  ~ (Cardinality(S) < 2)
<1>1. Cardinality(T) <= Cardinality(S)
  BY FS_Subset
<1>2. Cardinality(S) \in Nat
  BY FS_CardinalityType
<1> QED
  BY <1>1, <1>2

LEMMA HoursThatAreOverStand ==
  ASSUME SeriesTypeOK, SeriesTypeOK', SeriesNext
  PROVE  /\ Len(series) <= Len(series)'
         /\ \A k \in 1 .. Len(series) - 1 :
              /\ series'[k].priced = series[k].priced
              /\ series'[k].price = series[k].price
<1> DEFINE n == Len(series)
<1>1. n \in Nat /\ series \in Seq(HourBucket)
  BY DEF SeriesTypeOK
<1>2. CASE NextHour
  <2>1. PICK b \in HourBucket : series' = Append(series, b)
    BY <1>2 DEF NextHour
  <2>2. Len(series') = n + 1 /\ \A k \in 1 .. n : series'[k] = series[k]
    BY <1>1, <2>1
  <2> QED
    BY <1>1, <2>2
<1>3. CASE HourChanges
  <2>1. PICK i \in DOMAIN series, b \in HourBucket :
          Keeps(i, b) /\ series' = [series EXCEPT ![i] = b]
    BY <1>3 DEF HourChanges
  <2>2. Len(series') = n /\ \A k \in 1 .. n : series'[k] = IF k = i THEN b ELSE series[k]
    BY <1>1, <2>1
  <2> QED
    BY <1>1, <2>1, <2>2 DEF Keeps
<1> QED
  BY <1>2, <1>3 DEF SeriesNext

LEMMA LesserOfTwo ==
  ASSUME NEW a \in Int, NEW c \in Int
  PROVE  Min({a, c}) = IF a <= c THEN a ELSE c
<1>1. \E x \in {a, c} : \A y \in {a, c} : x <= y
  BY SMT
<1>2. Min({a, c}) \in {a, c} /\ \A y \in {a, c} : Min({a, c}) <= y
  BY <1>1 DEF Min
<1> QED
  BY <1>2

(* Of the hours looked at, those that are over; two of them are all.        *)
LEMMA ForwardGrows ==
  ASSUME SeriesTypeOK, SeriesTypeOK', SeriesNext, NEW i \in Indices, i < Len(series)
  PROVE  LET over == Forward(i) \ {Len(series)}
         IN  /\ over \in SUBSET (Forward(i)' \ {Len(series)'})
             /\ \A k \in over \cup {i} : /\ series'[k].priced = series[k].priced
                                         /\ series'[k].price = series[k].price
             /\ Cardinality(over) = 2 => Forward(i) = over /\ Forward(i)' = over
<1> DEFINE n == Len(series)
           n1 == Len(series)'
           before(k) == { j \in i + 1 .. k - 1 : series[j].priced }
           before1(k) == { j \in i + 1 .. k - 1 : series'[j].priced }
           last == Min({n, i + ForwardHours})
           last1 == Min({n1, i + ForwardHours})
           over == Forward(i) \ {n}
<1>1. /\ n \in Nat /\ n1 \in Nat /\ i \in Nat /\ i >= 1 /\ i < n /\ n <= n1
      /\ ForwardHours \in Nat
  BY SeriesProperties, SeriesAssumption, HoursThatAreOverStand DEF SeriesTypeOK
<1>2. \A k \in 1 .. n - 1 : /\ series'[k].priced = series[k].priced
                            /\ series'[k].price = series[k].price
  BY HoursThatAreOverStand
<1>3. /\ last = IF n <= i + ForwardHours THEN n ELSE i + ForwardHours
      /\ last1 = IF n1 <= i + ForwardHours THEN n1 ELSE i + ForwardHours
  BY <1>1, LesserOfTwo
<1>4. \A k : k \in Forward(i) <=> /\ k \in i + 1 .. last /\ series[k].priced
                                  /\ Cardinality(before(k)) < 2
  BY DEF Forward
<1>5. \A k : k \in Forward(i)' <=> /\ k \in i + 1 .. last1 /\ series'[k].priced
                                   /\ Cardinality(before1(k)) < 2
  BY DEF Forward
<1> HIDE DEF last, last1, n, n1
<1>6. last \in Int /\ last1 \in Int /\ last <= last1 /\ last <= n /\ last1 <= n1
      /\ \A k \in i + 1 .. last1 : k < n => k \in i + 1 .. last
  BY <1>1, <1>3
<1>13. \A k \in i + 1 .. last : /\ k \in Int /\ k \in i + 1 .. last1 /\ k \in i + 1 .. n
                                /\ k # n => k \in 1 .. n - 1 /\ k # n1
  BY <1>1, <1>6
<1>14. \A k \in i + 1 .. last1 : /\ k \in Int
                                 /\ k < n => k \in i + 1 .. n /\ k \in 1 .. n - 1
  BY <1>1, <1>6
<1>7. \A k \in i + 1 .. n : before1(k) = before(k)
  <2> SUFFICES ASSUME NEW k \in i + 1 .. n PROVE before1(k) = before(k)
    OBVIOUS
  <2>1. \A j \in i + 1 .. k - 1 : j \in 1 .. n - 1
    BY <1>1
  <2> QED
    BY <1>2, <2>1
<1>8. \A k \in Int : IsFiniteSet(before(k)) /\ IsFiniteSet(before1(k))
  <2> SUFFICES ASSUME NEW k \in Int PROVE IsFiniteSet(before(k)) /\ IsFiniteSet(before1(k))
    OBVIOUS
  <2>1. IsFiniteSet(i + 1 .. k - 1)
    BY <1>1, FS_Interval
  <2> QED
    BY <2>1, FS_Subset
<1>9. \A k \in over : k \in i + 1 .. last /\ k \in 1 .. n - 1 /\ series[k].priced
                      /\ Cardinality(before(k)) < 2
  <2> SUFFICES ASSUME NEW k \in over
               PROVE  /\ k \in i + 1 .. last /\ k \in 1 .. n - 1 /\ series[k].priced
                      /\ Cardinality(before(k)) < 2
    OBVIOUS
  <2>1. k \in Forward(i) /\ k # n
    OBVIOUS
  <2> HIDE DEF before, over
  <2>2. k \in i + 1 .. last /\ series[k].priced /\ Cardinality(before(k)) < 2
    BY <1>4, <2>1, Zenon
  <2>3. k \in 1 .. n - 1
    BY <1>13, <2>1, <2>2
  <2> QED
    BY <2>2, <2>3
<1>10. over \in SUBSET (Forward(i)' \ {n1})
  <2> SUFFICES ASSUME NEW k \in over PROVE k \in Forward(i)' /\ k # n1
    OBVIOUS
  <2>0. k \in i + 1 .. last /\ k # n
    BY <1>9
  <2> HIDE DEF over, before, before1
  <2>1. k \in i + 1 .. last1 /\ k \in i + 1 .. n /\ k \in 1 .. n - 1 /\ k # n1
    BY <1>13, <2>0
  <2>2. series'[k].priced /\ before1(k) = before(k)
    BY <1>2, <1>7, <1>9, <2>1
  <2> QED
    BY <1>5, <1>9, <2>1, <2>2
<1>11. ASSUME Cardinality(over) = 2
       PROVE  Forward(i) = over /\ Forward(i)' = over
  <2>1. n \notin Forward(i)
    <3> SUFFICES ASSUME n \in Forward(i) PROVE FALSE
      OBVIOUS
    <3>1. \A j \in i + 1 .. last : j # n => j \in i + 1 .. n - 1
      BY <1>1, <1>6
    <3>2. over \in SUBSET before(n)
      BY <1>9, <3>1
    <3> HIDE DEF before, over
    <3>3. IsFiniteSet(before(n)) /\ Cardinality(before(n)) < 2
      <4>1. Cardinality(before(n)) < 2
        BY <1>4, Zenon
      <4>2. n \in Int
        BY <1>1
      <4> QED
        BY <1>8, <4>1, <4>2
    <3> QED
      BY <1>11, <3>2, <3>3, NumberOfTwo
  <2>2. ASSUME NEW k \in Forward(i)' PROVE k \in over
    <3>1. k \in i + 1 .. last1 /\ series'[k].priced /\ Cardinality(before1(k)) < 2 /\ k \in Int
      <4> HIDE DEF before1
      <4> QED
        BY <1>5, <1>14, <2>2
    <3>2. CASE k < n
      <4>1. k \in i + 1 .. last /\ k \in i + 1 .. n /\ k \in 1 .. n - 1
        BY <1>6, <1>14, <3>1, <3>2
      <4>2. series[k].priced /\ before1(k) = before(k)
        BY <1>2, <1>7, <3>1, <4>1
      <4> HIDE DEF before, before1
      <4> QED
        BY <1>1, <1>4, <3>1, <3>2, <4>1, <4>2
    <3>3. CASE ~ (k < n)
      <4>1. \A j \in over : j \in before1(k)
        <5> SUFFICES ASSUME NEW j \in over PROVE j \in before1(k)
          OBVIOUS
        <5>1. series'[j].priced /\ j \in i + 1 .. last /\ j \in 1 .. n - 1
          BY <1>2, <1>9
        <5> QED
          BY <1>1, <1>6, <3>1, <3>3, <5>1
      <4> HIDE DEF before1, over
      <4> QED
        BY <1>8, <1>11, <3>1, <4>1, NumberOfTwo
    <3> QED
      BY <3>2, <3>3
  <2>3. over \in SUBSET Forward(i)'
    BY <1>10
  <2> QED
    BY <2>1, <2>2, <2>3
<1>12. \A k \in over \cup {i} : k \in 1 .. n - 1
  <2>1. i \in 1 .. n - 1
    BY <1>1
  <2> HIDE DEF over, before
  <2> QED
    BY <1>9, <2>1
<1> QED
  BY <1>2, <1>10, <1>11, <1>12 DEF n, n1

LEMMA VerdictStands ==
  ASSUME SeriesTypeOK, SeriesTypeOK', SeriesNext, NEW i \in Indices, Settled(i)
  PROVE  Settled(i)' /\ Verdict(i)' = Verdict(i)
<1> DEFINE F == Forward(i)
           G == Forward(i)'
           n == Len(series)
           n1 == Len(series)'
           over == F \ {n}
           over1 == G \ {n1}
           B(k) == 1000 * series[k].price > 1002 * series[i].price
           C(k) == 1000 * series'[k].price > 1002 * series'[i].price
<1>1. i < n /\ (Cardinality(over) = 2 \/ \E k \in over : B(k))
  BY DEF Settled, Better
<1>2. over \in SUBSET over1 /\ (Cardinality(over) = 2 => F = over /\ G = over)
  BY <1>1, ForwardGrows, Zenon
<1>3. \A k \in over \cup {i} : series'[k].priced = series[k].priced
                               /\ series'[k].price = series[k].price
  BY <1>1, ForwardGrows
<1>4. Verdict(i) = IF ~ series[i].priced \/ F = {} THEN "pending"
                   ELSE IF \E k \in F : B(k) THEN "good" ELSE "bad"
  BY DEF Verdict, Better
<1>5. Verdict(i)' = IF ~ series'[i].priced \/ G = {} THEN "pending"
                    ELSE IF \E k \in G : C(k) THEN "good" ELSE "bad"
  BY DEF Verdict, Better
<1>6. Settled(i)' <=> i < n1 /\ (Cardinality(over1) = 2 \/ \E k \in over1 : C(k))
  BY DEF Settled, Better
<1>7. i < n1
  BY <1>1, SeriesProperties, HoursThatAreOverStand DEF SeriesTypeOK
<1>8. \A k \in over : C(k) <=> B(k)
  BY <1>3
<1>9. (series'[i].priced <=> series[i].priced) /\ over \in SUBSET F /\ over1 \in SUBSET G
  BY <1>3
<1>10. CASE Cardinality(over) = 2
  <2>1. F = over /\ G = over /\ over1 = over
    BY <1>2, <1>10
  <2> HIDE DEF F, G, over, over1, B, C, n1
  <2> QED
    BY <1>4, <1>5, <1>6, <1>7, <1>8, <1>9, <1>10, <2>1
<1>11. CASE \E k \in over : B(k)
  <2>1. PICK k \in over : B(k)
    BY <1>11
  <2> HIDE DEF F, G, over, over1, B, C, n1
  <2>2. k \in over1 /\ k \in F /\ k \in G /\ C(k)
    BY <1>2, <1>8, <1>9, <2>1
  <2> QED
    BY <1>4, <1>5, <1>6, <1>7, <1>9, <2>1, <2>2
<1> QED
  BY <1>1, <1>10, <1>11

-----------------------------------------------------------------------------
(* Closed regions.  A run of closed hours with an open one, or the start of *)
(* the series, before it.                                                   *)
Run(a, b) ==
  /\ a \in Nat \ {0} /\ b \in Nat /\ a <= b /\ \A i \in a .. b : ~ series[i].open
  /\ a = 1 \/ series[a - 1].open

Scans == [start : Nat, regions : Seq(Nat \X Nat)]

(* The scan after i hours: the run it is in, and the runs that have ended.  *)
ScanSound(start, regions, i) ==
  /\ start = 0 => i = 0 \/ series[i].open
  /\ start # 0 => Run(start, i)
  /\ \A k \in 1 .. Len(regions) :
       /\ Run(regions[k][1], regions[k][2]) /\ regions[k][2] < i
       /\ series[regions[k][2] + 1].open
       /\ start # 0 => regions[k][2] < start
  /\ \A a, b \in Nat : Run(a, b) /\ b < i /\ series[b + 1].open =>
       \E k \in 1 .. Len(regions) : regions[k] = << a, b >>
  /\ \A j, k \in 1 .. Len(regions) : j < k => regions[j][2] < regions[k][1]

LEMMA ScanTyped ==
  ASSUME NEW scan \in Scans, NEW i \in Nat \ {0}
  PROVE  ScanHour(scan, i) \in Scans
<1>1. scan.start \in Nat /\ scan.regions \in Seq(Nat \X Nat) /\ i - 1 \in Nat
  BY DEF Scans
<1>2. /\ [start |-> i, regions |-> scan.regions] \in Scans
      /\ scan.start # 0 =>
           [start |-> 0, regions |-> Append(scan.regions, << scan.start, i - 1 >>)] \in Scans
  <2>1. << scan.start, i - 1 >> \in Nat \X Nat
    BY <1>1
  <2>2. Append(scan.regions, << scan.start, i - 1 >>) \in Seq(Nat \X Nat)
    BY <1>1, <2>1
  <2> QED
    BY <1>1, <2>2 DEF Scans
<1> QED
  BY <1>2 DEF ScanHour

LEMMA ScanKeeps ==
  ASSUME NEW i \in Nat \ {0}, NEW scan \in Scans,
         ScanSound(scan.start, scan.regions, i - 1)
  PROVE  ScanSound(ScanHour(scan, i).start, ScanHour(scan, i).regions, i)
<1> DEFINE s == scan.start
           rs == scan.regions
           new == ScanHour(scan, i)
<1>1. s \in Nat /\ rs \in Seq(Nat \X Nat) /\ Len(rs) \in Nat
  BY DEF Scans
<1>2. /\ s = 0 => i - 1 = 0 \/ series[i - 1].open
      /\ s # 0 => Run(s, i - 1)
      /\ \A k \in 1 .. Len(rs) :
           /\ Run(rs[k][1], rs[k][2]) /\ rs[k][2] < i - 1 /\ series[rs[k][2] + 1].open
           /\ s # 0 => rs[k][2] < s
      /\ \A a, b \in Nat : Run(a, b) /\ b < i - 1 /\ series[b + 1].open =>
           \E k \in 1 .. Len(rs) : rs[k] = << a, b >>
      /\ \A j, k \in 1 .. Len(rs) : j < k => rs[j][2] < rs[k][1]
  BY DEF ScanSound
<1>3. \A k \in 1 .. Len(rs) : rs[k] \in Nat \X Nat /\ rs[k][1] \in Nat /\ rs[k][2] \in Nat
  BY <1>1
<1> HIDE DEF s, rs, new
<1>4. CASE ~ series[i].open
  <2>1. new = [start |-> IF s = 0 THEN i ELSE s, regions |-> rs]
    <3>1. CASE s = 0
      BY <1>4, <3>1 DEF ScanHour, new, s, rs
    <3>2. CASE s # 0
      <4>1. new = scan
        BY <1>4, <3>2 DEF ScanHour, new, s
      <4>2. scan = [start |-> s, regions |-> rs]
        BY DEF Scans, s, rs
      <4> QED
        BY <3>2, <4>1, <4>2
    <3> QED
      BY <3>1, <3>2
  <2> DEFINE t == IF s = 0 THEN i ELSE s
  <2>2. new.start = t /\ new.regions = rs /\ t # 0
    BY <1>1, <2>1
  <2>3. Run(t, i)
    <3>1. CASE s = 0
      <4>1. \A j \in i .. i : j = i
        OBVIOUS
      <4> QED
        BY <1>2, <1>4, <3>1, <4>1 DEF Run
    <3>2. CASE s # 0
      <4>1. Run(s, i - 1)
        BY <1>2, <3>2
      <4>2. /\ s \in Nat \ {0} /\ s <= i - 1 /\ \A j \in s .. i - 1 : ~ series[j].open
            /\ s = 1 \/ series[s - 1].open
        BY <4>1 DEF Run
      <4>3. \A j \in s .. i : ~ series[j].open
        <5>1. \A j \in s .. i : j = i \/ j \in s .. i - 1
          BY <4>2
        <5> QED
          BY <1>4, <4>2, <5>1
      <4>4. i \in Nat /\ s <= i
        BY <4>2
      <4>5. Run(s, i)
        BY <4>2, <4>3, <4>4 DEF Run
      <4> QED
        BY <3>2, <4>5
    <3> QED
      BY <3>1, <3>2
  <2>4. \A k \in 1 .. Len(rs) : rs[k][2] < i /\ rs[k][2] < t
    BY <1>2, <1>3
  <2>5. \A a, b \in Nat : Run(a, b) /\ b < i /\ series[b + 1].open =>
          \E k \in 1 .. Len(rs) : rs[k] = << a, b >>
    <3> SUFFICES ASSUME NEW a \in Nat, NEW b \in Nat, Run(a, b), b < i, series[b + 1].open
                 PROVE  \E k \in 1 .. Len(rs) : rs[k] = << a, b >>
      OBVIOUS
    <3>1. b + 1 # i
      BY <1>4
    <3>2. b < i - 1
      BY <3>1
    <3> QED
      BY <1>2, <3>2
  <2> HIDE DEF t
  <2> QED
    BY <1>2, <2>2, <2>3, <2>4, <2>5 DEF ScanSound, new
<1>5. CASE series[i].open /\ s = 0
  <2>1. new = scan
    BY <1>5 DEF ScanHour, new, s
  <2>2. \A k \in 1 .. Len(rs) : rs[k][2] < i
    BY <1>2, <1>3
  <2>3. \A a, b \in Nat : Run(a, b) /\ b < i /\ series[b + 1].open =>
          \E k \in 1 .. Len(rs) : rs[k] = << a, b >>
    <3> SUFFICES ASSUME NEW a \in Nat, NEW b \in Nat, Run(a, b), b < i, series[b + 1].open
                 PROVE  \E k \in 1 .. Len(rs) : rs[k] = << a, b >>
      OBVIOUS
    <3>1. a >= 1 /\ a <= b /\ b \in a .. b /\ ~ series[b].open
      BY DEF Run
    <3>2. b # i - 1
      <4> SUFFICES ASSUME b = i - 1 PROVE FALSE
        OBVIOUS
      <4>1. i - 1 # 0 /\ ~ series[i - 1].open
        BY <3>1
      <4> QED
        BY <1>2, <1>5, <4>1
    <3>3. b < i - 1
      BY <3>2
    <3> QED
      BY <1>2, <3>3
  <2>4. new.start = s /\ new.regions = rs
    BY <2>1 DEF s, rs
  <2>5. ScanSound(s, rs, i)
    BY <1>2, <1>5, <2>2, <2>3 DEF ScanSound
  <2> QED
    BY <2>4, <2>5 DEF new
<1>6. CASE series[i].open /\ s # 0
  <2> DEFINE e == << s, i - 1 >>
             qs == Append(rs, e)
             m == Len(rs)
  <2>1. new.start = 0 /\ new.regions = qs
    BY <1>6 DEF ScanHour, new, s, rs
  <2>2. e \in Nat \X Nat /\ i - 1 \in Nat
    BY <1>1
  <2>3. /\ m \in Nat /\ Len(qs) = m + 1 /\ qs[m + 1] = e
        /\ \A k \in 1 .. m : qs[k] = rs[k]
    BY <1>1, <2>2
  <2>4. e[1] = s /\ e[2] = i - 1
    OBVIOUS
  <2> HIDE DEF qs, m, e
  <2>5. \A k \in 1 .. m + 1 : k \in 1 .. m \/ k = m + 1
    BY <2>3
  <2>6. Run(s, i - 1)
    BY <1>2, <1>6
  <2>7. \A k \in 1 .. m : Run(rs[k][1], rs[k][2]) /\ rs[k][2] < i /\ series[rs[k][2] + 1].open
    BY <1>2, <1>3 DEF m
  <2>8. \A k \in 1 .. Len(qs) :
          Run(qs[k][1], qs[k][2]) /\ qs[k][2] < i /\ series[qs[k][2] + 1].open
    <3> SUFFICES ASSUME NEW k \in 1 .. m + 1
                 PROVE  Run(qs[k][1], qs[k][2]) /\ qs[k][2] < i /\ series[qs[k][2] + 1].open
      BY <2>3
    <3>1. CASE k \in 1 .. m
      BY <2>3, <2>7, <3>1
    <3>2. CASE k = m + 1
      <4>1. qs[k][1] = s /\ qs[k][2] = i - 1 /\ i - 1 < i /\ (i - 1) + 1 = i
        BY <2>3, <2>4, <3>2
      <4> QED
        BY <1>6, <2>6, <4>1
    <3> QED
      BY <2>5, <3>1, <3>2
  <2>9. \A a, b \in Nat : Run(a, b) /\ b < i /\ series[b + 1].open =>
          \E k \in 1 .. Len(qs) : qs[k] = << a, b >>
    <3> SUFFICES ASSUME NEW a \in Nat, NEW b \in Nat, Run(a, b), b < i, series[b + 1].open
                 PROVE  \E k \in 1 .. Len(qs) : qs[k] = << a, b >>
      OBVIOUS
    <3>1. CASE b < i - 1
      <4>1. PICK k \in 1 .. m : rs[k] = << a, b >>
        BY <1>2, <3>1 DEF m
      <4>2. k \in 1 .. Len(qs) /\ qs[k] = << a, b >>
        BY <2>3, <4>1
      <4> QED
        BY <4>2
    <3>2. CASE b = i - 1
      <4>1. /\ a >= 1 /\ a <= b /\ (a = 1 \/ series[a - 1].open)
            /\ \A j \in a .. b : ~ series[j].open
        BY DEF Run
      <4>2. /\ s >= 1 /\ s <= b /\ (s = 1 \/ series[s - 1].open)
            /\ \A j \in s .. b : ~ series[j].open
        BY <1>1, <2>6, <3>2 DEF Run
      <4>3. ~ (a < s)
        <5> SUFFICES ASSUME a < s PROVE FALSE
          OBVIOUS
        <5>1. s - 1 \in a .. b /\ s # 1
          BY <1>1, <4>1, <4>2
        <5> QED
          BY <4>1, <4>2, <5>1
      <4>4. ~ (s < a)
        <5> SUFFICES ASSUME s < a PROVE FALSE
          OBVIOUS
        <5>1. a - 1 \in s .. b /\ a # 1
          BY <1>1, <4>1, <4>2
        <5> QED
          BY <4>1, <4>2, <5>1
      <4>5. a = s
        BY <1>1, <4>3, <4>4
      <4>6. m + 1 \in 1 .. Len(qs) /\ qs[m + 1] = << a, b >>
        BY <2>3, <3>2, <4>5 DEF e
      <4> QED
        BY <4>6
    <3> QED
      BY <3>1, <3>2
  <2>10. \A j, k \in 1 .. Len(qs) : j < k => qs[j][2] < qs[k][1]
    <3> SUFFICES ASSUME NEW j \in 1 .. m + 1, NEW k \in 1 .. m + 1, j < k
                 PROVE  qs[j][2] < qs[k][1]
      BY <2>3
    <3>1. j \in 1 .. m /\ qs[j] = rs[j]
      BY <2>3
    <3>2. CASE k \in 1 .. m
      BY <1>2, <2>3, <3>1, <3>2 DEF m
    <3>3. CASE k = m + 1
      <4>1. rs[j][2] < s
        BY <1>2, <1>6, <3>1 DEF m
      <4> QED
        BY <2>3, <2>4, <3>1, <3>3, <4>1
    <3> QED
      BY <2>5, <3>2, <3>3
  <2> QED
    <3>1. ScanSound(0, qs, i)
      BY <1>6, <2>8, <2>9, <2>10 DEF ScanSound
    <3> QED
      BY <2>1, <3>1 DEF new
<1> QED
  BY <1>4, <1>5, <1>6 DEF new

LEMMA ScannedSound ==
  ASSUME SeriesTypeOK
  PROVE  Scanned \in Scans /\ ScanSound(Scanned.start, Scanned.regions, Len(series))
<1> DEFINE N == Len(series)
           base == [start |-> 0, regions |-> << >>]
           step == [ x \in Scans \X (1 .. N) |-> ScanHour(x[1], x[2]) ]
           Is(g) == g = [ i \in 0 .. N |-> IF i = 0 THEN base ELSE ScanHour(g[i - 1], i) ]
           upto == CHOOSE g : Is(g)
<1>1. N \in Nat
  BY SeriesProperties
<1>2. base \in Scans /\ base.start = 0 /\ base.regions = << >>
  BY DEF Scans
<1>3. \A x \in Scans, i \in 1 .. N : ScanHour(x, i) \in Scans
  BY ScanTyped
<1>4. step \in [Scans \X (1 .. N) -> Scans]
  BY <1>3
<1>5. \A x \in Scans, i \in 1 .. N : step[<< x, i >>] = ScanHour(x, i)
  OBVIOUS
<1> HIDE DEF N, base, step
<1>6. PICK g \in [0 .. N -> Scans] :
        g[0] = base /\ \A i \in 1 .. N : g[i] = step[<< g[i - 1], i >>]
  <2>1. Runs(Scans, N, base, step) # {}
    BY <1>1, <1>2, <1>4, FoldExists
  <2> QED
    BY <2>1 DEF Runs
<1>7. \A i \in 1 .. N : g[i] = ScanHour(g[i - 1], i)
  <2>1. \A i \in 1 .. N : i - 1 \in 0 .. N /\ g[i - 1] \in Scans
    BY <1>1, <1>6
  <2> QED
    BY <1>5, <1>6, <2>1
<1>8. \A i \in 0 .. N : g[i] = IF i = 0 THEN base ELSE ScanHour(g[i - 1], i)
  <2>1. \A i \in 0 .. N : i = 0 \/ i \in 1 .. N
    BY <1>1
  <2> QED
    BY <1>6, <1>7, <2>1
<1>9. Is(g)
  BY <1>6, <1>8
<1>10. Is(upto)
  BY <1>9
<1>11. Scanned = upto[N]
  BY DEF Scanned, N, base
<1> HIDE DEF upto
<1>12. upto[0] = base /\ \A i \in 1 .. N : upto[i] = ScanHour(upto[i - 1], i)
  BY <1>1, <1>10
<1> DEFINE h == [i \in 0 .. N |-> << i, upto[i] >>]
           Good == { x \in Nat \X Scans : ScanSound(x[2].start, x[2].regions, x[1]) }
<1>13. h[0] \in Good
  <2>1. h[0] = << 0, base >>
    BY <1>1, <1>12
  <2>2. ScanSound(base.start, base.regions, 0)
    BY <1>2 DEF ScanSound, Run
  <2> QED
    BY <1>2, <2>1, <2>2
<1>14. \A n \in 1 .. N : h[n - 1] \in Good => h[n] \in Good
  <2> SUFFICES ASSUME NEW n \in 1 .. N, h[n - 1] \in Good PROVE h[n] \in Good
    OBVIOUS
  <2>1. n - 1 \in 0 .. N /\ n \in 0 .. N /\ n \in Nat \ {0}
    BY <1>1
  <2>2. h[n - 1] = << n - 1, upto[n - 1] >> /\ h[n] = << n, upto[n] >>
    BY <2>1
  <2>3. upto[n - 1] \in Scans /\ ScanSound(upto[n - 1].start, upto[n - 1].regions, n - 1)
    BY <2>2
  <2>4. upto[n] \in Scans /\ ScanSound(upto[n].start, upto[n].regions, n)
    BY <1>12, <2>1, <2>3, ScanKeeps, ScanTyped
  <2> QED
    BY <2>1, <2>2, <2>4
<1> HIDE DEF Good
<1>15. h[N] \in Good
  <2> HIDE DEF h
  <2> QED
    BY <1>1, <1>13, <1>14, FoldInvariant
<1>16. h[N] = << N, upto[N] >>
  BY <1>1
<1> QED
  BY <1>11, <1>15, <1>16 DEF Good, N

(* All regions, with the one the series ends in last.                       *)
LEMMA AllRegionsProperties ==
  ASSUME SeriesTypeOK
  PROVE  LET all == AllRegions
             n == Len(series)
         IN  /\ all \in Seq(Nat \X Nat)
             /\ \A k \in 1 .. Len(all) :
                  /\ Run(all[k][1], all[k][2]) /\ all[k][2] <= n
                  /\ all[k][2] = n \/ series[all[k][2] + 1].open
                  /\ all[k][2] = n => k = Len(all)
             /\ \A a, b \in Nat : Run(a, b) /\ b <= n /\ (b = n \/ series[b + 1].open) =>
                  \E k \in 1 .. Len(all) : all[k] = << a, b >>
             /\ \A j, k \in 1 .. Len(all) : j < k => all[j][2] < all[k][1]
<1> DEFINE n == Len(series)
           s == Scanned.start
           rs == Scanned.regions
           e == << s, n >>
           all == AllRegions
           m == Len(rs)
<1>1. /\ n \in Nat /\ s \in Nat /\ rs \in Seq(Nat \X Nat) /\ m \in Nat
  BY ScannedSound, SeriesProperties DEF Scans
<1>2. ScanSound(s, rs, n)
  BY ScannedSound
<1>3. all = IF s = 0 THEN rs ELSE Append(rs, e)
  BY DEF AllRegions
<1> HIDE DEF n, s, rs, all, m
<1>4. /\ s = 0 => n = 0 \/ series[n].open
      /\ s # 0 => Run(s, n)
      /\ \A k \in 1 .. m :
           /\ Run(rs[k][1], rs[k][2]) /\ rs[k][2] < n
           /\ series[rs[k][2] + 1].open
           /\ s # 0 => rs[k][2] < s
      /\ \A a, b \in Nat : Run(a, b) /\ b < n /\ series[b + 1].open =>
           \E k \in 1 .. m : rs[k] = << a, b >>
      /\ \A j, k \in 1 .. m : j < k => rs[j][2] < rs[k][1]
  BY <1>2 DEF ScanSound, m
<1>5. \A k \in 1 .. m : rs[k] \in Nat \X Nat /\ rs[k][2] \in Nat
  BY <1>1 DEF m
<1>6. CASE s = 0
  <2>1. all = rs /\ Len(all) = m
    BY <1>3, <1>6 DEF m
  <2>2. \A a, b \in Nat : Run(a, b) /\ b <= n /\ (b = n \/ series[b + 1].open) =>
          \E k \in 1 .. m : all[k] = << a, b >>
    <3> SUFFICES ASSUME NEW a \in Nat, NEW b \in Nat, Run(a, b), b <= n,
                        b = n \/ series[b + 1].open
                 PROVE  \E k \in 1 .. m : all[k] = << a, b >>
      OBVIOUS
    <3>1. a >= 1 /\ a <= b /\ b \in a .. b /\ ~ series[b].open
      BY DEF Run
    <3>2. b # n
      <4> SUFFICES ASSUME b = n PROVE FALSE
        OBVIOUS
      <4>1. n # 0 /\ ~ series[n].open
        BY <1>1, <3>1
      <4> QED
        BY <1>4, <1>6, <4>1
    <3>3. b < n
      BY <1>1, <3>2
    <3> QED
      BY <1>4, <2>1, <3>2, <3>3
  <2>3. \A k \in 1 .. m : /\ Run(all[k][1], all[k][2]) /\ all[k][2] < n
                          /\ series[all[k][2] + 1].open /\ all[k][2] # n /\ all[k][2] <= n
    BY <1>1, <1>4, <1>5, <2>1
  <2> QED
    BY <1>1, <1>4, <2>1, <2>2, <2>3 DEF all, n
<1>7. CASE s # 0
  <2>1. e \in Nat \X Nat /\ e[1] = s /\ e[2] = n
    BY <1>1
  <2>2. /\ all \in Seq(Nat \X Nat) /\ Len(all) = m + 1 /\ all[m + 1] = e
        /\ \A k \in 1 .. m : all[k] = rs[k]
    BY <1>1, <1>3, <1>7, <2>1 DEF m
  <2> HIDE DEF e
  <2>3. \A k \in 1 .. m + 1 : k \in 1 .. m \/ k = m + 1
    BY <1>1
  <2>4. \A k \in 1 .. m + 1 :
          /\ Run(all[k][1], all[k][2]) /\ all[k][2] <= n
          /\ all[k][2] = n \/ series[all[k][2] + 1].open
          /\ all[k][2] = n => k = m + 1
    <3> SUFFICES ASSUME NEW k \in 1 .. m + 1
                 PROVE  /\ Run(all[k][1], all[k][2]) /\ all[k][2] <= n
                        /\ all[k][2] = n \/ series[all[k][2] + 1].open
                        /\ all[k][2] = n => k = m + 1
      OBVIOUS
    <3>1. CASE k \in 1 .. m
      <4>1. /\ all[k] = rs[k] /\ Run(rs[k][1], rs[k][2]) /\ rs[k][2] < n
            /\ series[rs[k][2] + 1].open /\ rs[k][2] \in Nat
        BY <1>4, <1>5, <2>2, <3>1
      <4>2. rs[k][2] <= n /\ rs[k][2] # n
        BY <1>1, <4>1
      <4> QED
        BY <4>1, <4>2
    <3>2. CASE k = m + 1
      <4>1. all[k][1] = s /\ all[k][2] = n /\ n <= n
        BY <1>1, <2>1, <2>2, <3>2
      <4> QED
        BY <1>4, <1>7, <3>2, <4>1
    <3> QED
      BY <2>3, <3>1, <3>2
  <2>5. \A a, b \in Nat : Run(a, b) /\ b <= n /\ (b = n \/ series[b + 1].open) =>
          \E k \in 1 .. m + 1 : all[k] = << a, b >>
    <3> SUFFICES ASSUME NEW a \in Nat, NEW b \in Nat, Run(a, b), b <= n,
                        b = n \/ series[b + 1].open
                 PROVE  \E k \in 1 .. m + 1 : all[k] = << a, b >>
      OBVIOUS
    <3>1. CASE b # n
      <4>1. b < n
        BY <1>1, <3>1
      <4>2. PICK k \in 1 .. m : rs[k] = << a, b >>
        BY <1>4, <3>1, <4>1
      <4>3. k \in 1 .. m + 1
        BY <1>1, <4>2
      <4>4. all[k] = rs[k]
        BY <2>2
      <4> QED
        BY <4>2, <4>3, <4>4
    <3>2. CASE b = n
      <4>1. /\ a >= 1 /\ a <= b /\ (a = 1 \/ series[a - 1].open)
            /\ \A j \in a .. b : ~ series[j].open
        BY DEF Run
      <4>2. /\ s >= 1 /\ s <= b /\ (s = 1 \/ series[s - 1].open)
            /\ \A j \in s .. b : ~ series[j].open
        <5>1. Run(s, b)
          BY <1>4, <1>7, <3>2
        <5> QED
          BY <5>1 DEF Run
      <4>3. ~ (a < s)
        <5> SUFFICES ASSUME a < s PROVE FALSE
          OBVIOUS
        <5>1. s - 1 \in a .. b /\ s # 1
          BY <1>1, <4>1, <4>2
        <5> QED
          BY <4>1, <4>2, <5>1
      <4>4. ~ (s < a)
        <5> SUFFICES ASSUME s < a PROVE FALSE
          OBVIOUS
        <5>1. a - 1 \in s .. b /\ a # 1
          BY <1>1, <4>1, <4>2
        <5> QED
          BY <4>1, <4>2, <5>1
      <4>5. a = s
        BY <1>1, <4>3, <4>4
      <4>6. m + 1 \in 1 .. m + 1 /\ all[m + 1] = << a, b >>
        BY <1>1, <2>2, <3>2, <4>5 DEF e
      <4> QED
        BY <4>6
    <3> QED
      BY <3>1, <3>2
  <2>6. \A j, k \in 1 .. m + 1 : j < k => all[j][2] < all[k][1]
    <3> SUFFICES ASSUME NEW j \in 1 .. m + 1, NEW k \in 1 .. m + 1, j < k
                 PROVE  all[j][2] < all[k][1]
      OBVIOUS
    <3>1. j \in 1 .. m /\ all[j] = rs[j]
      BY <1>1, <2>2
    <3>2. CASE k \in 1 .. m
      BY <1>4, <2>2, <3>1, <3>2
    <3>3. CASE k = m + 1
      BY <1>4, <1>7, <2>1, <2>2, <3>1, <3>3
    <3> QED
      BY <2>3, <3>2, <3>3
  <2> QED
    BY <2>2, <2>4, <2>5, <2>6 DEF all, n
<1> QED
  BY <1>6, <1>7

(* The last one is dropped while the session it would reach into is open.   *)
LEMMA PastRegionsProperties ==
  ASSUME SeriesTypeOK, NEW live \in BOOLEAN
  PROVE  LET past == PastRegions(live)
             n == Len(series)
         IN  /\ past \in Seq(Nat \X Nat)
             /\ \A k \in 1 .. Len(past) :
                  /\ Run(past[k][1], past[k][2]) /\ past[k][2] <= n
                  /\ past[k][2] = n \/ series[past[k][2] + 1].open
                  /\ ~ (live /\ past[k][2] = n)
             /\ \A a, b \in Nat :
                  Run(a, b) /\ b <= n /\ (b = n \/ series[b + 1].open) /\ ~ (live /\ b = n) =>
                    \E k \in 1 .. Len(past) : past[k] = << a, b >>
             /\ \A j, k \in 1 .. Len(past) : j < k => past[j][2] < past[k][1]
<1> DEFINE n == Len(series)
           all == AllRegions
           m == Len(all)
           past == PastRegions(live)
           drop == live /\ m > 0 /\ all[m][2] = n
<1>1. /\ all \in Seq(Nat \X Nat) /\ m \in Nat
      /\ \A k \in 1 .. m :
           /\ Run(all[k][1], all[k][2]) /\ all[k][2] <= n
           /\ all[k][2] = n \/ series[all[k][2] + 1].open
           /\ all[k][2] = n => k = m
      /\ \A a, b \in Nat : Run(a, b) /\ b <= n /\ (b = n \/ series[b + 1].open) =>
           \E k \in 1 .. m : all[k] = << a, b >>
      /\ \A j, k \in 1 .. m : j < k => all[j][2] < all[k][1]
  <2>1. all \in Seq(Nat \X Nat)
    BY AllRegionsProperties
  <2>2. m \in Nat
    <3> HIDE DEF all
    <3> QED
      BY <2>1
  <2> QED
    BY <2>1, <2>2, AllRegionsProperties, Zenon
<1>2. past = IF drop THEN SubSeq(all, 1, m - 1) ELSE all
  BY DEF PastRegions
<1> HIDE DEF n, all, past, m
<1>3. CASE ~ drop
  <2>1. past = all /\ Len(past) = m
    BY <1>2, <1>3 DEF m
  <2>2. \A k \in 1 .. m : ~ (live /\ all[k][2] = n)
    BY <1>1, <1>3
  <2>3. \A a, b \in Nat :
          Run(a, b) /\ b <= n /\ (b = n \/ series[b + 1].open) =>
            \E k \in 1 .. m : past[k] = << a, b >>
    BY <1>1, <2>1
  <2>4. \A k \in 1 .. m : Run(past[k][1], past[k][2]) /\ past[k][2] <= n
                          /\ (past[k][2] = n \/ series[past[k][2] + 1].open)
    BY <1>1, <2>1
  <2>5. \A j, k \in 1 .. m : j < k => past[j][2] < past[k][1]
    BY <1>1, <2>1
  <2> QED
    BY <1>1, <2>1, <2>2, <2>3, <2>4, <2>5 DEF past, n
<1>4. CASE drop
  <2>1. live /\ m - 1 \in Nat /\ all[m][2] = n /\ \A k \in 1 .. m - 1 : k \in 1 .. m /\ k # m
    BY <1>1, <1>4
  <2>2. past = SubSeq(all, 1, m - 1)
    BY <1>2, <1>4
  <2>3. past \in Seq(Nat \X Nat) /\ Len(past) = m - 1 /\ \A k \in 1 .. m - 1 : past[k] = all[k]
    <3>1. \A k \in 1 .. m - 1 : all[k] \in Nat \X Nat
      BY <1>1, <2>1 DEF m
    <3>2. /\ past \in Seq(Nat \X Nat)
          /\ Len(past) = IF 1 <= m - 1 THEN (m - 1) - 1 + 1 ELSE 0
          /\ \A k \in 1 .. (m - 1) - 1 + 1 : past[k] = all[1 + k - 1]
      BY <2>1, <2>2, <3>1, SubSeqProperties
    <3>3. \A k \in 1 .. m - 1 : k \in 1 .. (m - 1) - 1 + 1 /\ 1 + k - 1 = k
      BY <2>1
    <3>4. Len(past) = m - 1
      BY <2>1, <3>2
    <3> QED
      BY <3>2, <3>3, <3>4
  <2>4. \A k \in 1 .. m - 1 : /\ Run(past[k][1], past[k][2]) /\ past[k][2] <= n
                              /\ past[k][2] # n /\ series[past[k][2] + 1].open
    BY <1>1, <2>1, <2>3
  <2>5. \A a, b \in Nat :
          Run(a, b) /\ b <= n /\ (b = n \/ series[b + 1].open) /\ ~ (live /\ b = n) =>
            \E k \in 1 .. m - 1 : past[k] = << a, b >>
    <3> SUFFICES ASSUME NEW a \in Nat, NEW b \in Nat, Run(a, b), b <= n, b # n,
                        series[b + 1].open
                 PROVE  \E k \in 1 .. m - 1 : past[k] = << a, b >>
      BY <2>1
    <3>1. PICK k \in 1 .. m : all[k] = << a, b >>
      BY <1>1
    <3>2. k # m
      BY <2>1, <3>1
    <3>3. k \in 1 .. m - 1
      BY <1>1, <3>2
    <3> QED
      BY <2>3, <3>1, <3>3
  <2>6. \A j, k \in 1 .. m - 1 : j < k => past[j][2] < past[k][1]
    BY <1>1, <2>1, <2>3
  <2> QED
    BY <2>3, <2>4, <2>5, <2>6 DEF past, n
<1> QED
  BY <1>3, <1>4

LEMMA RegionsAreMaximal == SeriesTypeOK => ClosedRegionsMaximal
<1> SUFFICES ASSUME SeriesTypeOK PROVE ClosedRegionsMaximal
  OBVIOUS
<1> DEFINE n == Len(series)
           Maximal(live) ==
             { r \in Indices \X Indices :
                 /\ r[2] - r[1] >= MinClosedHours /\ (\A i \in r[1] .. r[2] : ~ series[i].open)
                 /\ r[1] = 1 \/ series[r[1] - 1].open
                 /\ r[2] = n \/ series[r[2] + 1].open
                 /\ ~ (live /\ r[2] = n) }
           Shown(live) == ClosedRegions(live)
<1>1. n \in Nat /\ Indices = 1 .. n /\ MinClosedHours \in Nat
  BY SeriesProperties, SeriesAssumption
<1>2. ASSUME NEW live \in BOOLEAN
      PROVE  /\ ToSet(Shown(live)) = Maximal(live)
             /\ \A k \in 1 .. Len(Shown(live)) - 1 : Shown(live)[k][2] < Shown(live)[k + 1][1]
  <2> DEFINE past == PastRegions(live)
             long == { k \in DOMAIN past : past[k][2] - past[k][1] >= MinClosedHours }
             A == Ascending(long)
             c == Cardinality(long)
             shown == Shown(live)
  <2>1. /\ past \in Seq(Nat \X Nat)
        /\ \A k \in 1 .. Len(past) :
             /\ Run(past[k][1], past[k][2]) /\ past[k][2] <= n
             /\ past[k][2] = n \/ series[past[k][2] + 1].open
             /\ ~ (live /\ past[k][2] = n)
        /\ \A a, b \in Nat :
             Run(a, b) /\ b <= n /\ (b = n \/ series[b + 1].open) /\ ~ (live /\ b = n) =>
               \E k \in 1 .. Len(past) : past[k] = << a, b >>
        /\ \A j, k \in 1 .. Len(past) : j < k => past[j][2] < past[k][1]
    BY PastRegionsProperties
  <2>2. shown = Picked(past, long)
    BY DEF ClosedRegions
  <2> HIDE DEF past, n, shown
  <2>3. /\ Len(past) \in Nat /\ DOMAIN past = 1 .. Len(past)
        /\ past \in [1 .. Len(past) -> Nat \X Nat]
        /\ \A k \in 1 .. Len(past) : past[k] \in Nat \X Nat
    BY <2>1
  <2>4. long \in SUBSET (1 .. Len(past))
    BY <2>3
  <2>5. /\ c \in Nat /\ shown \in Seq(Nat \X Nat) /\ Len(shown) = c
        /\ A \in [1 .. c -> long]
        /\ \A k \in 1 .. c : shown[k] = past[A[k]]
        /\ \A j, k \in 1 .. c : j < k => A[j] < A[k]
        /\ \A x \in long : \E k \in 1 .. c : A[k] = x
    <3> DEFINE Spans == Nat \X Nat
               m == Len(past)
    <3> HIDE DEF long, m
    <3>1. m \in Nat /\ past \in [1 .. m -> Spans] /\ long \in SUBSET (1 .. m)
      BY <2>3, <2>4 DEF m
    <3> HIDE DEF Spans
    <3>2. Picked(past, long) \in Seq(Spans) /\ PicksOf(Picked(past, long), past, long, A, c)
      BY <3>1, PickedProperties
    <3> HIDE DEF A, c
    <3> QED
      BY <2>2, <3>2 DEF Spans, PicksOf
  <2>6. \A k : k \in long <=> k \in 1 .. Len(past) /\ past[k][2] - past[k][1] >= MinClosedHours
    BY <2>3
  <2> HIDE DEF long, A, c
  <2>7. ASSUME NEW r \in ToSet(shown)
        PROVE  r \in Maximal(live)
    <3>1. PICK k \in 1 .. c : r = shown[k]
      BY <2>5 DEF ToSet
    <3>2. A[k] \in long /\ r = past[A[k]]
      BY <2>5, <3>1
    <3>3. /\ r \in Nat \X Nat /\ r[2] - r[1] >= MinClosedHours
          /\ Run(r[1], r[2]) /\ r[2] <= n /\ (r[2] = n \/ series[r[2] + 1].open)
          /\ ~ (live /\ r[2] = n)
      BY <2>1, <2>3, <2>6, <3>2
    <3>4. /\ r[1] \in Nat \ {0} /\ r[2] \in Nat /\ r[1] <= r[2]
          /\ (\A i \in r[1] .. r[2] : ~ series[i].open)
          /\ r[1] = 1 \/ series[r[1] - 1].open
      BY <3>3 DEF Run
    <3>5. r \in Indices \X Indices
      BY <1>1, <3>3, <3>4
    <3> QED
      BY <3>3, <3>4, <3>5
  <2>8. ASSUME NEW r \in Maximal(live)
        PROVE  r \in ToSet(shown)
    <3>1. /\ r \in (1 .. n) \X (1 .. n) /\ r[2] - r[1] >= MinClosedHours
          /\ (\A i \in r[1] .. r[2] : ~ series[i].open)
          /\ r[1] = 1 \/ series[r[1] - 1].open
          /\ r[2] = n \/ series[r[2] + 1].open
          /\ ~ (live /\ r[2] = n)
      BY <1>1
    <3>2. /\ r = << r[1], r[2] >> /\ r[1] \in Nat \ {0} /\ r[2] \in Nat /\ r[2] <= n
          /\ r[1] <= r[2]
      BY <1>1, <3>1
    <3>3. Run(r[1], r[2])
      BY <3>1, <3>2 DEF Run
    <3>4. PICK k \in 1 .. Len(past) : past[k] = << r[1], r[2] >>
      BY <2>1, <3>1, <3>2, <3>3
    <3>5. k \in long
      BY <2>6, <3>1, <3>2, <3>4
    <3>6. PICK j \in 1 .. c : A[j] = k
      BY <2>5, <3>5
    <3>7. shown[j] = r
      BY <2>5, <3>2, <3>4, <3>6
    <3>8. DOMAIN shown = 1 .. c
      BY <2>5
    <3> QED
      BY <3>7, <3>8 DEF ToSet
  <2>9. ASSUME NEW k \in 1 .. Len(shown) - 1
        PROVE  shown[k][2] < shown[k + 1][1]
    <3>1. k \in 1 .. c /\ k + 1 \in 1 .. c /\ k < k + 1
      BY <2>5
    <3>2. A[k] \in long /\ A[k + 1] \in long /\ A[k] < A[k + 1]
      BY <2>5, <3>1
    <3>3. past[A[k]][2] < past[A[k + 1]][1]
      BY <2>1, <2>6, <3>2
    <3> QED
      BY <2>5, <3>1, <3>3
  <2> HIDE DEF Maximal
  <2>10. ToSet(shown) = Maximal(live)
    BY <2>7, <2>8
  <2> QED
    BY <2>9, <2>10 DEF shown
<1> QED
  BY <1>2, Zenon DEF ClosedRegionsMaximal

-----------------------------------------------------------------------------
(* The lag sweep.  Sums over the pairs of a lag.                            *)
SumOver(P, v, D) == Total([i \in D |-> IF i \in P THEN v[i] ELSE 0])

LEMMA SumOverType ==
  ASSUME NEW N \in Nat, NEW P, NEW v, \A i \in P : v[i] \in Int
  PROVE  SumOver(P, v, 1 .. N) \in Int
<1> DEFINE w == [i \in 1 .. N |-> IF i \in P THEN v[i] ELSE 0]
<1>1. w \in [1 .. N -> Int]
  OBVIOUS
<1>2. SumOver(P, v, 1 .. N) = Total(w)
  BY DEF SumOver
<1> HIDE DEF w
<1>3. PICK f : SumsOf(f, w, N)
  BY <1>1, TotalUnfolds
<1>4. f \in [0 .. N -> Int] /\ Total(w) = f[N]
  BY <1>3 DEF SumsOf
<1> QED
  BY <1>2, <1>4

(* c numbers with sum s and sum of squares q either all are the same, a, or *)
(* have c * q above the square of s; one more number keeps that.            *)
LEMMA SpreadOfSame ==
  ASSUME NEW c \in Nat, NEW a \in Int, NEW x \in Int, c > 0, x # a
  PROVE  (c + 1) * (c * (a * a) + x * x) - (c * a + x) * (c * a + x) > 0
<1> DEFINE z == x - a
<1>1. z \in Int /\ z # 0 /\ x = z + a
  OBVIOUS
<1> HIDE DEF z
<1>2. z * z > 0
  <2>1. CASE z > 0
    BY <1>1, <2>1
  <2>2. CASE z < 0
    BY <1>1, <2>2
  <2> QED
    BY <1>1, <2>1, <2>2
<1>3. c * (z * z) > 0
  BY <1>1, <1>2
<1>4. (c + 1) * (c * (a * a) + (z + a) * (z + a)) - (c * a + (z + a)) * (c * a + (z + a))
        = c * (z * z)
  BY <1>1
<1> QED
  BY <1>1, <1>3, <1>4

LEMMA SpreadGrows ==
  ASSUME NEW c \in Nat, NEW s \in Int, NEW q \in Int, NEW x \in Int, c * q - s * s > 0
  PROVE  (c + 1) * (q + x * x) - (s + x) * (s + x) > 0
<1> DEFINE e == c * (x * x) + q - 2 * (s * x)
           t == c * x - s
<1>1. e \in Int /\ t \in Int
  OBVIOUS
<1>2. c * e = t * t + (c * q - s * s)
  OBVIOUS
<1>3. (c + 1) * (q + x * x) - (s + x) * (s + x) = (c * q - s * s) + e
  OBVIOUS
<1> HIDE DEF e, t
<1>4. t * t >= 0
  BY <1>1
<1>5. c * e > 0
  BY <1>1, <1>2, <1>4
<1>6. e > 0
  BY <1>1, <1>5
<1> QED
  BY <1>1, <1>3, <1>6

Spread(c, s, q, seen) ==
  \/ c * q - s * s > 0
  \/ \E a \in Int : s = c * a /\ q = c * (a * a) /\ \A y \in seen : y = a

LEMMA SpreadKeeps ==
  ASSUME NEW c \in Nat, NEW s \in Int, NEW q \in Int, NEW x \in Int, NEW seen,
         Spread(c, s, q, seen), c = 0 => seen = {}
  PROVE  Spread(c + 1, s + x, q + x * x, seen \cup {x})
<1>1. CASE c * q - s * s > 0
  BY <1>1, SpreadGrows DEF Spread
<1>2. CASE \E a \in Int : s = c * a /\ q = c * (a * a) /\ \A y \in seen : y = a
  <2>1. PICK a \in Int : s = c * a /\ q = c * (a * a) /\ \A y \in seen : y = a
    BY <1>2
  <2>2. CASE c = 0
    <3>1. s = 0 /\ q = 0
      BY <2>1, <2>2
    <3>2. s + x = (c + 1) * x /\ q + x * x = (c + 1) * (x * x)
      BY <2>2, <3>1
    <3> QED
      BY <2>2, <3>2 DEF Spread
  <2>3. CASE x = a
    <3>1. s + x = (c + 1) * a /\ q + x * x = (c + 1) * (a * a)
      BY <2>1, <2>3
    <3>2. \A y \in seen \cup {x} : y = a
      BY <2>1, <2>3
    <3> QED
      BY <3>1, <3>2 DEF Spread
  <2>4. CASE c # 0 /\ x # a
    <3>1. (c + 1) * (c * (a * a) + x * x) - (c * a + x) * (c * a + x) > 0
      BY <2>4, SpreadOfSame
    <3> QED
      BY <2>1, <3>1 DEF Spread
  <2> QED
    BY <2>2, <2>3, <2>4
<1> QED
  BY <1>1, <1>2 DEF Spread

LEMMA SpreadOfSums ==
  ASSUME NEW N \in Nat, NEW P \in SUBSET (1 .. N), NEW v, \A i \in P : v[i] \in Int
  PROVE  Spread(Cardinality(P), SumOver(P, v, 1 .. N), SumOver(P, [i \in P |-> v[i] * v[i]], 1 .. N),
                { v[i] : i \in P })
<1> DEFINE sq == [i \in P |-> v[i] * v[i]]
           w == [i \in 1 .. N |-> IF i \in P THEN v[i] ELSE 0]
           u == [i \in 1 .. N |-> IF i \in P THEN sq[i] ELSE 0]
           at(k) == P \cap (1 .. k)
           values(k) == { v[i] : i \in at(k) }
<1>1. w \in [1 .. N -> Int] /\ u \in [1 .. N -> Int]
  OBVIOUS
<1>2. SumOver(P, v, 1 .. N) = Total(w) /\ SumOver(P, sq, 1 .. N) = Total(u)
  BY DEF SumOver
<1>3. \A k \in 1 .. N : /\ k \in P => w[k] = v[k] /\ u[k] = v[k] * v[k]
                        /\ k \notin P => w[k] = 0 /\ u[k] = 0
  OBVIOUS
<1> HIDE DEF w, u
<1>4. PICK f : SumsOf(f, w, N)
  BY <1>1, TotalUnfolds
<1>5. PICK g : SumsOf(g, u, N)
  BY <1>1, TotalUnfolds
<1>6. /\ f \in [0 .. N -> Int] /\ f[0] = 0 /\ Total(w) = f[N]
      /\ \A k \in 1 .. N : f[k] = f[k - 1] + w[k]
  BY <1>4 DEF SumsOf
<1>7. /\ g \in [0 .. N -> Int] /\ g[0] = 0 /\ Total(u) = g[N]
      /\ \A k \in 1 .. N : g[k] = g[k - 1] + u[k]
  BY <1>5 DEF SumsOf
<1>8. \A k \in 0 .. N : IsFiniteSet(at(k)) /\ Cardinality(at(k)) \in Nat
  <2> SUFFICES ASSUME NEW k \in 0 .. N
               PROVE  IsFiniteSet(at(k)) /\ Cardinality(at(k)) \in Nat
    OBVIOUS
  <2>1. IsFiniteSet(1 .. k)
    BY FS_Interval
  <2>2. at(k) \in SUBSET (1 .. k)
    OBVIOUS
  <2> HIDE DEF at
  <2> QED
    BY <2>1, <2>2, FS_Subset, FS_CardinalityType
<1> DEFINE Good == { k \in 0 .. N : Spread(Cardinality(at(k)), f[k], g[k], values(k)) }
<1>9. 0 \in Good
  <2>1. at(0) = {}
    OBVIOUS
  <2> HIDE DEF at
  <2>2. Cardinality(at(0)) = 0 /\ values(0) = {}
    BY <2>1, FS_EmptySet
  <2> HIDE DEF values
  <2> QED
    BY <1>6, <1>7, <2>2 DEF Spread
<1>10. ASSUME NEW k \in 1 .. N, k - 1 \in Good
       PROVE  k \in Good
  <2>1. k - 1 \in 0 .. N /\ k \in 0 .. N
    OBVIOUS
  <2>2. Spread(Cardinality(at(k - 1)), f[k - 1], g[k - 1], values(k - 1))
    BY <1>10
  <2>3. f[k - 1] \in Int /\ g[k - 1] \in Int /\ f[k] = f[k - 1] + w[k] /\ g[k] = g[k - 1] + u[k]
    BY <1>6, <1>7, <2>1
  <2>4. CASE k \notin P
    <3>1. at(k) = at(k - 1)
      BY <2>4
    <3>2. f[k] = f[k - 1] /\ g[k] = g[k - 1]
      BY <1>3, <2>3, <2>4
    <3> HIDE DEF at
    <3>3. values(k) = values(k - 1)
      BY <3>1
    <3> QED
      BY <2>1, <2>2, <3>1, <3>2, <3>3
  <2>5. CASE k \in P
    <3> DEFINE x == v[k]
               c == Cardinality(at(k - 1))
    <3>1. at(k) = at(k - 1) \cup {k} /\ k \notin at(k - 1)
      BY <2>5
    <3>2. f[k] = f[k - 1] + x /\ g[k] = g[k - 1] + x * x /\ x \in Int
      BY <1>3, <2>3, <2>5
    <3> HIDE DEF at
    <3>3. Cardinality(at(k)) = c + 1 /\ c \in Nat
      BY <1>8, <2>1, <3>1, FS_AddElement
    <3>4. values(k) = values(k - 1) \cup {x}
      BY <3>1
    <3>5. c = 0 => values(k - 1) = {}
      <4>1. c = 0 => at(k - 1) = {}
        BY <1>8, <2>1, FS_EmptySet
      <4> QED
        BY <4>1
    <3> HIDE DEF x, c, values
    <3>6. Spread(c + 1, f[k - 1] + x, g[k - 1] + x * x, values(k - 1) \cup {x})
      BY <2>2, <2>3, <3>2, <3>3, <3>5, SpreadKeeps DEF c
    <3>7. Spread(Cardinality(at(k)), f[k], g[k], values(k))
      BY <3>2, <3>3, <3>4, <3>6
    <3> QED
      BY <2>1, <3>7
  <2> QED
    BY <2>4, <2>5
<1> HIDE DEF Good
<1>11. N \in Good
  BY <1>9, <1>10, CountUpTo
<1>12. Spread(Cardinality(at(N)), f[N], g[N], values(N))
  BY <1>11 DEF Good
<1>13. at(N) = P
  OBVIOUS
<1> HIDE DEF at
<1>14. values(N) = { v[i] : i \in P }
  BY <1>13
<1> HIDE DEF values
<1> QED
  BY <1>2, <1>6, <1>7, <1>12, <1>13, <1>14

(* A correlation as it is kept: a number above the root of a positive one.  *)
Correlations == [num : Int, den : Nat \ {0}]

(* How far the sentiments of the pairs spread.                              *)
SpreadAt(data, lag) ==
  LET P == Pairs(data, lag)
      x == [i \in P |-> data[i].sent]
      q == SumOver(P, [i \in P |-> x[i] * x[i]], DOMAIN data)
      s == SumOver(P, x, DOMAIN data)
  IN  Cardinality(P) * q - s * s

LEMMA PearsonProperties ==
  ASSUME NEW N \in Nat, NEW data, DOMAIN data = 1 .. N, NEW lag \in Int,
         \A i \in 1 .. N : data[i].sent \in Int /\ data[i].change \in Int
  PROVE  /\ Pearson(data, lag) \in Correlations
         /\ (/\ \A i \in Pairs(data, lag) : data[i + lag].change = data[i].sent
             /\ Cardinality(Pairs(data, lag)) >= MinSamples
             /\ SpreadAt(data, lag) > 0) =>
               Pearson(data, lag) = [num |-> SpreadAt(data, lag),
                                     den |-> SpreadAt(data, lag) * SpreadAt(data, lag)]
<1> DEFINE P == Pairs(data, lag)
           n == Cardinality(P)
           x == [i \in P |-> data[i].sent]
           y == [i \in P |-> data[i + lag].change]
           sum(v) == SumOver(P, v, DOMAIN data)
           xx == sum([i \in P |-> x[i] * x[i]])
           xy == sum([i \in P |-> x[i] * y[i]])
           yy == sum([i \in P |-> y[i] * y[i]])
           sx == sum(x)
           sy == sum(y)
           num == n * xy - sx * sy
           den == (n * xx - sx * sx) * (n * yy - sy * sy)
           D == n * xx - sx * sx
           r == Pearson(data, lag)
<1>1. r = IF n < MinSamples \/ den <= 0 THEN [num |-> 0, den |-> 1]
          ELSE [num |-> num, den |-> den]
  BY DEF Pearson, SumOver
<1>2. P \in SUBSET (1 .. N) /\ \A i \in P : i + lag \in 1 .. N
  BY DEF Pairs
<1>3. n \in Nat
  <2>1. IsFiniteSet(1 .. N)
    BY FS_Interval
  <2> HIDE DEF P
  <2>2. IsFiniteSet(P)
    BY <1>2, <2>1, FS_Subset
  <2> QED
    BY <2>2, FS_CardinalityType
<1> HIDE DEF P
<1>4. \A i \in P : x[i] \in Int /\ y[i] \in Int
  BY <1>2
<1> HIDE DEF n
<1>5. xx \in Int /\ xy \in Int /\ yy \in Int /\ sx \in Int /\ sy \in Int
  <2> HIDE DEF x, y
  <2>1. \A i \in P : /\ [j \in P |-> x[j] * x[j]][i] \in Int
                     /\ [j \in P |-> x[j] * y[j]][i] \in Int
                     /\ [j \in P |-> y[j] * y[j]][i] \in Int
    BY <1>4
  <2>2. xx \in Int
    BY <2>1, SumOverType
  <2>3. xy \in Int
    BY <2>1, SumOverType
  <2>4. yy \in Int
    BY <2>1, SumOverType
  <2>5. sx \in Int /\ sy \in Int
    BY <1>4, SumOverType
  <2> QED
    BY <2>2, <2>3, <2>4, <2>5
<1>6. ASSUME \A i \in P : data[i + lag].change = data[i].sent
      PROVE  xy = xx /\ yy = xx /\ sy = sx
  <2>1. x = y
    BY <1>6
  <2> HIDE DEF x, y
  <2> QED
    BY <2>1
<1> HIDE DEF xx, xy, yy, sx, sy
<1>7. num \in Int /\ den \in Int /\ D \in Int
  BY <1>3, <1>5
<1>8. ASSUME \A i \in P : data[i + lag].change = data[i].sent, n >= MinSamples, D > 0
      PROVE  r = [num |-> D, den |-> D * D]
  <2>1. num = D /\ den = D * D
    BY <1>6, <1>8
  <2> HIDE DEF num, den, D, r
  <2>2. D * D > 0
    BY <1>7, <1>8
  <2>3. ~ (n < MinSamples)
    BY <1>3, <1>8, SeriesAssumption
  <2> QED
    BY <1>1, <1>7, <2>1, <2>2, <2>3
<1>9. r \in Correlations
  <2> HIDE DEF num, den, r
  <2> QED
    BY <1>1, <1>7 DEF Correlations
<1>10. D = SpreadAt(data, lag)
  BY DEF SpreadAt, D, x, xx, sx, n, P
<1> HIDE DEF D, r
<1> QED
  BY <1>8, <1>9, <1>10 DEF r, n, P

(* A perfect correlation is at least as strong as any other; the strongest  *)
(* one so far is replaced by stronger ones only.                            *)
Perfect(q) == q.num * q.num >= q.den

LEMMA StrongerKeepsPerfect ==
  ASSUME NEW b \in Correlations, NEW r \in Correlations
  PROVE  /\ Stronger(r, b) /\ Perfect(b) => Perfect(r)
         /\ ~ Stronger(r, b) /\ Perfect(r) => Perfect(b)
<1> DEFINE A == r.num * r.num
           B == b.num * b.num
           p == r.den
           q == b.den
<1>1. A \in Int /\ B \in Int /\ p \in Nat /\ q \in Nat /\ p > 0 /\ q > 0
  BY DEF Correlations
<1>2. /\ Stronger(r, b) <=> A * q > B * p
      /\ Perfect(r) <=> A >= p
      /\ Perfect(b) <=> B >= q
  BY DEF Stronger, Perfect
<1> HIDE DEF A, B, p, q
<1>3. A * q > B * p /\ B >= q => A >= p
  <2> SUFFICES ASSUME A * q > B * p, B >= q PROVE A >= p
    OBVIOUS
  <2>1. B * p >= q * p
    BY <1>1
  <2>2. (A - p) * q > 0
    BY <1>1, <2>1
  <2>3. A - p > 0
    BY <1>1, <2>2
  <2> QED
    BY <1>1, <2>3
<1>4. ~ (A * q > B * p) /\ A >= p => B >= q
  <2> SUFFICES ASSUME ~ (A * q > B * p), A >= p PROVE B >= q
    OBVIOUS
  <2>1. A * q >= p * q
    BY <1>1
  <2>2. (B - q) * p >= 0
    BY <1>1, <2>1
  <2>3. B - q >= 0
    BY <1>1, <2>2
  <2> QED
    BY <1>1, <2>3
<1> QED
  BY <1>2, <1>3, <1>4

Bests == [r : Correlations, lag : Int]

LEMMA SweepFinds ==
  ASSUME NEW N \in Nat, NEW data, DOMAIN data = 1 .. N, NEW d \in 1 .. MaxLag,
         \A i \in 1 .. N : data[i].sent \in Int /\ data[i].change \in Int,
         Perfect(Pearson(data, d))
  PROVE  BestLag(data).r \in Correlations /\ Perfect(BestLag(data).r)
<1> DEFINE M == 2 * MaxLag + 1
           base == [r |-> [num |-> 0, den |-> 1], lag |-> 0]
           step == [ x \in Bests \X (1 .. M) |-> Sweep(x[1], data, x[2] - MaxLag - 1) ]
           Is(g) == g = [ k \in 0 .. M |-> IF k = 0 THEN base
                                           ELSE Sweep(g[k - 1], data, k - MaxLag - 1) ]
           best == CHOOSE g : Is(g)
<1>1. MaxLag \in Nat /\ M \in Nat
  BY SeriesAssumption
<1>2. base \in Bests
  BY DEF Bests, Correlations
<1>3. \A lag \in Int : Pearson(data, lag) \in Correlations
  BY PearsonProperties
<1>4. \A b \in Bests, k \in 1 .. M :
        LET r == Pearson(data, k - MaxLag - 1)
            new == Sweep(b, data, k - MaxLag - 1)
        IN  /\ r \in Correlations /\ b.r \in Correlations /\ new \in Bests
            /\ new.r = IF Stronger(r, b.r) THEN r ELSE b.r
  <2> SUFFICES ASSUME NEW b \in Bests, NEW k \in 1 .. M
               PROVE  LET r == Pearson(data, k - MaxLag - 1)
                          new == Sweep(b, data, k - MaxLag - 1)
                      IN  /\ r \in Correlations /\ b.r \in Correlations /\ new \in Bests
                          /\ new.r = IF Stronger(r, b.r) THEN r ELSE b.r
    OBVIOUS
  <2> DEFINE lag == k - MaxLag - 1
             r == Pearson(data, lag)
             new == Sweep(b, data, lag)
  <2>1. lag \in Int
    BY <1>1
  <2> HIDE DEF lag
  <2>2. r \in Correlations
    BY <1>3, <2>1
  <2>3. new = IF Stronger(r, b.r) THEN [r |-> r, lag |-> lag] ELSE b
    BY DEF Sweep
  <2> HIDE DEF r, new
  <2>4. b.r \in Correlations
    BY DEF Bests
  <2>5. new \in Bests /\ new.r = IF Stronger(r, b.r) THEN r ELSE b.r
    BY <2>1, <2>2, <2>3 DEF Bests
  <2> QED
    BY <2>2, <2>4, <2>5 DEF r, new, lag
<1>5. \A b \in Bests, k \in 1 .. M : Sweep(b, data, k - MaxLag - 1) \in Bests
  BY <1>4
<1>6. step \in [Bests \X (1 .. M) -> Bests]
  BY <1>5
<1>7. \A b \in Bests, k \in 1 .. M : step[<< b, k >>] = Sweep(b, data, k - MaxLag - 1)
  OBVIOUS
<1> HIDE DEF M, base, step
<1>8. PICK g \in [0 .. M -> Bests] :
        g[0] = base /\ \A k \in 1 .. M : g[k] = step[<< g[k - 1], k >>]
  <2>1. Runs(Bests, M, base, step) # {}
    BY <1>1, <1>2, <1>6, FoldExists
  <2> QED
    BY <2>1 DEF Runs
<1>9. \A k \in 1 .. M : g[k] = Sweep(g[k - 1], data, k - MaxLag - 1)
  <2>1. \A k \in 1 .. M : k - 1 \in 0 .. M /\ g[k - 1] \in Bests
    BY <1>1, <1>8
  <2> QED
    BY <1>7, <1>8, <2>1
<1>10. \A k \in 0 .. M : g[k] = IF k = 0 THEN base ELSE Sweep(g[k - 1], data, k - MaxLag - 1)
  <2>1. \A k \in 0 .. M : k = 0 \/ k \in 1 .. M
    BY <1>1
  <2> QED
    BY <1>8, <1>9, <2>1
<1>11. Is(g)
  BY <1>8, <1>10
<1>12. Is(best)
  BY <1>11
<1>13. BestLag(data) = best[M]
  BY DEF BestLag, M, base
<1> HIDE DEF best
<1>14. best[0] = base /\ \A k \in 1 .. M : best[k] = Sweep(best[k - 1], data, k - MaxLag - 1)
  BY <1>1, <1>12
<1> DEFINE at == d + MaxLag + 1
           Good == { x \in Nat \X Bests : x[1] >= at => Perfect(x[2].r) }
           h == [k \in 0 .. M |-> << k, best[k] >>]
<1>15. at \in 1 .. M /\ at - MaxLag - 1 = d
  BY <1>1 DEF M
<1> HIDE DEF at
<1>16. h[0] \in Good
  <2>1. h[0] = << 0, base >> /\ ~ (0 >= at)
    BY <1>1, <1>14, <1>15
  <2> QED
    BY <1>2, <2>1
<1>17. ASSUME NEW k \in 1 .. M, h[k - 1] \in Good
       PROVE  h[k] \in Good
  <2> DEFINE lag == k - MaxLag - 1
             r == Pearson(data, lag)
             b == best[k - 1]
             new == best[k]
  <2>1. k - 1 \in 0 .. M /\ k \in 0 .. M /\ k \in Nat
    BY <1>1
  <2>2. h[k - 1] = << k - 1, b >> /\ h[k] = << k, new >>
    BY <2>1
  <2>3. b \in Bests /\ (k - 1 >= at => Perfect(b.r))
    BY <1>17, <2>2
  <2>4. new = Sweep(b, data, lag)
    BY <1>14
  <2>5. /\ r \in Correlations /\ b.r \in Correlations /\ new \in Bests
        /\ new.r = IF Stronger(r, b.r) THEN r ELSE b.r
    BY <1>4, <2>3, <2>4
  <2>6. k = at => Perfect(r)
    BY <1>15
  <2> HIDE DEF r, b, new, h
  <2>7. k >= at => Perfect(new.r)
    <3>1. k >= at => k = at \/ k - 1 >= at
      BY <1>15, <2>1
    <3>2. /\ Stronger(r, b.r) /\ Perfect(b.r) => Perfect(r)
          /\ ~ Stronger(r, b.r) /\ Perfect(r) => Perfect(b.r)
      BY <2>5, StrongerKeepsPerfect
    <3> QED
      BY <2>3, <2>5, <2>6, <3>1, <3>2
  <2>8. << k, new >> \in Good
    BY <2>1, <2>5, <2>7
  <2> QED
    BY <2>2, <2>8
<1> HIDE DEF Good
<1>18. h[M] \in Good
  <2> HIDE DEF h
  <2> QED
    BY <1>1, <1>16, <1>17, FoldInvariant
<1>19. h[M] = << M, best[M] >> /\ M >= at
  BY <1>1, <1>15
<1>20. best[M] \in Bests /\ Perfect(best[M].r)
  BY <1>18, <1>19 DEF Good
<1> QED
  BY <1>13, <1>20 DEF Bests

(* A return that repeats the sentiment of some hours before.                *)
LEMMA LeadsAreFound == SeriesTypeOK => LeadIsFound
<1> SUFFICES ASSUME SeriesTypeOK, NEW d \in 1 .. MaxLag,
                    Cardinality({ i \in Indices : i + d \in Indices /\ series[i + d].open })
                      >= MinSamples,
                    Cardinality({ series[i].sent : i \in { j \in Indices :
                                  j + d \in Indices /\ series[j + d].open } }) > 1
             PROVE  LET r == Pearson(Delayed(d), d)
                    IN  /\ r.num > 0 /\ r.num * r.num = r.den
                        /\ ~ Stronger(r, BestLag(Delayed(d)).r)
  BY Zenon DEF LeadIsFound
<1> DEFINE N == Len(series)
           data == Delayed(d)
           P == Pairs(data, d)
           told == { i \in Indices : i + d \in Indices /\ series[i + d].open }
           x == [i \in P |-> data[i].sent]
           q == SumOver(P, [i \in P |-> x[i] * x[i]], DOMAIN data)
           s == SumOver(P, x, DOMAIN data)
           D == Cardinality(P) * q - s * s
           r == Pearson(data, d)
<1>1. /\ N \in Nat /\ Indices = 1 .. N /\ MaxLag \in Nat /\ d \in Nat /\ d >= 1
      /\ \A i \in 1 .. N : series[i].sent \in Int
  BY SeriesProperties, SeriesAssumption
<1>2. DOMAIN data = 1 .. N
  BY <1>1 DEF Delayed
<1>3. \A i \in 1 .. N :
        /\ data[i].sent = series[i].sent
        /\ data[i].open <=> i > d /\ series[i].open
        /\ data[i].change = IF i > d THEN series[i - d].sent ELSE 0
  BY <1>1 DEF Delayed
<1> HIDE DEF N, data
<1>4. \A i \in 1 .. N : data[i].sent \in Int /\ data[i].change \in Int
  <2>1. \A i \in 1 .. N : i > d => i - d \in 1 .. N
    BY <1>1
  <2> QED
    BY <1>1, <1>3, <2>1
<1>5. P = told
  <2>1. \A i \in 1 .. N : i + d > d
    BY <1>1
  <2> QED
    BY <1>1, <1>2, <1>3, <2>1 DEF Pairs
<1>6. P \in SUBSET (1 .. N) /\ \A i \in P : i + d \in 1 .. N
  BY <1>1, <1>5
<1> HIDE DEF P
<1>7. \A i \in P : data[i + d].change = data[i].sent /\ x[i] = series[i].sent /\ x[i] \in Int
  <2> SUFFICES ASSUME NEW i \in P
               PROVE  data[i + d].change = data[i].sent /\ x[i] = series[i].sent /\ x[i] \in Int
    OBVIOUS
  <2>1. i \in 1 .. N /\ i + d \in 1 .. N /\ i + d > d /\ (i + d) - d = i
    BY <1>1, <1>6
  <2> QED
    BY <1>1, <1>3, <2>1
<1>8. { series[i].sent : i \in told } = { x[i] : i \in P }
  <2> HIDE DEF told, x
  <2> QED
    BY <1>5, <1>7
<1> DEFINE values == { x[i] : i \in P }
<1>9. Spread(Cardinality(P), s, q, values)
  <2> HIDE DEF x
  <2>1. \A i \in P : x[i] \in Int
    BY <1>7
  <2> QED
    BY <1>1, <1>2, <1>6, <2>1, SpreadOfSums
<1> HIDE DEF x, values
<1>10. Cardinality(values) > 1 /\ Cardinality(P) >= MinSamples
  BY <1>5, <1>8 DEF values
<1>11. ~ \E a : \A y \in values : y = a
  <2> SUFFICES ASSUME NEW a, \A y \in values : y = a PROVE FALSE
    OBVIOUS
  <2>1. values = {} \/ values = {a}
    OBVIOUS
  <2>2. Cardinality(values) = 0 \/ Cardinality(values) = 1
    BY <2>1, FS_EmptySet, FS_Singleton
  <2> QED
    BY <1>10, <2>2
<1>12. D > 0
  BY <1>9, <1>11 DEF Spread
<1> HIDE DEF q, s
<1>13. D = SpreadAt(data, d)
  BY DEF SpreadAt, P, x, q, s
<1> HIDE DEF D, r
<1>14. r \in Correlations /\ r = [num |-> D, den |-> D * D]
  <2>1. r \in Correlations
    BY <1>1, <1>2, <1>4, PearsonProperties DEF r
  <2>2. (/\ \A i \in P : data[i + d].change = data[i].sent
         /\ Cardinality(P) >= MinSamples /\ D > 0) => r = [num |-> D, den |-> D * D]
    <3> DEFINE E == SpreadAt(data, d)
    <3>1. (/\ \A i \in Pairs(data, d) : data[i + d].change = data[i].sent
           /\ Cardinality(Pairs(data, d)) >= MinSamples /\ E > 0) =>
             Pearson(data, d) = [num |-> E, den |-> E * E]
      BY <1>1, <1>2, <1>4, PearsonProperties
    <3> HIDE DEF E
    <3>2. D = E
      BY <1>13 DEF E
    <3> QED
      BY <3>1, <3>2 DEF P, r
  <2> QED
    BY <1>7, <1>10, <1>12, <2>1, <2>2
<1>15. r.num = D /\ r.den = D * D /\ D \in Int
  BY <1>14 DEF Correlations
<1>16. Perfect(r)
  BY <1>15 DEF Perfect
<1> DEFINE b == BestLag(data).r
<1>17. b \in Correlations /\ Perfect(b)
  BY <1>1, <1>2, <1>4, <1>16, SweepFinds DEF r
<1> HIDE DEF b
<1>18. ~ Stronger(r, b)
  <2> DEFINE B == b.num * b.num
             c == b.den
             E == D * D
  <2>1. B \in Int /\ c \in Int /\ B >= c /\ E \in Int /\ E > 0
    BY <1>12, <1>15, <1>17 DEF Correlations, Perfect
  <2>2. Stronger(r, b) <=> E * c > B * E
    BY <1>15 DEF Stronger
  <2> HIDE DEF B, c, E
  <2>3. ~ (E * c > B * E)
    <3>1. B * E >= c * E
      BY <2>1
    <3> QED
      BY <2>1, <3>1
  <2> QED
    BY <2>2, <2>3
<1> QED
  BY <1>12, <1>15, <1>18 DEF r, b, data

-----------------------------------------------------------------------------
(* The reports together: each side of the data grows while the other stands *)
(* still.                                                                   *)
ReportInductive == SeriesTypeOK /\ ContextInductive

LEMMA ReportInductiveInit == ReportInit => ReportInductive
<1> SUFFICES ASSUME ReportInit PROVE ReportInductive
  OBVIOUS
<1>1. series = << >> /\ SeriesHours \in Nat
  BY SeriesAssumption DEF ReportInit, SeriesInit
<1>2. SeriesTypeOK
  BY <1>1 DEF SeriesTypeOK
<1> QED
  BY <1>2, ContextInductiveInit DEF ReportInit, ReportInductive

LEMMA SeriesNextKeeps == SeriesTypeOK /\ SeriesNext => SeriesTypeOK'
<1> SUFFICES ASSUME SeriesTypeOK, SeriesNext PROVE SeriesTypeOK'
  OBVIOUS
<1>1. series \in Seq(HourBucket) /\ Len(series) \in Nat /\ Len(series) <= SeriesHours
      /\ SeriesHours \in Nat
  BY SeriesAssumption DEF SeriesTypeOK
<1>2. CASE NextHour
  <2>1. PICK b \in HourBucket : series' = Append(series, b)
    BY <1>2 DEF NextHour
  <2>2. series' \in Seq(HourBucket) /\ Len(series') = Len(series) + 1
    BY <1>1, <2>1
  <2> QED
    BY <1>1, <1>2, <2>2 DEF SeriesTypeOK, NextHour
<1>3. CASE HourChanges
  <2>1. PICK i \in DOMAIN series, b \in HourBucket : series' = [series EXCEPT ![i] = b]
    BY <1>3 DEF HourChanges
  <2>2. series' \in Seq(HourBucket) /\ Len(series') = Len(series)
    BY <1>1, <2>1
  <2> QED
    BY <1>1, <2>2 DEF SeriesTypeOK
<1> QED
  BY <1>2, <1>3 DEF SeriesNext

LEMMA ReportInductiveStep ==
  ReportInductive /\ [ReportNext]_reportVars => ReportInductive'
<1> SUFFICES ASSUME ReportInductive, [ReportNext]_reportVars PROVE ReportInductive'
  OBVIOUS
<1>1. SeriesTypeOK /\ ContextInductive
  BY DEF ReportInductive
<1>2. CASE SeriesNext /\ UNCHANGED contextVars
  <2>1. SeriesTypeOK'
    BY <1>1, <1>2, SeriesNextKeeps
  <2>2. ContextInductive'
    BY <1>1, <1>2, ContextInductiveStep
  <2> QED
    BY <2>1, <2>2 DEF ReportInductive
<1>3. CASE ContextNext /\ UNCHANGED series
  <2>1. SeriesTypeOK'
    BY <1>1, <1>3 DEF SeriesTypeOK
  <2>2. ContextInductive'
    BY <1>1, <1>3, ContextInductiveStep
  <2> QED
    BY <2>1, <2>2 DEF ReportInductive
<1>4. CASE UNCHANGED reportVars
  <2>1. UNCHANGED series /\ UNCHANGED contextVars
    BY <1>4 DEF reportVars
  <2>2. SeriesTypeOK'
    BY <1>1, <2>1 DEF SeriesTypeOK
  <2>3. ContextInductive'
    BY <1>1, <2>1, ContextInductiveStep
  <2> QED
    BY <2>2, <2>3 DEF ReportInductive
<1> QED
  BY <1>2, <1>3, <1>4 DEF ReportNext

LEMMA ReportInvariant == ReportSpec => []ReportInductive
<1> QED
  BY ReportInductiveInit, ReportInductiveStep, PTL DEF ReportSpec

(* The hours of a stock and the closes of its sessions and of the factors   *)
(* keep their types, with one close per end.                                *)
THEOREM ReportTypeCorrect == ReportSpec => []ReportTypeOK
<1>1. ReportInductive => ReportTypeOK
  BY DEF ReportInductive, ReportTypeOK, ContextInductive
<1> QED
  BY <1>1, ReportInvariant, PTL

(* For every series of hours and every set of closes: the oscillator        *)
(* measures momentum and starts with full windows, a lead is found, closed  *)
(* regions are the maximal ones, a strong buy is near the support, and the  *)
(* factor comes first in every pair.                                        *)
THEOREM ReportsAreSound == ReportSpec => []ReportsSound
<1>1. ReportInductive => ReportsSound
  <2> SUFFICES ASSUME ReportInductive PROVE ReportsSound
    OBVIOUS
  <2>1. SeriesTypeOK /\ ContextInductive
    BY DEF ReportInductive
  <2>2. AnalyticsSound
    BY <2>1, MomentumIsMeasured, LinesAreFull, LeadsAreFound, RegionsAreMaximal,
       StrongBuysNearSupport DEF AnalyticsSound
  <2>3. PairsSound
    BY <2>1, ContextInductiveSound
  <2> QED
    BY <2>2, <2>3 DEF ReportsSound
<1> QED
  BY <1>1, ReportInvariant, PTL

LEMMA VerdictsStand == ReportSpec => VerdictsSettle
<1> DEFINE Final == \A i \in Indices : Settled(i) => Settled(i)' /\ Verdict(i)' = Verdict(i)
<1>1. ReportInductive /\ ReportInductive' /\ [ReportNext]_reportVars => [Final]_series
  <2> SUFFICES ASSUME ReportInductive, ReportInductive', [ReportNext]_reportVars,
                      series' # series
               PROVE  Final
    OBVIOUS
  <2>1. SeriesNext
    BY DEF ReportNext, reportVars
  <2>2. SeriesTypeOK /\ SeriesTypeOK'
    BY DEF ReportInductive
  <2> QED
    BY <2>1, <2>2, VerdictStands
<1> QED
  BY <1>1, ReportInvariant, PTL DEF ReportSpec, VerdictsSettle

(* What responses say of an hour is not reversed: once settled, a good hour *)
(* is not shown as bad or a bad one as good, whatever the valuation and the *)
(* close before the window are by then.  It may be shown as pending.        *)
THEOREM QualitiesAreNotReversed ==
  ReportSpec =>
    /\ VerdictsSettle
    /\ [][\A i \in Indices : \A r, q \in Inputs :
            Settled(i) => \/ Quality(i, r) = "pending" \/ Quality(i, q)' = "pending"
                          \/ Quality(i, q)' = Quality(i, r)]_series
<1> DEFINE Final == \A i \in Indices : Settled(i) => Settled(i)' /\ Verdict(i)' = Verdict(i)
           NotReversed ==
             \A i \in Indices : \A r, q \in Inputs :
               Settled(i) => \/ Quality(i, r) = "pending" \/ Quality(i, q)' = "pending"
                             \/ Quality(i, q)' = Quality(i, r)
<1>1. Final => NotReversed
  <2> SUFFICES ASSUME Final, NEW i \in Indices, NEW r \in Inputs, NEW q \in Inputs, Settled(i)
               PROVE  \/ Quality(i, r) = "pending" \/ Quality(i, q)' = "pending"
                      \/ Quality(i, q)' = Quality(i, r)
    OBVIOUS
  <2>1. Quality(i, r) \in {"pending", Verdict(i)}
    BY DEF Quality
  <2>2. Quality(i, q)' \in {"pending", Verdict(i)'}
    BY DEF Quality
  <2> QED
    BY <2>1, <2>2
<1>2. [Final]_series => [NotReversed]_series
  BY <1>1
<1> QED
  BY <1>2, VerdictsStand, PTL DEF VerdictsSettle

(* Later hours and closes that arrive in order do not rewrite what was      *)
(* reported: settled verdicts, pairs and reactions stay.                    *)
THEOREM PastStays == ReportSpec => PastUnchanged
<1>1. ReportInductive => ContextInductive
  BY DEF ReportInductive
<1>2. ReportSpec => []ContextInductive
  BY <1>1, ReportInvariant, PTL
<1> QED
  BY <1>2, VerdictsStand, PairsAreAppended, ReactionsAreFixed, PTL DEF PastUnchanged
=============================================================================
