--------------------------- MODULE ProducerProofs ---------------------------
(***************************************************************************)
(* The producers for every set of symbols, posts and articles, every rate, *)
(* interval and page, and for as long as they run: what a provider sees of *)
(* a paced producer respects the rate, the slots and the cooldowns         *)
(* (Pacing); the symbol list does not grow old (SymbolRegistry); a feed is *)
(* published completely and once (CursorFeeds); the coroutines of a news   *)
(* cycle account for every article (NewsPolling); what market-producer     *)
(* stores of quotes, metrics and context bars (MarketProducer) and of the  *)
(* fund (SyntheticNav) is sound; and the links of events keep to their cap *)
(* (GlobalEvents).                                                         *)
(***************************************************************************)
EXTENDS Producers, ListProofs

-----------------------------------------------------------------------------
(* Pacing.  Ticks to refill n tokens.                                       *)
Worth(n) == TokenTicks * n

LEMMA WorthProperties ==
  /\ \A n \in Int : Worth(n) \in Int
  /\ Worth(1) = TokenTicks
  /\ \A m, n \in Int : Worth(m + n) = Worth(m) + Worth(n)
  /\ \A m, n \in Int : Worth(m - n) = Worth(m) - Worth(n)
<1>1. TokenTicks \in Int
  BY PacingAssumption
<1> QED
  BY <1>1 DEF Worth

LEMMA LeastProperties ==
  ASSUME NEW a \in Int, NEW b \in Int
  PROVE  Least(a, b) \in {a, b} /\ Least(a, b) <= a /\ Least(a, b) <= b
BY DEF Least

-----------------------------------------------------------------------------
(* What is in the bucket, together with what was taken from it since any    *)
(* request, was in it or was refilled since: at most a full bucket and the  *)
(* time that passed.                                                        *)
BucketBalance ==
  \A i \in 1 .. Len(starts) :
    /\ starts[i] <= refilledAt
    /\ Worth(Len(starts) - i + 1) + tokens
         <= Worth(Burst) + refilledAt - starts[i]

(* The requests before this moment kept to the rate, with Worth for the     *)
(* products.                                                                *)
RateKept ==
  \A i, j \in 1 .. Len(starts) :
    i <= j => Worth(j - i + 1) <= Worth(Burst) + starts[j] - starts[i]

PacingInductive ==
  /\ PacingTypeOK /\ IsFiniteSet(fetching)
  /\ BucketBalance /\ RateKept
  /\ SlotsRespected /\ CooldownRespected /\ CooldownBounded

LEMMA PacingInductiveInit == PacingInit => PacingInductive
<1> SUFFICES ASSUME PacingInit PROVE PacingInductive
  OBVIOUS
<1> USE PacingAssumption
<1>1. Worth(Burst) = Burst * TokenTicks /\ Burst * TokenTicks \in Nat
  BY DEF Worth
<1>2. PacingTypeOK
  BY <1>1 DEF PacingInit, PacingTypeOK
<1>3. IsFiniteSet(fetching) /\ Cardinality(fetching) = 0
  BY FS_EmptySet DEF PacingInit
<1>4. BucketBalance /\ RateKept
  BY DEF PacingInit, BucketBalance, RateKept
<1>5. SlotsRespected
  BY <1>3 DEF PacingInit, SlotsRespected
<1>6. CooldownRespected /\ CooldownBounded
  BY DEF PacingInit, CooldownRespected, CooldownBounded, Range
<1> QED
  BY <1>2, <1>3, <1>4, <1>5, <1>6 DEF PacingInductive

(* A token that is taken leaves the balance right for the requests before   *)
(* and for the one that starts now.                                         *)
LEMMA AcquireTokenBalances ==
  ASSUME PacingInductive, AcquireToken
  PROVE  /\ tokens' \in 0 .. Burst * TokenTicks
         /\ starts' \in Seq(Nat)
         /\ BucketBalance' /\ RateKept'
<1> USE PacingAssumption DEF PacingInductive, PacingTypeOK
<1> DEFINE n == Len(starts)
<1>1. /\ Refilled \in Int /\ Refilled <= Burst * TokenTicks
      /\ Refilled <= tokens + (now - refilledAt)
  BY LeastProperties DEF Refilled
<1>2. TokenTicks <= Refilled /\ tokens' = Refilled - TokenTicks
  BY DEF AcquireToken, TokenReady
<1>3. tokens' \in 0 .. Burst * TokenTicks
  BY <1>1, <1>2
<1>4. /\ starts' \in Seq(Nat) /\ Len(starts') = n + 1 /\ n \in Nat
      /\ starts'[n + 1] = now
      /\ \A i \in 1 .. n : starts'[i] = starts[i] /\ starts[i] \in Nat
  <2>1. starts \in Seq(Nat) /\ now \in Nat /\ starts' = Append(starts, now)
    BY DEF AcquireToken
  <2> HIDE DEF PacingInductive, PacingTypeOK
  <2> QED
    BY <2>1
<1>5. Worth(Burst) = Burst * TokenTicks /\ Worth(Burst) \in Int
  BY DEF Worth
<1>10. /\ now \in Nat /\ refilledAt \in Nat /\ refilledAt <= now
      /\ tokens \in Nat /\ TokenTicks \in Nat /\ Refilled \in Int
      /\ tokens' \in Nat /\ tokens' = Refilled - TokenTicks
      /\ Refilled <= tokens + (now - refilledAt)
      /\ Worth(Burst) \in Int /\ Refilled <= Worth(Burst)
  BY <1>1, <1>2, <1>3, <1>5
<1>11. BucketBalance /\ RateKept
  OBVIOUS
<1> HIDE PacingAssumption DEF PacingInductive, PacingTypeOK
<1>6. ASSUME NEW i \in 1 .. n + 1
      PROVE  /\ starts'[i] \in Nat /\ starts'[i] <= now
             /\ Worth((n + 1) - i + 1) + tokens' <= Worth(Burst) + now - starts'[i]
  <2>1. CASE i = n + 1
    <3>1. Worth((n + 1) - i + 1) = TokenTicks
      BY <2>1, <1>4, WorthProperties
    <3>2. starts'[i] = now
      BY <2>1, <1>4
    <3> QED
      BY <3>1, <3>2, <1>4, <1>10
  <2>2. CASE i \in 1 .. n
    <3>1. /\ starts'[i] = starts[i] /\ starts[i] \in Nat
          /\ starts[i] <= refilledAt
          /\ Worth(n - i + 1) + tokens <= Worth(Burst) + refilledAt - starts[i]
      BY <2>2, <1>4, <1>11 DEF BucketBalance
    <3>2. n - i + 1 \in Int /\ (n + 1) - i + 1 = (n - i + 1) + 1
      BY <1>4
    <3>3. /\ Worth((n + 1) - i + 1) = Worth(n - i + 1) + TokenTicks
          /\ Worth(n - i + 1) \in Int
      BY <3>2, WorthProperties
    <3> DEFINE taken == Worth(n - i + 1)
               full  == Worth(Burst)
               was   == starts[i]
               level == Refilled
    <3>4. /\ taken \in Int /\ full \in Int /\ was \in Nat /\ level \in Int
          /\ taken + tokens <= full + refilledAt - was
          /\ level <= tokens + (now - refilledAt)
          /\ tokens' = level - TokenTicks
          /\ Worth((n + 1) - i + 1) = taken + TokenTicks
          /\ was <= refilledAt /\ starts'[i] = was
      BY <3>1, <3>3, <1>10
    <3>7. /\ now \in Nat /\ refilledAt \in Nat /\ refilledAt <= now
          /\ tokens \in Nat /\ TokenTicks \in Nat
      BY <1>10
    <3> HIDE DEF taken, full, was, level
    <3>5. /\ taken + level <= full + now - was
          /\ (taken + TokenTicks) + (level - TokenTicks) = taken + level
      BY <3>4, <3>7
    <3>6. starts'[i] \in Nat /\ starts'[i] <= now
      BY <3>4, <3>7
    <3> QED
      BY <3>4, <3>5, <3>6 DEF full
  <2> QED
    BY <2>1, <2>2, <1>4
<1>7. BucketBalance'
  BY <1>4, <1>6 DEF BucketBalance, AcquireToken, Worth
<1>8. ASSUME NEW i \in 1 .. n + 1, NEW j \in 1 .. n + 1, i <= j
      PROVE  Worth(j - i + 1) <= Worth(Burst) + starts'[j] - starts'[i]
  <2>1. CASE j = n + 1
    <3>1. Worth(j - i + 1) \in Int
      BY <1>4, WorthProperties
    <3>2. starts'[j] = now
      BY <2>1, <1>4
    <3>3. /\ starts'[i] \in Nat
          /\ Worth(j - i + 1) + tokens' <= Worth(Burst) + now - starts'[i]
      BY <2>1, <1>6
    <3> QED
      BY <3>1, <3>2, <3>3, <1>10
  <2>2. CASE j \in 1 .. n
    <3>1. i \in 1 .. n
      BY <2>2, <1>4, <1>8
    <3>2. Worth(j - i + 1) <= Worth(Burst) + starts[j] - starts[i]
      BY <2>2, <3>1, <1>8, <1>11 DEF RateKept
    <3> QED
      BY <2>2, <3>1, <3>2, <1>4
  <2> QED
    BY <2>1, <2>2, <1>4
<1>9. RateKept'
  BY <1>4, <1>8 DEF RateKept, Worth
<1> QED
  BY <1>3, <1>4, <1>7, <1>9

(* The other steps of the limiter and of time leave the balance right.      *)
LEMMA WaitForTokenBalances ==
  ASSUME PacingInductive, WaitForToken
  PROVE  tokens' \in 0 .. Burst * TokenTicks /\ BucketBalance' /\ RateKept'
<1> USE PacingAssumption DEF PacingInductive, PacingTypeOK
<1>1. /\ Refilled \in Int /\ Refilled >= 0
      /\ Refilled <= Burst * TokenTicks
      /\ Refilled <= tokens + (now - refilledAt)
  <2>1. /\ Burst * TokenTicks \in Nat
        /\ tokens + (now - refilledAt) \in Nat
    OBVIOUS
  <2> QED
    BY <2>1 DEF Refilled, Least
<1>2. /\ tokens' = Refilled /\ refilledAt' = now /\ starts' = starts
      /\ UNCHANGED now
  BY DEF WaitForToken
<1>3. /\ now \in Nat /\ refilledAt \in Nat /\ refilledAt <= now
      /\ tokens \in Nat /\ Worth(Burst) \in Int /\ Len(starts) \in Nat
      /\ \A i \in 1 .. Len(starts) : starts[i] \in Nat
  <2>1. /\ now \in Nat /\ refilledAt \in Nat /\ refilledAt <= now
        /\ tokens \in Nat /\ starts \in Seq(Nat) /\ Burst \in Int
    OBVIOUS
  <2> HIDE PacingAssumption DEF PacingInductive, PacingTypeOK
  <2>2. Worth(Burst) \in Int
    BY <2>1, WorthProperties
  <2> QED
    BY <2>1, <2>2
<1>4. BucketBalance /\ RateKept
  OBVIOUS
<1>5. tokens' \in 0 .. Burst * TokenTicks
  BY <1>1, <1>2
<1> HIDE PacingAssumption DEF PacingInductive, PacingTypeOK
<1>6. ASSUME NEW i \in 1 .. Len(starts)
      PROVE  /\ starts[i] <= now
             /\ Worth(Len(starts) - i + 1) + Refilled
                  <= Worth(Burst) + now - starts[i]
  <2>1. /\ starts[i] <= refilledAt
        /\ Worth(Len(starts) - i + 1) + tokens
             <= Worth(Burst) + refilledAt - starts[i]
    BY <1>4 DEF BucketBalance
  <2>2. Worth(Len(starts) - i + 1) \in Int
    BY <1>3, WorthProperties
  <2> DEFINE taken == Worth(Len(starts) - i + 1)
             full  == Worth(Burst)
             was   == starts[i]
             level == Refilled
  <2>3. /\ taken \in Int /\ full \in Int /\ was \in Nat /\ level \in Int
        /\ was <= refilledAt /\ taken + tokens <= full + refilledAt - was
        /\ level <= tokens + (now - refilledAt)
    BY <2>1, <2>2, <1>1, <1>3
  <2>4. /\ now \in Nat /\ refilledAt \in Nat /\ refilledAt <= now
        /\ tokens \in Nat
    BY <1>3
  <2> HIDE DEF taken, full, was, level
  <2>5. was <= now /\ taken + level <= full + now - was
    BY <2>3, <2>4
  <2> QED
    BY <2>5 DEF taken, full, was, level
<1>7. BucketBalance'
  BY <1>2, <1>6 DEF BucketBalance, Worth
<1>8. RateKept'
  BY <1>2, <1>4 DEF RateKept, Worth
<1> QED
  BY <1>5, <1>7, <1>8

LEMMA BalanceStands ==
  ASSUME BucketBalance, RateKept, UNCHANGED << tokens, refilledAt, starts >>
  PROVE  BucketBalance' /\ RateKept'
BY DEF BucketBalance, RateKept, Worth

-----------------------------------------------------------------------------
(* One step per action of the loop.                                         *)
LEMMA BeginCycleKeeps == ASSUME PacingInductive, BeginCycle PROVE PacingInductive'
<1> USE DEF PacingInductive, BeginCycle
<1>1. PacingTypeOK'
  BY DEF PacingTypeOK
<1>2. CooldownRespected'
  BY DEF CooldownRespected, Due, Range
<1>3. CooldownBounded' /\ SlotsRespected'
  BY DEF CooldownBounded, SlotsRespected
<1> QED
  BY <1>1, <1>2, <1>3, BalanceStands

LEMMA TakeSlotKeeps == ASSUME PacingInductive, TakeSlot PROVE PacingInductive'
<1> USE DEF PacingInductive
<1>1. PICK s \in waiting : /\ waiting' = waiting \ {s}
                           /\ pacing' = Append(pacing, s)
  BY DEF TakeSlot
<1>2. /\ s \in Symbols /\ pacing \in Seq(Symbols)
      /\ UNCHANGED << now, wakeAt, fetching, outcomes, tokens, refilledAt,
                      holdUntil, penalty, nextOk, starts >>
  BY DEF TakeSlot, PacingTypeOK
<1>3. pacing' \in Seq(Symbols) /\ Range(pacing') = Range(pacing) \cup {s}
  BY <1>1, <1>2, AppendProperties, AppendRange
<1>4. PacingTypeOK'
  BY <1>1, <1>2, <1>3 DEF PacingTypeOK
<1>5. CooldownRespected'
  BY <1>1, <1>2, <1>3 DEF CooldownRespected
<1>6. SlotsRespected'
  <2>1. Cardinality(fetching) \in Nat
    BY FS_CardinalityType
  <2>2. Len(pacing') = Len(pacing) + 1 /\ Len(pacing) \in Nat
    BY <1>1, <1>2
  <2> QED
    BY <1>2, <2>1, <2>2, PacingAssumption DEF TakeSlot, SlotFree, SlotsRespected
<1>7. CooldownBounded'
  BY <1>2 DEF CooldownBounded
<1> QED
  BY <1>2, <1>4, <1>5, <1>6, <1>7, BalanceStands

LEMMA AcquireTokenKeeps == ASSUME PacingInductive, AcquireToken PROVE PacingInductive'
<1> USE DEF PacingInductive
<1>1. /\ Head(pacing) \in Range(pacing)
      /\ Range(pacing) \subseteq Symbols
      /\ Range(Tail(pacing)) \subseteq Range(pacing)
      /\ Tail(pacing) \in Seq(Symbols)
      /\ Len(Tail(pacing)) = Len(pacing) - 1 /\ Len(pacing) \in Nat
  <2>1. pacing \in Seq(Symbols) /\ pacing # << >>
    BY DEF AcquireToken, PacingTypeOK
  <2>2. Range(pacing) \subseteq Symbols
    BY <2>1 DEF Range
  <2> QED
    BY <2>1, <2>2, TailProperties
<1>2. /\ tokens' \in 0 .. Burst * TokenTicks /\ starts' \in Seq(Nat)
      /\ BucketBalance' /\ RateKept'
  BY AcquireTokenBalances
<1>3. PacingTypeOK'
  BY <1>1, <1>2 DEF AcquireToken, PacingTypeOK
<1>4. /\ IsFiniteSet(fetching') /\ Cardinality(fetching) \in Nat
      /\ Cardinality(fetching') \in Nat
      /\ Cardinality(fetching') <= Cardinality(fetching) + 1
  <2>1. fetching' = fetching \cup {Head(pacing)} /\ IsFiniteSet(fetching)
    BY DEF AcquireToken
  <2>2. Cardinality(fetching) \in Nat
    BY FS_CardinalityType
  <2>3. /\ IsFiniteSet(fetching')
        /\ Cardinality(fetching') =
             IF Head(pacing) \in fetching THEN Cardinality(fetching)
                                         ELSE Cardinality(fetching) + 1
    BY <2>1, FS_AddElement
  <2> QED
    BY <2>2, <2>3
<1>5. SlotsRespected'
  BY <1>1, <1>4, PacingAssumption DEF AcquireToken, SlotsRespected
<1>6. CooldownRespected'
  BY <1>1 DEF AcquireToken, CooldownRespected
<1>7. CooldownBounded'
  BY DEF AcquireToken, CooldownBounded
<1> QED
  BY <1>2, <1>3, <1>4, <1>5, <1>6, <1>7

LEMMA WaitForTokenKeeps == ASSUME PacingInductive, WaitForToken PROVE PacingInductive'
<1> USE DEF PacingInductive
<1>1. tokens' \in 0 .. Burst * TokenTicks /\ BucketBalance' /\ RateKept'
  BY WaitForTokenBalances
<1>2. holdUntil' \in Nat
  <2>1. /\ now \in Nat /\ TokenTicks \in Nat /\ Refilled \in Int
        /\ ~ TokenReady /\ holdUntil' = now + (TokenTicks - Refilled)
    BY LeastProperties, PacingAssumption
       DEF WaitForToken, PacingTypeOK, Refilled
  <2> QED
    BY <2>1 DEF TokenReady
<1>3. PacingTypeOK'
  BY <1>1, <1>2 DEF WaitForToken, PacingTypeOK
<1>4. SlotsRespected' /\ CooldownRespected' /\ CooldownBounded'
  BY DEF WaitForToken, SlotsRespected, CooldownRespected, CooldownBounded
<1>5. IsFiniteSet(fetching')
  BY DEF WaitForToken
<1> QED
  BY <1>1, <1>3, <1>4, <1>5

LEMMA AnswerKeeps == ASSUME PacingInductive, Answer PROVE PacingInductive'
<1> USE DEF PacingInductive
<1>1. PICK s \in fetching, limited \in BOOLEAN :
        /\ fetching' = fetching \ {s}
        /\ DOMAIN outcomes' = DOMAIN outcomes \cup {s}
  BY DEF Answer
<1>2. /\ UNCHANGED << now, wakeAt, waiting, pacing, tokens, refilledAt,
                      holdUntil, penalty, nextOk, starts >>
      /\ s \in Symbols
  BY DEF Answer, PacingTypeOK
<1>3. DOMAIN outcomes' \subseteq Symbols
  BY <1>1, <1>2 DEF PacingTypeOK
<1>4. PacingTypeOK'
  BY <1>1, <1>2, <1>3 DEF PacingTypeOK
<1>5. /\ IsFiniteSet(fetching') /\ Cardinality(fetching) \in Nat
      /\ Cardinality(fetching') \in Nat
      /\ Cardinality(fetching') <= Cardinality(fetching)
  <2>1. IsFiniteSet(fetching) /\ Cardinality(fetching) \in Nat
    BY FS_CardinalityType
  <2>2. IsFiniteSet(fetching') /\ Cardinality(fetching') \in Nat
    BY <1>1, <2>1, FS_RemoveElement, FS_CardinalityType
  <2> QED
    BY <1>1, <2>1, <2>2, FS_RemoveElement
<1>6. SlotsRespected'
  BY <1>2, <1>5, PacingAssumption DEF SlotsRespected, PacingTypeOK
<1>7. CooldownRespected' /\ CooldownBounded'
  BY <1>1, <1>2 DEF CooldownRespected, CooldownBounded
<1> QED
  BY <1>2, <1>4, <1>5, <1>6, <1>7, BalanceStands

(* The penalty of a symbol that is throttled again, and the end of its      *)
(* cooldown.                                                                *)
LEMMA NextPenaltyProperties ==
  ASSUME NEW p \in 0 .. MaxBackoff
  PROVE  NextPenalty(p) \in 1 .. MaxBackoff
BY PacingAssumption DEF NextPenalty, Least

LEMMA EndCycleKeeps == ASSUME PacingInductive, EndCycle PROVE PacingInductive'
<1> USE DEF PacingInductive
<1>1. ASSUME NEW s \in Symbols
      PROVE  /\ penalty'[s] \in 0 .. MaxBackoff /\ nextOk'[s] \in Nat
             /\ nextOk'[s] <= now + MaxBackoff
             /\ penalty'[s] = 0 <=> nextOk'[s] = 0
  <2>1. /\ penalty[s] \in 0 .. MaxBackoff /\ nextOk[s] \in Nat
        /\ nextOk[s] <= now + MaxBackoff
        /\ penalty[s] = 0 <=> nextOk[s] = 0
        /\ now \in Nat /\ MaxBackoff \in Nat
    BY PacingAssumption DEF PacingTypeOK, CooldownBounded
  <2>2. NextPenalty(penalty[s]) \in 1 .. MaxBackoff
    BY <2>1, NextPenaltyProperties
  <2>3. /\ penalty'[s] = IF s \notin DOMAIN outcomes THEN penalty[s]
                         ELSE IF outcomes[s] THEN NextPenalty(penalty[s]) ELSE 0
        /\ nextOk'[s] = IF s \notin DOMAIN outcomes THEN nextOk[s]
                        ELSE IF outcomes[s] THEN now + penalty'[s] ELSE 0
    BY DEF EndCycle
  <2>4. CASE s \notin DOMAIN outcomes
    BY <2>1, <2>3, <2>4
  <2>5. CASE s \in DOMAIN outcomes /\ outcomes[s]
    BY <2>1, <2>2, <2>3, <2>5
  <2>6. CASE s \in DOMAIN outcomes /\ ~ outcomes[s]
    BY <2>1, <2>3, <2>6
  <2> QED
    BY <2>4, <2>5, <2>6
<1>2. DOMAIN penalty' = Symbols /\ penalty' = [s \in Symbols |-> penalty'[s]]
  BY DEF EndCycle
<1>3. DOMAIN nextOk' = Symbols /\ nextOk' = [s \in Symbols |-> nextOk'[s]]
  BY DEF EndCycle
<1>4. PacingTypeOK'
  BY <1>1, <1>2, <1>3, PacingAssumption DEF EndCycle, PacingTypeOK
<1>5. CooldownBounded'
  BY <1>1 DEF EndCycle, CooldownBounded
<1>6. CooldownRespected' /\ SlotsRespected'
  BY DEF EndCycle, AllReturned, CooldownRespected, SlotsRespected, Range
<1>7. IsFiniteSet(fetching') /\ UNCHANGED << tokens, refilledAt, starts >>
  BY DEF EndCycle
<1> QED
  BY <1>4, <1>5, <1>6, <1>7, BalanceStands

LEMMA PacingTickKeeps == ASSUME PacingInductive, PacingTick PROVE PacingInductive'
<1> USE DEF PacingInductive, PacingTick
<1>1. PacingTypeOK'
  BY DEF PacingTypeOK
<1>2. SlotsRespected'
  BY DEF SlotsRespected
<1>3. CooldownRespected'
  <2> SUFFICES ASSUME NEW s \in waiting \cup Range(pacing) \cup fetching
               PROVE  now' >= nextOk[s]
    BY DEF CooldownRespected
  <2>1. now >= nextOk[s]
    BY DEF CooldownRespected
  <2>2. s \in Symbols /\ nextOk[s] \in Nat /\ now \in Nat
    BY DEF PacingTypeOK, Range
  <2> QED
    BY <2>1, <2>2
<1>4. CooldownBounded'
  BY PacingAssumption DEF CooldownBounded, PacingTypeOK
<1> QED
  BY <1>1, <1>2, <1>3, <1>4, BalanceStands

LEMMA PacingInductiveStep == PacingInductive /\ [PacingNext]_pacingVars => PacingInductive'
<1> SUFFICES ASSUME PacingInductive, [PacingNext]_pacingVars PROVE PacingInductive'
  OBVIOUS
<1>1. CASE UNCHANGED pacingVars
  BY <1>1, BalanceStands
     DEF pacingVars, PacingInductive, PacingTypeOK, SlotsRespected,
         CooldownRespected, CooldownBounded
<1> QED
  BY <1>1, BeginCycleKeeps, TakeSlotKeeps, AcquireTokenKeeps,
     WaitForTokenKeeps, AnswerKeeps, EndCycleKeeps, PacingTickKeeps
     DEF PacingNext, PacingStep

LEMMA PacingInductiveInvariant == PacingSpec => []PacingInductive
BY PacingInductiveInit, PacingInductiveStep, PTL DEF PacingSpec

-----------------------------------------------------------------------------
(* The variables of a paced producer keep their types, and the bucket its   *)
(* bound, for every instance of the constants.                              *)
THEOREM PacingTypeCorrect == PacingSpec => []PacingTypeOK
<1>1. PacingInductive => PacingTypeOK
  BY DEF PacingInductive
<1> QED
  BY <1>1, PacingInductiveInvariant, PTL

(* Whatever the provider answers and however long it takes: never more      *)
(* requests in a window than a full bucket and the refill of the window,    *)
(* never more at once than slots, none in a cooldown, and no cooldown       *)
(* longer than the longest backoff.                                         *)
THEOREM RequestsArePaced == PacingSpec => []RequestsPaced
<1>1. PacingInductive => StartsWithinRate
  <2> SUFFICES ASSUME PacingInductive, NEW i \in 1 .. Len(starts),
                      NEW j \in 1 .. Len(starts), i <= j
               PROVE  TokenTicks * ((j - i + 1) - Burst) <= starts[j] - starts[i]
    BY DEF StartsWithinRate
  <2>1. Worth(j - i + 1) <= Worth(Burst) + starts[j] - starts[i]
    BY DEF PacingInductive, RateKept
  <2>2. /\ starts \in Seq(Nat) /\ starts[i] \in Nat /\ starts[j] \in Nat
        /\ i \in Int /\ j \in Int /\ Burst \in Int
    <3>1. starts \in Seq(Nat)
      BY DEF PacingInductive, PacingTypeOK
    <3>2. Burst \in Int
      BY PacingAssumption
    <3> QED
      BY <3>1, <3>2
  <2> DEFINE taken == j - i + 1
             gap   == starts[j] - starts[i]
  <2>3. /\ taken \in Int /\ gap \in Int /\ Burst \in Int
        /\ Worth(taken) <= Worth(Burst) + gap
    <3>1. Worth(Burst) \in Int
      BY <2>2, WorthProperties
    <3> QED
      BY <2>1, <2>2, <3>1
  <2>4. Worth(taken - Burst) <= gap
    <3> HIDE DEF taken, gap
    <3>1. /\ Worth(taken - Burst) = Worth(taken) - Worth(Burst)
          /\ Worth(taken) \in Int /\ Worth(Burst) \in Int
      BY <2>3, WorthProperties
    <3> QED
      BY <2>3, <3>1
  <2>5. TokenTicks * (taken - Burst) <= gap
    <3> HIDE DEF taken, gap
    <3> QED
      BY <2>4 DEF Worth
  <2> QED
    BY <2>5
<1>2. PacingInductive => RequestsPaced
  BY <1>1 DEF PacingInductive, RequestsPaced
<1> QED
  BY <1>2, PacingInductiveInvariant, PTL

-----------------------------------------------------------------------------
(* The registry: how long the list can be old, with what is left of the     *)
(* pause counted in.                                                        *)
LongestPause == IF RefreshInterval > RetryMax THEN RefreshInterval ELSE RetryMax

RegistryInductive ==
  /\ napLeft \in Nat /\ staleFor \in Nat
  /\ retryDelay \in Nat /\ retryDelay <= RetryMax
  /\ staleFor <= LongestPause
  /\ refresher = "sleeping" => staleFor + napLeft <= LongestPause
  /\ refresher = "reading" /\ rows # {} => staleFor = 0
  /\ refresher \in {"new", "sleeping"} => rows = {}

LEMMA RegistryInductiveInvariant == RegistrySpec => []RegistryInductive
<1> USE RegistryAssumption DEF RegistryInductive, LongestPause
<1>1. RegistryInit => RegistryInductive
  BY DEF RegistryInit
<1>2. RegistryInductive /\ [RegistryNext]_registryVars => RegistryInductive'
  <2> SUFFICES ASSUME RegistryInductive, [RegistryNext]_registryVars
               PROVE  RegistryInductive'
    OBVIOUS
  <2>1. CASE EditSymbols \/ DatabaseChanges \/ StartRegistry \/ StopRegistry
    BY <2>1 DEF EditSymbols, DatabaseChanges, StartRegistry, StopRegistry
  <2>2. CASE ReadSymbols
    BY <2>2 DEF ReadSymbols
  <2>3. CASE PublishSnapshot
    BY <2>3 DEF PublishSnapshot
  <2>4. CASE RefreshFails
    BY <2>4 DEF RefreshFails, NextRetry
  <2>5. CASE EndNap
    BY <2>5 DEF EndNap
  <2>6. CASE RegistryTick
    BY <2>6 DEF RegistryTick
  <2>7. CASE UNCHANGED registryVars
    BY <2>7 DEF registryVars
  <2> QED
    BY <2>1, <2>2, <2>3, <2>4, <2>5, <2>6, <2>7 DEF RegistryNext
<1> QED
  BY <1>1, <1>2, PTL DEF RegistrySpec

(* However many refreshes fail in a row and whenever the database comes     *)
(* back, no poller works with a list older than the longest pause.          *)
THEOREM RegistryStaysFresh == RegistrySpec => []StalenessBounded
<1>1. RegistryInductive => StalenessBounded
  BY DEF RegistryInductive, LongestPause, StalenessBounded
<1> QED
  BY <1>1, RegistryInductiveInvariant, PTL

-----------------------------------------------------------------------------
(* The feeds: what sorting an interval of posts, handling a page and        *)
(* remembering an id do.                                                    *)
LEMMA OldestFirstProperties ==
  ASSUME NEW lo \in Int, NEW hi \in Int
  PROVE  LET q == OldestFirst(lo .. hi)
         IN  /\ q \in Seq(lo .. hi)
             /\ \A i \in 1 .. Len(q) : i + 1 \in 1 .. Len(q) => q[i + 1] = q[i] + 1
             /\ q # << >> => \A x \in lo .. hi : q[1] <= x
<1> DEFINE S == lo .. hi
           n == Cardinality(S)
           Increasing(q) == \A i, j \in DOMAIN q : i < j => q[i] < q[j]
           q == OldestFirst(S)
<1>1. IsFiniteSet(S) /\ n = IF lo > hi THEN 0 ELSE hi - lo + 1
  BY FS_Interval
<1>2. \E f \in [1 .. n -> S] : Increasing(f)
  <2>1. [i \in 1 .. n |-> lo + i - 1] \in [1 .. n -> S]
    BY <1>1
  <2>2. Increasing([i \in 1 .. n |-> lo + i - 1])
    BY <1>1
  <2> QED
    BY <2>1, <2>2
<1>3. q \in [1 .. n -> S] /\ Increasing(q)
  <2>1. q = CHOOSE f \in [1 .. n -> S] : Increasing(f)
    BY DEF OldestFirst
  <2> HIDE DEF q, n, S, Increasing
  <2> QED
    BY <1>2, <2>1
<1> HIDE DEF q
<1>4. n \in Nat
  BY <1>1
<1>5. q \in Seq(S) /\ Len(q) = n
  BY <1>3, <1>4
<1>6. \A i, j \in 1 .. n : i < j => q[i] < q[j]
  BY <1>3
<1>7. \A i \in 1 .. n : q[i] \in Int
  BY <1>3
<1>8. q \in Injection(1 .. n, S)
  <2>1. \A i, j \in 1 .. n : q[i] = q[j] => i = j
    BY <1>4, <1>6, <1>7
  <2> QED
    BY <1>3, <2>1 DEF Injection, IsInjective
<1>9. \A x \in S : \E k \in 1 .. n : q[k] = x
  <2>1. Cardinality(1 .. n) = n /\ IsFiniteSet(1 .. n)
    BY <1>4, FS_Interval
  <2>2. q \in Surjection(1 .. n, S)
    BY <1>1, <1>8, <2>1, FS_Injection
  <2> QED
    BY <2>2 DEF Surjection
<1>10. ASSUME NEW i \in 1 .. n, i + 1 \in 1 .. n PROVE q[i + 1] = q[i] + 1
  <2>1. q[i] \in S /\ q[i + 1] \in S /\ q[i] < q[i + 1]
    BY <1>3, <1>4, <1>6, <1>10
  <2>2. SUFFICES ASSUME q[i] + 1 < q[i + 1] PROVE FALSE
    BY <2>1
  <2>3. PICK k \in 1 .. n : q[k] = q[i] + 1
    BY <1>9, <2>1, <2>2
  <2>4. q[i] \in Int /\ q[i] < q[k] /\ q[k] < q[i + 1]
    BY <2>1, <2>2, <2>3
  <2>5. \/ k < i \/ k = i \/ k = i + 1 \/ i + 1 < k
    BY <1>4
  <2> QED
    BY <2>4, <2>5, <1>6, <1>7, <1>10
<1>11. ASSUME q # << >>, NEW x \in S PROVE q[1] <= x
  <2>1. PICK k \in 1 .. n : q[k] = x
    BY <1>9
  <2>2. k = 1 \/ 1 < k
    BY <1>4
  <2>3. 1 \in 1 .. n
    BY <1>4, <2>1
  <2> QED
    BY <1>6, <1>7, <2>1, <2>2, <2>3
<1> QED
  BY <1>5, <1>10, <1>11 DEF q

LEMMA NewestFirstProperties ==
  ASSUME NEW lo \in Int, NEW hi \in Int
  PROVE  LET q == NewestFirst(lo .. hi)
         IN  /\ q \in Seq(lo .. hi)
             /\ Len(q) = IF lo > hi THEN 0 ELSE hi - lo + 1
             /\ \A i, j \in 1 .. Len(q) : i < j => q[i] > q[j]
             /\ Range(q) = lo .. hi
<1> DEFINE S == lo .. hi
           n == Cardinality(S)
           Decreasing(q) == \A i, j \in DOMAIN q : i < j => q[i] > q[j]
           q == NewestFirst(S)
<1>1. IsFiniteSet(S) /\ n = IF lo > hi THEN 0 ELSE hi - lo + 1
  BY FS_Interval
<1>2. \E f \in [1 .. n -> S] : Decreasing(f)
  <2>1. [i \in 1 .. n |-> hi - i + 1] \in [1 .. n -> S]
    BY <1>1
  <2>2. Decreasing([i \in 1 .. n |-> hi - i + 1])
    BY <1>1
  <2> QED
    BY <2>1, <2>2
<1>3. q \in [1 .. n -> S] /\ Decreasing(q)
  <2>1. q = CHOOSE f \in [1 .. n -> S] : Decreasing(f)
    BY DEF NewestFirst
  <2> HIDE DEF q, n, S, Decreasing
  <2> QED
    BY <1>2, <2>1
<1> HIDE DEF q
<1>4. n \in Nat
  BY <1>1
<1>5. q \in Seq(S) /\ Len(q) = n
  BY <1>3, <1>4
<1>6. Range(q) = S
  <2>1. \A i, j \in 1 .. n : i < j => q[i] > q[j]
    BY <1>3
  <2>2. \A i \in 1 .. n : q[i] \in Int
    BY <1>3
  <2>3. \A i, j \in 1 .. n : q[i] = q[j] => i = j
    BY <1>4, <2>1, <2>2
  <2>4. q \in Injection(1 .. n, S)
    BY <1>3, <2>3 DEF Injection, IsInjective
  <2>5. Cardinality(1 .. n) = n /\ IsFiniteSet(1 .. n)
    BY <1>4, FS_Interval
  <2>6. q \in Surjection(1 .. n, S)
    BY <1>1, <2>4, <2>5, FS_Injection
  <2> QED
    BY <1>3, <2>6 DEF Surjection, Range
<1> QED
  BY <1>1, <1>3, <1>5, <1>6 DEF q

(* An id that is new to the deque pushes the oldest one out of a full one.  *)
LEMMA RememberProperties ==
  ASSUME NEW S, NEW q \in Seq(S), NEW x \in S, Len(q) <= DequeSize
  PROVE  LET r == Remember(Append(q, x))
         IN  /\ Len(q) < DequeSize => r = Append(q, x)
             /\ Len(q) = DequeSize =>
                  /\ r \in Seq(S) /\ Len(r) = DequeSize
                  /\ \A i \in 1 .. DequeSize - 1 : r[i] = q[i + 1]
                  /\ r[DequeSize] = x
<1> DEFINE a == Append(q, x)
           r == Remember(a)
<1>1. DequeSize \in Nat \ {0}
  BY FeedAssumption
<1>2. /\ a \in Seq(S) /\ Len(a) = Len(q) + 1 /\ Len(q) \in Nat
      /\ \A i \in 1 .. Len(q) : a[i] = q[i]
      /\ a[Len(q) + 1] = x
  BY AppendProperties
<1>3. CASE Len(q) < DequeSize
  BY <1>1, <1>2, <1>3 DEF Remember
<1>4. CASE Len(q) = DequeSize
  <2>1. r = SubSeq(a, 2, DequeSize + 1)
    BY <1>1, <1>2, <1>4 DEF Remember
  <2> HIDE DEF a, r
  <2>2. r \in Seq(S) /\ Len(r) = DequeSize
    BY <1>1, <1>2, <1>4, <2>1, SubSeqProperties
  <2>3. \A i \in 1 .. DequeSize : r[i] = a[i + 1]
    BY <1>1, <1>2, <1>4, <2>1, SubSeqProperties
  <2> QED
    BY <1>1, <1>2, <1>4, <2>2, <2>3 DEF a, r
<1> QED
  BY <1>1, <1>2, <1>3, <1>4

-----------------------------------------------------------------------------
FeedTyped ==
  /\ feed \in {"none", "bluesky", "stocktwits", "reddit"}
  /\ newest \in 0 .. LastPost /\ cursor \in 0 .. newest
  /\ page \in Seq(Post) /\ deque \in Seq(Post) /\ sent \in Seq(Post)
  /\ Range(page) \cup Range(deque) \cup Range(sent) \subseteq 1 .. newest
  /\ Len(deque) <= DequeSize
  /\ polling \in BOOLEAN /\ feedFaults \in Nat
  /\ missed \cup hidden \subseteq Post

(* A feed that is not polled has no page; one that has not started has      *)
(* nothing to go by, nor has it published anything before a fault.          *)
Unstarted ==
  /\ ~ polling => page = << >>
  /\ feed = "none" => /\ ~ polling /\ cursor = 0 /\ deque = << >>
                      /\ feedFaults = 0 => sent = << >>

(* What is left of a page of stocktwits continues at the cursor, apart from *)
(* posts that were missed.                                                  *)
CursorAtPage ==
  feed = "stocktwits" =>
    /\ \A i \in 1 .. Len(page) : i + 1 \in 1 .. Len(page) => page[i + 1] = page[i] + 1
    /\ page # << >> =>
         /\ cursor < page[1]
         /\ \A p \in cursor + 1 .. page[1] - 1 : p \in Range(sent) \cup missed

(* What is left of a page of bluesky goes from new to old and has every     *)
(* post between the cursor and its first one that was not missed.           *)
PageFromNewest ==
  feed = "bluesky" =>
    /\ \A i, j \in 1 .. Len(page) : i < j => page[i] > page[j]
    /\ page # << >> => \A p \in cursor + 1 .. page[1] : p \in Range(page) \cup missed

(* Without a fault the cursor is at or past everything published, which is  *)
(* in order.                                                                *)
SentBehindCursor ==
  feed \in {"bluesky", "stocktwits"} /\ feedFaults = 0 =>
    /\ Range(sent) \subseteq 1 .. cursor
    /\ \A i, j \in 1 .. Len(sent) : i < j => sent[i] < sent[j]

(* The deque has every id once, and one that was put in later is older by   *)
(* less than a page; so is whatever the page still has.                     *)
DequeInPages ==
  feed = "reddit" =>
    /\ \A i, j \in 1 .. Len(deque) :
         i < j => deque[i] # deque[j] /\ deque[j] > deque[i] - PageSize
    /\ \A q \in Range(page) : \A p \in Range(deque) \cup Range(page) : q > p - PageSize

(* Without a fault a published post is in the deque as long as it may be    *)
(* listed again.                                                            *)
ListedRemembered ==
  feed = "reddit" /\ feedFaults = 0 =>
    /\ IsInjective(sent)
    /\ \A p \in Range(sent) :
         p > newest - PageSize \/ p \in Range(page) => p \in Range(deque)

FeedInductive ==
  /\ FeedTyped /\ Unstarted /\ CursorAtPage /\ PageFromNewest /\ SentBehindCursor
  /\ PassedAreAccountedFor /\ DequeInPages /\ ListedRemembered

(* Handling the head of a page keeps the deque in order, and drops no id    *)
(* that may still be listed: within a page of it there are fewer posts than *)
(* the deque has places.                                                    *)
LEMMA KeptProperties ==
  ASSUME FeedInductive, feed = "reddit", page # << >>
  PROVE  LET p == Head(page)
             r == Kept(p)
         IN  /\ r \in Seq(Post) /\ Len(r) <= DequeSize
             /\ Range(r) \subseteq Range(deque) \cup {p} /\ p \in Range(r)
             /\ \A i, j \in 1 .. Len(r) :
                  i < j => r[i] # r[j] /\ r[j] > r[i] - PageSize
             /\ \A x \in Range(deque) :
                  x > newest - PageSize \/ x \in Range(page) => x \in Range(r)
<1> DEFINE p == Head(page)
           r == Kept(p)
           n == Len(deque)
<1>1. /\ p \in Range(page) /\ p \in Post /\ p \in 1 .. newest
      /\ deque \in Seq(Post) /\ n <= DequeSize
      /\ Range(deque) \cup Range(page) \subseteq 1 .. newest
      /\ newest \in Nat
  <2>1. page \in Seq(Post) /\ deque \in Seq(Post) /\ n <= DequeSize
    BY FeedAssumption DEF FeedInductive, FeedTyped, Post
  <2>2. p \in Range(page) /\ p \in Post
    BY <2>1, TailProperties DEF FeedInductive
  <2> QED
    BY <2>1, <2>2, FeedAssumption DEF FeedInductive, FeedTyped, Post
<1>2. DequeSize \in Nat \ {0} /\ PageSize \in Nat \ {0} /\ DequeSize >= 2 * PageSize - 1
  BY FeedAssumption
<1>3. /\ n \in Nat
      /\ \A i \in 1 .. n : /\ deque[i] \in Range(deque) /\ deque[i] \in 1 .. newest
                           /\ deque[i] \in Post
      /\ \A x \in Range(deque) : \E i \in 1 .. n : x = deque[i]
  BY <1>1 DEF Range
<1>4. \A i, j \in 1 .. n : i < j => deque[i] # deque[j] /\ deque[j] > deque[i] - PageSize
  BY DEF FeedInductive, DequeInPages
<1>5. \A q \in Range(page) : \A x \in Range(deque) \cup Range(page) : q > x - PageSize
  BY DEF FeedInductive, DequeInPages
<1> HIDE DEF p, r, n
<1>6. CASE p \in Range(deque)
  <2>1. r = deque
    BY <1>6 DEF Kept, r, p
  <2> QED
    BY <1>1, <1>4, <1>6, <2>1 DEF p, r, n
<1>7. CASE p \notin Range(deque) /\ n < DequeSize
  <2>1. r = Append(deque, p)
    BY <1>1, <1>7, RememberProperties DEF Kept, r, p, n
  <2>2. /\ r \in Seq(Post) /\ Len(r) = n + 1 /\ r[n + 1] = p
        /\ \A i \in 1 .. n : r[i] = deque[i]
    BY <1>1, <2>1, AppendProperties DEF n
  <2>3. Range(r) = Range(deque) \cup {p}
    BY <1>1, <2>1, AppendRange
  <2>4. ASSUME NEW i \in 1 .. n + 1, NEW j \in 1 .. n + 1, i < j
        PROVE  r[i] # r[j] /\ r[j] > r[i] - PageSize
    <3>1. i \in 1 .. n /\ r[i] = deque[i]
      BY <1>3, <2>2, <2>4
    <3>2. CASE j = n + 1
      BY <1>1, <1>3, <1>5, <1>7, <2>2, <3>1, <3>2
    <3>3. CASE j \in 1 .. n
      BY <1>4, <2>2, <2>4, <3>1, <3>3
    <3> QED
      BY <1>3, <3>2, <3>3
  <2> QED
    BY <1>1, <1>2, <1>3, <1>7, <2>2, <2>3, <2>4 DEF p, r, n
<1>8. CASE p \notin Range(deque) /\ n = DequeSize
  <2>1. /\ r \in Seq(Post) /\ Len(r) = n /\ r[n] = p
        /\ \A i \in 1 .. n - 1 : r[i] = deque[i + 1]
    <3>1. r = Remember(Append(deque, p))
      BY <1>8 DEF Kept, r, p
    <3>2. Len(deque) = DequeSize /\ Len(deque) <= DequeSize /\ p \in Post
      BY <1>1, <1>8 DEF n
    <3>3. /\ r \in Seq(Post) /\ Len(r) = DequeSize
          /\ \A i \in 1 .. DequeSize - 1 : r[i] = deque[i + 1]
          /\ r[DequeSize] = p
      <4>1. LET a == Remember(Append(deque, p))
            IN  /\ a \in Seq(Post) /\ Len(a) = DequeSize
                /\ \A i \in 1 .. DequeSize - 1 : a[i] = deque[i + 1]
                /\ a[DequeSize] = p
        BY <1>1, <3>2, RememberProperties
      <4> QED
        BY <3>1, <4>1
    <3> QED
      BY <1>8, <3>3
  <2>2. /\ Range(r) \subseteq Range(deque) \cup {p} /\ p \in Range(r)
        /\ \A i \in 2 .. n : deque[i] \in Range(r)
    <3>1. DOMAIN r = 1 .. n
      BY <2>1
    <3>2. p \in Range(r)
      BY <1>2, <1>3, <1>8, <2>1, <3>1 DEF Range
    <3>3. \A i \in 1 .. n : r[i] \in Range(deque) \cup {p}
      <4> SUFFICES ASSUME NEW i \in 1 .. n PROVE r[i] \in Range(deque) \cup {p}
        OBVIOUS
      <4>1. CASE i = n
        BY <2>1, <4>1
      <4>2. CASE i \in 1 .. n - 1
        BY <1>3, <2>1, <4>2
      <4> QED
        BY <1>3, <4>1, <4>2
    <3>4. \A i \in 2 .. n : i - 1 \in 1 .. n - 1 /\ r[i - 1] = deque[i]
      BY <1>3, <2>1
    <3>5. Range(r) \subseteq Range(deque) \cup {p}
      <4>1. \A y \in Range(r) : \E i \in 1 .. n : y = r[i]
        BY <3>1 DEF Range
      <4> QED
        BY <3>3, <4>1
    <3>6. \A i \in 1 .. n - 1 : r[i] \in Range(r)
      <4>1. \A i \in 1 .. n - 1 : i \in DOMAIN r
        BY <1>3, <3>1
      <4> QED
        BY <4>1 DEF Range
    <3>7. \A i \in 2 .. n : deque[i] \in Range(r)
      BY <3>4, <3>6
    <3> QED
      BY <3>2, <3>5, <3>7
  <2>3. ASSUME NEW i \in 1 .. n, NEW j \in 1 .. n, i < j
        PROVE  r[i] # r[j] /\ r[j] > r[i] - PageSize
    <3>1. i \in 1 .. n - 1 /\ i + 1 \in 1 .. n /\ r[i] = deque[i + 1]
      BY <1>3, <2>1, <2>3
    <3>2. CASE j = n
      BY <1>1, <1>3, <1>5, <1>8, <2>1, <3>1, <3>2
    <3>3. CASE j \in 1 .. n - 1
      <4>1. j + 1 \in 1 .. n /\ r[j] = deque[j + 1] /\ i + 1 < j + 1
        BY <1>3, <2>1, <2>3, <3>3
      <4> QED
        BY <1>4, <3>1, <4>1
    <3> QED
      BY <1>3, <3>2, <3>3
  <2>4. ASSUME deque[1] > newest - PageSize \/ deque[1] \in Range(page) PROVE FALSE
    <3> DEFINE x == deque[1]
               T == ((x - PageSize + 1) .. (x + PageSize - 1)) \ {x}
    <3>1. 1 \in 1 .. n /\ x \in Range(deque) /\ x \in 1 .. newest /\ x \in Int
      BY <1>2, <1>3, <1>8
    <3>2. IsFiniteSet(T) /\ Cardinality(T) = 2 * PageSize - 2
      <4> DEFINE U == (x - PageSize + 1) .. (x + PageSize - 1)
      <4>1. IsFiniteSet(U) /\ Cardinality(U) = 2 * PageSize - 1
        <5>1. /\ x - PageSize + 1 \in Int /\ x + PageSize - 1 \in Int
              /\ ~ (x - PageSize + 1 > x + PageSize - 1)
              /\ (x + PageSize - 1) - (x - PageSize + 1) + 1 = 2 * PageSize - 1
          BY <1>2, <3>1
        <5> HIDE DEF x
        <5> QED
          BY <5>1, FS_Interval
      <4>2. x \in U
        BY <1>2, <3>1
      <4> HIDE DEF U, x
      <4>3. IsFiniteSet(U \ {x}) /\ Cardinality(U \ {x}) = Cardinality(U) - 1
        BY <4>1, <4>2, FS_RemoveElement
      <4> QED
        BY <1>2, <4>1, <4>3 DEF U
    <3>3. \A y \in Range(deque) \cup {p} : y \in Int /\ y < x + PageSize
      BY <1>1, <1>2, <1>5, <2>4, <3>1
    <3>4. \A i \in 2 .. n : deque[i] # x /\ deque[i] > x - PageSize
      BY <1>3, <1>4, <3>1
    <3>5. p # x /\ p > x - PageSize
      BY <1>1, <1>5, <1>8, <3>1
    <3> HIDE DEF x
    <3>6. ASSUME NEW i \in 1 .. n PROVE r[i] \in T
      <4>1. CASE i = n
        <5>1. r[i] = p /\ p \in Int
          BY <2>1, <3>3, <4>1
        <5> QED
          BY <1>2, <3>1, <3>3, <3>5, <5>1
      <4>2. CASE i \in 1 .. n - 1
        <5>1. r[i] = deque[i + 1] /\ i + 1 \in 2 .. n /\ i + 1 \in 1 .. n
          BY <1>3, <2>1, <4>2
        <5>2. deque[i + 1] \in Int /\ deque[i + 1] < x + PageSize
          BY <1>3, <3>3, <5>1
        <5> QED
          BY <1>2, <3>1, <3>4, <5>1, <5>2
      <4> QED
        BY <1>3, <4>1, <4>2
    <3>7. r \in [1 .. n -> T]
      BY <2>1, <3>6
    <3>8. IsFiniteSet(1 .. n) /\ Cardinality(1 .. n) = n
      BY <1>2, <1>3, FS_Interval
    <3> HIDE DEF T
    <3>9. Cardinality(T) < Cardinality(1 .. n)
      BY <1>2, <1>3, <1>8, <3>2, <3>8
    <3>10. PICK i \in 1 .. n, j \in 1 .. n : i # j /\ r[i] = r[j]
      BY <3>2, <3>7, <3>8, <3>9, FS_PigeonHole
    <3> QED
      BY <1>3, <2>3, <3>10
  <2>5. \A x \in Range(deque) :
          x > newest - PageSize \/ x \in Range(page) => x \in Range(r)
    <3> SUFFICES ASSUME NEW x \in Range(deque),
                        x > newest - PageSize \/ x \in Range(page)
                 PROVE  x \in Range(r)
      OBVIOUS
    <3>1. PICK i \in 1 .. n : x = deque[i]
      BY <1>3
    <3>2. i # 1
      BY <2>4, <3>1
    <3> QED
      BY <1>3, <2>2, <3>1, <3>2
  <2> QED
    BY <1>1, <2>1, <2>2, <2>3, <2>5 DEF p, r, n
<1> QED
  BY <1>1, <1>2, <1>3, <1>6, <1>7, <1>8

-----------------------------------------------------------------------------
(* One step per action of a producer.                                       *)
LEMMA EmptyRange == Range(<< >>) = {}
BY DEF Range

LEMMA FeedInductiveInit == FeedInit => FeedInductive
<1> SUFFICES ASSUME FeedInit PROVE FeedInductive
  OBVIOUS
<1> USE FeedAssumption, EmptyRange DEF FeedInit
<1>1. FeedTyped
  <2>1. LastPost \in Nat /\ DequeSize \in Nat /\ << >> \in Seq(Post) /\ Len(<< >>) = 0
    OBVIOUS
  <2>2. 0 \in 0 .. LastPost /\ 0 \in 0 .. 0
    BY <2>1
  <2>3. Range(page) \cup Range(deque) \cup Range(sent) = {}
    OBVIOUS
  <2>4. page \in Seq(Post) /\ deque \in Seq(Post) /\ sent \in Seq(Post) /\ Len(deque) = 0
    BY <2>1
  <2>5. newest \in 0 .. LastPost /\ cursor \in 0 .. newest
    BY <2>1
  <2>6. Len(deque) <= DequeSize
    BY <2>1, <2>4
  <2>7. missed \cup hidden \subseteq Post /\ polling \in BOOLEAN /\ feedFaults \in Nat
    OBVIOUS
  <2>8. feed \in {"none", "bluesky", "stocktwits", "reddit"}
    OBVIOUS
  <2> HIDE DEF FeedInit
  <2> QED
    BY <2>3, <2>4, <2>5, <2>6, <2>7, <2>8 DEF FeedTyped
<1>2. Unstarted /\ CursorAtPage /\ PageFromNewest /\ SentBehindCursor /\ DequeInPages /\ ListedRemembered
  BY DEF Unstarted, CursorAtPage, PageFromNewest, SentBehindCursor, DequeInPages, ListedRemembered
<1>3. PassedAreAccountedFor
  BY DEF PassedAreAccountedFor
<1> QED
  BY <1>1, <1>2, <1>3 DEF FeedInductive

LEMMA PostAppearsKeeps == ASSUME FeedInductive, PostAppears PROVE FeedInductive'
<1> USE FeedAssumption DEF FeedInductive, PostAppears
<1>1. FeedTyped'
  BY DEF FeedTyped, Post
<1>2. (Unstarted /\ CursorAtPage /\ PageFromNewest /\ SentBehindCursor
       /\ PassedAreAccountedFor /\ DequeInPages)'
  BY DEF Unstarted, CursorAtPage, PageFromNewest, SentBehindCursor, PassedAreAccountedFor, DequeInPages
<1>3. ListedRemembered'
  <2>1. /\ newest \in Int /\ newest' = newest + 1 /\ PageSize \in Int
        /\ \A p \in Range(sent) : p \in Int
    BY DEF FeedTyped
  <2> QED
    BY <2>1 DEF ListedRemembered
<1> QED
  BY <1>1, <1>2, <1>3

LEMMA ListingIsInterval ==
  ASSUME FeedTyped
  PROVE  /\ Listing = (IF newest > PageSize THEN newest - PageSize + 1 ELSE 1) .. newest
         /\ Listing \subseteq Post /\ newest \in Int
BY FeedAssumption DEF FeedTyped, Listing, Post

LEMMA StartFeedKeeps ==
  ASSUME FeedInductive, NEW producer \in {"bluesky", "stocktwits", "reddit"},
         StartFeed(producer)
  PROVE  FeedInductive'
<1> USE FeedAssumption DEF FeedInductive
<1>1. /\ feed = "none" /\ feed' = producer /\ page = << >> /\ cursor = 0 /\ deque = << >>
      /\ feedFaults = 0 => sent = << >>
      /\ UNCHANGED << newest, page, polling, cursor, sent, hidden, feedFaults >>
  BY DEF StartFeed, Unstarted
<1>2. CASE deque' = deque /\ missed' = missed
  <2>1. FeedTyped'
    BY <1>1, <1>2 DEF FeedTyped
  <2>2. (Unstarted /\ CursorAtPage /\ PageFromNewest /\ SentBehindCursor /\ DequeInPages /\ ListedRemembered)'
    BY <1>1, <1>2, EmptyRange
       DEF FeedTyped, Unstarted, CursorAtPage, PageFromNewest, SentBehindCursor, DequeInPages,
           ListedRemembered, IsInjective
  <2>3. PassedAreAccountedFor'
    BY <1>1, <1>2, EmptyRange DEF PassedAreAccountedFor, FeedTyped
  <2> QED
    BY <2>1, <2>2, <2>3
<1>3. CASE /\ producer = "reddit" /\ deque' = Remember(NewestFirst(Listing))
           /\ missed' = missed \cup Listing
  <2> DEFINE q == NewestFirst(Listing)
  <2>1. /\ q \in Seq(Listing) /\ Len(q) <= PageSize /\ Len(q) \in Nat
        /\ \A i, j \in 1 .. Len(q) : i < j => q[i] > q[j]
    <3> DEFINE lo == IF newest > PageSize THEN newest - PageSize + 1 ELSE 1
    <3>1. lo \in Int /\ newest \in Int /\ Listing = lo .. newest
          /\ (IF lo > newest THEN 0 ELSE newest - lo + 1) <= PageSize
          /\ (IF lo > newest THEN 0 ELSE newest - lo + 1) \in Nat
      <4>1. newest \in Nat /\ PageSize \in Nat \ {0}
        BY DEF FeedTyped
      <4>2. lo \in Int /\ Listing = lo .. newest
        BY <4>1, ListingIsInterval
      <4>3. CASE newest > PageSize
        BY <4>1, <4>2, <4>3
      <4>4. CASE ~ (newest > PageSize)
        BY <4>1, <4>2, <4>4
      <4> QED
        BY <4>3, <4>4
    <3> HIDE DEF lo
    <3> QED
      BY <3>1, NewestFirstProperties
  <2> HIDE DEF q
  <2>2. deque' = q
    <3>1. ~ (Len(q) > DequeSize)
      BY <2>1
    <3> QED
      BY <1>3, <3>1 DEF Remember, q
  <2>3. /\ \A i \in 1 .. Len(q) : q[i] \in Listing
        /\ Range(q) \subseteq Listing /\ q \in Seq(Post)
    <3>1. \A i \in 1 .. Len(q) : q[i] \in Listing
      BY <2>1
    <3>2. Range(q) \subseteq Listing
      BY <2>1, <3>1 DEF Range
    <3>3. q \in Seq(Post)
      BY <2>1, ListingIsInterval, SeqMonotonic
    <3> QED
      BY <3>1, <3>2, <3>3
  <2>4. \A x \in Listing : x \in Int /\ x > newest - PageSize /\ x <= newest /\ x \in 1 .. newest
    BY DEF Listing, FeedTyped
  <2>5. newest \in Int /\ PageSize \in Int
    BY DEF FeedTyped
  <2>6. FeedTyped'
    BY <1>1, <1>3, <2>1, <2>2, <2>3, <2>4, ListingIsInterval DEF FeedTyped
  <2>7. (Unstarted /\ CursorAtPage /\ PageFromNewest /\ SentBehindCursor)'
    BY <1>1, <1>3 DEF Unstarted, CursorAtPage, PageFromNewest, SentBehindCursor
  <2>8. PassedAreAccountedFor'
    BY <1>1, <1>3, <2>2, <2>3 DEF PassedAreAccountedFor
  <2>9. DequeInPages'
    <3>1. ASSUME NEW i \in 1 .. Len(q), NEW j \in 1 .. Len(q), i < j
          PROVE  q[i] # q[j] /\ q[j] > q[i] - PageSize
      BY <2>1, <2>3, <2>4, <2>5, <3>1
    <3> QED
      BY <1>1, <2>2, <3>1, EmptyRange DEF DequeInPages
  <2>10. ListedRemembered'
    BY <1>1, EmptyRange DEF ListedRemembered, IsInjective
  <2> QED
    BY <2>6, <2>7, <2>8, <2>9, <2>10
<1> QED
  BY <1>1, <1>2, <1>3 DEF StartFeed

LEMMA RestartFeedKeeps == ASSUME FeedInductive, RestartFeed PROVE FeedInductive'
<1> USE FeedAssumption, EmptyRange DEF FeedInductive, RestartFeed, FeedFault
<1>1. FeedTyped' /\ feedFaults' # 0
  <2>1. << >> \in Seq(Post) /\ Len(<< >>) = 0 /\ DequeSize \in Nat
    OBVIOUS
  <2>2. 0 \in 0 .. newest /\ feedFaults + 1 \in Nat \ {0}
    BY DEF FeedTyped
  <2>3. page' \in Seq(Post) /\ deque' \in Seq(Post) /\ Len(deque') <= DequeSize
    BY <2>1
  <2>4. Range(page') \cup Range(deque') \cup Range(sent') \subseteq 1 .. newest'
    BY DEF FeedTyped
  <2> QED
    BY <2>2, <2>3, <2>4 DEF FeedTyped
<1>2. (Unstarted /\ CursorAtPage /\ PageFromNewest /\ SentBehindCursor)'
  BY <1>1 DEF Unstarted, CursorAtPage, PageFromNewest, SentBehindCursor
<1>3. (PassedAreAccountedFor /\ DequeInPages /\ ListedRemembered)'
  BY <1>1 DEF PassedAreAccountedFor, DequeInPages, ListedRemembered
<1> QED
  BY <1>1, <1>2, <1>3

LEMMA FetchPageKeeps == ASSUME FeedInductive, FetchPage PROVE FeedInductive'
<1> USE FeedAssumption DEF FeedInductive
<1>1. /\ feed # "none" /\ polling' = TRUE /\ page' = Handled(Response)
      /\ UNCHANGED << feed, newest, cursor, deque, sent, hidden, feedFaults >>
      /\ page = << >>
  BY DEF FetchPage, Unstarted
<1>2. PICK lo \in Int : Response = lo .. newest /\ newest \in Int
  <2>0. newest \in Nat /\ cursor \in Nat /\ PageSize \in Nat \ {0}
    BY DEF FeedTyped
  <2>1. CASE feed = "reddit"
    <3>1. Response = Listing
      BY <2>1 DEF Response, Listing
    <3> QED
      BY <2>0, <3>1, ListingIsInterval
  <2>2. CASE feed # "reddit" /\ cursor > newest - PageSize
    <3>1. Response = (cursor + 1) .. newest
      BY <2>0, <2>2 DEF Response, Listing
    <3> QED
      BY <2>0, <3>1
  <2>3. CASE feed # "reddit" /\ ~ (cursor > newest - PageSize)
    <3>1. Response = (newest - PageSize + 1) .. newest
      BY <2>0, <2>3 DEF Response, Listing
    <3> QED
      BY <2>0, <3>1
  <2> QED
    BY <2>1, <2>2, <2>3
<1>3. /\ page' \in Seq(Response)
      /\ feed = "stocktwits" =>
           /\ \A i \in 1 .. Len(page') : i + 1 \in 1 .. Len(page') => page'[i + 1] = page'[i] + 1
           /\ page' # << >> => \A x \in Response : page'[1] <= x
      /\ feed # "stocktwits" =>
           /\ \A i, j \in 1 .. Len(page') : i < j => page'[i] > page'[j]
           /\ Range(page') = Response
  <2>1. CASE feed = "stocktwits"
    <3>1. page' = OldestFirst(lo .. newest)
      BY <1>1, <1>2, <2>1 DEF Handled
    <3>2. /\ page' \in Seq(lo .. newest)
          /\ \A i \in 1 .. Len(page') : i + 1 \in 1 .. Len(page') => page'[i + 1] = page'[i] + 1
          /\ page' # << >> => \A x \in lo .. newest : page'[1] <= x
      <4>1. LET q == OldestFirst(lo .. newest)
            IN  /\ q \in Seq(lo .. newest)
                /\ \A i \in 1 .. Len(q) : i + 1 \in 1 .. Len(q) => q[i + 1] = q[i] + 1
                /\ q # << >> => \A x \in lo .. newest : q[1] <= x
        <5>1. lo \in Int /\ newest \in Int
          BY <1>2
        <5> QED
          BY ONLY <5>1, OldestFirstProperties
      <4> QED
        BY <3>1, <4>1
    <3> QED
      BY <1>2, <2>1, <3>2
  <2>2. CASE feed # "stocktwits"
    <3>1. page' = NewestFirst(lo .. newest)
      BY <1>1, <1>2, <2>2 DEF Handled
    <3> QED
      BY <1>2, <2>2, <3>1, NewestFirstProperties
  <2> QED
    BY <2>1, <2>2
<1>4. \A x \in Response :
        /\ x \in 1 .. newest /\ x \in Int /\ x > newest - PageSize /\ x \in Post
        /\ feed # "reddit" => x > cursor
  BY DEF Response, Listing, FeedTyped, Post
<1>5. Range(page') \subseteq Response /\ page' \in Seq(Post) /\ Len(page') \in Nat
      /\ \A i \in 1 .. Len(page') : page'[i] \in Response
  <2>1. \A i \in 1 .. Len(page') : page'[i] \in Response
    BY <1>3
  <2> QED
    BY <1>3, <1>4, <2>1, SeqMonotonic DEF Range
<1>6. FeedTyped'
  <2>1. missed' \subseteq Post
    <3>1. missed \subseteq Post /\ 1 .. newest \subseteq Post
      BY DEF FeedTyped, Post
    <3> QED
      BY <3>1 DEF FetchPage
  <2> QED
    BY <1>1, <1>4, <1>5, <2>1 DEF FeedTyped
<1>7. Unstarted'
  BY <1>1 DEF Unstarted
<1>8. CursorAtPage'
  <2> SUFFICES ASSUME feed = "stocktwits", page' # << >>
               PROVE  /\ cursor < page'[1]
                      /\ \A p \in cursor + 1 .. page'[1] - 1 : p \in Range(sent) \cup missed'
    BY <1>1, <1>3 DEF CursorAtPage
  <2>1. page'[1] \in Response
    <3>1. Len(page') # 0
      BY <1>5
    <3> QED
      BY <1>5, <3>1
  <2> SUFFICES ASSUME NEW p \in cursor + 1 .. page'[1] - 1 PROVE p \in missed'
    BY <1>4, <2>1 DEF FeedTyped
  <2>2. p \in 1 .. newest /\ p > cursor /\ p < page'[1]
    <3>1. page'[1] \in 1 .. newest /\ cursor \in Nat /\ newest \in Nat
      BY <1>4, <2>1 DEF FeedTyped
    <3> QED
      BY <3>1
  <2>3. p \notin Response
    BY <1>3, <1>4, <2>1, <2>2
  <2>4. p \notin Listing
    BY <2>2, <2>3 DEF Response
  <2> QED
    BY <2>2, <2>4 DEF FetchPage
<1>9. SentBehindCursor'
  BY <1>1 DEF SentBehindCursor
<1>13. PageFromNewest'
  <2> SUFFICES ASSUME feed = "bluesky", page' # << >>,
                      NEW p \in cursor + 1 .. page'[1], p \notin missed'
               PROVE  p \in Range(page')
    BY <1>1, <1>3 DEF PageFromNewest
  <2>1. page'[1] \in Response
    <3>1. Len(page') # 0
      BY <1>5
    <3> QED
      BY <1>5, <3>1
  <2>2. p \in 1 .. newest /\ p > cursor
    <3>1. page'[1] \in 1 .. newest /\ cursor \in Nat /\ newest \in Nat
      BY <1>4, <2>1 DEF FeedTyped
    <3> QED
      BY <3>1
  <2>3. p \in Listing
    BY <2>2 DEF FetchPage
  <2> QED
    BY <1>3, <2>2, <2>3 DEF Response
<1>10. PassedAreAccountedFor'
  BY <1>1 DEF PassedAreAccountedFor, FetchPage
<1>11. DequeInPages'
  <2>1. \A x \in Range(deque) : x \in 1 .. newest
    BY DEF FeedTyped
  <2>2. ASSUME NEW q \in Range(page'), NEW p \in Range(deque) \cup Range(page')
        PROVE  q > p - PageSize
    <3>1. q \in Int /\ q > newest - PageSize /\ p \in Int /\ p <= newest
      BY <1>4, <1>5, <2>1, <2>2
    <3> QED
      BY <1>2, <3>1
  <2> QED
    BY <1>1, <2>2 DEF DequeInPages
<1>12. ListedRemembered'
  BY <1>1, <1>4, <1>5 DEF ListedRemembered
<1> QED
  BY <1>6, <1>7, <1>8, <1>9, <1>10, <1>11, <1>12, <1>13

LEMMA FetchFailsKeeps == ASSUME FeedInductive, FetchFails PROVE FeedInductive'
<1> USE DEF FeedInductive, FetchFails, FeedFault
<1>1. FeedTyped' /\ feedFaults' # 0
  BY DEF FeedTyped
<1> QED
  BY <1>1 DEF Unstarted, CursorAtPage, PageFromNewest, SentBehindCursor, PassedAreAccountedFor,
              DequeInPages, ListedRemembered

LEMMA EndPageKeeps == ASSUME FeedInductive, EndPage PROVE FeedInductive'
BY DEF FeedInductive, EndPage, FeedTyped, Unstarted, CursorAtPage, PageFromNewest, SentBehindCursor,
       PassedAreAccountedFor, DequeInPages, ListedRemembered

(* What the head of a page and the rest of it are.                          *)
LEMMA PageProperties ==
  ASSUME FeedInductive, page # << >>
  PROVE  LET p == Head(page)
         IN  /\ p = page[1] /\ p \in Range(page) /\ p \in 1 .. newest /\ p \in Post
             /\ Tail(page) \in Seq(Post) /\ Range(Tail(page)) \subseteq Range(page)
             /\ Len(Tail(page)) = Len(page) - 1 /\ Len(page) \in Nat \ {0}
             /\ \A i \in 1 .. Len(Tail(page)) : Tail(page)[i] = page[i + 1]
             /\ feed \in {"bluesky", "stocktwits", "reddit"} /\ polling = TRUE
             /\ newest \in Nat /\ cursor \in Nat
<1>1. /\ page \in Seq(Post) /\ Range(page) \subseteq 1 .. newest /\ 1 .. newest \subseteq Post
      /\ newest \in Nat /\ cursor \in Nat
  BY FeedAssumption DEF FeedInductive, FeedTyped, Post
<1>2. feed \in {"bluesky", "stocktwits", "reddit"} /\ polling = TRUE
  BY DEF FeedInductive, FeedTyped, Unstarted
<1>3. Head(page) \in Range(page)
  BY <1>1, TailProperties
<1> QED
  BY <1>1, <1>2, <1>3, TailProperties

(* The deque and the page of reddit after the head was handled.             *)
LEMMA DequeMovesOn ==
  ASSUME FeedInductive, page # << >>, feed = "reddit",
         deque' = Kept(Head(page)), page' = Tail(page), feed' = feed
  PROVE  DequeInPages'
<1>1. /\ \A i, j \in 1 .. Len(deque') :
           i < j => deque'[i] # deque'[j] /\ deque'[j] > deque'[i] - PageSize
      /\ Range(deque') \subseteq Range(deque) \cup {Head(page)}
  BY KeptProperties
<1>2. Range(page') \subseteq Range(page) /\ Head(page) \in Range(page)
  BY PageProperties
<1>3. \A q \in Range(page) : \A p \in Range(deque) \cup Range(page) : q > p - PageSize
  BY DEF FeedInductive, DequeInPages
<1> QED
  BY <1>1, <1>2, <1>3 DEF DequeInPages

(* When the head of a page of bluesky was handled, the rest is a page from  *)
(* new to old, for the cursor there was as for one at the head.             *)
LEMMA NewestFirstMovesOn ==
  ASSUME FeedInductive, page # << >>, feed = "bluesky", page' = Tail(page),
         cursor' \in {cursor, Head(page)}, feed' = feed, missed' = missed
  PROVE  /\ PageFromNewest'
         /\ \A x \in cursor + 1 .. Head(page) :
              x = Head(page) \/ x \in Range(Tail(page)) \cup missed
<1> DEFINE p == Head(page)
<1>1. /\ p = page[1] /\ p \in Range(page) /\ p \in Nat
      /\ Len(page') = Len(page) - 1 /\ Len(page) \in Nat \ {0}
      /\ \A i \in 1 .. Len(page') : page'[i] = page[i + 1] /\ page'[i] \in Nat
      /\ cursor \in Nat
  <2>1. /\ page' \in Seq(Post) /\ \A x \in Post : x \in Nat
    BY PageProperties, FeedAssumption DEF Post
  <2>2. \A i \in 1 .. Len(page') : page'[i] \in Nat
    BY <2>1
  <2> QED
    BY <2>2, PageProperties
<1>2. \A i, j \in 1 .. Len(page) : i < j => page[i] > page[j]
  BY DEF FeedInductive, PageFromNewest
<1>9. /\ cursor' \in {cursor, p}
      /\ DOMAIN page' = 1 .. Len(page') /\ DOMAIN page = 1 .. Len(page)
  <2>1. page \in Seq(Post) /\ page' \in Seq(Post)
    BY PageProperties DEF FeedInductive, FeedTyped
  <2> QED
    BY <2>1
<1>3. Range(page) = {p} \cup Range(page')
  <2>1. ASSUME NEW i \in 1 .. Len(page), i # 1 PROVE page[i] \in Range(page')
    <3>1. i - 1 \in 1 .. Len(page') /\ page'[i - 1] = page[(i - 1) + 1]
      BY <1>1, <2>1
    <3>2. page'[i - 1] = page[i]
      BY <3>1
    <3> QED
      BY <1>9, <3>1, <3>2 DEF Range
  <2>3. Range(page') \subseteq Range(page)
    BY PageProperties
  <2>2. ASSUME NEW x \in Range(page) PROVE x = p \/ x \in Range(page')
    <3>1. PICK i \in 1 .. Len(page) : x = page[i]
      BY <1>9 DEF Range
    <3> QED
      BY <1>1, <2>1, <3>1
  <2> HIDE DEF p
  <2> QED
    BY <1>1, <2>2, <2>3
<1>4. \A x \in cursor + 1 .. p : x \in Range(page) \cup missed
  BY <1>1 DEF FeedInductive, PageFromNewest
<1> HIDE DEF p
<1>5. \A x \in cursor + 1 .. p : x = p \/ x \in Range(page') \cup missed
  BY <1>3, <1>4
<1>6. \A i, j \in 1 .. Len(page') : i < j => page'[i] > page'[j]
  BY <1>1, <1>2
<1>7. page' # << >> => page'[1] < p /\ page'[1] \in Nat
  <2> SUFFICES ASSUME page' # << >> PROVE page'[1] < p /\ page'[1] \in Nat
    OBVIOUS
  <2>1. page' \in Seq(Post)
    BY PageProperties
  <2>2. Len(page') # 0
    BY <2>1
  <2>3. 1 \in 1 .. Len(page') /\ 1 + 1 \in 1 .. Len(page) /\ 1 \in 1 .. Len(page)
    BY <1>1, <2>2
  <2>4. page'[1] = page[1 + 1] /\ page'[1] \in Nat
    BY <1>1, <2>3
  <2>5. page[1] > page[1 + 1]
    BY <1>2, <2>3
  <2> QED
    BY <1>1, <2>4, <2>5
<1>8. PageFromNewest'
  <2> SUFFICES ASSUME page' # << >>, NEW x \in cursor' + 1 .. page'[1]
               PROVE  x \in Range(page') \cup missed
    BY <1>6 DEF PageFromNewest
  <2>1. x \in cursor' + 1 .. page'[1] /\ page'[1] < p /\ page'[1] \in Nat
    BY <1>7
  <2>2. cursor' = cursor
    <3>1. SUFFICES ASSUME cursor' = p PROVE FALSE
      BY <1>9
    <3>2. x \in p + 1 .. page'[1]
      BY <2>1, <3>1
    <3> QED
      BY ONLY <1>1, <2>1, <3>2
  <2>3. x \in cursor + 1 .. p /\ x # p
    BY <1>1, <1>7, <2>1, <2>2
  <2> QED
    BY <1>5, <2>3
<1> QED
  BY <1>5, <1>8 DEF p

LEMMA PassOverKeeps == ASSUME FeedInductive, PassOver PROVE FeedInductive'
<1> DEFINE p == Head(page)
<1>1. /\ page # << >> /\ PassedOver(p) /\ page' = Tail(page)
      /\ deque' = IF feed = "reddit" THEN Kept(p) ELSE deque
      /\ UNCHANGED << feed, newest, polling, cursor, sent, missed, hidden, feedFaults >>
  BY DEF PassOver
<1>2. /\ p \in Range(page) /\ p \in 1 .. newest /\ p \in Post
      /\ Tail(page) \in Seq(Post) /\ Range(Tail(page)) \subseteq Range(page)
      /\ feed \in {"bluesky", "reddit"} /\ polling = TRUE
  BY <1>1, PageProperties DEF PassedOver
<1>3. FeedTyped
  BY DEF FeedInductive
<1>4. feed = "reddit" =>
        /\ deque' \in Seq(Post) /\ Len(deque') <= DequeSize
        /\ Range(deque') \subseteq Range(deque) \cup {p}
        /\ \A x \in Range(deque) :
             x > newest - PageSize \/ x \in Range(page) => x \in Range(deque')
  BY <1>1, KeptProperties
<1> HIDE DEF p
<1>5. FeedTyped'
  <2>1. /\ deque' \in Seq(Post) /\ Len(deque') <= DequeSize
        /\ Range(deque') \subseteq 1 .. newest
    BY <1>1, <1>2, <1>3, <1>4 DEF FeedTyped
  <2>2. page' \in Seq(Post) /\ Range(page') \subseteq 1 .. newest
    BY <1>1, <1>2, <1>3 DEF FeedTyped
  <2> QED
    BY <1>1, <1>3, <2>1, <2>2 DEF FeedTyped
<1>6. Unstarted' /\ CursorAtPage' /\ SentBehindCursor'
  BY <1>1, <1>2 DEF FeedInductive, Unstarted, CursorAtPage, SentBehindCursor
<1>10. PageFromNewest'
  <2>1. CASE feed = "bluesky"
    BY <1>1, <2>1, NewestFirstMovesOn DEF p
  <2> QED
    BY <1>1, <2>1 DEF PageFromNewest
<1>7. PassedAreAccountedFor'
  <2>2. CASE feed = "bluesky"
    BY <1>1, <2>2 DEF FeedInductive, PassedAreAccountedFor
  <2>1. CASE feed = "reddit"
    <3>1. p \in Range(deque) \/ p \notin Matching
      BY <1>1, <2>1 DEF PassedOver
    <3>2. Range(deque') \cap Matching \subseteq Range(deque) \cap Matching
      BY <1>4, <2>1, <3>1
    <3> QED
      BY <1>1, <2>1, <3>2 DEF FeedInductive, PassedAreAccountedFor
  <2> QED
    BY <1>1, <1>2, <2>1, <2>2 DEF PassedAreAccountedFor
<1>8. DequeInPages'
  <2>1. CASE feed = "reddit"
    BY <1>1, <2>1, DequeMovesOn DEF p
  <2> QED
    BY <1>1, <2>1 DEF DequeInPages
<1>9. ListedRemembered'
  <2> SUFFICES ASSUME feed = "reddit", feedFaults = 0 PROVE ListedRemembered'
    BY <1>1 DEF ListedRemembered
  <2> QED
    BY <1>1, <1>2, <1>4 DEF FeedInductive, ListedRemembered
<1> QED
  BY <1>5, <1>6, <1>7, <1>8, <1>9, <1>10 DEF FeedInductive

LEMMA PublishPostKeeps == ASSUME FeedInductive, PublishPost PROVE FeedInductive'
<1> DEFINE p == Head(page)
<1>1. /\ page # << >> /\ ~ PassedOver(p) /\ page' = Tail(page)
      /\ sent' = Append(sent, p)
      /\ cursor' = IF feed # "reddit" /\ p > cursor THEN p ELSE cursor
      /\ deque' = IF feed = "reddit" THEN Kept(p) ELSE deque
      /\ hidden' = IF feed = "bluesky" THEN hidden \cup Range(Tail(page)) ELSE hidden
      /\ UNCHANGED << feed, newest, polling, missed, feedFaults >>
  BY DEF PublishPost, CursorAfter
<1>2. /\ p = page[1] /\ p \in Range(page) /\ p \in 1 .. newest /\ p \in Post
      /\ Tail(page) \in Seq(Post) /\ Range(Tail(page)) \subseteq Range(page)
      /\ Len(Tail(page)) = Len(page) - 1 /\ Len(page) \in Nat \ {0}
      /\ \A i \in 1 .. Len(Tail(page)) : Tail(page)[i] = page[i + 1]
      /\ feed \in {"bluesky", "stocktwits", "reddit"} /\ polling = TRUE
      /\ newest \in Nat /\ cursor \in Nat
  BY <1>1, PageProperties
<1>3. FeedTyped
  BY DEF FeedInductive
<1>4. feed = "reddit" =>
        /\ deque' \in Seq(Post) /\ Len(deque') <= DequeSize
        /\ Range(deque') \subseteq Range(deque) \cup {p} /\ p \in Range(deque')
        /\ \A x \in Range(deque) :
             x > newest - PageSize \/ x \in Range(page) => x \in Range(deque')
  BY <1>1, KeptProperties
<1>5. /\ sent' \in Seq(Post) /\ Range(sent') = Range(sent) \cup {p}
      /\ Len(sent') = Len(sent) + 1 /\ Len(sent) \in Nat
      /\ sent'[Len(sent) + 1] = p
      /\ \A i \in 1 .. Len(sent) : /\ sent'[i] = sent[i] /\ sent[i] \in Range(sent)
                                   /\ sent[i] \in Nat
  <2>1. sent \in Seq(Post) /\ p \in Post
    BY <1>2, <1>3 DEF FeedTyped
  <2>2. \A i \in 1 .. Len(sent) : sent[i] \in Range(sent) /\ sent[i] \in Nat
    <3>1. \A x \in Post : x \in Nat
      BY FeedAssumption DEF Post
    <3>2. \A i \in 1 .. Len(sent) : sent[i] \in Range(sent) /\ sent[i] \in Post
      BY <2>1 DEF Range
    <3> QED
      BY <3>1, <3>2
  <2> QED
    BY <1>1, <2>1, <2>2, AppendProperties, AppendRange
<1> HIDE DEF p
<1>6. feed # "reddit" => p > cursor /\ cursor' = p
  <2>1. feed = "bluesky" => p > cursor
    BY <1>1, <1>2 DEF PassedOver
  <2>2. feed = "stocktwits" => p > cursor
    BY <1>1, <1>2 DEF FeedInductive, CursorAtPage
  <2> QED
    BY <1>1, <1>2, <2>1, <2>2
<1>7. FeedTyped'
  <2>1. /\ deque' \in Seq(Post) /\ Len(deque') <= DequeSize
        /\ Range(deque') \subseteq 1 .. newest
    BY <1>1, <1>2, <1>3, <1>4 DEF FeedTyped
  <2>2. page' \in Seq(Post) /\ Range(page') \subseteq 1 .. newest
    BY <1>1, <1>2, <1>3 DEF FeedTyped
  <2>3. Range(sent') \subseteq 1 .. newest /\ cursor' \in 0 .. newest
    BY <1>1, <1>2, <1>3, <1>5 DEF FeedTyped
  <2>4. missed' \cup hidden' \subseteq Post
    <3>1. Tail(page) \in Seq(Post)
      BY <1>2
    <3>2. Range(Tail(page)) \subseteq Post
      BY <3>1 DEF Range
    <3> QED
      BY <1>1, <1>3, <3>2 DEF FeedTyped
  <2> QED
    BY <1>1, <1>3, <1>5, <2>1, <2>2, <2>3, <2>4 DEF FeedTyped
<1>8. Unstarted'
  BY <1>1, <1>2 DEF Unstarted
<1>9. CursorAtPage'
  <2> SUFFICES ASSUME feed = "stocktwits" PROVE CursorAtPage'
    BY <1>1 DEF CursorAtPage
  <2>1. \A i \in 1 .. Len(page) : i + 1 \in 1 .. Len(page) => page[i + 1] = page[i] + 1
    BY DEF FeedInductive, CursorAtPage
  <2>2. \A i \in 1 .. Len(page') : i + 1 \in 1 .. Len(page') => page'[i + 1] = page'[i] + 1
    <3> SUFFICES ASSUME NEW i \in 1 .. Len(page'), i + 1 \in 1 .. Len(page')
                 PROVE  page'[i + 1] = page'[i] + 1
      OBVIOUS
    <3>1. page'[i] = page[i + 1] /\ page'[i + 1] = page[(i + 1) + 1]
      BY <1>1, <1>2
    <3>2. i + 1 \in 1 .. Len(page) /\ (i + 1) + 1 \in 1 .. Len(page)
      BY <1>1, <1>2
    <3> QED
      BY <2>1, <3>1, <3>2
  <2>3. page' # << >> => page'[1] = p + 1
    <3> SUFFICES ASSUME page' # << >> PROVE page'[1] = p + 1
      OBVIOUS
    <3>1. Len(page') # 0
      BY <1>1, <1>2
    <3>2. 1 \in 1 .. Len(page') /\ 1 \in 1 .. Len(page) /\ 1 + 1 \in 1 .. Len(page)
      BY <1>1, <1>2, <3>1
    <3> QED
      BY <1>1, <1>2, <2>1, <3>2
  <2>4. cursor' = p
    BY <1>6
  <2> QED
    BY <1>2, <2>2, <2>3, <2>4 DEF CursorAtPage
<1>10. SentBehindCursor'
  <2> SUFFICES ASSUME feed \in {"bluesky", "stocktwits"}, feedFaults = 0
               PROVE  SentBehindCursor'
    BY <1>1 DEF SentBehindCursor
  <2>1. /\ Range(sent) \subseteq 1 .. cursor
        /\ \A i, j \in 1 .. Len(sent) : i < j => sent[i] < sent[j]
    BY DEF FeedInductive, SentBehindCursor
  <2>2. Range(sent') \subseteq 1 .. cursor'
    BY <1>2, <1>5, <1>6, <2>1
  <2>3. ASSUME NEW i \in 1 .. Len(sent) + 1, NEW j \in 1 .. Len(sent) + 1, i < j
        PROVE  sent'[i] < sent'[j]
    <3>1. i \in 1 .. Len(sent)
      BY <1>5, <2>3
    <3>2. CASE j = Len(sent) + 1
      BY <1>2, <1>5, <1>6, <2>1, <3>1, <3>2
    <3>3. CASE j \in 1 .. Len(sent)
      BY <1>5, <2>1, <2>3, <3>1, <3>3
    <3> QED
      BY <1>5, <3>2, <3>3
  <2> QED
    BY <1>1, <1>5, <2>2, <2>3 DEF SentBehindCursor
<1>11. PassedAreAccountedFor'
  <2>1. CASE feed = "stocktwits"
    <3>1. ASSUME NEW x \in 1 .. p PROVE x \in Range(sent') \cup missed
      <4>1. CASE x <= cursor
        BY <1>2, <1>5, <2>1, <4>1 DEF FeedInductive, PassedAreAccountedFor
      <4>2. CASE cursor < x /\ x < p
        <5>1. x \in cursor + 1 .. page[1] - 1
          BY <1>2, <4>2
        <5> QED
          BY <1>1, <1>5, <2>1, <5>1 DEF FeedInductive, CursorAtPage
      <4>3. CASE x = p
        BY <1>5, <4>3
      <4> QED
        BY <1>2, <4>1, <4>2, <4>3
    <3> QED
      BY <1>1, <1>6, <2>1, <3>1 DEF PassedAreAccountedFor
  <2>2. CASE feed = "reddit"
    BY <1>1, <1>4, <1>5, <2>2 DEF FeedInductive, PassedAreAccountedFor
  <2>3. CASE feed = "bluesky"
    <3>1. ASSUME NEW x \in 1 .. p, x \in Matching
          PROVE  x \in Range(sent') \cup missed \cup hidden'
      <4>1. CASE x <= cursor
        BY <1>1, <1>2, <1>5, <2>3, <3>1, <4>1 DEF FeedInductive, PassedAreAccountedFor
      <4>2. CASE cursor < x
        <5>1. x = p \/ x \in Range(Tail(page)) \cup missed
          BY <1>1, <1>2, <1>6, <2>3, <4>2, NewestFirstMovesOn DEF p
        <5> QED
          BY <1>1, <1>5, <2>3, <5>1
      <4> QED
        BY <1>2, <4>1, <4>2
    <3> QED
      BY <1>1, <1>6, <2>3, <3>1 DEF PassedAreAccountedFor
  <2> QED
    BY <1>1, <1>2, <2>1, <2>2, <2>3 DEF PassedAreAccountedFor
<1>12. DequeInPages'
  <2>1. CASE feed = "reddit"
    BY <1>1, <2>1, DequeMovesOn DEF p
  <2> QED
    BY <1>1, <2>1 DEF DequeInPages
<1>13. ListedRemembered'
  <2> SUFFICES ASSUME feed = "reddit", feedFaults = 0 PROVE ListedRemembered'
    BY <1>1 DEF ListedRemembered
  <2>1. /\ IsInjective(sent)
        /\ \A x \in Range(sent) :
             x > newest - PageSize \/ x \in Range(page) => x \in Range(deque)
    BY DEF FeedInductive, ListedRemembered
  <2>2. p \notin Range(deque)
    BY <1>1 DEF PassedOver
  <2>3. p \notin Range(sent)
    BY <1>2, <2>1, <2>2
  <2>4. IsInjective(sent')
    <3>1. DOMAIN sent = 1 .. Len(sent) /\ DOMAIN sent' = 1 .. Len(sent) + 1
      BY <1>3, <1>5 DEF FeedTyped
    <3>2. ASSUME NEW i \in 1 .. Len(sent) + 1, NEW j \in 1 .. Len(sent) + 1,
                 sent'[i] = sent'[j]
          PROVE  i = j
      <4>1. CASE i = Len(sent) + 1 \/ j = Len(sent) + 1
        BY <1>5, <2>3, <3>2, <4>1
      <4>2. CASE i \in 1 .. Len(sent) /\ j \in 1 .. Len(sent)
        BY <1>5, <2>1, <3>1, <3>2, <4>2 DEF IsInjective
      <4> QED
        BY <1>5, <4>1, <4>2
    <3> QED
      BY <3>1, <3>2 DEF IsInjective
  <2>5. ASSUME NEW x \in Range(sent'), x > newest' - PageSize \/ x \in Range(page')
        PROVE  x \in Range(deque')
    <3>1. CASE x = p
      BY <1>4, <3>1
    <3>2. CASE x \in Range(sent)
      BY <1>1, <1>2, <1>4, <2>1, <2>5, <3>2
    <3> QED
      BY <1>5, <3>1, <3>2
  <2> QED
    BY <2>4, <2>5 DEF ListedRemembered
<1>14. PageFromNewest'
  <2>1. CASE feed = "bluesky"
    BY <1>1, <1>6, <2>1, NewestFirstMovesOn DEF p
  <2> QED
    BY <1>1, <2>1 DEF PageFromNewest
<1> QED
  BY <1>7, <1>8, <1>9, <1>10, <1>11, <1>12, <1>13, <1>14 DEF FeedInductive

LEMMA PublishRaisesKeeps == ASSUME FeedInductive, PublishRaises PROVE FeedInductive'
<1> DEFINE p == Head(page)
<1>1. /\ page # << >> /\ feedFaults' = feedFaults + 1
      /\ sent' = sent \/ sent' = Append(sent, p)
      /\ page' = << >> /\ polling' = FALSE
      /\ UNCHANGED << feed, newest, cursor, deque, missed, hidden >>
  BY DEF PublishRaises, FeedFault
<1>2. p \in 1 .. newest /\ p \in Post /\ feed \in {"bluesky", "stocktwits", "reddit"}
  BY <1>1, PageProperties
<1>3. FeedTyped
  BY DEF FeedInductive
<1>4. /\ sent' \in Seq(Post) /\ Range(sent) \subseteq Range(sent')
      /\ Range(sent') \subseteq Range(sent) \cup {p}
  <2>1. sent \in Seq(Post)
    BY <1>3 DEF FeedTyped
  <2> HIDE DEF p
  <2>2. CASE sent' = sent
    BY <2>1, <2>2
  <2>3. CASE sent' = Append(sent, p)
    <3>1. Append(sent, p) \in Seq(Post)
      BY <1>2, <2>1, AppendProperties
    <3>2. Range(sent') = Range(sent) \cup {p}
      BY <1>2, <2>1, <2>3, AppendRange
    <3> QED
      BY <2>3, <3>1, <3>2
  <2> QED
    BY <1>1, <2>2, <2>3
<1> HIDE DEF p
<1>5. feedFaults' \in Nat \ {0}
  BY <1>1, <1>3 DEF FeedTyped
<1>6. FeedTyped'
  <2>1. page' \in Seq(Post) /\ Range(page') = {}
    BY <1>1, EmptyRange
  <2> QED
    BY <1>1, <1>2, <1>3, <1>4, <1>5, <2>1 DEF FeedTyped
<1>7. (Unstarted /\ CursorAtPage /\ PageFromNewest /\ SentBehindCursor /\ ListedRemembered)'
  BY <1>1, <1>2, <1>5 DEF Unstarted, CursorAtPage, PageFromNewest, SentBehindCursor, ListedRemembered
<1>8. PassedAreAccountedFor'
  BY <1>1, <1>4 DEF FeedInductive, PassedAreAccountedFor
<1>9. DequeInPages'
  BY <1>1, EmptyRange DEF FeedInductive, DequeInPages
<1> QED
  BY <1>6, <1>7, <1>8, <1>9 DEF FeedInductive

LEMMA FeedInductiveInvariant == FeedSpec => []FeedInductive
<1>1. FeedInductive /\ [FeedNext]_feedVars => FeedInductive'
  <2> SUFFICES ASSUME FeedInductive, [FeedNext]_feedVars PROVE FeedInductive'
    OBVIOUS
  <2>1. CASE UNCHANGED feedVars
    BY <2>1 DEF feedVars, FeedInductive, FeedTyped, Unstarted, CursorAtPage, PageFromNewest,
                SentBehindCursor, PassedAreAccountedFor, DequeInPages, ListedRemembered
  <2> QED
    BY <2>1, PostAppearsKeeps, RestartFeedKeeps, StartFeedKeeps, FetchPageKeeps,
       FetchFailsKeeps, PassOverKeeps, PublishPostKeeps, PublishRaisesKeeps, EndPageKeeps
       DEF FeedNext
<1> QED
  BY <1>1, FeedInductiveInit, PTL DEF FeedSpec

(* The variables of a social producer keep their types, the deque its       *)
(* maxlen.                                                                  *)
THEOREM FeedTypeCorrect == FeedSpec => []FeedTypeOK
<1>1. FeedInductive => FeedTypeOK
  <2> SUFFICES ASSUME FeedInductive PROVE FeedTypeOK
    OBVIOUS
  <2>1. 1 .. newest \subseteq Post
    BY FeedAssumption DEF FeedInductive, FeedTyped, Post
  <2> QED
    BY <2>1 DEF FeedInductive, FeedTyped, FeedTypeOK
<1> QED
  BY <1>1, FeedInductiveInvariant, PTL

(* Whatever appears while a page is handled: without a failure no post is   *)
(* published twice and bluesky publishes in order; in spite of failures the *)
(* cursors and the deque pass a post only if it was published, was not      *)
(* listed before it left the page, or, for bluesky, is older than a post of *)
(* its page that was published: those posts are lost.  The deque has to     *)
(* hold all but one of the posts of two pages.                              *)
THEOREM FeedsAreComplete == FeedSpec => []FeedsComplete
<1>1. FeedInductive => PublishedOnce
  <2> SUFFICES ASSUME FeedInductive, feedFaults = 0 PROVE IsInjective(sent)
    BY DEF PublishedOnce
  <2>1. sent \in Seq(Post) /\ \A i \in 1 .. Len(sent) : sent[i] \in Int
    <3>1. sent \in Seq(Post)
      BY DEF FeedInductive, FeedTyped
    <3>2. \A x \in Post : x \in Int
      BY FeedAssumption DEF Post
    <3> QED
      BY <3>1, <3>2
  <2>2. CASE feed = "reddit"
    BY <2>2 DEF FeedInductive, ListedRemembered
  <2>3. CASE feed = "none"
    BY <2>3 DEF FeedInductive, Unstarted, IsInjective
  <2>4. CASE feed \in {"bluesky", "stocktwits"}
    <3>1. \A i, j \in 1 .. Len(sent) : i < j => sent[i] < sent[j]
      BY <2>4 DEF FeedInductive, SentBehindCursor
    <3>2. \A i, j \in 1 .. Len(sent) : sent[i] = sent[j] => i = j
      BY <2>1, <3>1
    <3> QED
      BY <2>1, <3>2 DEF IsInjective
  <2> QED
    BY <2>2, <2>3, <2>4 DEF FeedInductive, FeedTyped
<1>2. FeedInductive => BlueskyInOrder
  BY DEF FeedInductive, SentBehindCursor, BlueskyInOrder
<1>3. FeedInductive => FeedsComplete
  BY <1>1, <1>2 DEF FeedInductive, FeedsComplete
<1> QED
  BY <1>3, FeedInductiveInvariant, PTL

-----------------------------------------------------------------------------
(* News polling.  The first article of a coroutine that must be published,  *)
(* if any.                                                                  *)
LEMMA FirstUnseenProperties ==
  ASSUME NEW s, NEW seen, NEW articles \in Seq(Articles)
  PROVE  LET i == FirstUnseen(s, articles, seen)
         IN  /\ i \in 0 .. Len(articles)
             /\ i # 0 => articles[i] \notin seen /\ Matches(s, articles[i])
             /\ i = 0 => \A k \in 1 .. Len(articles) :
                           articles[k] \in seen \/ ~ Matches(s, articles[k])
             /\ i # 0 => \A k \in 1 .. i - 1 :
                           articles[k] \in seen \/ ~ Matches(s, articles[k])
<1> DEFINE I == { k \in 1 .. Len(articles) : articles[k] \notin seen /\ Matches(s, articles[k]) }
           i == FirstUnseen(s, articles, seen)
<1>1. i = IF I # {} THEN Min(I) ELSE 0
  BY DEF FirstUnseen, SelectInSeq
<1>2. I \in SUBSET Nat /\ Len(articles) \in Nat
  OBVIOUS
<1>3. CASE I = {}
  BY <1>1, <1>2, <1>3
<1>4. CASE I # {}
  <2> HIDE DEF I
  <2>1. \E x \in I : \A y \in I : x <= y
    BY <1>2, <1>4, LeastIndexExists
  <2>2. Min(I) \in I /\ \A y \in I : Min(I) <= y
    BY <2>1 DEF Min
  <2>3. i \in I /\ \A y \in I : i <= y
    BY <1>1, <1>4, <2>2
  <2> HIDE DEF i
  <2> QED
    BY <1>2, <2>3 DEF I, i
<1> QED
  BY <1>3, <1>4

LEMMA OneMore ==
  ASSUME NEW B, NEW x, \A e \in DOMAIN B : B[e] \in Nat
  PROVE  LET C == B (+) SetToBag({x})
         IN  /\ DOMAIN C = DOMAIN B \cup {x}
             /\ \A e \in DOMAIN C : C[e] \in Nat
             /\ C[x] = (IF x \in DOMAIN B THEN B[x] ELSE 0) + 1
             /\ \A e \in DOMAIN B \ {x} : C[e] = B[e]
<1>1. SetToBag({x}) = [e \in {x} |-> 1]
  BY DEF SetToBag
<1>2. B (+) SetToBag({x}) =
        [e \in DOMAIN B \cup {x} |-> (IF e \in DOMAIN B THEN B[e] ELSE 0)
                                     + (IF e \in {x} THEN 1 ELSE 0)]
  BY <1>1 DEF (+)
<1> QED
  BY <1>2

-----------------------------------------------------------------------------
(* The copies of a post in the queue.                                       *)
Queued(m) == IF m \in DOMAIN rawPosts THEN rawPosts[m] ELSE 0

NewsTyped ==
  /\ enabled \subseteq NewsSymbols /\ queuedFor \subseteq NewsSymbols
  /\ requesting \subseteq NewsSymbols
  /\ DOMAIN left = DOMAIN publishing /\ DOMAIN left \subseteq NewsSymbols
  /\ seenIds \subseteq Articles /\ newsFaults \in Nat /\ trims \in Nat
  /\ \A m \in DOMAIN rawPosts : rawPosts[m] \in Nat
  /\ DOMAIN rawPosts \subseteq { m \in Articles \X NewsSymbols : m[2] \in Names[m[1]] }

(* A coroutine handles articles its symbol lists, and publishes one that    *)
(* names it.                                                                *)
FromOwnList ==
  \A s \in DOMAIN left :
    /\ left[s] \in Seq(Articles) /\ Range(left[s]) \subseteq Listed(s)
    /\ publishing[s] \in Listed(s) /\ s \in Names[publishing[s]]

(* Before an id is seen, and for the coroutine that publishes it also       *)
(* after, every copy is paid for by a fault or by ids that were dropped.    *)
CopiesPaidFor ==
  \A a \in Articles : \A s \in NewsSymbols :
    /\ Queued(<< a, s >>) <= 1 + newsFaults + trims
    /\ (a \notin seenIds \/ (s \in DOMAIN publishing /\ publishing[s] = a)) =>
          Queued(<< a, s >>) <= newsFaults + trims

(* Only a symbol that lists an article deals with it, and an article off    *)
(* the topic of a symbol does not name it.                                  *)
DealtByListing ==
  \A a \in Articles : \A s \in NewsSymbols :
    /\ Dealt(a, s) => a \in Listed(s)
    /\ << a, s >> \in offTopic => s \notin Names[a]

SeenAreDealt == \A a \in seenIds : \E s \in NewsSymbols : Dealt(a, s)

NewsInductive ==
  NewsTyped /\ FromOwnList /\ DealtByListing /\ SeenAreDealt /\ CopiesPaidFor

LEMMA ListedProperties ==
  ASSUME NEW s \in NewsSymbols
  PROVE  FeedOf[s] \in Seq(Articles) /\ Range(FeedOf[s]) = Listed(s) /\ Listed(s) \subseteq Articles
<1>1. FeedOf[s] \in Seq(Articles)
  BY NewsAssumption
<1> QED
  BY <1>1 DEF Listed, Range

LEMMA NewsInductiveInit == NewsInit => NewsInductive
<1> SUFFICES ASSUME NewsInit PROVE NewsInductive
  OBVIOUS
<1>1. DOMAIN rawPosts = {} /\ DOMAIN left = {} /\ DOMAIN publishing = {}
  BY DEF NewsInit, EmptyBag, SetToBag
<1>2. NewsTyped
  BY <1>1 DEF NewsInit, NewsTyped
<1>3. FromOwnList /\ DealtByListing /\ SeenAreDealt
  BY <1>1 DEF NewsInit, FromOwnList, DealtByListing, SeenAreDealt, Dealt, BagToSet
<1>4. CopiesPaidFor
  BY <1>1 DEF NewsInit, CopiesPaidFor, Queued
<1> QED
  BY <1>2, <1>3, <1>4 DEF NewsInductive

LEMMA DropProperties ==
  ASSUME NEW f, NEW k
  PROVE  /\ DOMAIN Drop(f, k) = DOMAIN f \ {k}
         /\ \A x \in DOMAIN f \ {k} : Drop(f, k)[x] = f[x]
BY DEF Drop, Restrict

(* What a coroutine does between two awaits: ids that become seen are       *)
(* listed for its symbol and, while it is in the snapshot, do not name it;  *)
(* the article it publishes next is not seen yet.                           *)
LEMMA ContinueProperties ==
  ASSUME NewsTyped, FromOwnList, NEW s \in NewsSymbols,
         NEW articles \in Seq(Articles), Range(articles) \subseteq Listed(s),
         NEW seen \in SUBSET Articles, Continue(s, articles, seen)
  PROVE  /\ seen \subseteq seenIds' /\ seenIds' \subseteq Articles
         /\ excused \subseteq excused' /\ offTopic \subseteq offTopic'
         /\ \A a \in seenIds' \ seen : << a, s >> \in excused' \cup offTopic'
         /\ \A m \in excused' \ excused : m[1] \in Listed(s) /\ m[2] = s
         /\ \A m \in offTopic' \ offTopic :
              m[1] \in Listed(s) /\ m[2] = s /\ s \notin Names[m[1]]
         /\ DOMAIN left' = DOMAIN publishing' /\ DOMAIN left' \subseteq NewsSymbols
         /\ FromOwnList'
         /\ \A t \in DOMAIN publishing' \ {s} :
              t \in DOMAIN publishing /\ publishing'[t] = publishing[t]
         /\ s \in DOMAIN publishing' => publishing'[s] \notin seen
<1> DEFINE i == FirstUnseen(s, articles, seen)
           passed == IF i = 0 THEN articles ELSE SubSeq(articles, 1, i - 1)
<1>1. /\ i \in 0 .. Len(articles)
      /\ i # 0 => articles[i] \notin seen /\ Matches(s, articles[i])
      /\ i = 0 => \A k \in 1 .. Len(articles) :
                    articles[k] \in seen \/ ~ Matches(s, articles[k])
      /\ i # 0 => \A k \in 1 .. i - 1 :
                    articles[k] \in seen \/ ~ Matches(s, articles[k])
  BY FirstUnseenProperties
<1>2. /\ seenIds' = seen \cup { a \in Range(passed) : ~ Matches(s, a) }
      /\ excused' = IF s \in enabled THEN excused
                    ELSE excused \cup ((Range(passed) \ seen) \X {s})
      /\ offTopic' = IF s \in enabled
                     THEN offTopic \cup ((Range(passed) \ seen) \X {s}) ELSE offTopic
      /\ i = 0 => left' = Drop(left, s) /\ publishing' = Drop(publishing, s)
      /\ i # 0 => /\ left' = With(left, s, SubSeq(articles, i + 1, Len(articles)))
                  /\ publishing' = With(publishing, s, articles[i])
  BY DEF Continue, Remembered
<1> HIDE DEF i
<1>3. Range(articles) = { articles[k] : k \in 1 .. Len(articles) } /\ Len(articles) \in Nat
  BY DEF Range
<1>4. /\ Range(passed) \subseteq Range(articles)
      /\ \A a \in Range(passed) : a \in seen \/ ~ Matches(s, a)
  <2>1. CASE i = 0
    BY <1>1, <1>3, <2>1
  <2>2. CASE i # 0
    <3>1. \A k \in 1 .. i - 1 : articles[k] \in Range(articles)
      BY <1>1, <1>3
    <3>2. /\ passed \in Seq(Range(articles))
          /\ Len(passed) = IF 1 <= i - 1 THEN i - 1 - 1 + 1 ELSE 0
      BY <1>1, <2>2, <3>1, SubSeqProperties
    <3>3. Range(passed) \subseteq Range(articles)
      BY <3>2 DEF Range
    <3>4. \A k \in 1 .. i - 1 : passed[k] = articles[k]
      BY <1>1, <2>2, <1>3
    <3>5. ASSUME NEW a \in Range(passed) PROVE \E k \in 1 .. i - 1 : a = articles[k]
      <4>1. PICK k \in DOMAIN passed : a = passed[k]
        BY DEF Range
      <4>2. k \in 1 .. i - 1
        BY <1>1, <2>2, <3>2, <4>1
      <4> QED
        BY <3>4, <4>1, <4>2
    <3> QED
      BY <1>1, <2>2, <3>3, <3>5
  <2> QED
    BY <2>1, <2>2
<1>5. Listed(s) \subseteq Articles
  BY ListedProperties
<1>6. i # 0 =>
        LET rest == SubSeq(articles, i + 1, Len(articles))
        IN  /\ rest \in Seq(Articles) /\ Range(rest) \subseteq Listed(s)
            /\ articles[i] \in Listed(s)
  <2> SUFFICES ASSUME i # 0
               PROVE  LET rest == SubSeq(articles, i + 1, Len(articles))
                      IN  /\ rest \in Seq(Articles) /\ Range(rest) \subseteq Listed(s)
                          /\ articles[i] \in Listed(s)
    OBVIOUS
  <2> DEFINE rest == SubSeq(articles, i + 1, Len(articles))
  <2>1. \A k \in 1 .. Len(articles) : articles[k] \in Listed(s)
    BY <1>3
  <2>2. /\ i + 1 \in Int /\ Len(articles) \in Int
        /\ \A k \in (i + 1) .. Len(articles) : articles[k] \in Listed(s)
    BY <1>1, <1>3, <2>1
  <2>3. rest \in Seq(Listed(s))
    BY <2>2, SubSeqProperties
  <2>4. rest \in Seq(Articles)
    BY <1>5, <2>3, SeqMonotonic
  <2>5. Range(rest) \subseteq Listed(s)
    <3> HIDE DEF rest
    <3> QED
      BY <2>3 DEF Range
  <2>6. articles[i] \in Listed(s)
    BY <1>1, <2>1
  <2> QED
    BY <2>4, <2>5, <2>6
<1> HIDE DEF passed
<1>7. /\ seen \subseteq seenIds' /\ seenIds' \subseteq Articles
      /\ excused \subseteq excused' /\ offTopic \subseteq offTopic'
  BY <1>2, <1>4, <1>5
<1>8. /\ \A a \in seenIds' \ seen : << a, s >> \in excused' \cup offTopic'
      /\ \A m \in excused' \ excused : m[1] \in Listed(s) /\ m[2] = s
      /\ \A m \in offTopic' \ offTopic :
           m[1] \in Listed(s) /\ m[2] = s /\ s \notin Names[m[1]]
  <2>1. ASSUME NEW a \in seenIds' \ seen PROVE << a, s >> \in excused' \cup offTopic'
    <3>1. a \in Range(passed) \ seen
      BY <1>2
    <3> QED
      BY <1>2, <3>1
  <2>2. \A m \in excused' \ excused : m[1] \in Listed(s) /\ m[2] = s
    BY <1>2, <1>4
  <2>3. ASSUME NEW m \in offTopic' \ offTopic
        PROVE  m[1] \in Listed(s) /\ m[2] = s /\ s \notin Names[m[1]]
    <3>1. s \in enabled /\ m \in (Range(passed) \ seen) \X {s}
      BY <1>2
    <3>2. m[1] \in Range(passed) \ seen /\ m[2] = s
      BY <3>1
    <3> QED
      BY <1>4, <3>1, <3>2 DEF Matches
  <2> QED
    BY <2>1, <2>2, <2>3
<1>9. CASE i = 0
  <2>1. /\ DOMAIN left' = DOMAIN left \ {s} /\ DOMAIN publishing' = DOMAIN publishing \ {s}
        /\ \A x \in DOMAIN left \ {s} : left'[x] = left[x]
        /\ \A x \in DOMAIN publishing \ {s} : publishing'[x] = publishing[x]
    <3>1. left' = Drop(left, s) /\ publishing' = Drop(publishing, s)
      BY <1>2, <1>9
    <3>2. /\ DOMAIN left' = DOMAIN left \ {s}
          /\ \A x \in DOMAIN left \ {s} : left'[x] = left[x]
      BY <3>1, DropProperties
    <3>3. /\ DOMAIN publishing' = DOMAIN publishing \ {s}
          /\ \A x \in DOMAIN publishing \ {s} : publishing'[x] = publishing[x]
      BY <3>1, DropProperties
    <3> QED
      BY <3>2, <3>3
  <2>2. FromOwnList'
    BY <2>1 DEF FromOwnList, NewsTyped, Listed
  <2> QED
    BY <1>7, <1>8, <2>1, <2>2 DEF NewsTyped
<1>10. CASE i # 0
  <2> DEFINE rest == SubSeq(articles, i + 1, Len(articles))
  <2>1. /\ left' = With(left, s, rest) /\ publishing' = With(publishing, s, articles[i])
        /\ rest \in Seq(Articles) /\ Range(rest) \subseteq Listed(s)
        /\ articles[i] \in Listed(s) /\ articles[i] \notin seen /\ s \in Names[articles[i]]
    BY <1>1, <1>2, <1>6, <1>10 DEF Matches
  <2> HIDE DEF rest
  <2>2. /\ DOMAIN left' = DOMAIN left \cup {s}
        /\ DOMAIN publishing' = DOMAIN publishing \cup {s}
        /\ left'[s] = rest /\ publishing'[s] = articles[i]
        /\ \A x \in DOMAIN left \ {s} : left'[x] = left[x]
        /\ \A x \in DOMAIN publishing \ {s} : publishing'[x] = publishing[x]
    <3>1. /\ DOMAIN left' = DOMAIN left \cup {s} /\ left'[s] = rest
          /\ \A x \in DOMAIN left \ {s} : left'[x] = left[x]
      BY <2>1 DEF With
    <3>2. /\ DOMAIN publishing' = DOMAIN publishing \cup {s} /\ publishing'[s] = articles[i]
          /\ \A x \in DOMAIN publishing \ {s} : publishing'[x] = publishing[x]
      BY <2>1 DEF With
    <3> QED
      BY <3>1, <3>2
  <2>3. FromOwnList'
    <3> SUFFICES ASSUME NEW t \in DOMAIN left'
                 PROVE  /\ left'[t] \in Seq(Articles) /\ Range(left'[t]) \subseteq Listed(t)
                        /\ publishing'[t] \in Listed(t) /\ t \in Names[publishing'[t]]
      BY DEF FromOwnList, Listed
    <3>1. CASE t = s
      BY <2>1, <2>2, <3>1
    <3>2. CASE t # s
      BY <2>2, <3>2 DEF FromOwnList, NewsTyped
    <3> QED
      BY <3>1, <3>2
  <2> QED
    BY <1>7, <1>8, <2>1, <2>2, <2>3 DEF NewsTyped
<1> QED
  BY <1>9, <1>10

(* Between two awaits ids become seen only together with their account.     *)
LEMMA ContinueKeepsDealt ==
  ASSUME NewsInductive, NEW s \in NewsSymbols,
         NEW articles \in Seq(Articles), Range(articles) \subseteq Listed(s),
         NEW seen \in SUBSET Articles, Continue(s, articles, seen),
         DOMAIN rawPosts \subseteq DOMAIN rawPosts',
         \A m \in DOMAIN rawPosts' \ DOMAIN rawPosts : m[1] \in Listed(s) /\ m[2] = s,
         \A x \in seen \ seenIds : << x, s >> \in DOMAIN rawPosts'
  PROVE  DealtByListing' /\ SeenAreDealt'
<1>1. /\ excused \subseteq excused' /\ offTopic \subseteq offTopic'
      /\ \A a \in seenIds' \ seen : << a, s >> \in excused' \cup offTopic'
      /\ \A m \in excused' \ excused : m[1] \in Listed(s) /\ m[2] = s
      /\ \A m \in offTopic' \ offTopic :
           m[1] \in Listed(s) /\ m[2] = s /\ s \notin Names[m[1]]
  BY ContinueProperties DEF NewsInductive
<1>2. ASSUME NEW a, NEW t PROVE Dealt(a, t) => Dealt(a, t)'
  BY <1>1 DEF Dealt, BagToSet
<1>3. DealtByListing'
  <2> SUFFICES ASSUME NEW a \in Articles, NEW t \in NewsSymbols
               PROVE  /\ Dealt(a, t)' => a \in Listed(t)
                      /\ << a, t >> \in offTopic' => t \notin Names[a]
    BY DEF DealtByListing, Listed
  <2>1. /\ Dealt(a, t) => a \in Listed(t)
        /\ << a, t >> \in offTopic => t \notin Names[a]
    BY DEF NewsInductive, DealtByListing
  <2> DEFINE m == << a, t >>
  <2>2. m[1] = a /\ m[2] = t
    OBVIOUS
  <2> HIDE DEF m
  <2>3. /\ Dealt(a, t) <=> m \in DOMAIN rawPosts \cup excused \cup offTopic
        /\ Dealt(a, t)' <=> m \in DOMAIN rawPosts' \cup excused' \cup offTopic'
    BY DEF Dealt, BagToSet, m
  <2>4. Dealt(a, t)' => a \in Listed(t)
    BY <1>1, <2>1, <2>2, <2>3
  <2>5. m \in offTopic' => t \notin Names[a]
    BY <1>1, <2>1, <2>2 DEF m
  <2> QED
    BY <2>4, <2>5 DEF m
<1>4. SeenAreDealt'
  <2> SUFFICES ASSUME NEW a \in seenIds' PROVE \E t \in NewsSymbols : Dealt(a, t)'
    BY DEF SeenAreDealt
  <2>1. CASE a \in seenIds
    BY <1>2, <2>1 DEF NewsInductive, SeenAreDealt
  <2>2. CASE a \notin seenIds
    <3>1. << a, s >> \in DOMAIN rawPosts' \cup excused' \cup offTopic'
      BY <1>1, <2>2
    <3> QED
      BY <3>1 DEF Dealt, BagToSet
  <2> QED
    BY <2>1, <2>2
<1> QED
  BY <1>3, <1>4

-----------------------------------------------------------------------------
(* One step per action of a news producer.                                  *)
LEMMA BeginBatchKeeps == ASSUME NewsInductive, BeginBatch PROVE NewsInductive'
<1>1. /\ DOMAIN publishing = {}
      /\ seenIds' \subseteq seenIds /\ trims' \in {trims, trims + 1}
      /\ trims' = trims => seenIds' = seenIds
      /\ queuedFor' = enabled
      /\ UNCHANGED << enabled, requesting, left, publishing, rawPosts, excused,
                      offTopic, newsFaults >>
  <2>1. DOMAIN publishing = {}
    BY DEF BeginBatch, Busy, NewsInductive, NewsTyped
  <2>2. seenIds' \subseteq seenIds /\ trims' \in {trims, trims + 1}
        /\ (trims' = trims => seenIds' = seenIds)
    <3>1. CASE Cardinality(seenIds) > SeenLimit
      <4>1. trims' = trims + 1 /\ seenIds' \subseteq seenIds
        BY <3>1 DEF BeginBatch, kSubset
      <4>2. trims \in Nat
        BY DEF NewsInductive, NewsTyped
      <4> QED
        BY <4>1, <4>2
    <3>2. CASE ~ (Cardinality(seenIds) > SeenLimit)
      BY <3>2 DEF BeginBatch
    <3> QED
      BY <3>1, <3>2
  <2> QED
    BY <2>1, <2>2 DEF BeginBatch
<1>2. NewsTyped' /\ FromOwnList'
  BY <1>1 DEF NewsInductive, NewsTyped, FromOwnList, Listed
<1>3. DealtByListing' /\ SeenAreDealt'
  BY <1>1 DEF NewsInductive, DealtByListing, SeenAreDealt, Dealt, Listed
<1>4. CopiesPaidFor'
  <2> SUFFICES ASSUME NEW a \in Articles, NEW s \in NewsSymbols
               PROVE  /\ Queued(<< a, s >>)' <= 1 + newsFaults' + trims'
                      /\ (a \notin seenIds' \/ (s \in DOMAIN publishing' /\ publishing'[s] = a)) =>
                            Queued(<< a, s >>)' <= newsFaults' + trims'
    BY DEF CopiesPaidFor
  <2>1. /\ Queued(<< a, s >>) <= 1 + newsFaults + trims
        /\ a \notin seenIds => Queued(<< a, s >>) <= newsFaults + trims
        /\ newsFaults \in Nat /\ trims \in Nat /\ Queued(<< a, s >>) \in Nat
    BY DEF NewsInductive, CopiesPaidFor, NewsTyped, Queued
  <2>2. Queued(<< a, s >>)' = Queued(<< a, s >>)
    BY <1>1 DEF Queued
  <2> QED
    BY <1>1, <2>1, <2>2
<1> QED
  BY <1>2, <1>3, <1>4 DEF NewsInductive

(* Steps that leave queue and ids alone, or forget ids against a fault.     *)
LEMMA ForgettingKeeps ==
  ASSUME NewsInductive, NewsTyped', FromOwnList',
         UNCHANGED << rawPosts, trims, excused, offTopic >>,
         DOMAIN publishing' \subseteq DOMAIN publishing,
         \A t \in DOMAIN publishing' : publishing'[t] = publishing[t],
         \/ seenIds' = seenIds /\ newsFaults' \in {newsFaults, newsFaults + 1}
         \/ seenIds' \subseteq seenIds /\ newsFaults' = newsFaults + 1
  PROVE  NewsInductive'
<1>1. DealtByListing' /\ SeenAreDealt'
  BY DEF NewsInductive, DealtByListing, SeenAreDealt, Dealt, Listed
<1>2. CopiesPaidFor'
  <2> SUFFICES ASSUME NEW a \in Articles, NEW s \in NewsSymbols
               PROVE  /\ Queued(<< a, s >>)' <= 1 + newsFaults' + trims'
                      /\ (a \notin seenIds' \/ (s \in DOMAIN publishing' /\ publishing'[s] = a)) =>
                            Queued(<< a, s >>)' <= newsFaults' + trims'
    BY DEF CopiesPaidFor
  <2>1. /\ Queued(<< a, s >>) <= 1 + newsFaults + trims
        /\ (a \notin seenIds \/ (s \in DOMAIN publishing /\ publishing[s] = a)) =>
              Queued(<< a, s >>) <= newsFaults + trims
        /\ newsFaults \in Nat /\ trims \in Nat /\ Queued(<< a, s >>) \in Nat
    BY DEF NewsInductive, CopiesPaidFor, NewsTyped, Queued
  <2>2. Queued(<< a, s >>)' = Queued(<< a, s >>)
    BY DEF Queued
  <2> QED
    BY <2>1, <2>2
<1> QED
  BY <1>1, <1>2 DEF NewsInductive

LEMMA RefreshOrRestartKeeps ==
  ASSUME NewsInductive, RefreshEnabled \/ ProducerRestarts
  PROVE  NewsInductive'
<1>1. CASE RefreshEnabled
  BY <1>1, ForgettingKeeps
     DEF RefreshEnabled, Fault, NewsInductive, NewsTyped, FromOwnList, Listed
<1>2. CASE ProducerRestarts
  <2>1. /\ DOMAIN left' = {} /\ DOMAIN publishing' = {} /\ seenIds' = {}
        /\ newsFaults' = newsFaults + 1 /\ queuedFor' = {} /\ requesting' = {}
        /\ UNCHANGED << enabled, rawPosts, excused, offTopic, trims >>
    BY <1>2 DEF ProducerRestarts, Fault
  <2>2. NewsTyped' /\ FromOwnList'
    BY <2>1 DEF NewsInductive, NewsTyped, FromOwnList
  <2> QED
    BY <2>1, <2>2, ForgettingKeeps
<1> QED
  BY <1>1, <1>2

LEMMA RequestKeeps ==
  ASSUME NewsInductive, NEW s \in NewsSymbols, Request(s) \/ RequestFails(s)
  PROVE  NewsInductive'
<1>1. CASE Request(s)
  BY <1>1, ForgettingKeeps DEF Request, NewsInductive, NewsTyped, FromOwnList, Listed
<1>2. CASE RequestFails(s)
  BY <1>2, ForgettingKeeps
     DEF RequestFails, Fault, NewsInductive, NewsTyped, FromOwnList, Listed
<1> QED
  BY <1>1, <1>2

LEMMA RespondKeeps ==
  ASSUME NewsInductive, NEW s \in NewsSymbols, Respond(s)
  PROVE  NewsInductive'
<1>1. /\ requesting' = requesting \ {s} /\ Continue(s, FeedOf[s], seenIds)
      /\ UNCHANGED << enabled, queuedFor, rawPosts, trims, newsFaults >>
  BY DEF Respond
<1>2. FeedOf[s] \in Seq(Articles) /\ Range(FeedOf[s]) \subseteq Listed(s)
  BY ListedProperties
<1>3. NewsTyped /\ FromOwnList /\ seenIds \subseteq Articles
  BY DEF NewsInductive, NewsTyped
<1>4. /\ seenIds \subseteq seenIds' /\ seenIds' \subseteq Articles
      /\ DOMAIN left' = DOMAIN publishing' /\ DOMAIN left' \subseteq NewsSymbols
      /\ FromOwnList'
      /\ \A t \in DOMAIN publishing' \ {s} :
           t \in DOMAIN publishing /\ publishing'[t] = publishing[t]
      /\ s \in DOMAIN publishing' => publishing'[s] \notin seenIds
  BY <1>1, <1>2, <1>3, ContinueProperties
<1>5. DealtByListing' /\ SeenAreDealt'
  <2>1. DOMAIN rawPosts' = DOMAIN rawPosts
    BY <1>1
  <2> QED
    BY <1>1, <1>2, <1>3, <2>1, ContinueKeepsDealt
<1>6. NewsTyped'
  BY <1>1, <1>3, <1>4 DEF NewsTyped
<1>7. CopiesPaidFor'
  <2> SUFFICES ASSUME NEW a \in Articles, NEW t \in NewsSymbols
               PROVE  /\ Queued(<< a, t >>)' <= 1 + newsFaults' + trims'
                      /\ (a \notin seenIds' \/ (t \in DOMAIN publishing' /\ publishing'[t] = a)) =>
                            Queued(<< a, t >>)' <= newsFaults' + trims'
    BY DEF CopiesPaidFor
  <2>1. /\ Queued(<< a, t >>) <= 1 + newsFaults + trims
        /\ (a \notin seenIds \/ (t \in DOMAIN publishing /\ publishing[t] = a)) =>
              Queued(<< a, t >>) <= newsFaults + trims
    BY DEF NewsInductive, CopiesPaidFor
  <2>2. Queued(<< a, t >>)' = Queued(<< a, t >>)
    BY <1>1 DEF Queued
  <2> QED
    BY <1>1, <1>4, <2>1, <2>2
<1> QED
  BY <1>4, <1>5, <1>6, <1>7 DEF NewsInductive

LEMMA NewsPublishKeeps ==
  ASSUME NewsInductive, NEW s \in NewsSymbols, Publish(s)
  PROVE  NewsInductive'
<1> DEFINE p == publishing[s]
           seen == seenIds \cup {p}
<1>1. /\ s \in DOMAIN publishing /\ rawPosts' = rawPosts (+) SetToBag({<< p, s >>})
      /\ Continue(s, left[s], seen)
      /\ UNCHANGED << enabled, queuedFor, requesting, trims, newsFaults >>
  BY DEF Publish, SeenAfter
<1>2. NewsTyped /\ FromOwnList /\ seenIds \subseteq Articles
  BY DEF NewsInductive, NewsTyped
<1>3. /\ left[s] \in Seq(Articles) /\ Range(left[s]) \subseteq Listed(s)
      /\ p \in Listed(s) /\ s \in Names[p] /\ p \in Articles /\ seen \in SUBSET Articles
  BY <1>1, <1>2, ListedProperties DEF FromOwnList, NewsTyped
<1>4. /\ DOMAIN rawPosts' = DOMAIN rawPosts \cup {<< p, s >>}
      /\ \A m \in DOMAIN rawPosts' : rawPosts'[m] \in Nat
      /\ rawPosts'[<< p, s >>] = Queued(<< p, s >>) + 1
      /\ \A m \in DOMAIN rawPosts \ {<< p, s >>} : rawPosts'[m] = rawPosts[m]
  <2>1. \A m \in DOMAIN rawPosts : rawPosts[m] \in Nat
    BY <1>2 DEF NewsTyped
  <2>2. rawPosts' = rawPosts (+) SetToBag({<< p, s >>})
    BY <1>1
  <2> HIDE DEF p
  <2>3. /\ DOMAIN rawPosts' = DOMAIN rawPosts \cup {<< p, s >>}
        /\ \A m \in DOMAIN rawPosts' : rawPosts'[m] \in Nat
        /\ rawPosts'[<< p, s >>] = (IF << p, s >> \in DOMAIN rawPosts
                                    THEN rawPosts[<< p, s >>] ELSE 0) + 1
        /\ \A m \in DOMAIN rawPosts \ {<< p, s >>} : rawPosts'[m] = rawPosts[m]
    <3> DEFINE x == << p, s >>
    <3>1. LET C == rawPosts (+) SetToBag({x})
          IN  /\ DOMAIN C = DOMAIN rawPosts \cup {x}
              /\ \A e \in DOMAIN C : C[e] \in Nat
              /\ C[x] = (IF x \in DOMAIN rawPosts THEN rawPosts[x] ELSE 0) + 1
              /\ \A e \in DOMAIN rawPosts \ {x} : C[e] = rawPosts[e]
      <4> HIDE DEF x
      <4> QED
        BY <2>1, OneMore
    <3> QED
      BY <2>2, <3>1
  <2> QED
    BY <2>3 DEF Queued
<1> HIDE DEF p
<1>5. /\ seen \subseteq seenIds' /\ seenIds' \subseteq Articles
      /\ DOMAIN left' = DOMAIN publishing' /\ DOMAIN left' \subseteq NewsSymbols
      /\ FromOwnList'
      /\ \A t \in DOMAIN publishing' \ {s} :
           t \in DOMAIN publishing /\ publishing'[t] = publishing[t]
      /\ s \in DOMAIN publishing' => publishing'[s] \notin seen
  <2> HIDE DEF seen
  <2> QED
    BY <1>1, <1>2, <1>3, ContinueProperties
<1>6. DealtByListing' /\ SeenAreDealt'
  <2>1. /\ DOMAIN rawPosts \subseteq DOMAIN rawPosts'
        /\ \A m \in DOMAIN rawPosts' \ DOMAIN rawPosts : m[1] \in Listed(s) /\ m[2] = s
        /\ \A x \in seen \ seenIds : << x, s >> \in DOMAIN rawPosts'
    BY <1>3, <1>4
  <2> HIDE DEF seen
  <2> QED
    BY <1>1, <1>3, <2>1, ContinueKeepsDealt
<1>7. NewsTyped'
  <2>1. << p, s >> \in { m \in Articles \X NewsSymbols : m[2] \in Names[m[1]] }
    BY <1>3
  <2> QED
    BY <1>1, <1>2, <1>4, <1>5, <2>1 DEF NewsTyped
<1>8. CopiesPaidFor'
  <2> SUFFICES ASSUME NEW a \in Articles, NEW t \in NewsSymbols
               PROVE  /\ Queued(<< a, t >>)' <= 1 + newsFaults' + trims'
                      /\ (a \notin seenIds' \/ (t \in DOMAIN publishing' /\ publishing'[t] = a)) =>
                            Queued(<< a, t >>)' <= newsFaults' + trims'
    BY DEF CopiesPaidFor
  <2>1. /\ Queued(<< a, t >>) <= 1 + newsFaults + trims
        /\ (a \notin seenIds \/ (t \in DOMAIN publishing /\ publishing[t] = a)) =>
              Queued(<< a, t >>) <= newsFaults + trims
        /\ newsFaults \in Nat /\ trims \in Nat /\ Queued(<< a, t >>) \in Nat
    BY DEF NewsInductive, CopiesPaidFor, NewsTyped, Queued
  <2>2. CASE a = p /\ t = s
    <3>1. Queued(<< a, t >>) <= newsFaults + trims
      BY <1>1, <2>1, <2>2 DEF p
    <3>2. Queued(<< a, t >>)' = Queued(<< a, t >>) + 1
      BY <1>4, <2>2 DEF Queued
    <3>3. a \in seenIds' /\ ~ (t \in DOMAIN publishing' /\ publishing'[t] = a)
      BY <1>5, <2>2
    <3> QED
      BY <1>1, <2>1, <3>1, <3>2, <3>3
  <2>3. CASE ~ (a = p /\ t = s)
    <3>1. << a, t >> # << p, s >>
      BY <2>3
    <3>2. Queued(<< a, t >>)' = Queued(<< a, t >>)
      BY <1>4, <3>1 DEF Queued
    <3> QED
      BY <1>1, <1>5, <2>1, <3>2
  <2> QED
    BY <2>2, <2>3
<1> QED
  BY <1>5, <1>6, <1>7, <1>8 DEF NewsInductive

LEMMA NewsPublishFailsKeeps ==
  ASSUME NewsInductive, NEW s \in NewsSymbols, PublishFails(s)
  PROVE  NewsInductive'
<1> DEFINE p == publishing[s]
<1>1. /\ s \in DOMAIN publishing /\ newsFaults' = newsFaults + 1
      /\ \/ rawPosts' = rawPosts
         \/ rawPosts' = rawPosts (+) SetToBag({<< p, s >>})
      /\ left' = Drop(left, s) /\ publishing' = Drop(publishing, s)
      /\ UNCHANGED << enabled, queuedFor, requesting, seenIds, excused, offTopic, trims >>
  BY DEF PublishFails, Fault
<1>2. NewsTyped /\ FromOwnList
  BY DEF NewsInductive
<1>3. p \in Listed(s) /\ s \in Names[p] /\ p \in Articles
  BY <1>1, <1>2, ListedProperties DEF FromOwnList, NewsTyped
<1>4. /\ DOMAIN left' = DOMAIN left \ {s} /\ DOMAIN publishing' = DOMAIN publishing \ {s}
      /\ \A x \in DOMAIN left \ {s} : left'[x] = left[x]
      /\ \A x \in DOMAIN publishing \ {s} : publishing'[x] = publishing[x]
  <2>1. left' = Drop(left, s) /\ publishing' = Drop(publishing, s)
    BY <1>1
  <2> HIDE DEF p
  <2>2. DOMAIN left' = DOMAIN left \ {s} /\ \A x \in DOMAIN left \ {s} : left'[x] = left[x]
    BY <2>1, DropProperties
  <2>3. /\ DOMAIN publishing' = DOMAIN publishing \ {s}
        /\ \A x \in DOMAIN publishing \ {s} : publishing'[x] = publishing[x]
    BY <2>1, DropProperties
  <2> QED
    BY <2>2, <2>3
<1> HIDE DEF p
<1>5. /\ DOMAIN rawPosts \subseteq DOMAIN rawPosts'
      /\ DOMAIN rawPosts' \subseteq DOMAIN rawPosts \cup {<< p, s >>}
      /\ \A m \in DOMAIN rawPosts' : rawPosts'[m] \in Nat
      /\ \A m : Queued(m) \in Nat /\ Queued(m)' \in Nat /\ Queued(m)' <= Queued(m) + 1
      /\ \A m : m # << p, s >> => Queued(m)' = Queued(m)
  <2>1. \A m \in DOMAIN rawPosts : rawPosts[m] \in Nat
    BY <1>2 DEF NewsTyped
  <2>2. CASE rawPosts' = rawPosts
    BY <2>1, <2>2 DEF Queued
  <2>3. CASE rawPosts' = rawPosts (+) SetToBag({<< p, s >>})
    <3>1. /\ DOMAIN rawPosts' = DOMAIN rawPosts \cup {<< p, s >>}
          /\ \A m \in DOMAIN rawPosts' : rawPosts'[m] \in Nat
          /\ rawPosts'[<< p, s >>] = (IF << p, s >> \in DOMAIN rawPosts
                                      THEN rawPosts[<< p, s >>] ELSE 0) + 1
          /\ \A m \in DOMAIN rawPosts \ {<< p, s >>} : rawPosts'[m] = rawPosts[m]
      <4> DEFINE x == << p, s >>
      <4>1. LET C == rawPosts (+) SetToBag({x})
            IN  /\ DOMAIN C = DOMAIN rawPosts \cup {x}
                /\ \A e \in DOMAIN C : C[e] \in Nat
                /\ C[x] = (IF x \in DOMAIN rawPosts THEN rawPosts[x] ELSE 0) + 1
                /\ \A e \in DOMAIN rawPosts \ {x} : C[e] = rawPosts[e]
        <5> HIDE DEF x
        <5> QED
          BY <2>1, OneMore
      <4> QED
        BY <2>3, <4>1
    <3> DEFINE x == << p, s >>
    <3> HIDE DEF x
    <3>2. ASSUME NEW m PROVE /\ Queued(m) \in Nat /\ Queued(m)' \in Nat
                             /\ Queued(m)' <= Queued(m) + 1
                             /\ m # x => Queued(m)' = Queued(m)
      <4>1. CASE m = x
        BY <2>1, <3>1, <4>1 DEF Queued, x
      <4>2. CASE m # x
        <5>1. m \in DOMAIN rawPosts' <=> m \in DOMAIN rawPosts
          BY <3>1, <4>2 DEF x
        <5>2. m \in DOMAIN rawPosts => rawPosts'[m] = rawPosts[m]
          BY <3>1, <4>2 DEF x
        <5> QED
          BY <2>1, <5>1, <5>2 DEF Queued
      <4> QED
        BY <4>1, <4>2
    <3> QED
      BY <3>1, <3>2 DEF x
  <2> QED
    BY <1>1, <2>2, <2>3
<1>6. NewsTyped'
  <2>1. << p, s >> \in { m \in Articles \X NewsSymbols : m[2] \in Names[m[1]] }
    BY <1>3
  <2> QED
    BY <1>1, <1>2, <1>4, <1>5, <2>1 DEF NewsTyped
<1>7. FromOwnList'
  BY <1>2, <1>4 DEF FromOwnList, NewsTyped, Listed
<1>8. DealtByListing' /\ SeenAreDealt'
  <2>1. ASSUME NEW a, NEW t
        PROVE  /\ Dealt(a, t) => Dealt(a, t)'
               /\ Dealt(a, t)' => Dealt(a, t) \/ << a, t >> = << p, s >>
    BY <1>1, <1>5 DEF Dealt, BagToSet
  <2>2. DealtByListing'
    <3> SUFFICES ASSUME NEW a \in Articles, NEW t \in NewsSymbols
                 PROVE  /\ Dealt(a, t)' => a \in Listed(t)
                        /\ << a, t >> \in offTopic => t \notin Names[a]
      BY <1>1 DEF DealtByListing, Listed
    <3>1. << a, t >> = << p, s >> => a = p /\ t = s
      OBVIOUS
    <3> QED
      BY <1>3, <2>1, <3>1 DEF NewsInductive, DealtByListing
  <2>3. SeenAreDealt'
    BY <1>1, <2>1 DEF NewsInductive, SeenAreDealt
  <2> QED
    BY <2>2, <2>3
<1>9. CopiesPaidFor'
  <2> SUFFICES ASSUME NEW a \in Articles, NEW t \in NewsSymbols
               PROVE  /\ Queued(<< a, t >>)' <= 1 + newsFaults' + trims'
                      /\ (a \notin seenIds' \/ (t \in DOMAIN publishing' /\ publishing'[t] = a)) =>
                            Queued(<< a, t >>)' <= newsFaults' + trims'
    BY DEF CopiesPaidFor
  <2>1. /\ Queued(<< a, t >>) <= 1 + newsFaults + trims
        /\ (a \notin seenIds \/ (t \in DOMAIN publishing /\ publishing[t] = a)) =>
              Queued(<< a, t >>) <= newsFaults + trims
        /\ newsFaults \in Nat /\ trims \in Nat
    BY <1>2 DEF NewsInductive, CopiesPaidFor, NewsTyped
  <2>2. /\ Queued(<< a, t >>) \in Nat /\ Queued(<< a, t >>)' \in Nat
        /\ Queued(<< a, t >>)' <= Queued(<< a, t >>) + 1
        /\ << a, t >> # << p, s >> => Queued(<< a, t >>)' = Queued(<< a, t >>)
    BY <1>5
  <2>3. CASE a = p /\ t = s
    <3>1. Queued(<< a, t >>) <= newsFaults + trims
      BY <1>1, <2>1, <2>3 DEF p
    <3> QED
      BY <1>1, <2>1, <2>2, <3>1
  <2>4. CASE ~ (a = p /\ t = s)
    <3>1. Queued(<< a, t >>)' = Queued(<< a, t >>)
      BY <2>2, <2>4
    <3>2. (t \in DOMAIN publishing' /\ publishing'[t] = a) =>
            (t \in DOMAIN publishing /\ publishing[t] = a)
      BY <1>4
    <3> QED
      BY <1>1, <2>1, <2>2, <3>1, <3>2
  <2> QED
    BY <2>3, <2>4
<1> QED
  BY <1>6, <1>7, <1>8, <1>9 DEF NewsInductive

LEMMA NewsInductiveInvariant == NewsSpec => []NewsInductive
<1>1. NewsInductive /\ [NewsNext]_newsVars => NewsInductive'
  <2> SUFFICES ASSUME NewsInductive, [NewsNext]_newsVars PROVE NewsInductive'
    OBVIOUS
  <2>1. CASE UNCHANGED newsVars
    <3>1. UNCHANGED << enabled, queuedFor, requesting, left, publishing, seenIds,
                       rawPosts, excused, offTopic, trims, newsFaults >>
      BY <2>1 DEF newsVars
    <3>2. NewsTyped' /\ FromOwnList'
      BY <3>1 DEF NewsInductive, NewsTyped, FromOwnList, Listed
    <3> QED
      BY <3>1, <3>2, ForgettingKeeps
  <2> QED
    BY <2>1, BeginBatchKeeps, RefreshOrRestartKeeps, RequestKeeps, RespondKeeps,
       NewsPublishKeeps, NewsPublishFailsKeeps DEF NewsNext
<1> QED
  BY <1>1, NewsInductiveInit, PTL DEF NewsSpec

(* Posts in the queue name the symbol they are published for, and the       *)
(* variables of a news producer keep their types.                           *)
THEOREM NewsTypeCorrect == NewsSpec => []NewsTypeOK
<1>1. NewsInductive => NewsTypeOK
  <2> SUFFICES ASSUME NewsInductive PROVE NewsTypeOK
    OBVIOUS
  <2>1. Range(publishing) \subseteq Articles
    <3> SUFFICES ASSUME NEW s \in DOMAIN publishing PROVE publishing[s] \in Articles
      BY DEF Range
    <3>1. s \in NewsSymbols /\ publishing[s] \in Listed(s)
      BY DEF NewsInductive, NewsTyped, FromOwnList
    <3> QED
      BY <3>1, ListedProperties
  <2> QED
    BY <2>1 DEF NewsInductive, NewsTyped, NewsTypeOK, BagToSet
<1> QED
  BY <1>1, NewsInductiveInvariant, PTL

(* However the coroutines of a cycle interleave and whatever fails: an id   *)
(* that is remembered was published for every symbol that lists it and is   *)
(* named, unless that symbol was out of the snapshot or another symbol that *)
(* lists the article dealt with it first (that loss does happen); a second  *)
(* copy for a symbol is paid for by a fault or by dropped ids.              *)
THEOREM ArticlesAreAccountedFor == NewsSpec => []ArticlesAccountedFor
<1>1. NewsInductive => CopiesExplained
  <2> SUFFICES ASSUME NewsInductive, NEW m \in DOMAIN rawPosts
               PROVE  rawPosts[m] <= 1 + newsFaults + trims
    BY DEF CopiesExplained, BagToSet
  <2>1. m \in Articles \X NewsSymbols
    BY DEF NewsInductive, NewsTyped
  <2>2. PICK a \in Articles, s \in NewsSymbols : m = << a, s >>
    BY <2>1
  <2>3. Queued(<< a, s >>) <= 1 + newsFaults + trims
    BY DEF NewsInductive, CopiesPaidFor
  <2> QED
    BY <2>2, <2>3 DEF Queued
<1>2. NewsInductive => MissedOnlyToAnother
  <2> SUFFICES ASSUME NewsInductive, NEW s \in NewsSymbols,
                      NEW a \in seenIds \cap Listed(s), s \in Names[a],
                      << a, s >> \notin BagToSet(rawPosts) \cup excused
               PROVE  \E t \in NewsSymbols \ {s} : a \in Listed(t) /\ Dealt(a, t)
    BY DEF MissedOnlyToAnother
  <2>1. a \in Articles
    BY DEF NewsInductive, NewsTyped
  <2>2. PICK t \in NewsSymbols : Dealt(a, t)
    BY DEF NewsInductive, SeenAreDealt
  <2>3. << a, s >> \notin offTopic
    BY <2>1 DEF NewsInductive, DealtByListing
  <2>4. t # s
    BY <2>2, <2>3 DEF Dealt
  <2> QED
    BY <2>1, <2>2, <2>4 DEF NewsInductive, DealtByListing
<1>3. NewsInductive => ArticlesAccountedFor
  BY <1>1, <1>2 DEF ArticlesAccountedFor
<1> QED
  BY <1>3, NewsInductiveInvariant, PTL

-----------------------------------------------------------------------------
(* Quote polling.  The moments of a day belong to it, and days do not       *)
(* overlap.                                                                 *)
LEMMA DayProperties ==
  ASSUME NEW d \in Nat, NEW offset \in Int
  PROVE  /\ At(d, offset) \in Int
         /\ offset \in 0 .. DayTicks - 1 => DateOf(At(d, offset)) = d
         /\ \A e \in Nat, other \in Int :
              d < e => At(d, offset) + DayTicks - offset <= At(e, other) - other
         /\ \A other \in Int : At(d, other) - other = At(d, offset) - offset
<1>1. DayTicks \in Nat \ {0}
  BY PollingAssumption
<1>2. At(d, offset) \in Int
  BY <1>1 DEF At
<1>3. offset \in 0 .. DayTicks - 1 => DateOf(At(d, offset)) = d
  BY <1>1 DEF At, DateOf
<1>4. ASSUME NEW e \in Nat, NEW other \in Int, d < e
      PROVE  At(d, offset) + DayTicks - offset <= At(e, other) - other
  <2>1. d * DayTicks + DayTicks <= e * DayTicks
    BY <1>1, <1>4
  <2>2. d * DayTicks \in Int /\ e * DayTicks \in Int
    BY <1>1
  <2> QED
    BY <1>1, <2>1, <2>2 DEF At
<1>5. \A other \in Int : At(d, other) - other = At(d, offset) - offset
  <2>1. d * DayTicks \in Int
    BY <1>1
  <2> QED
    BY <2>1 DEF At
<1> QED
  BY <1>2, <1>3, <1>4, <1>5

LastBar(d) == At(d, StockClose - 1)

(* At the last minute before the bell, and at the bell, the session is      *)
(* regular.                                                                 *)
LEMMA ClosingSession ==
  ASSUME NEW d \in StockDays, NEW t \in {LastBar(d), LastBar(d) + 1}
  PROVE  Session("stock", t) = "regular"
<1> USE PollingAssumption
<1>1. d \in Nat /\ StockClose - 1 \in 0 .. DayTicks - 1 /\ StockClose \in 0 .. DayTicks - 1
  OBVIOUS
<1>2. /\ LastBar(d) \in Int /\ DateOf(LastBar(d)) = d
      /\ At(d, StockClose) \in Int /\ DateOf(At(d, StockClose)) = d
      /\ At(d, StockOpen) \in Int
  BY <1>1, DayProperties DEF LastBar
<1>3. /\ At(d, StockClose) = LastBar(d) + 1
      /\ At(d, StockOpen) <= LastBar(d)
  <2>1. d * DayTicks \in Int
    BY <1>1
  <2> QED
    BY <1>1, <2>1 DEF At, LastBar
<1>4. d \in StockDays /\ DateOf(t) = d
  BY <1>2, <1>3
<1>5. t \in At(d, StockOpen) .. At(d, StockClose)
  BY <1>2, <1>3
<1>6. StockSession(t) = "regular"
  BY <1>4, <1>5 DEF StockSession
<1> QED
  BY <1>6 DEF Session

(* From the last minute of a session until the tick after the bell, that    *)
(* minute has the latest bar.                                               *)
LEMMA ClosingBarIsLatest ==
  ASSUME NEW d \in StockDays, quoteClock \in LastBar(d) .. LastBar(d) + 2
  PROVE  LatestBar("stock") = LastBar(d) /\ LastBar(d) \in Nat
<1> USE PollingAssumption
<1> DEFINE past == { t \in BarTicks("stock") : t >= 0 /\ t <= quoteClock }
<1>1. d \in Nat /\ StockClose - 1 \in Int /\ LastBar(d) \in Nat
  <2>1. d * DayTicks \in Nat
    OBVIOUS
  <2> QED
    BY <2>1 DEF LastBar, At
<1>2. BarTicks("stock") =
        UNION { At(e, StockOpen) .. At(e, StockClose) - 1 : e \in StockDays }
  BY DEF BarTicks
<1>3. LastBar(d) \in past
  <2>1. LastBar(d) \in At(d, StockOpen) .. At(d, StockClose) - 1
    <3>1. d * DayTicks \in Int
      BY <1>1
    <3> QED
      BY <3>1 DEF At, LastBar
  <2> QED
    BY <1>1, <1>2, <2>1
<1>4. ASSUME NEW t \in past
      PROVE  LastBar(d) >= t
  <2>1. PICK e \in StockDays : t \in At(e, StockOpen) .. At(e, StockClose) - 1
    BY <1>2
  <2>2. /\ At(e, StockOpen) \in Int /\ At(e, StockClose) \in Int /\ e \in Nat
        /\ At(e, StockClose) - StockClose = At(e, StockOpen) - StockOpen
    BY DayProperties
  <2>3. CASE e < d
    <3>1. At(e, StockClose) + DayTicks - StockClose <= LastBar(d) - (StockClose - 1)
      BY <1>1, <2>2, <2>3, DayProperties DEF LastBar
    <3> QED
      BY <1>1, <2>1, <2>2, <3>1
  <2>4. CASE e = d
    <3>1. At(d, StockClose) - StockClose = LastBar(d) - (StockClose - 1)
      BY <1>1, DayProperties DEF LastBar
    <3> QED
      BY <1>1, <2>1, <2>2, <2>4, <3>1
  <2>5. CASE d < e
    <3>1. LastBar(d) + DayTicks - (StockClose - 1) <= At(e, StockOpen) - StockOpen
      BY <1>1, <2>2, <2>5, DayProperties DEF LastBar
    <3> QED
      BY <1>1, <2>1, <2>2, <3>1
  <2> QED
    BY <1>1, <2>2, <2>3, <2>4, <2>5
<1> HIDE DEF past
<1>5. Max(past) = LastBar(d)
  <2>1. past \subseteq Int
    BY <1>2 DEF past
  <2>2. Max(past) \in past /\ Max(past) >= LastBar(d)
    BY <1>3, <1>4 DEF Max
  <2>3. LastBar(d) >= Max(past) /\ Max(past) \in Int
    BY <1>4, <2>1, <2>2
  <2> QED
    BY <1>1, <2>2, <2>3
<1> QED
  BY <1>1, <1>3, <1>5 DEF LatestBar, past
-----------------------------------------------------------------------------
PollingTyped ==
  /\ quoteClock \in 0 .. LastTick /\ polledAt \in {quoteClock, quoteClock - 1}
  /\ quoteAsked \subseteq Quoted
  /\ received \cup quoteRows \subseteq
       [ symbol : Quoted, at : 0 .. LastTick,
         label : {"pre", "regular", "after", "futures_open"} ]
  /\ \A q, r \in quoteRows : q.symbol = r.symbol /\ q.at = r.at => q = r
  /\ quoteFaults \in 0 .. MaxQuoteFaults

AskedInSession == \A i \in quoteAsked : Session(i, polledAt) \notin Inactive

ClosingBar(d) == \E r \in quoteRows : r.symbol = "stock" /\ r.at = LastBar(d)

(* The cycle may still store the last bar of a session.                     *)
MayStore(d) ==
  \/ "stock" \in quoteAsked
  \/ \E q \in received : q.symbol = "stock" /\ q.at = LastBar(d)

(* Two cycles can store it, the one of the last minute and the one of the   *)
(* bell: if it is missing, each of them has failed or is not over.          *)
TwoCyclesTry(d) ==
  \/ ClosingBar(d)
  \/ /\ polledAt >= LastBar(d) =>
          quoteFaults >= 1 \/ (polledAt = LastBar(d) /\ MayStore(d))
     /\ polledAt >= LastBar(d) + 1 =>
          quoteFaults >= 2 \/ (polledAt = LastBar(d) + 1 /\ MayStore(d))

PollingInductive ==
  /\ PollingTyped
  /\ AskedInSession
  /\ \A d \in StockDays : TwoCyclesTry(d)

LEMMA SessionLabels ==
  ASSUME NEW i \in Quoted, NEW t, Session(i, t) \notin Inactive
  PROVE  Session(i, t) \in {"pre", "regular", "after", "futures_open"}
BY DEF Session, StockSession, FutureSession, Inactive

LEMMA LastBarIsTick ==
  ASSUME NEW d \in StockDays
  PROVE  LastBar(d) \in Nat
<1>1. d * DayTicks \in Nat
  BY PollingAssumption
<1> QED
  BY <1>1, PollingAssumption DEF LastBar, At

LEMMA LatestBarType ==
  ASSUME PollingTyped, NEW i \in Quoted
  PROVE  LatestBar(i) = -1 \/ LatestBar(i) \in 0 .. LastTick
<1> DEFINE past == { t \in BarTicks(i) : t >= 0 /\ t <= quoteClock }
<1> USE PollingAssumption
<1>1. past \subseteq Int
  <2>1. BarTicks(i) \subseteq Int
    BY DEF BarTicks
  <2> QED
    BY <2>1
<1>2. IsFiniteSet(past)
  <2>1. past \subseteq 0 .. quoteClock
    BY <1>1 DEF PollingTyped
  <2>2. IsFiniteSet(0 .. quoteClock)
    BY FS_Interval DEF PollingTyped
  <2> QED
    BY <2>1, <2>2, FS_Subset
<1>3. ASSUME past # {}
      PROVE  Max(past) \in past
  <2>1. \E x \in past : \A y \in past : x >= y
    <3> DEFINE ages == { quoteClock - y : y \in past }
    <3>1. ages \in SUBSET Nat /\ ages # {}
      BY <1>1, <1>3 DEF PollingTyped
    <3> HIDE DEF ages
    <3>2. PICK n \in ages : \A k \in ages : n <= k
      BY <3>1, LeastIndexExists
    <3> USE DEF ages
    <3>3. PICK x \in past : n = quoteClock - x
      BY <3>2
    <3>4. \A y \in past : quoteClock - x <= quoteClock - y
      BY <3>2, <3>3
    <3> QED
      BY <1>1, <3>4 DEF PollingTyped
  <2> QED
    BY <2>1 DEF Max
<1>4. past # {} => Max(past) \in 0 .. quoteClock
  BY <1>1, <1>3 DEF PollingTyped
<1> QED
  BY <1>4 DEF LatestBar, PollingTyped

LEMMA PollingInductiveInit == PollingInit => PollingInductive
<1> SUFFICES ASSUME PollingInit
             PROVE  PollingInductive
  OBVIOUS
<1> USE PollingAssumption DEF PollingInit
<1>1. PollingTyped /\ AskedInSession
  BY DEF PollingTyped, AskedInSession
<1>2. ASSUME NEW d \in StockDays
      PROVE  TwoCyclesTry(d)
  BY LastBarIsTick DEF TwoCyclesTry
<1> QED
  BY <1>1, <1>2 DEF PollingInductive

LEMMA BeginQuotesKeeps ==
  ASSUME PollingInductive, BeginQuotes
  PROVE  PollingInductive'
<1> USE DEF BeginQuotes, PollingInductive
<1>1. PollingTyped' /\ AskedInSession'
  BY DEF PollingTyped, AskedInSession
<1>2. ASSUME NEW d \in StockDays
      PROVE  TwoCyclesTry(d)'
  <2> DEFINE C == LastBar(d)
  <2>1. C \in Nat
    BY LastBarIsTick
  <2>2. /\ polledAt \in Int /\ polledAt' = polledAt + 1 /\ quoteFaults \in Nat
        /\ polledAt' = quoteClock
    BY PollingAssumption DEF PollingTyped
  <2>3. ClosingBar(d)' <=> ClosingBar(d)
    BY DEF ClosingBar
  <2>4. ~ MayStore(d)
    BY DEF CycleOver, MayStore
  <2>5. TwoCyclesTry(d)
    OBVIOUS
  <2>6. polledAt' \in {C, C + 1} => MayStore(d)'
    <3> SUFFICES ASSUME polledAt' \in {C, C + 1}
                 PROVE  MayStore(d)'
      OBVIOUS
    <3>1. Session("stock", quoteClock) = "regular"
      BY <2>2, ClosingSession
    <3> QED
      BY <3>1 DEF MayStore, Quoted, Inactive
  <2> QED
    BY <2>1, <2>2, <2>3, <2>4, <2>5, <2>6 DEF TwoCyclesTry
<1> QED
  BY <1>1, <1>2

LEMMA QuoteArrivesKeeps ==
  ASSUME PollingInductive, QuoteArrives
  PROVE  PollingInductive'
<1> USE DEF PollingInductive
<1>1. PICK i \in quoteAsked :
        /\ quoteAsked' = quoteAsked \ {i}
        /\ received' = IF LatestBar(i) = -1 THEN received
                       ELSE received \cup { [ symbol |-> i, at |-> LatestBar(i),
                                              label |-> Session(i, polledAt) ] }
  BY DEF QuoteArrives
<1>2. UNCHANGED << quoteClock, polledAt, quoteRows, quoteFaults >>
  BY DEF QuoteArrives
<1>3. i \in Quoted /\ Session(i, polledAt) \in {"pre", "regular", "after", "futures_open"}
  BY SessionLabels DEF PollingTyped, AskedInSession
<1>4. PollingTyped'
  <2>1. LatestBar(i) = -1 \/ LatestBar(i) \in 0 .. LastTick
    BY <1>3, LatestBarType
  <2> QED
    BY <1>1, <1>2, <1>3, <2>1 DEF PollingTyped
<1>5. AskedInSession'
  BY <1>1, <1>2 DEF AskedInSession
<1>6. ASSUME NEW d \in StockDays
      PROVE  TwoCyclesTry(d)'
  <2>1. ClosingBar(d)' <=> ClosingBar(d)
    BY <1>2 DEF ClosingBar
  <2>2. polledAt \in {LastBar(d), LastBar(d) + 1} /\ MayStore(d) => MayStore(d)'
    <3> SUFFICES ASSUME polledAt \in {LastBar(d), LastBar(d) + 1}, MayStore(d)
                 PROVE  MayStore(d)'
      OBVIOUS
    <3>1. CASE i = "stock"
      <4>1. LastBar(d) \in Nat
        BY LastBarIsTick
      <4>2. quoteClock \in LastBar(d) .. LastBar(d) + 2
        BY <4>1 DEF PollingTyped
      <4>3. LatestBar(i) = LastBar(d)
        BY <3>1, <4>2, ClosingBarIsLatest
      <4>4. [symbol |-> i, at |-> LatestBar(i), label |-> Session(i, polledAt)]
              \in received'
        BY <1>1, <4>1, <4>3
      <4> QED
        BY <3>1, <4>3, <4>4 DEF MayStore
    <3>2. CASE i # "stock"
      BY <1>1, <3>2 DEF MayStore
    <3> QED
      BY <3>1, <3>2
  <2>3. TwoCyclesTry(d)
    OBVIOUS
  <2> QED
    BY <1>2, <2>1, <2>2, <2>3 DEF TwoCyclesTry
<1> QED
  BY <1>4, <1>5, <1>6

(* A failure, of a request or of an insert, is the failure of one cycle.    *)
LEMMA OneCycleFails ==
  ASSUME PollingInductive, NEW d \in StockDays,
         polledAt' = polledAt, quoteFaults' = quoteFaults + 1, quoteRows' = quoteRows
  PROVE  TwoCyclesTry(d)'
<1>1. TwoCyclesTry(d) /\ quoteFaults \in Nat /\ polledAt \in Int /\ LastBar(d) \in Nat
  BY LastBarIsTick, PollingAssumption DEF PollingInductive, PollingTyped
<1>2. ClosingBar(d)' <=> ClosingBar(d)
  BY DEF ClosingBar
<1> QED
  BY <1>1, <1>2 DEF TwoCyclesTry

LEMMA QuoteFailsKeeps ==
  ASSUME PollingInductive, QuoteFails
  PROVE  PollingInductive'
<1> USE DEF QuoteFails
<1>1. PollingTyped' /\ AskedInSession'
  BY PollingAssumption DEF PollingInductive, PollingTyped, AskedInSession
<1>2. \A d \in StockDays : TwoCyclesTry(d)'
  BY OneCycleFails
<1> QED
  BY <1>1, <1>2 DEF PollingInductive

LEMMA StoreQuoteKeeps ==
  ASSUME PollingInductive, StoreQuote
  PROVE  PollingInductive'
<1>1. PICK q \in received :
        /\ received' = received \ {q}
        /\ \/ quoteRows' = InsertRow(quoteRows, q) /\ UNCHANGED quoteFaults
           \/ /\ quoteFaults < MaxQuoteFaults /\ quoteFaults' = quoteFaults + 1
              /\ UNCHANGED quoteRows
  BY DEF StoreQuote
<1>2. quoteAsked = {} /\ UNCHANGED << quoteClock, polledAt, quoteAsked >>
  BY DEF StoreQuote
<1>3. PollingTyped
  BY DEF PollingInductive
<1>4. AskedInSession'
  BY <1>2 DEF AskedInSession
<1>5. CASE quoteRows' = quoteRows /\ quoteFaults < MaxQuoteFaults
           /\ quoteFaults' = quoteFaults + 1
  <2>1. PollingTyped'
    BY <1>1, <1>2, <1>3, <1>5, PollingAssumption DEF PollingTyped
  <2>2. \A d \in StockDays : TwoCyclesTry(d)'
    BY <1>2, <1>5, OneCycleFails
  <2> QED
    BY <1>4, <2>1, <2>2 DEF PollingInductive
<1>6. CASE quoteRows' = InsertRow(quoteRows, q) /\ UNCHANGED quoteFaults
  <2>1. PollingTyped'
    <3>1. \A r, s \in quoteRows' : r.symbol = s.symbol /\ r.at = s.at => r = s
      BY <1>3, <1>6 DEF PollingTyped, InsertRow
    <3>2. received' \cup quoteRows' \subseteq received \cup quoteRows
      BY <1>1, <1>6 DEF InsertRow
    <3> QED
      BY <1>2, <1>3, <1>6, <3>1, <3>2 DEF PollingTyped
  <2>2. ASSUME NEW d \in StockDays
        PROVE  TwoCyclesTry(d)'
    <3>1. ClosingBar(d) => ClosingBar(d)'
      BY <1>6 DEF ClosingBar, InsertRow
    <3>2. MayStore(d) => MayStore(d)' \/ ClosingBar(d)'
      BY <1>1, <1>2, <1>6 DEF MayStore, ClosingBar, InsertRow
    <3>3. TwoCyclesTry(d)
      BY DEF PollingInductive
    <3> QED
      BY <1>2, <1>6, <3>1, <3>2, <3>3 DEF TwoCyclesTry
  <2> QED
    BY <1>4, <2>1, <2>2 DEF PollingInductive
<1> QED
  BY <1>1, <1>5, <1>6

LEMMA PollingTickKeeps ==
  ASSUME PollingInductive, PollingTick
  PROVE  PollingInductive'
<1> USE DEF PollingTick
<1>1. PollingTyped' /\ AskedInSession'
  BY PollingAssumption DEF PollingInductive, PollingTyped, AskedInSession
<1>2. \A d \in StockDays : TwoCyclesTry(d)'
  BY DEF PollingInductive, TwoCyclesTry, ClosingBar, MayStore
<1> QED
  BY <1>1, <1>2 DEF PollingInductive

THEOREM PollingInductiveInvariant == PollingSpec => []PollingInductive
<1>1. PollingInductive /\ [PollingNext]_pollingVars => PollingInductive'
  <2> SUFFICES ASSUME PollingInductive, [PollingNext]_pollingVars
               PROVE  PollingInductive'
    OBVIOUS
  <2>1. CASE UNCHANGED pollingVars
    BY <2>1 DEF pollingVars, PollingInductive, PollingTyped, AskedInSession,
                TwoCyclesTry, ClosingBar, MayStore
  <2> QED
    BY <2>1, BeginQuotesKeeps, QuoteArrivesKeeps, QuoteFailsKeeps, StoreQuoteKeeps,
       PollingTickKeeps DEF PollingNext
<1> QED
  BY <1>1, PollingInductiveInit, PTL DEF PollingSpec

(* The rows of a cycle keep their types, and no timestamp has two.          *)
THEOREM PollingTypeCorrect == PollingSpec => []PollingTypeOK
<1>1. PollingInductive => PollingTypeOK
  BY PollingAssumption DEF PollingInductive, PollingTyped, PollingTypeOK
<1> QED
  BY <1>1, PollingInductiveInvariant, PTL

(* Whatever answers late or fails: only a symbol whose exchange trades is   *)
(* asked for, and one failure does not lose the close of a session.         *)
THEOREM QuotesAreOfSessions == PollingSpec => []QuotesOfSessions
<1>1. PollingInductive => NothingAskedWhileShut
  <2> SUFFICES ASSUME PollingInductive
               PROVE  NothingAskedWhileShut
    OBVIOUS
  <2> USE PollingAssumption
  <2>1. ASSUME "stock" \in quoteAsked
        PROVE  StockTrades(polledAt)
    <3> DEFINE d == DateOf(polledAt)
    <3>1. StockSession(polledAt) \notin Inactive
      BY <2>1 DEF PollingInductive, AskedInSession, Session
    <3>2. /\ d \in StockDays
          /\ \/ polledAt \in At(d, StockOpen) .. At(d, StockClose)
             \/ polledAt \in At(d, StockOpen - PreSpan) .. At(d, StockOpen) - 1
             \/ polledAt \in At(d, StockClose) + 1 .. At(d, StockClose + AfterSpan)
      BY <3>1 DEF StockSession, Inactive
    <3> HIDE DEF d
    <3>3. /\ At(d, StockOpen - PreSpan) \in Int
          /\ At(d, StockClose + AfterSpan) \in Int
          /\ At(d, StockOpen - PreSpan) <= At(d, StockOpen)
          /\ At(d, StockClose) <= At(d, StockClose + AfterSpan)
          /\ At(d, StockOpen) \in Int /\ At(d, StockClose) \in Int
          /\ At(d, StockOpen) <= At(d, StockClose)
      <4>1. d * DayTicks \in Int
        BY <3>2
      <4> QED
        BY <4>1 DEF At
    <3>4. polledAt \in At(d, StockOpen - PreSpan) .. At(d, StockClose + AfterSpan)
      BY <3>2, <3>3
    <3> QED
      BY <3>2, <3>4 DEF StockTrades
  <2>2. ASSUME "future" \in quoteAsked
        PROVE  FutureTrades(polledAt)
    <3>1. FutureSession(polledAt) \notin Inactive
      BY <2>2 DEF PollingInductive, AskedInSession, Session
    <3> QED
      BY <3>1 DEF FutureSession, Inactive, FutureTrades
  <2> QED
    BY <2>1, <2>2 DEF NothingAskedWhileShut
<1>2. PollingInductive => ClosingBarStored
  <2> SUFFICES ASSUME PollingInductive, NEW d \in StockDays,
                      quoteClock >= At(d + 1, 1), quoteFaults <= 1
               PROVE  ClosingBar(d)
    BY DEF ClosingBarStored, ClosingBar, LastBar
  <2> USE PollingAssumption
  <2>1. LastBar(d) + 2 <= At(d + 1, 0) /\ At(d + 1, 1) = At(d + 1, 0) + 1
    <3>1. d + 1 \in Nat /\ d < d + 1 /\ d \in Nat /\ StockClose - 1 \in Int
      OBVIOUS
    <3>2. (d + 1) * DayTicks = d * DayTicks + DayTicks /\ d * DayTicks \in Int
      BY <3>1
    <3> QED
      BY <3>2 DEF At, LastBar
  <2>2. /\ polledAt >= quoteClock - 1 /\ quoteClock \in Int /\ polledAt \in Int
        /\ quoteFaults \in Nat /\ LastBar(d) \in Nat /\ At(d + 1, 0) \in Int
    <3>1. At(d + 1, 0) \in Int
      BY DayProperties
    <3> QED
      BY <3>1, LastBarIsTick DEF PollingInductive, PollingTyped
  <2>3. polledAt >= LastBar(d) + 2
    BY <2>1, <2>2
  <2>4. TwoCyclesTry(d)
    BY DEF PollingInductive
  <2> QED
    BY <2>2, <2>3, <2>4 DEF TwoCyclesTry
<1>3. PollingInductive => QuotesOfSessions
  BY <1>1, <1>2 DEF QuotesOfSessions
<1> QED
  BY <1>3, PollingInductiveInvariant, PTL

-----------------------------------------------------------------------------
(* Metrics.  What a thread has cached it read itself, after its start: its  *)
(* start is its name, and no two threads start at the same time.            *)
MetricsTyped ==
  /\ hour \in Nat \ {0}
  /\ DOMAIN caches = DOMAIN threads /\ DOMAIN inHand \subseteq DOMAIN threads
  /\ \A t \in DOMAIN threads : t \in 1 .. hour

OwnBaselines(t) == {NoBaseline} \cup [by : {t}, at : t .. hour]

CachedSinceStart ==
  \A t \in DOMAIN caches : \A s \in DOMAIN caches[t] :
    caches[t][s] \in OwnBaselines(t)

RowsSinceStart ==
  \A s \in DOMAIN metrics :
    metrics[s].run \in Nat /\ metrics[s].base \in OwnBaselines(metrics[s].run)

MetricsInductive == MetricsTyped /\ CachedSinceStart /\ RowsSinceStart

LEMMA MetricsInductiveInit == MetricsInit => MetricsInductive
BY DEF MetricsInit, MetricsInductive, MetricsTyped, CachedSinceStart, RowsSinceStart

LEMMA StartMetricsKeeps ==
  ASSUME MetricsInductive, StartMetrics
  PROVE  MetricsInductive'
<1> USE DEF StartMetrics, With, OwnBaselines
<1>1. MetricsTyped'
  BY DEF MetricsInductive, MetricsTyped
<1>2. CachedSinceStart'
  <2>1. caches' = With(caches, hour, << >>) /\ hour' = hour
    OBVIOUS
  <2>2. ASSUME NEW t \in DOMAIN caches', NEW s \in DOMAIN caches'[t]
        PROVE  caches'[t][s] \in OwnBaselines(t)'
    <3>1. t # hour
      BY <2>1, <2>2
    <3>2. t \in DOMAIN caches /\ caches'[t] = caches[t]
      BY <2>1, <3>1
    <3> QED
      BY <2>1, <3>2 DEF MetricsInductive, CachedSinceStart
  <2> QED
    BY <2>2 DEF CachedSinceStart
<1>3. RowsSinceStart'
  BY DEF MetricsInductive, RowsSinceStart
<1> QED
  BY <1>1, <1>2, <1>3 DEF MetricsInductive

LEMMA HourPassesKeeps ==
  ASSUME MetricsInductive, HourPasses
  PROVE  MetricsInductive'
<1> USE DEF HourPasses
<1>1. MetricsTyped'
  BY DEF MetricsInductive, MetricsTyped
<1>2. \A t \in Nat : OwnBaselines(t) \in SUBSET OwnBaselines(t)'
  BY DEF MetricsInductive, MetricsTyped, OwnBaselines, NoBaseline
<1>3. CachedSinceStart'
  BY <1>2 DEF MetricsInductive, MetricsTyped, CachedSinceStart
<1>4. RowsSinceStart'
  BY <1>2 DEF MetricsInductive, RowsSinceStart
<1> QED
  BY <1>1, <1>3, <1>4 DEF MetricsInductive

LEMMA PricesArriveKeeps ==
  ASSUME MetricsInductive, NEW t \in DOMAIN threads, PricesArrive(t)
  PROVE  MetricsInductive'
<1> USE DEF PricesArrive
<1>1. MetricsTyped'
  BY DEF MetricsInductive, MetricsTyped, With
<1>2. CachedSinceStart' /\ RowsSinceStart'
  BY DEF MetricsInductive, CachedSinceStart, RowsSinceStart, OwnBaselines
<1> QED
  BY <1>1, <1>2 DEF MetricsInductive

(* The baseline used was read now, or by the same thread before.            *)
LEMMA StoreMetricsKeeps ==
  ASSUME MetricsInductive, NEW t \in DOMAIN threads, StoreMetrics(t)
  PROVE  MetricsInductive'
<1> DEFINE s == inHand[t].stock
           sector == SectorOf[s]
           known == sector \in DOMAIN Cached(t)
<1>1. /\ t \in DOMAIN inHand
      /\ inHand' = Restrict(inHand, DOMAIN inHand \ {t})
      /\ UNCHANGED << hour, lastUpdate, threads >>
  BY DEF StoreMetrics
<1>2. PICK base \in {BaselineRead(t), NoBaseline}, stored \in BOOLEAN :
        LET used == IF known THEN Cached(t)[sector] ELSE base
        IN  /\ caches' = [caches EXCEPT ![t] = With(@, sector, used)]
            /\ metrics' = IF stored
                          THEN With(metrics, s, MetricsRow(t, inHand[t].read, used))
                          ELSE metrics
  BY DEF StoreMetrics
<1> DEFINE used == IF known THEN Cached(t)[sector] ELSE base
<1>3. t \in 1 .. hour /\ hour \in Nat \ {0} /\ t \in DOMAIN caches
  BY DEF MetricsInductive, MetricsTyped
<1>4. used \in OwnBaselines(t)
  <2>1. BaselineRead(t) \in OwnBaselines(t) /\ NoBaseline \in OwnBaselines(t)
    BY <1>3 DEF OwnBaselines, BaselineRead
  <2> QED
    BY <1>3, <2>1 DEF MetricsInductive, CachedSinceStart, Cached
<1>0. \A u : OwnBaselines(u)' = OwnBaselines(u)
  BY <1>1 DEF OwnBaselines
<1> HIDE DEF used, s, sector
<1>5. /\ caches' = [caches EXCEPT ![t] = With(@, sector, used)]
      /\ metrics' = metrics
           \/ metrics' = With(metrics, s, MetricsRow(t, inHand[t].read, used))
  BY <1>2 DEF used
<1>6. MetricsTyped'
  BY <1>1, <1>5 DEF MetricsInductive, MetricsTyped, Restrict
<1>7. CachedSinceStart'
  <2>1. ASSUME NEW u \in DOMAIN caches', NEW k \in DOMAIN caches'[u]
        PROVE  caches'[u][k] \in OwnBaselines(u)
    <3>1. CASE u = t
      <4>1. caches'[u] = With(caches[t], sector, used)
        BY <1>3, <1>5, <3>1
      <4>2. CASE k = sector
        BY <1>4, <3>1, <4>1, <4>2 DEF With
      <4>3. CASE k # sector
        <5>1. k \in DOMAIN caches[t] /\ caches'[u][k] = caches[t][k]
          BY <4>1, <4>3 DEF With
        <5> QED
          BY <1>3, <3>1, <5>1 DEF MetricsInductive, CachedSinceStart
      <4> QED
        BY <4>2, <4>3
    <3>2. CASE u # t
      <4>1. u \in DOMAIN caches /\ caches'[u] = caches[u]
        BY <1>5, <3>2
      <4> QED
        BY <4>1 DEF MetricsInductive, CachedSinceStart
    <3> QED
      BY <3>1, <3>2
  <2> QED
    BY <1>0, <2>1 DEF CachedSinceStart
<1>8. RowsSinceStart'
  <2>1. ASSUME NEW x \in DOMAIN metrics'
        PROVE  /\ metrics'[x].run \in Nat
               /\ metrics'[x].base \in OwnBaselines(metrics'[x].run)
    <3>1. CASE metrics'[x] = MetricsRow(t, inHand[t].read, used)
      <4>1. metrics'[x].run = t /\ metrics'[x].base = used
        BY <3>1 DEF MetricsRow
      <4> QED
        BY <1>3, <1>4, <4>1
    <3>2. CASE x \in DOMAIN metrics /\ metrics'[x] = metrics[x]
      BY <3>2 DEF MetricsInductive, RowsSinceStart
    <3> QED
      BY <1>5, <3>1, <3>2 DEF With
  <2> QED
    BY <1>0, <2>1 DEF RowsSinceStart
<1> QED
  BY <1>6, <1>7, <1>8 DEF MetricsInductive

(* A thread that ends, with or without success, takes its cache along.      *)
LEMMA ThreadEndsKeeps ==
  ASSUME MetricsInductive, NEW t \in DOMAIN threads, EndThread(t) \/ ThreadDies(t)
  PROVE  MetricsInductive'
<1>1. /\ threads' = Restrict(threads, DOMAIN threads \ {t})
      /\ caches' = Restrict(caches, DOMAIN caches \ {t})
      /\ \/ inHand' = inHand /\ t \notin DOMAIN inHand
         \/ inHand' = Restrict(inHand, DOMAIN inHand \ {t})
      /\ UNCHANGED << hour, metrics >>
  BY DEF EndThread, ThreadDies
<1>2. MetricsTyped'
  BY <1>1 DEF MetricsInductive, MetricsTyped, Restrict
<1>3. CachedSinceStart'
  BY <1>1 DEF MetricsInductive, CachedSinceStart, Restrict, OwnBaselines
<1>4. RowsSinceStart'
  BY <1>1 DEF MetricsInductive, RowsSinceStart, OwnBaselines
<1> QED
  BY <1>2, <1>3, <1>4 DEF MetricsInductive

LEMMA RestartProducerKeeps ==
  ASSUME MetricsInductive, RestartProducer
  PROVE  MetricsInductive'
<1>1. \A t \in Nat : OwnBaselines(t) \in SUBSET OwnBaselines(t)'
  BY DEF RestartProducer, MetricsInductive, MetricsTyped, OwnBaselines, NoBaseline
<1>2. RowsSinceStart'
  BY <1>1 DEF RestartProducer, MetricsInductive, RowsSinceStart
<1>3. MetricsTyped' /\ CachedSinceStart'
  BY DEF RestartProducer, MetricsInductive, MetricsTyped, CachedSinceStart
<1> QED
  BY <1>2, <1>3 DEF MetricsInductive

(* However many threads overlap, a stock is compared with a baseline that   *)
(* the thread which stored its row has read itself, after it was started.   *)
THEOREM BaselinesAreOfSameRun == MetricsSpec => []BaselineOfSameRun
<1>1. MetricsInductive /\ [MetricsNext]_metricsVars => MetricsInductive'
  <2> SUFFICES ASSUME MetricsInductive, [MetricsNext]_metricsVars
               PROVE  MetricsInductive'
    OBVIOUS
  <2>1. CASE UNCHANGED metricsVars
    BY <2>1 DEF metricsVars, MetricsInductive, MetricsTyped, CachedSinceStart,
                RowsSinceStart, OwnBaselines
  <2>2. ASSUME NEW t \in DOMAIN threads,
               PricesArrive(t) \/ StoreMetrics(t) \/ EndThread(t) \/ ThreadDies(t)
        PROVE  MetricsInductive'
    BY <2>2, PricesArriveKeeps, StoreMetricsKeeps, ThreadEndsKeeps
  <2> QED
    BY <2>1, <2>2, StartMetricsKeeps, HourPassesKeeps, RestartProducerKeeps
       DEF MetricsNext
<1>2. MetricsInductive => BaselineOfSameRun
  <2> SUFFICES ASSUME MetricsInductive, NEW s \in DOMAIN metrics,
                      metrics[s].base # NoBaseline
               PROVE  /\ metrics[s].base.by = metrics[s].run
                      /\ metrics[s].run <= metrics[s].base.at
    BY DEF BaselineOfSameRun
  <2>1. /\ metrics[s].run \in Nat /\ hour \in Nat
        /\ metrics[s].base \in [by : {metrics[s].run}, at : metrics[s].run .. hour]
    BY DEF MetricsInductive, MetricsTyped, RowsSinceStart, OwnBaselines
  <2> QED
    BY <2>1
<1> QED
  BY <1>1, <1>2, MetricsInductiveInit, PTL DEF MetricsSpec

-----------------------------------------------------------------------------
(* Context bars.  A key, and a row of it.                                   *)
BarKey == Instrument \X {"1h", "1d"} \X Int
Bar    == [key : BarKey, final : BOOLEAN]
Final(k) == [key |-> k, final |-> TRUE]

UniqueKeys(given) == \A b, c \in given : b.key = c.key => b = c

(* The rows of an answer that was asked for at t: what is not final in it   *)
(* had not ended by then.                                                   *)
RowsOf(given, t) ==
  /\ given \subseteq Bar /\ UniqueKeys(given)
  /\ \A r \in given : ~ r.final => EndsAt(r.key) > t

(* The session of the day of t has settled; the days a daily poll at t is   *)
(* answerable for.                                                          *)
SettledBy(i, t) == DayOf(t) \in SessionDays /\ SlotOf(t) >= Closes[i] + Grace
DaysBefore(t)   == { d \in SessionDays : DayOf(t) - LookbackDays <= d /\ d <= DayOf(t) }

GlobalTypes ==
  /\ clock \in 1 .. GlobalDays * DaySlots /\ nowUtc \in 1 .. clock
  /\ interval \in {"none", "1h", "1d"}
  /\ asked \in SUBSET Instrument /\ completed \in SUBSET Instrument
  /\ DOMAIN results \in SUBSET Instrument
  /\ lastSession \in [Instrument -> {0} \cup SessionDays]
  /\ bars \in SUBSET Bar /\ UniqueKeys(bars)
  /\ backfill \in SUBSET Bar /\ UniqueKeys(backfill)

(* Between two polls nothing is asked for; a daily poll is of instruments   *)
(* whose session has settled.                                               *)
PollIsDue ==
  /\ interval = "none" => asked = {} /\ DOMAIN results = {} /\ completed = {}
  /\ interval = "1d" => \A i \in asked \cup DOMAIN results \cup completed : SettledBy(i, nowUtc)

(* A usable answer to a daily poll has the final bar of every session, or   *)
(* the gap is on record.                                                    *)
AnswersCover ==
  \A i \in DOMAIN results :
    /\ RowsOf(results[i].rows, nowUtc)
    /\ interval = "1d" /\ Completes(results[i].status) =>
         \A d \in DaysBefore(nowUtc) :
           << i, "1d", d >> \in gaps \/ Final(<< i, "1d", d >>) \in results[i].rows

CompletedSettled ==
  interval = "1d" => \A i \in completed : \A d \in DaysBefore(nowUtc) : SettledBar(<< i, "1d", d >>)

LastSessionEnded ==
  \A i \in Instrument : lastSession[i] # 0 => EndsAt(<< i, "1d", lastSession[i] >>) <= nowUtc

GlobalInductive ==
  /\ GlobalTypes /\ PollIsDue /\ AnswersCover /\ CompletedSettled /\ LastSessionEnded
  /\ CompletedSessionsFinal

(* The clock as day and slot.                                               *)
LEMMA GlobalDayFacts ==
  ASSUME NEW t \in Nat \ {0}
  PROVE  DayOf(t) \in Nat \ {0} /\ SlotOf(t) \in 1 .. DaySlots
         /\ t = (DayOf(t) - 1) * DaySlots + SlotOf(t)
<1>1. DaySlots \in Nat \ {0}
  BY GlobalAssumption
<1>2. (t - 1) \div DaySlots \in Nat /\ (t - 1) % DaySlots \in 0 .. DaySlots - 1
      /\ t - 1 = DaySlots * ((t - 1) \div DaySlots) + ((t - 1) % DaySlots)
  BY <1>1
<1>3. DaySlots * ((t - 1) \div DaySlots) = ((t - 1) \div DaySlots) * DaySlots
  BY <1>1, <1>2
<1> QED
  BY <1>1, <1>2, <1>3 DEF DayOf, SlotOf

LEMMA EndsAtProperties ==
  ASSUME NEW i \in Instrument
  PROVE  /\ \A at \in Int : EndsAt(<< i, "1d", at >>) = (at - 1) * DaySlots + Closes[i]
         /\ \A at \in Int : EndsAt(<< i, "1d", at >>) \in Int
         /\ \A k \in BarKey : EndsAt(k) \in Int /\ StartsAt(k) \in Int
         /\ \A d, e \in Int : d <= e => EndsAt(<< i, "1d", d >>) <= EndsAt(<< i, "1d", e >>)
         /\ \A at \in Int : StartsAt(<< i, "1d", at >>) < EndsAt(<< i, "1d", at >>)
<1>1. DaySlots \in Nat \ {0} /\ \A j \in Instrument : Closes[j] \in Int /\ Opens[j] \in Int
                                                      /\ Opens[j] < Closes[j]
  BY GlobalAssumption
<1>2. \A at \in Int : (at - 1) * DaySlots \in Int
  BY <1>1
<1>3. \A at \in Int : EndsAt(<< i, "1d", at >>) = (at - 1) * DaySlots + Closes[i]
  BY DEF EndsAt
<1>4. \A at \in Int : EndsAt(<< i, "1d", at >>) \in Int
  BY <1>1, <1>2, <1>3
<1>5. \A k \in BarKey : EndsAt(k) \in Int /\ StartsAt(k) \in Int
  BY <1>1, <1>2 DEF EndsAt, StartsAt, BarKey
<1>6. ASSUME NEW d \in Int, NEW e \in Int, d <= e
      PROVE  EndsAt(<< i, "1d", d >>) <= EndsAt(<< i, "1d", e >>)
  <2>1. (d - 1) * DaySlots <= (e - 1) * DaySlots
    BY <1>1, <1>6
  <2> QED
    BY <1>1, <1>2, <1>3, <2>1
<1>7. \A at \in Int : StartsAt(<< i, "1d", at >>) < EndsAt(<< i, "1d", at >>)
  <2>1. \A at \in Int : StartsAt(<< i, "1d", at >>) = (at - 1) * DaySlots + Opens[i]
    BY DEF StartsAt
  <2> QED
    BY <1>1, <1>2, <1>3, <2>1
<1> QED
  BY <1>3, <1>4, <1>5, <1>6, <1>7

(* Every session a settled poll is answerable for has ended.                *)
LEMMA WindowEnded ==
  ASSUME NEW i \in Instrument, NEW t \in Nat \ {0}, SettledBy(i, t),
         NEW d \in Int, d <= DayOf(t)
  PROVE  EndsAt(<< i, "1d", d >>) <= t
<1>1. Closes[i] \in Nat /\ Grace \in Nat /\ DaySlots \in Nat
  BY GlobalAssumption
<1>2. DayOf(t) \in Nat \ {0} /\ SlotOf(t) \in Nat /\ t = (DayOf(t) - 1) * DaySlots + SlotOf(t)
  BY GlobalDayFacts
<1>3. EndsAt(<< i, "1d", d >>) <= EndsAt(<< i, "1d", DayOf(t) >>)
      /\ EndsAt(<< i, "1d", d >>) \in Int
      /\ EndsAt(<< i, "1d", DayOf(t) >>) = (DayOf(t) - 1) * DaySlots + Closes[i]
  BY <1>2, EndsAtProperties
<1>4. SlotOf(t) >= Closes[i] + Grace
  BY DEF SettledBy
<1>5. (DayOf(t) - 1) * DaySlots \in Int
  BY <1>1, <1>2
<1> QED
  BY <1>1, <1>2, <1>3, <1>4, <1>5

(* What the provider has of a range.                                        *)
LEMMA OfferedBars ==
  ASSUME NEW i \in Instrument, NEW iv \in {"1h", "1d"}, GlobalTypes, NEW t \in 1 .. clock
  PROVE  /\ RowsOf(Offered(i, iv, t), t)
         /\ iv = "1d" /\ SettledBy(i, t) =>
              \A d \in DaysBefore(t) : Final(<< i, "1d", d >>) \in Offered(i, iv, t)
<1>0. clock \in Nat \ {0} /\ t \in Nat \ {0} /\ t <= clock
  BY GlobalAssumption DEF GlobalTypes
<1>1. Asked(i, iv, t) \subseteq BarKey
  <2>1. SessionDays \subseteq Int
    BY GlobalAssumption
  <2> QED
    BY <2>1 DEF Asked, BarKey
<1>2. \A k \in BarKey : EndsAt(k) \in Int /\ StartsAt(k) \in Int
  BY EndsAtProperties
<1>3. \A k \in BarKey : BarAt(k, clock) \in Bar /\ BarAt(k, clock).key = k
                          /\ (~ BarAt(k, clock).final => EndsAt(k) > t)
  <2>1. ASSUME NEW k \in BarKey
        PROVE  BarAt(k, clock) \in Bar /\ BarAt(k, clock).key = k
               /\ BarAt(k, clock).final = (clock >= EndsAt(k))
    BY DEF BarAt, Bar
  <2>2. \A k \in BarKey : ~ (clock >= EndsAt(k)) => EndsAt(k) > t
    BY <1>0, <1>2
  <2>3. \A k \in BarKey : ~ BarAt(k, clock).final => ~ (clock >= EndsAt(k))
    BY <2>1, Zenon
  <2> QED
    BY <2>1, <2>2, <2>3
<1>4. \A r \in Offered(i, iv, t) : \E k \in BarKey : r = BarAt(k, clock)
  BY <1>1 DEF Offered
<1>5. RowsOf(Offered(i, iv, t), t)
  BY <1>3, <1>4 DEF RowsOf, UniqueKeys
<1>6. ASSUME iv = "1d", SettledBy(i, t), NEW d \in DaysBefore(t)
      PROVE  Final(<< i, "1d", d >>) \in Offered(i, iv, t)
  <2> DEFINE k == << i, "1d", d >>
  <2>1. d \in Int /\ d <= DayOf(t) /\ d \in SessionDays /\ DayOf(t) - LookbackDays <= d
        /\ DayOf(t) \in Nat
    BY <1>0, GlobalAssumption, GlobalDayFacts DEF DaysBefore
  <2>2. k \in BarKey /\ k \in Asked(i, iv, t)
    BY <1>6, <2>1 DEF Asked, BarKey
  <2>3. EndsAt(k) <= t /\ StartsAt(k) < EndsAt(k)
    BY <1>0, <1>6, <2>1, WindowEnded, EndsAtProperties
  <2>4. EndsAt(k) <= clock /\ StartsAt(k) <= clock
    BY <1>0, <1>2, <2>2, <2>3
  <2>5. BarAt(k, clock) = Final(k)
    BY <1>0, <1>2, <2>2, <2>4 DEF BarAt, Final
  <2>6. BarAt(k, clock) \in Offered(i, iv, t)
    BY <2>2, <2>4 DEF Offered
  <2> QED
    BY <2>5, <2>6
<1> QED
  BY <1>5, <1>6

(* An upsert keeps one row per key, and a final bar whose time was over     *)
(* when the new rows were asked for.                                        *)
LEMMA UpsertKeeps ==
  ASSUME NEW given \in SUBSET Bar, UniqueKeys(given), bars \in SUBSET Bar, UniqueKeys(bars)
  PROVE  /\ Upsert(given) \in SUBSET Bar /\ UniqueKeys(Upsert(given))
         /\ \A k \in BarKey : Final(k) \in bars /\ (\A r \in given : r.key = k => r.final)
              => Final(k) \in Upsert(given)
<1>1. Upsert(given) \in SUBSET Bar /\ UniqueKeys(Upsert(given))
  BY DEF Upsert, UniqueKeys
<1>2. ASSUME NEW k \in BarKey, Final(k) \in bars, \A r \in given : r.key = k => r.final
      PROVE  Final(k) \in Upsert(given)
  <2>1. Final(k).key = k
    BY DEF Final
  <2>2. CASE \E r \in given : r.key = k
    <3>1. PICK r \in given : r.key = k
      BY <2>2
    <3>2. r.final = TRUE
      BY <1>2, <3>1 DEF Bar
    <3>3. r = Final(k)
      BY <3>1, <3>2 DEF Bar, Final
    <3> QED
      BY <3>1, <3>3 DEF Upsert
  <2>3. CASE ~ \E r \in given : r.key = k
    BY <1>2, <2>1, <2>3 DEF Upsert
  <2> QED
    BY <2>2, <2>3
<1> QED
  BY <1>1, <1>2

(* The next result to store is one of those there are.                      *)
LEMMA NextResultExists ==
  ASSUME DOMAIN results # {}, DOMAIN results \subseteq Instrument
  PROVE  NextResult \in DOMAIN results
<1> DEFINE I == { n \in 1 .. Len(Instruments) : Instruments[n] \in DOMAIN results }
<1>1. PICK i \in DOMAIN results : i \in Range(Instruments)
  BY DEF Instrument
<1>2. PICK n \in DOMAIN Instruments : Instruments[n] = i
  BY <1>1 DEF Range
<1>3. Instruments \in Seq(Range(Instruments))
  BY GlobalAssumption DEF Instrument
<1>4. DOMAIN Instruments = 1 .. Len(Instruments) /\ Len(Instruments) \in Nat
  BY <1>3
<1>5. I \in SUBSET Nat /\ I # {}
  BY <1>1, <1>2, <1>4
<1>6. \E m \in I : \A y \in I : m <= y
  <2> HIDE DEF I
  <2> QED
    BY <1>5, LeastIndexExists
<1>7. Min(I) \in I
  BY <1>6 DEF Min
<1>8. SelectInSeq(Instruments, LAMBDA j : j \in DOMAIN results) = Min(I)
  BY <1>5 DEF SelectInSeq
<1> QED
  BY <1>7, <1>8 DEF NextResult

LEMMA GlobalTypeFacts ==
  ASSUME GlobalTypes
  PROVE  /\ clock \in Nat \ {0} /\ nowUtc \in Nat \ {0} /\ nowUtc <= clock
         /\ GlobalDays * DaySlots \in Nat
         /\ DayOf(nowUtc) \in Nat \ {0}
         /\ \A i \in Instrument : << i, "1d", lastSession[i] >> \in BarKey
         /\ \A i \in Instrument, d \in SessionDays : << i, "1d", d >> \in BarKey
<1>1. GlobalDays * DaySlots \in Nat /\ SessionDays \subseteq Int
  BY GlobalAssumption
<1>2. clock \in Nat \ {0} /\ nowUtc \in Nat \ {0} /\ nowUtc <= clock
  BY <1>1 DEF GlobalTypes
<1>3. \A i \in Instrument : lastSession[i] \in {0} \cup SessionDays
  BY DEF GlobalTypes
<1>4. DayOf(nowUtc) \in Nat \ {0}
  BY <1>2, GlobalDayFacts
<1>5. \A i \in Instrument : << i, "1d", lastSession[i] >> \in BarKey
  <2>1. 0 \in Int /\ SessionDays \subseteq Int
    BY <1>1
  <2>2. \A i \in Instrument : lastSession[i] \in Int
    BY <1>3, <2>1, Zenon
  <2> QED
    BY <2>2 DEF BarKey
<1>6. \A i \in Instrument, d \in SessionDays : << i, "1d", d >> \in BarKey
  BY <1>1 DEF BarKey
<1> QED
  BY <1>1, <1>2, <1>4, <1>5, <1>6

(* What a daily poll asks for.                                              *)
LEMMA EligibleDue ==
  ASSUME NEW S \in SUBSET Instrument
  PROVE  /\ \A iv : Eligible(S, iv) \in SUBSET Instrument /\ Eligible(S, iv) \subseteq S
         /\ \A t, i : DailyDue(i, t) => SettledBy(i, t)
BY DEF Eligible, DailyDue, SettledBy

LEMMA GlobalStartsInductive ==
  ASSUME GlobalInit
  PROVE  GlobalInductive
<1>1. GlobalDays * DaySlots \in Nat /\ GlobalDays * DaySlots >= 1
  BY GlobalAssumption
<1>2. GlobalTypes
  BY <1>1 DEF GlobalInit, GlobalTypes, UniqueKeys
<1>3. CompletedSessionsFinal
  BY GlobalAssumption DEF GlobalInit, CompletedSessionsFinal
<1> QED
  BY <1>2, <1>3 DEF GlobalInit, GlobalInductive, PollIsDue, AnswersCover, CompletedSettled,
     LastSessionEnded

(* A bar that is settled when its session has ended stays so: nothing that  *)
(* is stored later was asked for before the end.                            *)
LEMMA SettledStays ==
  ASSUME GlobalInductive, [GlobalNext]_globalVars,
         NEW k \in BarKey, EndsAt(k) <= nowUtc, SettledBar(k)
  PROVE  SettledBar(k)'
<1> USE DEF GlobalInductive, GlobalTypes
<1>1. gaps \subseteq gaps' /\ overtaken \subseteq overtaken'
  BY DEF GlobalNext, GlobalTick, MaybeRun, FetchBars, StoreResult, StoreFails, EndHourly,
     EndDaily, CooldownEnds, RestartRunner, BackfillFetch, BackfillStore, globalVars
<1>2. CASE k \in gaps \cup overtaken
  BY <1>1, <1>2 DEF SettledBar
<1>3. ASSUME Final(k) \in bars, NEW given \in SUBSET Bar, UniqueKeys(given), bars' = Upsert(given),
             \A r \in given : ~ r.final => EndsAt(r.key) > nowUtc
      PROVE  SettledBar(k)'
  <2>1. \A r \in given : r.key = k => r.final
    <3> SUFFICES ASSUME NEW r \in given, r.key = k, ~ r.final
                 PROVE  FALSE
      OBVIOUS
    <3>1. EndsAt(k) > nowUtc
      BY <1>3
    <3> QED
      BY <3>1, EndsAtProperties, GlobalTypeFacts DEF BarKey
  <2>2. Final(k) \in bars'
    BY <1>3, <2>1, UpsertKeeps
  <2> QED
    BY <2>2 DEF SettledBar, Final
<1>4. CASE Final(k) \in bars
  <2>1. CASE StoreResult
    <3> DEFINE i == NextResult
    <3>1. i \in DOMAIN results /\ bars' = Upsert(results[i].rows)
      BY <2>1, NextResultExists DEF StoreResult, Pending
    <3>2. RowsOf(results[i].rows, nowUtc)
      BY <3>1 DEF AnswersCover
    <3> HIDE DEF i
    <3> QED
      BY <1>3, <1>4, <3>1, <3>2 DEF RowsOf
  <2>2. CASE StoreFails
    <3>1. NextResult \in DOMAIN results
      BY <2>2, NextResultExists DEF StoreFails, Pending
    <3>2. RowsOf(results[NextResult].rows, nowUtc)
      BY <3>1 DEF AnswersCover
    <3>3. PICK given \in SUBSET results[NextResult].rows : bars' = Upsert(given)
      BY <2>2 DEF StoreFails
    <3>4. given \in SUBSET Bar /\ UniqueKeys(given)
          /\ \A r \in given : ~ r.final => EndsAt(r.key) > nowUtc
      BY <3>2, <3>3 DEF RowsOf, UniqueKeys
    <3> QED
      BY <1>3, <1>4, <3>3, <3>4
  <2>3. CASE BackfillStore
    <3>1. CASE \A r \in backfill : r.key = k => r.final
      <4>1. Final(k) \in bars'
        BY <1>4, <2>3, <3>1, UpsertKeeps DEF BackfillStore
      <4> QED
        BY <4>1 DEF SettledBar, Final
    <3>2. CASE \E r \in backfill : r.key = k /\ ~ r.final
      <4>1. [key |-> k, final |-> FALSE] \in backfill
        <5>1. PICK r \in backfill : r.key = k /\ ~ r.final
          BY <3>2
        <5>2. r = [key |-> k, final |-> FALSE]
          BY <5>1 DEF Bar
        <5> QED
          BY <5>1, <5>2
      <4>2. Final(k).key = k /\ Final(k).final
        BY DEF Final
      <4>3. k \in overtaken'
        BY <1>4, <2>3, <4>1, <4>2 DEF BackfillStore
      <4> QED
        BY <4>3 DEF SettledBar
    <3> QED
      BY <3>1, <3>2
  <2>4. CASE UNCHANGED bars
    BY <1>4, <2>4 DEF SettledBar, Final
  <2> QED
    BY <2>1, <2>2, <2>3, <2>4 DEF GlobalNext, GlobalTick, MaybeRun, FetchBars, EndHourly,
       EndDaily, CooldownEnds, RestartRunner, BackfillFetch, globalVars
<1> QED
  BY <1>2, <1>4 DEF SettledBar, Final

LEMMA GlobalTypesStay ==
  ASSUME GlobalInductive, [GlobalNext]_globalVars
  PROVE  GlobalTypes'
<1> USE DEF GlobalInductive, GlobalTypes
<1>0. clock \in Nat \ {0} /\ nowUtc \in 1 .. clock /\ GlobalDays * DaySlots \in Nat
  BY GlobalTypeFacts
<1>1. CASE GlobalTick
  BY <1>0, <1>1 DEF GlobalTick
<1>2. CASE MaybeRun
  <2>1. Hourly \in SUBSET Instrument /\ { i \in Instrument : DailyDue(i, clock) } \in SUBSET Instrument
    BY GlobalAssumption
  <2>2. /\ Eligible(Hourly, "1h") \in SUBSET Instrument
        /\ Eligible({ i \in Instrument : DailyDue(i, clock) }, "1d") \in SUBSET Instrument
    BY <2>1, EligibleDue
  <2>3. asked' \in SUBSET Instrument /\ interval' \in {"1h", "1d"}
    BY <1>2, <2>2 DEF MaybeRun
  <2> QED
    BY <1>0, <1>2, <2>3 DEF MaybeRun
<1>3. CASE FetchBars
  <2>1. PICK i \in asked : asked' = asked \ {i} /\ DOMAIN results' = DOMAIN results \cup {i}
    BY <1>3 DEF FetchBars, With
  <2> QED
    BY <1>3, <2>1 DEF FetchBars
<1>4. CASE StoreResult
  <2> DEFINE i == NextResult
  <2>1. i \in DOMAIN results
    BY <1>4, NextResultExists DEF StoreResult, Pending
  <2>2. RowsOf(results[i].rows, nowUtc)
    BY <2>1 DEF AnswersCover
  <2>3. /\ bars' = Upsert(results[i].rows) /\ DOMAIN results' = DOMAIN results \ {i}
        /\ completed' \in {completed, completed \cup {i}}
        /\ UNCHANGED << clock, interval, nowUtc, asked, lastSession, backfill >>
    BY <1>4 DEF StoreResult, Restrict
  <2> HIDE DEF i
  <2>4. bars' \in SUBSET Bar /\ UniqueKeys(bars')
    BY <2>2, <2>3, UpsertKeeps DEF RowsOf
  <2> QED
    BY <2>1, <2>3, <2>4
<1>5. CASE StoreFails
  <2>1. NextResult \in DOMAIN results
    BY <1>5, NextResultExists DEF StoreFails, Pending
  <2>2. RowsOf(results[NextResult].rows, nowUtc)
    BY <2>1 DEF AnswersCover
  <2>3. PICK given \in SUBSET results[NextResult].rows : bars' = Upsert(given)
    BY <1>5 DEF StoreFails
  <2>4. given \in SUBSET Bar /\ UniqueKeys(given)
    BY <2>2, <2>3 DEF RowsOf, UniqueKeys
  <2>5. bars' \in SUBSET Bar /\ UniqueKeys(bars')
    BY <2>3, <2>4, UpsertKeeps
  <2> QED
    BY <1>5, <2>5 DEF StoreFails
<1>6. CASE EndHourly
  BY <1>6, EligibleDue DEF EndHourly
<1>7. CASE EndDaily
  <2>1. \A i \in completed : DayOf(nowUtc) \in SessionDays
    BY <1>7 DEF EndDaily, PollIsDue, SettledBy
  <2>2. lastSession' \in [Instrument -> {0} \cup SessionDays]
    BY <1>7, <2>1 DEF EndDaily
  <2> QED
    BY <1>7, <2>2 DEF EndDaily
<1>8. CASE CooldownEnds
  BY <1>8 DEF CooldownEnds
<1>9. CASE RestartRunner
  BY <1>9 DEF RestartRunner
<1>10. CASE BackfillFetch
  <2>1. PICK i \in Instrument : backfill' = Offered(i, "1d", clock)
    BY <1>10 DEF BackfillFetch
  <2>2. RowsOf(Offered(i, "1d", clock), clock)
    BY <1>0, OfferedBars
  <2>3. backfill' \in SUBSET Bar /\ UniqueKeys(backfill')
    BY <2>1, <2>2 DEF RowsOf
  <2> QED
    BY <1>10, <2>3 DEF BackfillFetch
<1>11. CASE BackfillStore
  <2>1. bars' \in SUBSET Bar /\ UniqueKeys(bars') /\ backfill' = {}
    BY <1>11, UpsertKeeps DEF BackfillStore
  <2> QED
    BY <1>11, <2>1 DEF BackfillStore, UniqueKeys
<1>12. CASE UNCHANGED globalVars
  BY <1>12 DEF globalVars
<1> QED
  BY <1>1, <1>2, <1>3, <1>4, <1>5, <1>6, <1>7, <1>8, <1>9, <1>10, <1>11, <1>12 DEF GlobalNext

LEMMA PollIsDueStay ==
  ASSUME GlobalInductive, [GlobalNext]_globalVars
  PROVE  PollIsDue'
<1> USE DEF GlobalInductive, GlobalTypes, PollIsDue
<1>1. CASE GlobalTick \/ CooldownEnds \/ BackfillFetch \/ BackfillStore \/ UNCHANGED globalVars
  BY <1>1 DEF GlobalTick, CooldownEnds, BackfillFetch, BackfillStore, globalVars
<1>2. CASE MaybeRun
  <2> DEFINE S == { i \in Instrument : DailyDue(i, clock) }
  <2>1. S \in SUBSET Instrument /\ \A i \in S : SettledBy(i, clock)
    BY EligibleDue
  <2>2. Eligible(S, "1d") \subseteq S
    BY <2>1, EligibleDue
  <2>3. interval' = "1h" \/ (interval' = "1d" /\ asked' = Eligible(S, "1d"))
    BY <1>2 DEF MaybeRun
  <2>4. nowUtc' = clock /\ DOMAIN results' = {} /\ completed' = {}
    BY <1>2 DEF MaybeRun
  <2> HIDE DEF S
  <2> QED
    BY <2>1, <2>2, <2>3, <2>4
<1>3. CASE FetchBars
  <2>1. PICK i \in asked : asked' = asked \ {i} /\ DOMAIN results' = DOMAIN results \cup {i}
    BY <1>3 DEF FetchBars, With
  <2> QED
    BY <1>3, <2>1 DEF FetchBars
<1>4. CASE StoreResult
  <2> DEFINE i == NextResult
  <2>1. i \in DOMAIN results
    BY <1>4, NextResultExists DEF StoreResult, Pending
  <2>2. /\ DOMAIN results' = DOMAIN results \ {i} /\ interval # "none"
        /\ completed' \in {completed, completed \cup {i}}
        /\ UNCHANGED << interval, nowUtc, asked >>
    BY <1>4 DEF StoreResult, Restrict
  <2> HIDE DEF i
  <2> QED
    BY <2>1, <2>2
<1>5. CASE StoreFails
  BY <1>5 DEF StoreFails, Pending
<1>6. CASE EndHourly
  <2> DEFINE S == { i \in Instrument : DailyDue(i, nowUtc) }
  <2>1. S \in SUBSET Instrument /\ \A i \in S : SettledBy(i, nowUtc)
    BY EligibleDue
  <2>2. Eligible(S, "1d") \subseteq S
    BY <2>1, EligibleDue
  <2>3. /\ interval' = "1d" /\ asked' = Eligible(S, "1d")
        /\ nowUtc' = nowUtc /\ DOMAIN results' = {} /\ completed' = {}
    BY <1>6 DEF EndHourly
  <2> HIDE DEF S
  <2> QED
    BY <2>1, <2>2, <2>3
<1>7. CASE EndDaily
  BY <1>7 DEF EndDaily
<1>8. CASE RestartRunner
  BY <1>8 DEF RestartRunner
<1> QED
  BY <1>1, <1>2, <1>3, <1>4, <1>5, <1>6, <1>7, <1>8 DEF GlobalNext

LEMMA AnswersCoverStay ==
  ASSUME GlobalInductive, [GlobalNext]_globalVars
  PROVE  AnswersCover'
<1> USE DEF GlobalInductive, GlobalTypes
<1>0. nowUtc \in 1 .. clock /\ nowUtc \in Nat \ {0} /\ clock \in Nat \ {0}
  BY GlobalTypeFacts
<1>1. CASE GlobalTick \/ CooldownEnds \/ BackfillFetch \/ BackfillStore \/ UNCHANGED globalVars
  BY <1>1 DEF GlobalTick, CooldownEnds, BackfillFetch, BackfillStore, globalVars, AnswersCover
<1>2. CASE DOMAIN results' = {}
  BY <1>2 DEF AnswersCover
<1>3. CASE FetchBars
  <2> DEFINE offered(j) == Offered(j, interval, nowUtc)
             Answered(j, status, given) ==
               results' = With(results, j, [status |-> status, rows |-> given])
             Allowed(j, status, given) ==
               \/ given = offered(j) /\ gaps' = gaps
               \/ \E lost \in offered(j) :
                    /\ given = offered(j) \ {lost}
                    /\ gaps' = IF lost.final THEN gaps \cup {lost.key} ELSE gaps
               \/ given = {} /\ gaps' = gaps /\ ~ Completes(status)
  <2>1. PICK i \in asked :
          \/ Answered(i, IF offered(i) = {} THEN "no_data" ELSE "success", offered(i)) /\ gaps' = gaps
          \/ \E lost \in offered(i) :
               /\ Answered(i, IF offered(i) = {lost} THEN "no_data" ELSE "success", offered(i) \ {lost})
               /\ gaps' = IF lost.final THEN gaps \cup {lost.key} ELSE gaps
          \/ \E status \in {"rate_limited", "transient_error"} :
               Answered(i, status, {}) /\ gaps' = gaps
    BY <1>3, Zenon DEF FetchBars
  <2>2. PICK status, given : Answered(i, status, given) /\ Allowed(i, status, given)
    <3>1. \A status \in {"rate_limited", "transient_error"} : ~ Completes(status)
      BY DEF Completes
    <3>2. CASE \E status : Answered(i, status, offered(i)) /\ gaps' = gaps
      BY <3>2, Zenon
    <3>3. CASE \E lost \in offered(i) : \E status :
                 /\ Answered(i, status, offered(i) \ {lost})
                 /\ gaps' = IF lost.final THEN gaps \cup {lost.key} ELSE gaps
      BY <3>3, Zenon
    <3>4. CASE \E status \in {"rate_limited", "transient_error"} :
                 Answered(i, status, {}) /\ gaps' = gaps
      BY <3>1, <3>4, Zenon
    <3> HIDE DEF Answered, Allowed
    <3> QED
      BY <2>1, <3>2, <3>3, <3>4, Zenon
  <2>3. interval \in {"1h", "1d"} /\ i \in Instrument
    BY <2>1 DEF PollIsDue
  <2>4. /\ RowsOf(Offered(i, interval, nowUtc), nowUtc)
        /\ interval = "1d" /\ SettledBy(i, nowUtc) =>
             \A d \in DaysBefore(nowUtc) : Final(<< i, "1d", d >>) \in Offered(i, interval, nowUtc)
    BY <1>0, <2>3, OfferedBars
  <2>5. RowsOf(given, nowUtc)
    BY <2>2, <2>4 DEF RowsOf, UniqueKeys
  <2>6. ASSUME interval = "1d", Completes(status), NEW d \in DaysBefore(nowUtc)
        PROVE  << i, "1d", d >> \in gaps' \/ Final(<< i, "1d", d >>) \in given
    <3>1. Final(<< i, "1d", d >>) \in Offered(i, interval, nowUtc)
      BY <2>1, <2>4, <2>6 DEF PollIsDue
    <3>2. Final(<< i, "1d", d >>).final /\ Final(<< i, "1d", d >>).key = << i, "1d", d >>
      BY DEF Final
    <3> QED
      BY <2>2, <2>6, <3>1, <3>2
  <2>7. gaps \subseteq gaps' /\ UNCHANGED << interval, nowUtc >>
    BY <1>3 DEF FetchBars
  <2>8. /\ DOMAIN results' = DOMAIN results \cup {i}
        /\ results'[i].status = status /\ results'[i].rows = given
        /\ \A j \in DOMAIN results : j # i => results'[j] = results[j]
    BY <2>2 DEF With
  <2> QED
    BY <2>5, <2>6, <2>7, <2>8 DEF AnswersCover
<1>4. CASE StoreResult
  <2>1. /\ DOMAIN results' \subseteq DOMAIN results
        /\ \A j \in DOMAIN results' : results'[j] = results[j]
        /\ UNCHANGED << interval, nowUtc, gaps >>
    BY <1>4 DEF StoreResult, Restrict
  <2> QED
    BY <2>1 DEF AnswersCover
<1> QED
  BY <1>1, <1>2, <1>3, <1>4 DEF GlobalNext, MaybeRun, StoreFails, EndHourly, EndDaily,
     RestartRunner, PollIsDue

LEMMA CompletedStaySettled ==
  ASSUME GlobalInductive, [GlobalNext]_globalVars
  PROVE  CompletedSettled'
<1> USE DEF GlobalInductive, GlobalTypes
<1>0. nowUtc \in Nat \ {0}
  BY GlobalTypeFacts
<1>1. ASSUME interval = "1d", NEW i \in completed, NEW d \in DaysBefore(nowUtc)
      PROVE  SettledBar(<< i, "1d", d >>)'
  <2> DEFINE k == << i, "1d", d >>
  <2>1. d \in SessionDays /\ d \in Int /\ d <= DayOf(nowUtc) /\ SettledBy(i, nowUtc)
    BY <1>1, GlobalAssumption DEF DaysBefore, PollIsDue
  <2>2. k \in BarKey /\ EndsAt(k) <= nowUtc
    BY <1>0, <2>1, GlobalTypeFacts, WindowEnded
  <2>3. SettledBar(k)
    BY <1>1 DEF CompletedSettled
  <2> HIDE DEF k
  <2>4. SettledBar(k)'
    BY <2>2, <2>3, SettledStays
  <2> QED
    BY <2>4 DEF k
<1>2. CASE /\ interval' = "1d" => interval = "1d" /\ nowUtc' = nowUtc
           /\ completed' \subseteq completed
  BY <1>1, <1>2 DEF CompletedSettled
<1>3. CASE completed' = {}
  BY <1>3 DEF CompletedSettled
<1>4. CASE StoreResult
  <2>1. NextResult \in DOMAIN results
    BY <1>4, NextResultExists DEF StoreResult, Pending
  <2>2. PICK j \in DOMAIN results :
          /\ bars' = Upsert(results[j].rows)
          /\ completed' = IF Completes(results[j].status) THEN completed \cup {j} ELSE completed
          /\ UNCHANGED << interval, nowUtc, gaps >>
    BY <1>4, <2>1 DEF StoreResult
  <2>3. ASSUME interval = "1d", Completes(results[j].status), NEW d \in DaysBefore(nowUtc)
        PROVE  SettledBar(<< j, "1d", d >>)'
    <3>1. << j, "1d", d >> \in gaps \/ Final(<< j, "1d", d >>) \in results[j].rows
      BY <2>3 DEF AnswersCover
    <3>2. Final(<< j, "1d", d >>) \in results[j].rows => Final(<< j, "1d", d >>) \in bars'
      BY <2>2 DEF Upsert
    <3> QED
      BY <2>2, <3>1, <3>2 DEF SettledBar, Final
  <2> QED
    BY <1>1, <2>2, <2>3 DEF CompletedSettled
<1> QED
  BY <1>2, <1>3, <1>4 DEF GlobalNext, GlobalTick, MaybeRun, FetchBars, StoreFails, EndHourly,
     EndDaily, CooldownEnds, RestartRunner, BackfillFetch, BackfillStore, globalVars, PollIsDue

LEMMA LastSessionStaysEnded ==
  ASSUME GlobalInductive, [GlobalNext]_globalVars
  PROVE  LastSessionEnded'
<1> USE DEF GlobalInductive, GlobalTypes
<1>0. /\ nowUtc \in Nat \ {0} /\ clock \in Nat \ {0} /\ nowUtc <= clock
      /\ \A i \in Instrument : EndsAt(<< i, "1d", lastSession[i] >>) \in Int
  BY GlobalTypeFacts, EndsAtProperties
<1>1. nowUtc' \in Nat /\ nowUtc <= nowUtc'
  BY <1>0 DEF GlobalNext, GlobalTick, MaybeRun, FetchBars, StoreResult, StoreFails, EndHourly,
     EndDaily, CooldownEnds, RestartRunner, BackfillFetch, BackfillStore, globalVars
<1>2. CASE lastSession' = lastSession
  BY <1>0, <1>1, <1>2 DEF LastSessionEnded, EndsAt
<1>3. CASE lastSession' = [i \in Instrument |-> 0]
  BY <1>3 DEF LastSessionEnded
<1>4. CASE EndDaily
  <2>1. ASSUME NEW i \in completed
        PROVE  EndsAt(<< i, "1d", DayOf(nowUtc) >>) <= nowUtc
    <3>1. SettledBy(i, nowUtc) /\ DayOf(nowUtc) \in Int /\ DayOf(nowUtc) <= DayOf(nowUtc)
      BY <1>4, GlobalTypeFacts DEF EndDaily, PollIsDue
    <3> QED
      BY <1>0, <3>1, WindowEnded
  <2>2. nowUtc' = nowUtc /\ \A i \in Instrument :
          lastSession'[i] = IF i \in completed THEN DayOf(nowUtc) ELSE lastSession[i]
    BY <1>4 DEF EndDaily
  <2> QED
    BY <2>1, <2>2 DEF LastSessionEnded, EndsAt
<1> QED
  BY <1>2, <1>3, <1>4 DEF GlobalNext, GlobalTick, MaybeRun, FetchBars, StoreResult, StoreFails,
     EndHourly, CooldownEnds, RestartRunner, BackfillFetch, BackfillStore, globalVars

LEMMA CompletedSessionsStayFinal ==
  ASSUME GlobalInductive, [GlobalNext]_globalVars
  PROVE  CompletedSessionsFinal'
<1> USE DEF GlobalInductive, GlobalTypes
<1>0. nowUtc \in Nat \ {0} /\ SessionDays \subseteq Nat \ {0} /\ LookbackDays \in Nat
  BY GlobalAssumption, GlobalTypeFacts
<1>1. ASSUME NEW i \in Instrument, NEW d \in SessionDays,
             d <= lastSession[i], d >= lastSession[i] - LookbackDays
      PROVE  SettledBar(<< i, "1d", d >>)'
  <2> DEFINE k == << i, "1d", d >>
  <2>1. d \in Nat \ {0} /\ lastSession[i] \in Nat /\ lastSession[i] # 0
    <3>1. lastSession[i] \in {0} \cup SessionDays
      OBVIOUS
    <3>2. d \in Nat \ {0} /\ {0} \cup SessionDays \subseteq Nat
      BY <1>0
    <3>3. lastSession[i] \in Nat
      BY <3>1, <3>2, Zenon
    <3> QED
      BY <1>1, <3>2, <3>3
  <2>2. /\ EndsAt(k) <= EndsAt(<< i, "1d", lastSession[i] >>)
        /\ EndsAt(k) \in Int /\ EndsAt(<< i, "1d", lastSession[i] >>) \in Int
    BY <1>1, <2>1, EndsAtProperties
  <2>3. EndsAt(<< i, "1d", lastSession[i] >>) <= nowUtc
    BY <2>1 DEF LastSessionEnded
  <2>4. k \in BarKey /\ EndsAt(k) <= nowUtc
    BY <1>0, <2>1, <2>2, <2>3, GlobalTypeFacts
  <2>5. SettledBar(k)
    BY <1>1 DEF CompletedSessionsFinal
  <2> HIDE DEF k
  <2>6. SettledBar(k)'
    BY <2>4, <2>5, SettledStays
  <2> QED
    BY <2>6 DEF k
<1>2. CASE lastSession' = lastSession
  BY <1>1, <1>2 DEF CompletedSessionsFinal
<1>3. CASE lastSession' = [i \in Instrument |-> 0]
  BY <1>0, <1>3 DEF CompletedSessionsFinal
<1>4. CASE EndDaily
  <2>1. /\ \A i \in Instrument :
             lastSession'[i] = IF i \in completed THEN DayOf(nowUtc) ELSE lastSession[i]
        /\ interval = "1d" /\ UNCHANGED << bars, gaps, overtaken >>
    BY <1>4 DEF EndDaily
  <2>2. ASSUME NEW i \in completed, NEW d \in SessionDays,
               d <= DayOf(nowUtc), d >= DayOf(nowUtc) - LookbackDays
        PROVE  SettledBar(<< i, "1d", d >>)'
    <3>1. d \in DaysBefore(nowUtc)
      BY <1>0, <2>2, GlobalTypeFacts DEF DaysBefore
    <3>2. SettledBar(<< i, "1d", d >>)
      BY <2>1, <3>1 DEF CompletedSettled
    <3> QED
      BY <2>1, <3>2 DEF SettledBar
  <2> QED
    BY <1>1, <2>1, <2>2 DEF CompletedSessionsFinal
<1> QED
  BY <1>2, <1>3, <1>4 DEF GlobalNext, GlobalTick, MaybeRun, FetchBars, StoreResult, StoreFails,
     EndHourly, CooldownEnds, RestartRunner, BackfillFetch, BackfillStore, globalVars

THEOREM GlobalInductiveInvariant == GlobalSpec => []GlobalInductive
<1>1. GlobalInit => GlobalInductive
  BY GlobalStartsInductive
<1>2. GlobalInductive /\ [GlobalNext]_globalVars => GlobalInductive'
  BY GlobalTypesStay, PollIsDueStay, AnswersCoverStay, CompletedStaySettled,
     LastSessionStaysEnded, CompletedSessionsStayFinal DEF GlobalInductive
<1> QED
  BY <1>1, <1>2, PTL DEF GlobalSpec

THEOREM GlobalTypeCorrect == GlobalSpec => []GlobalTypeOK
<1>1. GlobalInductive => GlobalTypeOK
  BY DEF GlobalInductive, GlobalTypes, GlobalTypeOK, UniqueKeys
<1> QED
  BY <1>1, GlobalInductiveInvariant, PTL

THEOREM CompletedSessionsAreFinal == GlobalSpec => []CompletedSessionsFinal
<1>1. GlobalInductive => CompletedSessionsFinal
  BY DEF GlobalInductive
<1> QED
  BY <1>1, GlobalInductiveInvariant, PTL

(* The three parts together.                                                *)
THEOREM MarketRowsAreSound == MarketSpec => []MarketRowsSound
<1>1. QuotesOfSessions /\ BaselineOfSameRun /\ CompletedSessionsFinal => MarketRowsSound
  BY DEF MarketRowsSound
<1> QED
  BY <1>1, QuotesAreOfSessions, BaselinesAreOfSameRun, CompletedSessionsAreFinal, PTL
     DEF MarketSpec

-----------------------------------------------------------------------------
(* Events.  Signals as they may be stored, with the links that count: those *)
(* of articles whose date never changed.                                    *)
Dated == UNION { [D -> EventDays] : D \in SUBSET Urls }
Unmoved(f, M) == [ u \in DOMAIN f \ M |-> f[u] ]
Counted(L, f, M, r, d) == LinksOn(L, Unmoved(f, M), r, d)

EventTyped ==
  /\ rules \in SUBSET RuleIds /\ IsFiniteSet(rules) /\ rules # {}
  /\ signals \in Dated /\ links \subseteq (DOMAIN signals) \X rules
  /\ todo \in Seq(RuleIds) /\ reported \in Dated /\ moved \in SUBSET Urls
  /\ eventStage \in {"sleep", "poll", "count", "store"}
  /\ eventStage \in {"count", "store"} => todo # << >>
  /\ eventStage = "store" => counts \in [EventDays -> Nat]

AllCapped == \A r \in RuleIds, d \in EventDays : Counted(links, signals, moved, r, d) <= Cap

(* What was counted before the transaction is no less than what there is:   *)
(* the others only take links away.                                         *)
CountsHold ==
  eventStage = "store" =>
    \A d \in EventDays : Counted(links, signals, moved, Head(todo), d) <= counts[d]

EventInductive == EventTyped /\ AllCapped /\ CountsHold

LEMMA DatedFacts ==
  /\ \A f \in Dated : DOMAIN f \in SUBSET Urls /\ \A u \in DOMAIN f : f[u] \in EventDays
  /\ \A D \in SUBSET Urls : \A f : f = [u \in DOMAIN f |-> f[u]] /\ DOMAIN f = D
        /\ (\A u \in D : f[u] \in EventDays) => f \in Dated
  /\ \A f \in Dated : f = [u \in DOMAIN f |-> f[u]]
<1>1. \A f \in Dated : \E D \in SUBSET Urls : f \in [D -> EventDays]
  BY DEF Dated
<1>2. ASSUME NEW D \in SUBSET Urls, NEW f, f = [u \in DOMAIN f |-> f[u]], DOMAIN f = D,
             \A u \in D : f[u] \in EventDays
      PROVE  f \in Dated
  <2>1. f \in [D -> EventDays]
    BY <1>2
  <2> QED
    BY <2>1 DEF Dated
<1> QED
  BY <1>1, <1>2

LEMMA NothingDated == << >> \in Dated
<1>1. DOMAIN << >> = {} /\ << >> = [u \in {} |-> << >>[u]]
  OBVIOUS
<1> QED
  BY <1>1, DatedFacts

(* The links that count for a rule and a day.                               *)
LinkedOn(L, f, M, r, d) == { u \in DOMAIN f \ M : f[u] = d /\ << u, r >> \in L }

LEMMA CountedProperties ==
  ASSUME NEW L, NEW f \in Dated, NEW M, NEW r, NEW d
  PROVE  /\ Counted(L, f, M, r, d) = Cardinality(LinkedOn(L, f, M, r, d))
         /\ Counted(L, f, M, r, d) \in Nat /\ IsFiniteSet(LinkedOn(L, f, M, r, d))
<1>1. { u \in DOMAIN Unmoved(f, M) : Unmoved(f, M)[u] = d /\ << u, r >> \in L }
        = LinkedOn(L, f, M, r, d)
  BY DEF Unmoved, LinkedOn
<1>2. LinkedOn(L, f, M, r, d) \in SUBSET Urls
  BY DatedFacts DEF LinkedOn
<1>3. IsFiniteSet(LinkedOn(L, f, M, r, d)) /\ Cardinality(LinkedOn(L, f, M, r, d)) \in Nat
  BY <1>2, EventAssumption, FS_Subset, FS_CardinalityType
<1> QED
  BY <1>1, <1>3 DEF Counted, LinksOn

(* With fewer links, and more of them moved, no count is greater.           *)
LEMMA CountedMonotone ==
  ASSUME NEW L, NEW f \in Dated, NEW M, NEW K, NEW g \in Dated, NEW N, NEW r, NEW d,
         LinkedOn(L, f, M, r, d) \subseteq LinkedOn(K, g, N, r, d)
  PROVE  Counted(L, f, M, r, d) <= Counted(K, g, N, r, d)
BY CountedProperties, FS_Subset

LEMMA CountedOneMore ==
  ASSUME NEW L, NEW f \in Dated, NEW M, NEW K, NEW g \in Dated, NEW N, NEW r, NEW d, NEW u,
         LinkedOn(L, f, M, r, d) \subseteq LinkedOn(K, g, N, r, d) \cup {u}
  PROVE  Counted(L, f, M, r, d) <= Counted(K, g, N, r, d) + 1
<1> DEFINE B == LinkedOn(K, g, N, r, d)
<1>1. IsFiniteSet(B) /\ Cardinality(B) \in Nat /\ Counted(K, g, N, r, d) = Cardinality(B)
        /\ LinkedOn(L, f, M, r, d) \subseteq B \cup {u}
  BY CountedProperties
<1> HIDE DEF B
<1>2. IsFiniteSet(B \cup {u}) /\ Cardinality(B \cup {u}) <= Cardinality(B) + 1
      /\ Cardinality(B \cup {u}) \in Nat
  <2>1. /\ IsFiniteSet(B \cup {u})
        /\ Cardinality(B \cup {u}) = IF u \in B THEN Cardinality(B) ELSE Cardinality(B) + 1
    BY <1>1, FS_AddElement
  <2> QED
    BY <1>1, <2>1
<1>3. Cardinality(LinkedOn(L, f, M, r, d)) <= Cardinality(B \cup {u})
  BY <1>1, <1>2, FS_Subset
<1> QED
  BY <1>1, <1>2, <1>3, CountedProperties

(* An intermediate state of the transaction for the rule at the head.       *)
Storing(acc) ==
  /\ acc \in [signals : Dated, links : SUBSET (Urls \X RuleIds),
              counts : [EventDays -> Nat], moved : SUBSET Urls]
  /\ acc.links \subseteq (DOMAIN acc.signals) \X (rules \cup {Head(todo)})
  /\ \A r \in RuleIds, d \in EventDays :
       Counted(acc.links, acc.signals, acc.moved, r, d) <= Cap
  /\ \A d \in EventDays :
       Counted(acc.links, acc.signals, acc.moved, Head(todo), d) <= acc.counts[d]

LEMMA StoreEventKeeps ==
  ASSUME EventTyped, eventStage = "store", NEW acc, Storing(acc), NEW u \in DOMAIN reported
  PROVE  Storing(StoreEvent(acc, u))
<1> DEFINE d == reported[u]
           rule == Head(todo)
           new == << u, rule >> \notin acc.links
           signals2 == With(acc.signals, u, d)
           links2 == acc.links \cup {<< u, rule >>}
           counts2 == IF new THEN [acc.counts EXCEPT ![d] = @ + 1] ELSE acc.counts
           moved2 == IF u \in DOMAIN acc.signals /\ acc.signals[u] # d
                     THEN acc.moved \cup {u} ELSE acc.moved
           acc2 == [signals |-> signals2, links |-> links2, counts |-> counts2, moved |-> moved2]
           cap(e, r) == Counted(acc.links, acc.signals, acc.moved, r, e)
           cap2(e, r) == Counted(links2, signals2, moved2, r, e)
<1>1. /\ d \in EventDays /\ u \in Urls /\ rule \in RuleIds /\ Cap \in Nat
      /\ acc.signals \in Dated /\ acc.links \in SUBSET (Urls \X RuleIds)
      /\ acc.counts \in [EventDays -> Nat] /\ acc.moved \in SUBSET Urls
  BY DatedFacts, EventAssumption DEF EventTyped, Storing
<1>2. StoreEvent(acc, u) = acc \/ (acc.counts[d] < Cap /\ StoreEvent(acc, u) = acc2)
  BY <1>1 DEF StoreEvent
<1>3. signals2 \in Dated /\ DOMAIN signals2 = DOMAIN acc.signals \cup {u}
      /\ signals2[u] = d /\ \A x \in DOMAIN acc.signals : x # u => signals2[x] = acc.signals[x]
  <2>1. /\ DOMAIN acc.signals \in SUBSET Urls
        /\ \A x \in DOMAIN acc.signals : acc.signals[x] \in EventDays
    BY <1>1, DatedFacts
  <2>2. /\ DOMAIN signals2 = DOMAIN acc.signals \cup {u} /\ signals2[u] = d
        /\ \A x \in DOMAIN acc.signals : x # u => signals2[x] = acc.signals[x]
        /\ signals2 = [x \in DOMAIN signals2 |-> signals2[x]]
    BY DEF With
  <2>3. DOMAIN signals2 \in SUBSET Urls /\ \A x \in DOMAIN signals2 : signals2[x] \in EventDays
    BY <1>1, <2>1, <2>2
  <2> HIDE DEF signals2
  <2> QED
    BY <2>2, <2>3, DatedFacts
<1>4. counts2 \in [EventDays -> Nat] /\ moved2 \in SUBSET Urls /\ acc.moved \subseteq moved2
      /\ links2 \in SUBSET (Urls \X RuleIds)
  BY <1>1
<1>5. links2 \subseteq (DOMAIN signals2) \X (rules \cup {rule})
  BY <1>3 DEF Storing
(* An article that was linked before counts as before, or is moved.         *)
<1>6. ASSUME NEW r, NEW e, << u, rule >> \in acc.links \/ ~ (r = rule /\ e = d)
      PROVE  LinkedOn(links2, signals2, moved2, r, e)
               \subseteq LinkedOn(acc.links, acc.signals, acc.moved, r, e)
  <2>1. SUFFICES ASSUME NEW x \in LinkedOn(links2, signals2, moved2, r, e)
                 PROVE  x \in LinkedOn(acc.links, acc.signals, acc.moved, r, e)
    OBVIOUS
  <2>2. x \in DOMAIN signals2 /\ x \notin moved2 /\ signals2[x] = e /\ << x, r >> \in links2
    BY <2>1 DEF LinkedOn
  <2>3. CASE x # u
    BY <1>3, <1>4, <2>2, <2>3 DEF LinkedOn
  <2>4. CASE x = u
    <3>1. e = d /\ << u, r >> \in acc.links
      BY <1>3, <1>6, <2>2, <2>4
    <3>2. u \in DOMAIN acc.signals
      BY <3>1 DEF Storing
    <3>3. acc.signals[u] = d /\ u \notin acc.moved
      BY <1>4, <2>2, <2>4, <3>2
    <3> QED
      BY <2>4, <3>1, <3>2, <3>3 DEF LinkedOn
  <2> QED
    BY <2>3, <2>4
<1>7. ASSUME NEW r, NEW e, << u, rule >> \in acc.links \/ ~ (r = rule /\ e = d)
      PROVE  cap2(e, r) <= cap(e, r)
  BY <1>1, <1>3, <1>6, <1>7, CountedMonotone
<1>8. new => cap2(d, rule) <= cap(d, rule) + 1
  <2>1. LinkedOn(links2, signals2, moved2, rule, d)
          \subseteq LinkedOn(acc.links, acc.signals, acc.moved, rule, d) \cup {u}
    BY <1>3, <1>4 DEF LinkedOn
  <2> QED
    BY <1>1, <1>3, <2>1, CountedOneMore
<1>9. \A r, e : cap(e, r) \in Nat /\ cap2(e, r) \in Nat
  BY <1>1, <1>3, CountedProperties
<1>10. /\ \A r \in RuleIds, e \in EventDays : cap(e, r) <= Cap
       /\ \A e \in EventDays : cap(e, rule) <= acc.counts[e]
  BY DEF Storing
<1> HIDE DEF cap, cap2, d, rule
<1>11. acc.counts[d] < Cap =>
         /\ \A r \in RuleIds, e \in EventDays : cap2(e, r) <= Cap
         /\ \A e \in EventDays : cap2(e, rule) <= counts2[e]
  BY <1>1, <1>7, <1>8, <1>9, <1>10
<1>12. acc.counts[d] < Cap => Storing(acc2)
  <2>1. acc2 \in [signals : Dated, links : SUBSET (Urls \X RuleIds),
                  counts : [EventDays -> Nat], moved : SUBSET Urls]
    BY <1>3, <1>4
  <2>2. acc2.signals = signals2 /\ acc2.links = links2 /\ acc2.counts = counts2
        /\ acc2.moved = moved2
    OBVIOUS
  <2> HIDE DEF acc2, signals2, links2, counts2, moved2
  <2> QED
    BY <1>5, <1>11, <2>1, <2>2 DEF Storing, cap2, rule
<1> QED
  BY <1>2, <1>12

(* The whole transaction.                                                   *)
LEMMA StoredInOrderKeeps ==
  ASSUME EventInductive, eventStage = "store",
         NEW N \in Nat, NEW order \in [1 .. N -> DOMAIN reported]
  PROVE  Storing(StoredInOrder(order))
<1> USE DEF EventInductive
<1> DEFINE base == [signals |-> signals, links |-> links, counts |-> counts, moved |-> moved]
           Good == { acc \in [signals : Dated, links : SUBSET (Urls \X RuleIds),
                              counts : [EventDays -> Nat], moved : SUBSET Urls] : Storing(acc) }
           step == [ x \in Good \X (1 .. N) |-> StoreEvent(x[1], order[x[2]]) ]
           Is(f) == f = [ n \in 0 .. N |-> IF n = 0 THEN base ELSE StoreEvent(f[n - 1], order[n]) ]
           after == CHOOSE f : Is(f)
<1>1. order \in Seq(DOMAIN reported) /\ Len(order) = N
  OBVIOUS
<1>2. Storing(base)
  <2>1. /\ base \in [signals : Dated, links : SUBSET (Urls \X RuleIds),
                     counts : [EventDays -> Nat], moved : SUBSET Urls]
        /\ base.signals = signals /\ base.links = links /\ base.counts = counts
        /\ base.moved = moved
    BY DatedFacts DEF EventTyped
  <2> HIDE DEF base
  <2> QED
    BY <2>1 DEF Storing, EventTyped, AllCapped, CountsHold
<1>3. base \in Good /\ \A acc : Storing(acc) <=> acc \in Good
  BY <1>2 DEF Storing
<1>4. \A acc \in Good, n \in 1 .. N : StoreEvent(acc, order[n]) \in Good
  BY <1>3, StoreEventKeeps
<1> HIDE DEF base, Good
<1>5. \E f : Is(f)
  <2>1. step \in [Good \X (1 .. N) -> Good]
    BY <1>4
  <2>2. \A acc \in Good, n \in 1 .. N : step[<< acc, n >>] = StoreEvent(acc, order[n])
    OBVIOUS
  <2> HIDE DEF step
  <2>3. PICK f \in [0 .. N -> Good] :
          f[0] = base /\ \A n \in 1 .. N : f[n] = step[<< f[n - 1], n >>]
    <3>1. Runs(Good, N, base, step) # {}
      BY <1>3, <2>1, FoldExists
    <3> QED
      BY <3>1 DEF Runs
  <2>4. \A n \in 1 .. N : f[n] = StoreEvent(f[n - 1], order[n])
    <3>1. \A n \in 1 .. N : n - 1 \in 0 .. N /\ f[n - 1] \in Good
      BY <2>3
    <3> QED
      BY <2>2, <2>3, <3>1
  <2>5. Is(f)
    BY <2>3, <2>4
  <2> QED
    BY <2>5
<1>6. Is(after)
  BY <1>5
<1>7. StoredInOrder(order) = after[N]
  BY <1>1 DEF StoredInOrder, base
<1> HIDE DEF after
<1>8. after[0] = base /\ \A n \in 1 .. N : after[n] = StoreEvent(after[n - 1], order[n])
  BY <1>6
<1>9. \A n \in 1 .. N : after[n - 1] \in Good => after[n] \in Good
  BY <1>4, <1>8
<1>10. after[N] \in Good
  BY <1>3, <1>8, <1>9, FoldInvariant
<1> QED
  BY <1>3, <1>7, <1>10

LEMMA EventsStartInductive ==
  ASSUME EventInit
  PROVE  EventInductive
<1>1. RuleIds \in SUBSET Nat /\ RuleIds # {} /\ Cap \in Nat
  BY EventAssumption
<1>2. Min(RuleIds) \in RuleIds
  <2>1. \E m \in RuleIds : \A y \in RuleIds : m <= y
    BY <1>1, LeastIndexExists
  <2> QED
    BY <2>1 DEF Min
<1>3. IsFiniteSet({Min(RuleIds)})
  BY FS_Singleton
<1>4. << >> \in Dated
  BY NothingDated
<1>5. EventTyped
  BY <1>2, <1>3, <1>4 DEF EventInit, EventTyped
<1>6. \A r, d : Counted(links, signals, moved, r, d) <= Cap
  <2>1. \A r, d : LinkedOn(links, signals, moved, r, d) = {}
    BY DEF EventInit, LinkedOn
  <2>2. \A r, d : Counted(links, signals, moved, r, d) = 0
    BY <1>4, <2>1, CountedProperties, FS_EmptySet DEF EventInit
  <2> QED
    BY <1>1, <2>2
<1> QED
  BY <1>5, <1>6 DEF EventInductive, AllCapped, CountsHold, EventInit

(* Links that go, and articles whose date is not touched.                   *)
LEMMA FewerLinks ==
  ASSUME EventInductive, EventTyped', links' \subseteq links,
         \A u \in DOMAIN signals' : u \in DOMAIN signals /\ signals'[u] = signals[u],
         moved' = moved,
         eventStage' = "store" => UNCHANGED << eventStage, counts, todo >>
  PROVE  EventInductive'
<1> USE DEF EventInductive
<1>1. \A r, d : LinkedOn(links', signals', moved', r, d) \subseteq LinkedOn(links, signals, moved, r, d)
  BY DEF LinkedOn
<1>2. signals \in Dated /\ signals' \in Dated
  BY DEF EventTyped
<1>3. \A r, d : Counted(links', signals', moved', r, d) <= Counted(links, signals, moved, r, d)
               /\ Counted(links', signals', moved', r, d) \in Nat
               /\ Counted(links, signals, moved, r, d) \in Nat
  BY <1>1, <1>2, CountedMonotone, CountedProperties
<1>4. AllCapped'
  BY <1>3, EventAssumption DEF AllCapped
<1>5. CountsHold'
  <2> SUFFICES ASSUME eventStage' = "store", NEW d \in EventDays
               PROVE  Counted(links', signals', moved', Head(todo'), d) <= counts'[d]
    BY DEF CountsHold
  <2>1. Counted(links, signals, moved, Head(todo), d) <= counts[d] /\ counts[d] \in Nat
        /\ todo' = todo /\ counts' = counts
    BY DEF CountsHold, EventTyped
  <2> QED
    BY <1>3, <2>1
<1> QED
  BY <1>4, <1>5

LEMMA StoreEventsKeeps ==
  ASSUME EventInductive, StoreEvents
  PROVE  EventInductive'
<1> USE DEF EventInductive
<1> DEFINE K == Cardinality(DOMAIN reported)
<1>1. K \in Nat
  <2>1. DOMAIN reported \in SUBSET Urls
    BY DatedFacts DEF EventTyped
  <2> QED
    BY <2>1, EventAssumption, FS_Subset, FS_CardinalityType
<1>2. PICK order \in [1 .. K -> DOMAIN reported] :
        LET acc == StoredInOrder(order)
            linked == Head(todo) \in rules \/ acc.links = links
        IN  /\ signals' = IF linked THEN acc.signals ELSE signals
            /\ links' = IF linked THEN acc.links ELSE links
            /\ moved' = IF linked THEN acc.moved ELSE moved
  BY DEF StoreEvents, Ordered
<1>3. eventStage = "store" /\ eventStage' = "poll" /\ rules' = rules
      /\ todo' = Tail(todo) /\ reported' = << >>
  BY DEF StoreEvents
<1>4. Storing(StoredInOrder(order))
  BY <1>1, <1>2, <1>3, StoredInOrderKeeps
<1>5. \/ signals' = signals /\ links' = links /\ moved' = moved
      \/ \E acc : /\ Storing(acc) /\ (Head(todo) \in rules \/ acc.links = links)
                 /\ signals' = acc.signals /\ links' = acc.links /\ moved' = acc.moved
  BY <1>2, <1>4, Zenon
<1>6. todo' \in Seq(RuleIds)
  BY <1>3 DEF EventTyped
<1>7. << >> \in Dated
  BY NothingDated
<1>8. CASE \E acc : /\ Storing(acc) /\ (Head(todo) \in rules \/ acc.links = links)
                  /\ signals' = acc.signals /\ links' = acc.links /\ moved' = acc.moved
  <2>1. PICK acc : /\ Storing(acc) /\ (Head(todo) \in rules \/ acc.links = links)
                   /\ signals' = acc.signals /\ links' = acc.links /\ moved' = acc.moved
    BY <1>8
  <2>2. signals' \in Dated /\ moved' \in SUBSET Urls
    BY <2>1 DEF Storing
  <2>3. links' \subseteq (DOMAIN signals') \X rules
    <3>1. acc.links \subseteq (DOMAIN acc.signals) \X (rules \cup {Head(todo)})
      BY <2>1 DEF Storing
    <3>2. CASE Head(todo) \in rules
      <4>1. rules \cup {Head(todo)} = rules
        BY <3>2
      <4> QED
        BY <2>1, <3>1, <4>1
    <3>3. CASE acc.links = links
      BY <2>1, <3>1, <3>3 DEF EventTyped
    <3> QED
      BY <2>1, <3>2, <3>3
  <2>4. EventTyped'
    BY <1>3, <1>6, <1>7, <2>2, <2>3 DEF EventTyped
  <2>5. AllCapped'
    BY <2>1 DEF Storing, AllCapped
  <2> QED
    BY <1>3, <2>4, <2>5 DEF CountsHold
<1>9. CASE signals' = signals /\ links' = links /\ moved' = moved
  <2>1. EventTyped'
    BY <1>3, <1>6, <1>7, <1>9 DEF EventTyped
  <2> QED
    BY <1>3, <1>9, <2>1, FewerLinks
<1> QED
  BY <1>5, <1>8, <1>9

LEMMA ReadCountsKeeps ==
  ASSUME EventInductive, ReadCounts
  PROVE  EventInductive'
<1> USE DEF EventInductive
<1>1. \A r, d : /\ LinksOn(links, signals, r, d) \in Nat
               /\ Counted(links, signals, moved, r, d) <= LinksOn(links, signals, r, d)
  <2>1. signals \in Dated /\ Unmoved(signals, {}) = signals
    BY DatedFacts DEF EventTyped, Unmoved
  <2>2. \A r, d : LinkedOn(links, signals, moved, r, d) \subseteq LinkedOn(links, signals, {}, r, d)
    BY DEF LinkedOn
  <2>3. \A r, d : Counted(links, signals, {}, r, d) = LinksOn(links, signals, r, d)
    BY <2>1 DEF Counted
  <2> QED
    BY <2>1, <2>2, <2>3, CountedMonotone, CountedProperties
<1>2. /\ counts' = [d \in EventDays |-> LinksOn(links, signals, Head(todo), d)]
      /\ eventStage = "count" /\ eventStage' = "store"
      /\ UNCHANGED << rules, signals, links, todo, reported, moved >>
  BY DEF ReadCounts
<1>3. EventTyped'
  BY <1>1, <1>2 DEF EventTyped
<1>4. AllCapped'
  BY <1>2 DEF AllCapped
<1>5. CountsHold'
  BY <1>1, <1>2 DEF CountsHold
<1> QED
  BY <1>3, <1>4, <1>5

LEMMA EventStepsKeep ==
  ASSUME EventInductive, [EventNext]_eventVars
  PROVE  EventInductive'
<1> USE DEF EventInductive
<1>0. << >> \in Dated /\ << >> \in Seq(RuleIds)
  BY NothingDated
<1>1. CASE BeginPoll
  <2>1. Cardinality(rules) \in Nat
    BY FS_CardinalityType DEF EventTyped
  <2>2. todo' \in [1 .. Cardinality(rules) -> rules]
    BY <1>1 DEF BeginPoll, Ordered
  <2>3. todo' \in Seq(RuleIds)
    BY <2>1, <2>2 DEF EventTyped
  <2>4. EventTyped'
    BY <1>1, <2>3 DEF BeginPoll, EventTyped
  <2> QED
    BY <1>1, <2>4, FewerLinks DEF BeginPoll
<1>2. CASE FetchEvents
  <2>1. reported' \in Dated
    BY <1>2 DEF FetchEvents, Dated
  <2>2. EventTyped'
    BY <1>2, <2>1 DEF FetchEvents, EventTyped
  <2> QED
    BY <1>2, <2>2, FewerLinks DEF FetchEvents
<1>3. CASE RuleFails
  <2>1. EventTyped'
    BY <1>0, <1>3 DEF RuleFails, EventTyped
  <2> QED
    BY <1>3, <2>1, FewerLinks DEF RuleFails
<1>4. CASE EndPoll
  <2>1. EventTyped'
    BY <1>4 DEF EndPoll, EventTyped
  <2> QED
    BY <1>4, <2>1, FewerLinks DEF EndPoll
<1>5. CASE ReplaceRule
  <2>1. PICK old \in rules, new \in RuleIds :
          rules' = (rules \ {old}) \cup {new} /\ links' = { l \in links : l[2] # old }
    BY <1>5 DEF ReplaceRule
  <2>2. IsFiniteSet(rules') /\ rules' \in SUBSET RuleIds /\ rules' # {}
    <3>1. IsFiniteSet(rules \ {old})
      BY FS_Subset DEF EventTyped
    <3> QED
      BY <2>1, <3>1, FS_AddElement DEF EventTyped
  <2>3. links' \subseteq (DOMAIN signals) \X rules'
    BY <2>1 DEF EventTyped
  <2>4. EventTyped'
    BY <1>5, <2>2, <2>3 DEF ReplaceRule, EventTyped
  <2> QED
    BY <1>5, <2>1, <2>4, FewerLinks DEF ReplaceRule
<1>6. CASE AddRule
  <2>1. PICK new \in RuleIds : rules' = rules \cup {new}
    BY <1>6 DEF AddRule
  <2>2. IsFiniteSet(rules') /\ rules' \in SUBSET RuleIds
    BY <2>1, FS_AddElement DEF EventTyped
  <2>3. links' \subseteq (DOMAIN signals) \X rules'
    BY <1>6, <2>1 DEF AddRule, EventTyped
  <2>4. EventTyped'
    BY <1>6, <2>1, <2>2, <2>3 DEF AddRule, EventTyped
  <2> QED
    BY <1>6, <2>4, FewerLinks DEF AddRule
<1>7. CASE PruneSignals
  <2>1. PICK d \in EventDays :
          /\ signals' = [ u \in { x \in DOMAIN signals : signals[x] > d } |-> signals[u] ]
          /\ links' = { l \in links : signals[l[1]] > d }
    BY <1>7 DEF PruneSignals
  <2>2. /\ DOMAIN signals' = { x \in DOMAIN signals : signals[x] > d }
        /\ \A u \in DOMAIN signals' : u \in DOMAIN signals /\ signals'[u] = signals[u]
        /\ signals' = [u \in DOMAIN signals' |-> signals'[u]]
    BY <2>1
  <2>3. signals' \in Dated
    <3>1. DOMAIN signals' \in SUBSET Urls /\ \A u \in DOMAIN signals' : signals'[u] \in EventDays
      BY <2>2, DatedFacts DEF EventTyped
    <3> QED
      BY <2>2, <3>1, DatedFacts
  <2>4. links' \subseteq (DOMAIN signals') \X rules
    BY <2>1, <2>2 DEF EventTyped
  <2>5. EventTyped'
    BY <1>7, <2>3, <2>4 DEF PruneSignals, EventTyped
  <2> QED
    BY <1>7, <2>1, <2>2, <2>5, FewerLinks DEF PruneSignals
<1>8. CASE DatabaseStops \/ RestartEvents
  <2>1. /\ todo' = << >> /\ reported' = << >> /\ eventStage' = "sleep"
        /\ UNCHANGED << rules, signals, links, moved >>
    BY <1>8 DEF DatabaseStops, RestartEvents
  <2>2. EventTyped'
    BY <1>0, <2>1 DEF EventTyped
  <2> QED
    BY <2>1, <2>2, FewerLinks
<1>9. CASE DatabaseStarts \/ UNCHANGED eventVars
  <2>1. UNCHANGED << rules, signals, links, todo, reported, counts, eventStage, moved >>
    BY <1>9 DEF DatabaseStarts, eventVars
  <2>2. EventTyped'
    BY <2>1 DEF EventTyped
  <2> QED
    BY <2>1, <2>2, FewerLinks
<1> QED
  BY <1>1, <1>2, <1>3, <1>4, <1>5, <1>6, <1>7, <1>8, <1>9, StoreEventsKeeps, ReadCountsKeeps
     DEF EventNext, EventStep

THEOREM EventInductiveInvariant == EventSpec => []EventInductive
<1>1. EventInit => EventInductive
  BY EventsStartInductive
<1>2. EventInductive /\ [EventNext]_eventVars => EventInductive'
  BY EventStepsKeep
<1> QED
  BY <1>1, <1>2, PTL DEF EventSpec

THEOREM EventTypeCorrect == EventSpec => []EventTypeOK
<1>1. EventInductive => EventTypeOK
  BY DatedFacts DEF EventInductive, EventTyped, EventTypeOK, Range
<1> QED
  BY <1>1, EventInductiveInvariant, PTL

THEOREM LinksAreCapped == EventSpec => []LinksCapped
<1>1. EventInductive => LinksCapped
  BY DEF EventInductive, EventTyped, AllCapped, LinksCapped, Counted, Unmoved
<1> QED
  BY <1>1, EventInductiveInvariant, PTL

-----------------------------------------------------------------------------
(* A row that market-producer may store of the fund.                        *)
RowSound(q, U) ==
  /\ q \in [ date : Date, slot : Slot, kind : {"official", "estimate"},
             value : Nat, base : Date ]
  /\ q.date \in TradingDay
  /\ (q.slot = Bell) <=> (q.kind = "official")
  /\ q.kind = "estimate" =>
       /\ q.base = PreviousTradingDate(q.date)
       /\ LET plausible == { m \in Moves : m <= MaxPlausibleMove }
          IN  q.value \in 10 * Min(plausible) .. 10 * Max(plausible)
  /\ q.kind = "official" => q.value \in {Nav[q.date], BadNav} \/ q.date \in U

RowsSound(Q, U) ==
  /\ \A q \in Q : RowSound(q, U)
  /\ \A q, r \in Q : q.date = r.date /\ q.slot = r.slot => q = r

NavTyped ==
  /\ day \in Date /\ slot \in Slot
  /\ published \subseteq TradingDay
  /\ navStage \in {"idle", "navs", "proxies"}
  /\ called \in Date \X Slot
  /\ officialDone \in Date \cup {None} /\ baseline \in Date \cup {None}
  /\ unguarded \subseteq Date
  /\ navFaults \in 0 .. MaxNavFaults

(* What a call waits for was due when it began, on the previous NAV; and    *)
(* all NAVs but the latest are published.                                   *)
NavInductive ==
  /\ NavTyped
  /\ RowsSound(quotes, unguarded)
  /\ \A d \in TradingDay : d < day => d \in published
  /\ called[1] <= day
  /\ navStage = "proxies" =>
       /\ EstimateDue(called[1], called[2])
       /\ baseline # None /\ baseline = PreviousTradingDate(called[1])
  /\ EarlierNavsStored

(* The trading day before a day is the latest one before it, if any.        *)
LEMMA PreviousTradingDateProperties ==
  ASSUME NEW d \in Nat
  PROVE  LET p == PreviousTradingDate(d)
         IN  /\ p \in Nat
             /\ p = None => \A x \in TradingDay : ~ (x < d)
             /\ p # None => /\ p \in TradingDay /\ p \in Date /\ p < d
                            /\ \A x \in TradingDay : x < d => x <= p
<1> DEFINE prior == { p \in TradingDay : p < d }
<1>1. TradingDay \subseteq Date /\ LastDate \in Nat /\ Date = 1 .. LastDate
  BY NavAssumption DEF Date
<1>2. prior \in SUBSET (0 .. d)
  <2>1. \A x \in prior : x \in Nat /\ x < d
    BY <1>1
  <2> HIDE DEF prior
  <2> QED
    BY <2>1
<1>3. PreviousTradingDate(d) = IF prior = {} THEN 0 ELSE Max(prior)
  BY DEF PreviousTradingDate, None
<1>4. CASE prior = {}
  BY <1>3, <1>4 DEF None
<1>5. CASE prior # {}
  <2> DEFINE m == Max(prior)
  <2>1. m \in prior /\ \A y \in prior : y <= m
    BY <1>2, <1>5, GreatestIndexExists
  <2>2. PreviousTradingDate(d) = m
    BY <1>3, <1>5
  <2> HIDE DEF m
  <2> QED
    BY <1>1, <2>1, <2>2 DEF None
<1> QED
  BY <1>4, <1>5

(* The day before and the one after it have the same previous trading day,  *)
(* unless there is a session between them.                                  *)
LEMMA PreviousOfNext ==
  ASSUME NEW d \in Nat
  PROVE  PreviousTradingDate(d + 1) = IF d \in TradingDay THEN d ELSE PreviousTradingDate(d)
<1> DEFINE p == PreviousTradingDate(d)
           q == PreviousTradingDate(d + 1)
<1>1. TradingDay \subseteq Date /\ \A x \in Date : x \in Nat /\ x # None
  BY NavAssumption DEF Date, None
<1>2. /\ p \in Nat
      /\ p = None => \A x \in TradingDay : ~ (x < d)
      /\ p # None => /\ p \in TradingDay /\ p < d
                     /\ \A x \in TradingDay : x < d => x <= p
  BY PreviousTradingDateProperties
<1>3. /\ q \in Nat
      /\ q = None => \A x \in TradingDay : ~ (x < d + 1)
      /\ q # None => /\ q \in TradingDay /\ q < d + 1
                     /\ \A x \in TradingDay : x < d + 1 => x <= q
  BY PreviousTradingDateProperties, d + 1 \in Nat
<1> HIDE DEF p, q
<1>4. q = IF d \in TradingDay THEN d ELSE p
  <2>1. CASE d \in TradingDay
    BY <1>1, <1>3, <2>1
  <2>2. CASE d \notin TradingDay
    BY <1>1, <1>2, <1>3, <2>2
  <2> QED
    BY <2>1, <2>2
<1> QED
  BY <1>4 DEF p, q

LEMMA RowsSoundAdd ==
  ASSUME NEW Q, NEW U, NEW V, RowsSound(Q, U), U \subseteq V, NEW q, RowSound(q, V)
  PROVE  RowsSound(InsertQuote(Q, q), V)
<1>1. \A r \in Q : RowSound(r, V)
  BY DEF RowsSound, RowSound
<1>2. CASE Stored(Q, q.date, q.slot)
  BY <1>1, <1>2 DEF InsertQuote, RowsSound
<1>3. CASE ~ Stored(Q, q.date, q.slot)
  <2>1. InsertQuote(Q, q) = Q \cup {q}
    BY <1>3 DEF InsertQuote
  <2>2. \A r \in Q : ~ (r.date = q.date /\ r.slot = q.slot)
    BY <1>3 DEF Stored
  <2>3. \A r, t \in Q : r.date = t.date /\ r.slot = t.slot => r = t
    BY DEF RowsSound
  <2>4. \A r \in Q \cup {q} : RowSound(r, V)
    BY <1>1
  <2>5. \A r, t \in Q \cup {q} : r.date = t.date /\ r.slot = t.slot => r = t
    BY <2>2, <2>3
  <2> QED
    BY <2>1, <2>4, <2>5 DEF RowsSound
<1> QED
  BY <1>2, <1>3

LEMMA InsertStores ==
  ASSUME NEW Q, NEW q
  PROVE  Stored(InsertQuote(Q, q), q.date, q.slot) /\ Q \subseteq InsertQuote(Q, q)
BY DEF InsertQuote, Stored

-----------------------------------------------------------------------------
(* A response has the published NAV of a day, or what Yahoo has in its      *)
(* place.                                                                   *)
LEMMA ResponseProperties ==
  ASSUME NavInductive, NEW missing, NEW bad, NEW d \in DOMAIN NavResponse(missing, bad)
  PROVE  LET v == NavResponse(missing, bad)[d]
         IN  /\ d \in TradingDay /\ d \in Date /\ d <= day
             /\ v \in Nat \ {0}
             /\ \/ v \in {Nav[d], BadNav}
                \/ d = day /\ v = StaleClose(d)
<1> USE DEF NavInductive, NavTyped
<1>1. /\ d \in { r \in Rows \ missing : Value(r) # None }
      /\ NavResponse(missing, bad)[d] = IF d \in bad THEN BadNav ELSE Value(d)
  BY DEF NavResponse
<1>2. d \in Rows /\ Value(d) # None
  BY <1>1
<1>3. d \in TradingDay /\ d <= day /\ (d \in published \/ d = day)
  BY <1>2 DEF Rows
<1>4. d \in Date /\ d \in Nat
  BY <1>3, NavAssumption DEF Date
<1>5. BadNav \in Nat \ {0} /\ \A x \in Date : Nav[x] \in Nat \ {0}
  BY NavAssumption
<1>6. StaleClose(d) \in Nat
  <2> DEFINE p == PreviousTradingDate(d)
  <2>1. p = None \/ p \in Date
    BY <1>4, PreviousTradingDateProperties
  <2>2. StaleClose(d) = IF p = None THEN 0 ELSE Nav[p]
    BY DEF StaleClose, None
  <2> HIDE DEF p
  <2> QED
    BY <1>5, <2>1, <2>2
<1>7. Value(d) \in Nat \ {0} /\ (Value(d) = Nav[d] \/ (d = day /\ Value(d) = StaleClose(d)))
  BY <1>2, <1>3, <1>4, <1>5, <1>6 DEF Value, None
<1> QED
  BY <1>1, <1>3, <1>4, <1>5, <1>7

(* What the loop over the rows of a response may have come to: it only adds *)
(* sound rows.                                                              *)
Accs ==
  { acc \in [ prev : Nat, done : {officialDone, called[1]}, unguarded : SUBSET Date,
              quotes : SUBSET [ date : Date, slot : Slot, kind : {"official", "estimate"},
                                value : Nat, base : Date ] ] :
      /\ RowsSound(acc.quotes, acc.unguarded)
      /\ quotes \subseteq acc.quotes /\ unguarded \subseteq acc.unguarded }

LEMMA UpsertOfficialKeeps ==
  ASSUME NavInductive, NEW missing, NEW bad, NEW failing, NEW acc \in Accs,
         NEW d \in DOMAIN NavResponse(missing, bad)
  PROVE  UpsertOfficial(acc, NavResponse(missing, bad), d, failing) \in Accs
<1> DEFINE f == NavResponse(missing, bad)
           q == OfficialRow(d, f[d])
           U == IF Stored(acc.quotes, d, Bell) \/ acc.prev = StaleClose(d)
                THEN acc.unguarded ELSE acc.unguarded \cup {d}
           Q == InsertQuote(acc.quotes, q)
           end == IF d = called[1] THEN d ELSE acc.done
<1>1. /\ d \in TradingDay /\ d \in Date /\ d <= day
      /\ f[d] \in Nat \ {0}
      /\ f[d] \in {Nav[d], BadNav} \/ (d = day /\ f[d] = StaleClose(d))
  BY ResponseProperties
<1>2. /\ acc.prev \in Nat /\ acc.done \in {officialDone, called[1]}
      /\ acc.unguarded \in SUBSET Date
      /\ acc.quotes \in SUBSET [ date : Date, slot : Slot, kind : {"official", "estimate"},
                                 value : Nat, base : Date ]
      /\ RowsSound(acc.quotes, acc.unguarded)
      /\ quotes \subseteq acc.quotes /\ unguarded \subseteq acc.unguarded
  BY DEF Accs
<1> HIDE DEF f
<1>3. CASE Skipped(acc, f, d) \/ d \in failing
  BY <1>3 DEF UpsertOfficial, f
<1>4. CASE ~ (Skipped(acc, f, d) \/ d \in failing)
  <2>1. UpsertOfficial(acc, f, d, failing) = [prev |-> f[d], quotes |-> Q, done |-> end, unguarded |-> U]
    BY <1>4 DEF UpsertOfficial
  <2>2. U \in SUBSET Date /\ acc.unguarded \subseteq U
    BY <1>1, <1>2
  <2>3. /\ q \in [ date : Date, slot : Slot, kind : {"official", "estimate"},
                   value : Nat, base : Date ]
        /\ q.date = d /\ q.slot = Bell /\ q.kind = "official" /\ q.value = f[d]
    BY <1>1 DEF OfficialRow, Slot, Bell
  <2> HIDE DEF q, U
  <2>4. CASE Stored(acc.quotes, d, Bell)
    <3>1. Q = acc.quotes /\ U = acc.unguarded
      BY <2>3, <2>4 DEF InsertQuote, U
    <3>2. end \in {officialDone, called[1]}
      BY <1>2
    <3> HIDE DEF Q, end
    <3> QED
      BY <1>1, <1>2, <2>1, <3>1, <3>2 DEF Accs, f
  <2>5. CASE ~ Stored(acc.quotes, d, Bell)
    <3>1. f[d] \in {Nav[d], BadNav} \/ d \in U
      <4>1. CASE acc.prev = StaleClose(d) /\ f[d] = StaleClose(d) /\ d = day
        <5>1. acc.prev # None /\ f[d] = acc.prev
          BY <1>1, <4>1 DEF None
        <5>2. d = called[1]
          <6>1. IsFinalClose(d) /\ called[1] <= day /\ called[1] \in Nat /\ day \in Nat
            BY <1>4, NavAssumption DEF Skipped, NavInductive, NavTyped, Date
          <6> QED
            BY <4>1, <6>1 DEF IsFinalClose
        <5> QED
          BY <1>4, <5>1, <5>2 DEF Skipped
      <4>2. CASE acc.prev # StaleClose(d)
        BY <2>5, <4>2 DEF U
      <4> QED
        BY <1>1, <4>1, <4>2
    <3>2. RowSound(q, U)
      BY <1>1, <2>3, <3>1 DEF RowSound
    <3>3. RowsSound(Q, U)
      BY <1>2, <2>2, <3>2, RowsSoundAdd
    <3>4. acc.quotes \subseteq Q
      BY InsertStores
    <3>5. Q \in SUBSET [ date : Date, slot : Slot, kind : {"official", "estimate"},
                         value : Nat, base : Date ]
      BY <1>2, <2>3 DEF InsertQuote
    <3>6. end \in {officialDone, called[1]}
      BY <1>2
    <3> HIDE DEF Q, end
    <3> QED
      BY <1>1, <1>2, <2>1, <2>2, <3>3, <3>4, <3>5, <3>6 DEF Accs, f
  <2> QED
    BY <2>4, <2>5
<1> QED
  BY <1>3, <1>4

(* What the loop has come to after the rows up to each day.                 *)
UpsertRun(upto, f, failing) ==
  /\ upto[0] = [prev |-> None, quotes |-> quotes, done |-> officialDone, unguarded |-> unguarded]
  /\ \A d \in 1 .. LastDate :
       upto[d] = IF d \in DOMAIN f THEN UpsertOfficial(upto[d - 1], f, d, failing)
                                   ELSE upto[d - 1]
  /\ \A d \in 0 .. LastDate : upto[d] \in Accs
  /\ UpsertOfficialRows(f, failing) = upto[LastDate]

LEMMA UpsertRunExists ==
  ASSUME NavInductive, NEW missing, NEW bad, NEW failing
  PROVE  \E upto : UpsertRun(upto, NavResponse(missing, bad), failing)
<1> DEFINE f == NavResponse(missing, bad)
           base == [prev |-> None, quotes |-> quotes, done |-> officialDone,
                    unguarded |-> unguarded]
           Step(acc, d) == IF d \in DOMAIN f THEN UpsertOfficial(acc, f, d, failing) ELSE acc
           step == [ x \in Accs \X (1 .. LastDate) |-> Step(x[1], x[2]) ]
           Is(g) == g = [ d \in 0 .. LastDate |->
                            IF d = 0 THEN base
                            ELSE IF d \in DOMAIN f THEN UpsertOfficial(g[d - 1], f, d, failing)
                            ELSE g[d - 1] ]
           upto == CHOOSE g : Is(g)
<1>1. LastDate \in Nat
  BY NavAssumption
<1>2. base \in Accs
  <2>1. /\ base.prev = None /\ base.quotes = quotes
        /\ base.done = officialDone /\ base.unguarded = unguarded
    OBVIOUS
  <2>2. quotes \in SUBSET [ date : Date, slot : Slot, kind : {"official", "estimate"},
                            value : Nat, base : Date ]
    BY DEF NavInductive, RowsSound, RowSound
  <2>3. base \in [ prev : Nat, done : {officialDone, called[1]}, unguarded : SUBSET Date,
                   quotes : SUBSET [ date : Date, slot : Slot, kind : {"official", "estimate"},
                                     value : Nat, base : Date ] ]
    BY <2>2 DEF NavInductive, NavTyped, None
  <2> HIDE DEF base
  <2> QED
    BY <2>1, <2>3 DEF Accs, NavInductive
<1>3. \A acc \in Accs, d \in 1 .. LastDate : Step(acc, d) \in Accs
  <2> SUFFICES ASSUME NEW acc \in Accs, NEW d \in DOMAIN f
               PROVE  UpsertOfficial(acc, f, d, failing) \in Accs
    OBVIOUS
  <2> QED
    BY UpsertOfficialKeeps
<1> HIDE DEF base, f
<1>4. \E g : Is(g)
  <2>1. step \in [Accs \X (1 .. LastDate) -> Accs]
    BY <1>3
  <2>2. \A acc \in Accs, d \in 1 .. LastDate : step[<< acc, d >>] = Step(acc, d)
    OBVIOUS
  <2> HIDE DEF step
  <2>3. PICK g \in [0 .. LastDate -> Accs] :
          g[0] = base /\ \A d \in 1 .. LastDate : g[d] = step[<< g[d - 1], d >>]
    <3>1. Runs(Accs, LastDate, base, step) # {}
      BY <1>1, <1>2, <2>1, FoldExists
    <3> QED
      BY <3>1 DEF Runs
  <2>4. \A d \in 1 .. LastDate : g[d] = Step(g[d - 1], d)
    <3>1. \A d \in 1 .. LastDate : d - 1 \in 0 .. LastDate /\ g[d - 1] \in Accs
      BY <1>1, <2>3
    <3> QED
      BY <2>2, <2>3, <3>1
  <2>5. Is(g)
    BY <1>1, <2>3, <2>4
  <2> QED
    BY <2>5
<1>5. Is(upto)
  BY <1>4
<1>6. UpsertOfficialRows(f, failing) = upto[LastDate]
  BY DEF UpsertOfficialRows, base
<1> HIDE DEF upto
<1>7. upto[0] = base /\ \A d \in 1 .. LastDate : upto[d] = Step(upto[d - 1], d)
  BY <1>1, <1>5
<1>8. \A d \in 0 .. LastDate : upto[d] \in Accs
  <2> SUFFICES ASSUME NEW n \in 0 .. LastDate PROVE upto[n] \in Accs
    OBVIOUS
  <2>1. upto[0] \in Accs
    BY <1>2, <1>7
  <2>2. \A d \in 1 .. n : upto[d - 1] \in Accs => upto[d] \in Accs
    <3> SUFFICES ASSUME NEW d \in 1 .. n, upto[d - 1] \in Accs PROVE upto[d] \in Accs
      OBVIOUS
    <3>1. d \in 1 .. LastDate
      BY <1>1
    <3>2. Step(upto[d - 1], d) \in Accs
      BY <1>3, <3>1
    <3> HIDE DEF Step
    <3> QED
      BY <1>7, <3>1, <3>2
  <2> QED
    BY <2>1, <2>2, FoldInvariant
<1>9. UpsertRun(upto, f, failing)
  BY <1>6, <1>7, <1>8 DEF UpsertRun, base
<1> QED
  BY <1>9 DEF f

(* The NAV of the last session of the window up to a day, if any.           *)
LastNav(n) ==
  LET p == PreviousTradingDate(n + 1)
  IN  IF p # None /\ p > day - NavWindow THEN Nav[p] ELSE None

(* Without a failure, each earlier NAV of the window is compared with the   *)
(* one before it, which is plausible, and stored.                           *)
LEMMA NavStoredInTurn ==
  ASSUME NavInductive, NEW upto, UpsertRun(upto, NavResponse({}, {}), {}),
         NEW d \in TradingDay, d > day - NavWindow, d < called[1],
         upto[d - 1].prev = LastNav(d - 1)
  PROVE  upto[d].prev = Nav[d] /\ Stored(upto[d].quotes, d, Bell)
<1> DEFINE f == NavResponse({}, {})
           acc == upto[d - 1]
<1>1. /\ d \in Date /\ d \in 1 .. LastDate /\ d \in Nat /\ day \in Nat /\ called[1] \in Nat
      /\ called[1] <= day
  BY NavAssumption DEF NavInductive, NavTyped, Date
<1>2. d \in published /\ Nav[d] \in Nat \ {0}
  BY <1>1, NavAssumption DEF NavInductive
<1>3. d \in DOMAIN f /\ f[d] = Nav[d]
  <2>1. d \in Rows /\ Value(d) = Nav[d]
    BY <1>1, <1>2 DEF Rows, Value
  <2> QED
    BY <1>2, <2>1 DEF NavResponse, None
<1> HIDE DEF f
<1>4. ~ Skipped(acc, f, d)
  <2>1. d \in TradingDay /\ IsFinalClose(d) /\ d # called[1]
    BY <1>1 DEF IsFinalClose
  <2>2. ASSUME acc.prev # None
        PROVE  ~ Implausible(acc.prev, f[d])
    <3> DEFINE p == PreviousTradingDate(d)
    <3>1. d - 1 + 1 = d
      BY <1>1
    <3>2. p # None /\ acc.prev = Nav[p]
      BY <2>2, <3>1 DEF LastNav
    <3>3. ~ Implausible(Nav[p], Nav[d])
      BY <3>2, NavMovesPlausibly
    <3> QED
      BY <1>3, <3>2, <3>3
  <2> QED
    BY <2>1, <2>2 DEF Skipped
<1>5. upto[d] = UpsertOfficial(acc, f, d, {})
  BY <1>1, <1>3 DEF UpsertRun, f
<1>6. /\ upto[d].prev = f[d]
      /\ upto[d].quotes = InsertQuote(acc.quotes, OfficialRow(d, f[d]))
  BY <1>4, <1>5 DEF UpsertOfficial
<1>7. OfficialRow(d, f[d]).date = d /\ OfficialRow(d, f[d]).slot = Bell
  BY DEF OfficialRow
<1> QED
  BY <1>3, <1>6, <1>7, InsertStores

LEMMA PrevIsLastNav ==
  ASSUME NavInductive, NEW upto, UpsertRun(upto, NavResponse({}, {}), {}),
         NEW m \in 0 .. LastDate, m < called[1]
  PROVE  upto[m].prev = LastNav(m)
<1> DEFINE f == NavResponse({}, {})
           Good == { n \in 0 .. m : upto[n].prev = LastNav(n) }
<1>1. /\ LastDate \in Nat /\ day \in Nat /\ called[1] \in Nat /\ called[1] <= day
      /\ NavWindow \in Nat /\ \A x \in TradingDay : x \in 1 .. LastDate
      /\ \A x \in Date : x \in Nat /\ Nav[x] # None
  BY NavAssumption DEF NavInductive, NavTyped, Date, None
<1>2. 0 \in Good
  <2>1. PreviousTradingDate(1) = None
    <3>1. /\ PreviousTradingDate(1) \in Nat
          /\ PreviousTradingDate(1) # None => /\ PreviousTradingDate(1) \in TradingDay
                                              /\ PreviousTradingDate(1) < 1
      BY PreviousTradingDateProperties
    <3> QED
      BY <1>1, <3>1
  <2>2. LastNav(0) = None
    BY <2>1 DEF LastNav
  <2> QED
    BY <2>2 DEF UpsertRun
<1>3. ASSUME NEW n \in 1 .. m, n - 1 \in Good
      PROVE  n \in Good
  <2>1. n \in Nat /\ n \in 1 .. LastDate /\ n < called[1] /\ n < day + 1 /\ n - 1 + 1 = n
    BY <1>1
  <2>2. upto[n - 1].prev = LastNav(n - 1)
    BY <1>3
  <2>3. PreviousTradingDate(n + 1) = IF n \in TradingDay THEN n ELSE PreviousTradingDate(n)
    BY <2>1, PreviousOfNext
  <2>4. CASE n \in TradingDay /\ n > day - NavWindow
    <3>1. upto[n].prev = Nav[n]
      BY <2>1, <2>2, <2>4, NavStoredInTurn
    <3>2. LastNav(n) = Nav[n]
      BY <2>1, <2>3, <2>4 DEF LastNav, None
    <3> QED
      BY <3>1, <3>2
  <2>5. CASE ~ (n \in TradingDay /\ n > day - NavWindow)
    <3>1. n \notin DOMAIN f
      BY <2>1, <2>5 DEF NavResponse, Rows
    <3>2. upto[n] = upto[n - 1]
      BY <2>1, <3>1 DEF UpsertRun
    <3>3. LastNav(n) = LastNav(n - 1)
      <4> DEFINE p == PreviousTradingDate(n)
      <4>1. p \in Nat /\ (p # None => p < n)
        BY <2>1, PreviousTradingDateProperties
      <4>2. LastNav(n - 1) = IF p # None /\ p > day - NavWindow THEN Nav[p] ELSE None
        BY <2>1 DEF LastNav
      <4> HIDE DEF p
      <4>3. CASE n \in TradingDay
        <5>1. ~ (n > day - NavWindow) /\ LastNav(n) = None
          BY <2>3, <2>5, <4>3 DEF LastNav
        <5>2. p # None => ~ (p > day - NavWindow)
          BY <1>1, <2>1, <4>1, <5>1
        <5> QED
          BY <4>2, <5>1, <5>2
      <4>4. CASE n \notin TradingDay
        BY <2>3, <4>2, <4>4 DEF LastNav, p
      <4> QED
        BY <4>3, <4>4
    <3> QED
      BY <2>2, <3>2, <3>3
  <2> QED
    BY <2>4, <2>5
<1> HIDE DEF Good
<1>4. m \in Good
  BY <1>2, <1>3, CountUpTo
<1> QED
  BY <1>4 DEF Good

LEMMA FaultlessNavsStored ==
  ASSUME NavInductive, NEW upto, UpsertRun(upto, NavResponse({}, {}), {}),
         NEW d \in TradingDay, d > day - NavWindow, d < called[1]
  PROVE  Stored(upto[LastDate].quotes, d, Bell)
<1>1. /\ LastDate \in Nat /\ called[1] \in Nat /\ d \in 1 .. LastDate
  BY NavAssumption DEF NavInductive, NavTyped, Date
<1>2. upto[d - 1].prev = LastNav(d - 1)
  BY <1>1, PrevIsLastNav
<1>3. Stored(upto[d].quotes, d, Bell)
  BY <1>2, NavStoredInTurn
<1> DEFINE Good == { n \in 0 .. LastDate : n >= d => Stored(upto[n].quotes, d, Bell) }
<1>4. 0 \in Good
  BY <1>1
<1>5. ASSUME NEW n \in 1 .. LastDate, n - 1 \in Good
      PROVE  n \in Good
  <2>1. CASE n <= d
    BY <1>1, <1>3, <2>1
  <2>2. CASE n > d
    <3>1. Stored(upto[n - 1].quotes, d, Bell)
      BY <1>1, <1>5, <2>2
    <3> DEFINE f == NavResponse({}, {})
    <3>2. upto[n - 1].quotes \subseteq upto[n].quotes
      <4>1. upto[n] = upto[n - 1] \/ upto[n] = UpsertOfficial(upto[n - 1], f, n, {})
        BY DEF UpsertRun
      <4> HIDE DEF f
      <4>2. upto[n] = upto[n - 1]
            \/ upto[n].quotes = InsertQuote(upto[n - 1].quotes, OfficialRow(n, f[n]))
        BY <4>1 DEF UpsertOfficial
      <4> QED
        BY <4>2, InsertStores
    <3>3. Stored(upto[n].quotes, d, Bell)
      BY <3>1, <3>2 DEF Stored
    <3> QED
      BY <3>3
  <2> QED
    BY <1>1, <2>1, <2>2
<1> HIDE DEF Good
<1>6. LastDate \in Good
  BY <1>1, <1>4, <1>5, CountUpTo
<1> QED
  BY <1>1, <1>6 DEF Good

-----------------------------------------------------------------------------
(* A weighted mean lies between the bounds of what it is the mean of.       *)
LEMMA WeightedStep ==
  ASSUME NEW low \in Nat, NEW high \in Nat, NEW c \in Nat, NEW s \in Nat,
         low * c <= s, s <= high * c,
         NEW w \in Nat \ {0}, NEW m \in Nat, low <= m, m <= high
  PROVE  /\ w * m \in Nat /\ c + w \in Nat \ {0}
         /\ low * (c + w) <= s + w * m /\ s + w * m <= high * (c + w)
<1>1. w * m \in Nat /\ low * w \in Nat /\ high * w \in Nat /\ low * c \in Nat /\ high * c \in Nat
  OBVIOUS
<1>2. low * w <= w * m
  <2>1. m - low \in Nat
    OBVIOUS
  <2>2. w * (m - low) \in Nat /\ w * (m - low) = w * m - low * w
    BY <2>1
  <2> QED
    BY <1>1, <2>2
<1>3. w * m <= high * w
  <2>1. high - m \in Nat
    OBVIOUS
  <2>2. w * (high - m) \in Nat /\ w * (high - m) = high * w - w * m
    BY <2>1
  <2> QED
    BY <1>1, <2>2
<1>4. low * (c + w) = low * c + low * w /\ high * (c + w) = high * c + high * w
  OBVIOUS
<1> QED
  BY <1>1, <1>2, <1>3, <1>4

LEMMA MeanBetween ==
  ASSUME NEW low \in Nat, NEW high \in Nat, NEW c \in Nat \ {0}, NEW s \in Nat,
         low * c <= s, s <= high * c
  PROVE  (10 * s) \div c \in 10 * low .. 10 * high
<1> DEFINE q == (10 * s) \div c
<1>1. q \in Int /\ c * q <= 10 * s /\ 10 * s < c * (q + 1)
  OBVIOUS
<1> HIDE DEF q
<1>2. 10 * low <= q
  <2> SUFFICES ASSUME q + 1 <= 10 * low PROVE FALSE
    BY <1>1
  <2>1. 10 * low - (q + 1) \in Nat
    BY <1>1
  <2>2. c * (10 * low - (q + 1)) \in Nat
    BY <2>1
  <2>3. c * (10 * low - (q + 1)) = 10 * (low * c) - c * (q + 1)
    BY <1>1
  <2> QED
    BY <1>1, <2>2, <2>3
<1>3. q <= 10 * high
  <2> SUFFICES ASSUME 10 * high + 1 <= q PROVE FALSE
    BY <1>1
  <2>1. q - (10 * high + 1) \in Nat
    BY <1>1
  <2>2. c * (q - (10 * high + 1)) \in Nat
    BY <2>1
  <2>3. c * (q - (10 * high + 1)) = c * q - 10 * (high * c) - c
    BY <1>1
  <2> QED
    BY <1>1, <2>2, <2>3
<1> QED
  BY <1>1, <1>2, <1>3 DEF q

LEMMA WeightedProperties ==
  ASSUME NEW move \in [Proxy -> Moves \cup {None}],
         NEW low \in Nat, NEW high \in Nat,
         \A m \in Moves : m <= MaxPlausibleMove => low <= m /\ m <= high,
         Priced(move) # {}
  PROVE  /\ Weighted(move).covered \in Nat \ {0} /\ Weighted(move).moved \in Nat
         /\ low * Weighted(move).covered <= Weighted(move).moved
         /\ Weighted(move).moved <= high * Weighted(move).covered
<1> DEFINE N == Len(Weight)
           base == [covered |-> 0, moved |-> 0]
           Next1(x, n) == [covered |-> x.covered + Weight[n], moved |-> x.moved + Weight[n] * move[n]]
           Sums == { x \in [covered : Nat, moved : Nat] :
                       low * x.covered <= x.moved /\ x.moved <= high * x.covered }
           Step(x, n) == IF n \in Priced(move) THEN Next1(x, n) ELSE x
           step == [ x \in Sums \X (1 .. N) |-> Step(x[1], x[2]) ]
           Is(g) == g = [ n \in 0 .. N |->
                            IF n = 0 THEN [covered |-> 0, moved |-> 0]
                            ELSE IF n \in Priced(move)
                            THEN [covered |-> g[n - 1].covered + Weight[n],
                                  moved   |-> g[n - 1].moved + Weight[n] * move[n]]
                            ELSE g[n - 1] ]
           upto == CHOOSE g : Is(g)
<1>1. N \in Nat /\ Proxy = 1 .. N /\ \A n \in 1 .. N : Weight[n] \in Nat \ {0}
  BY NavAssumption DEF Proxy
<1>2. base \in Sums
  OBVIOUS
<1>3. ASSUME NEW n \in Priced(move)
      PROVE  n \in 1 .. N /\ move[n] \in Nat /\ low <= move[n] /\ move[n] <= high
  <2>1. n \in Proxy /\ move[n] # None /\ move[n] <= MaxPlausibleMove
    BY DEF Priced
  <2>2. move[n] \in Moves
    BY <2>1
  <2> QED
    BY <1>1, <2>1, <2>2, NavAssumption
<1>4. ASSUME NEW x \in Sums, NEW n \in Priced(move)
      PROVE  Next1(x, n) \in Sums /\ Next1(x, n).covered \in Nat \ {0}
             /\ Next1(x, n).covered > x.covered
  <2>1. x.covered \in Nat /\ x.moved \in Nat
        /\ low * x.covered <= x.moved /\ x.moved <= high * x.covered
    OBVIOUS
  <2>2. n \in 1 .. N /\ move[n] \in Nat /\ low <= move[n] /\ move[n] <= high
        /\ Weight[n] \in Nat \ {0}
    BY <1>1, <1>3
  <2>3. /\ Weight[n] * move[n] \in Nat /\ x.covered + Weight[n] \in Nat \ {0}
        /\ low * (x.covered + Weight[n]) <= x.moved + Weight[n] * move[n]
        /\ x.moved + Weight[n] * move[n] <= high * (x.covered + Weight[n])
    BY <2>1, <2>2, WeightedStep
  <2>4. x.moved + Weight[n] * move[n] \in Nat
    BY <2>1, <2>3
  <2>5. x.covered + Weight[n] > x.covered
    BY <2>1, <2>2
  <2> QED
    BY <2>3, <2>4, <2>5
<1>5. \A x \in Sums, n \in 1 .. N : Step(x, n) \in Sums
  <2> HIDE DEF Sums, Next1
  <2> QED
    BY <1>4
<1> HIDE DEF Sums
<1>6. \E g : Is(g)
  <2>1. step \in [Sums \X (1 .. N) -> Sums]
    BY <1>5
  <2>2. \A x \in Sums, n \in 1 .. N : step[<< x, n >>] = Step(x, n)
    OBVIOUS
  <2> HIDE DEF step, base
  <2>3. PICK g \in [0 .. N -> Sums] :
          g[0] = base /\ \A n \in 1 .. N : g[n] = step[<< g[n - 1], n >>]
    <3>1. Runs(Sums, N, base, step) # {}
      BY <1>1, <1>2, <2>1, FoldExists
    <3> QED
      BY <3>1 DEF Runs
  <2>4. \A n \in 1 .. N : g[n] = Step(g[n - 1], n)
    <3>1. \A n \in 1 .. N : n - 1 \in 0 .. N /\ g[n - 1] \in Sums
      BY <1>1, <2>3
    <3> QED
      BY <2>2, <2>3, <3>1
  <2>5. \A n \in 0 .. N :
          g[n] = IF n = 0 THEN [covered |-> 0, moved |-> 0]
                 ELSE IF n \in Priced(move)
                 THEN [covered |-> g[n - 1].covered + Weight[n],
                       moved   |-> g[n - 1].moved + Weight[n] * move[n]]
                 ELSE g[n - 1]
    <3> SUFFICES ASSUME NEW n \in 0 .. N, n # 0
                 PROVE  g[n] = IF n \in Priced(move)
                               THEN [covered |-> g[n - 1].covered + Weight[n],
                                     moved   |-> g[n - 1].moved + Weight[n] * move[n]]
                               ELSE g[n - 1]
      BY <2>3 DEF base
    <3>1. n \in 1 .. N
      BY <1>1
    <3> QED
      BY <2>4, <3>1, Zenon
  <2>6. Is(g)
    BY <2>3, <2>5
  <2> QED
    BY <2>5
<1>7. Is(upto)
  BY <1>6
<1>8. Weighted(move) = upto[N]
  BY DEF Weighted
<1> HIDE DEF upto
<1>9. upto[0] = base /\ \A n \in 1 .. N : upto[n] = Step(upto[n - 1], n)
  BY <1>1, <1>7
<1> HIDE DEF base, Next1
<1>10. \A n \in 0 .. N : upto[n] \in Sums
  <2> SUFFICES ASSUME NEW m \in 0 .. N PROVE upto[m] \in Sums
    OBVIOUS
  <2>1. ASSUME NEW n \in 1 .. m, upto[n - 1] \in Sums
        PROVE  upto[n] \in Sums
    <3>1. n \in 1 .. N
      BY <1>1
    <3>2. Step(upto[n - 1], n) \in Sums
      BY <1>5, <2>1, <3>1
    <3> HIDE DEF Step
    <3> QED
      BY <1>9, <3>1, <3>2
  <2>2. upto[0] \in Sums
    BY <1>2, <1>9
  <2> QED
    BY <2>1, <2>2, FoldInvariant
<1>11. PICK p \in Priced(move) : TRUE
  OBVIOUS
<1>12. \A n \in 1 .. N : upto[n].covered >= upto[n - 1].covered
                         /\ (n = p => upto[n].covered > 0)
  <2> SUFFICES ASSUME NEW n \in 1 .. N
               PROVE  upto[n].covered >= upto[n - 1].covered
                      /\ (n = p => upto[n].covered > 0)
    OBVIOUS
  <2>1. upto[n - 1] \in Sums /\ upto[n - 1].covered \in Nat
    BY <1>1, <1>10 DEF Sums
  <2>2. CASE n \in Priced(move)
    <3>1. upto[n] = Next1(upto[n - 1], n)
      BY <1>9, <2>2
    <3>2. upto[n].covered \in Nat \ {0} /\ upto[n].covered > upto[n - 1].covered
      BY <1>4, <2>1, <2>2, <3>1
    <3> QED
      BY <2>1, <3>2
  <2>3. CASE n \notin Priced(move)
    BY <1>9, <1>11, <2>1, <2>3
  <2> QED
    BY <2>2, <2>3
<1>13. upto[N].covered > 0
  <2> DEFINE Good == { n \in 0 .. N : n >= p => upto[n].covered > 0 }
  <2>1. p \in 1 .. N
    BY <1>3, <1>11
  <2>2. 0 \in Good
    BY <1>1, <2>1
  <2>3. ASSUME NEW n \in 1 .. N, n - 1 \in Good
        PROVE  n \in Good
    <3>1. upto[n].covered \in Nat /\ upto[n - 1].covered \in Nat
      <4>1. n \in 0 .. N /\ n - 1 \in 0 .. N
        BY <1>1
      <4>2. upto[n] \in Sums /\ upto[n - 1] \in Sums
        BY <1>10, <4>1
      <4> QED
        BY <4>2 DEF Sums
    <3> QED
      BY <1>1, <1>12, <2>1, <2>3, <3>1
  <2> HIDE DEF Good
  <2>4. N \in Good
    BY <1>1, <2>2, <2>3, CountUpTo
  <2> QED
    BY <1>1, <2>1, <2>4 DEF Good
<1>14. upto[N] \in Sums
  BY <1>1, <1>10
<1> QED
  BY <1>8, <1>13, <1>14 DEF Sums

-----------------------------------------------------------------------------
LEMMA NavStartsInductive ==
  ASSUME NavInit
  PROVE  NavInductive
<1>1. LastDate \in Nat \ {0} /\ MaxNavFaults \in Nat /\ TradingDay \subseteq 1 .. LastDate
  BY NavAssumption DEF Date
<1>2. NavTyped
  BY <1>1 DEF NavInit, NavTyped, Date, Slot, Open, None
<1>3. \A d \in TradingDay : ~ (d < 1)
  BY <1>1
<1> QED
  BY <1>2, <1>3 DEF NavInit, NavInductive, RowsSound, EarlierNavsStored

LEMMA PassTimeKeeps ==
  ASSUME NavInductive, PassTime
  PROVE  NavInductive'
<1> USE DEF NavInductive, PassTime
<1>1. /\ LastDate \in Nat /\ TradingDay \subseteq 1 .. LastDate /\ Date = 1 .. LastDate
      /\ NavWindow \in Nat /\ day \in 1 .. LastDate /\ slot \in 1 .. 4 /\ called[1] \in Nat
  BY NavAssumption DEF Date, NavTyped, Slot
<1>2. day' \in Date /\ slot' \in Slot /\ day <= day'
  BY <1>1 DEF Settled, Open, Slot
<1>3. NavTyped'
  BY <1>2 DEF NavTyped
<1>4. \A d \in TradingDay : d < day' => d \in published
  <2> SUFFICES ASSUME NEW d \in TradingDay, d < day' PROVE d \in published
    OBVIOUS
  <2>1. CASE d < day
    BY <2>1
  <2>2. CASE ~ (d < day)
    <3>1. slot = Settled /\ d = day
      BY <1>1, <2>2
    <3> QED
      BY <3>1
  <2> QED
    BY <2>1, <2>2
<1>5. called[1] <= day'
  BY <1>1, <1>2
<1>6. EarlierNavsStored'
  <2> SUFFICES ASSUME navFaults = 0, officialDone # None, NEW d \in TradingDay,
                      day' - NavWindow < d, d < officialDone
               PROVE  Stored(quotes, d, Bell)
    BY DEF EarlierNavsStored
  <2>1. day - NavWindow < d
    BY <1>1, <1>2
  <2> QED
    BY <2>1 DEF EarlierNavsStored
<1>7. RowsSound(quotes, unguarded)'
  OBVIOUS
<1>8. (navStage = "proxies" =>
         /\ EstimateDue(called[1], called[2])
         /\ baseline # None /\ baseline = PreviousTradingDate(called[1]))'
  OBVIOUS
<1> QED
  BY <1>3, <1>4, <1>5, <1>6, <1>7, <1>8

LEMMA PublishNavKeeps ==
  ASSUME NavInductive, PublishNav
  PROVE  NavInductive'
BY DEF NavInductive, PublishNav, NavTyped, EarlierNavsStored

LEMMA NavCallKeeps ==
  ASSUME NavInductive, NavCall
  PROVE  NavInductive'
<1> USE DEF NavInductive, NavCall
<1>1. day \in Nat
  BY NavAssumption DEF NavTyped, Date
<1>2. called' \in Date \X Slot /\ called'[1] = day
  BY DEF NavTyped
<1>3. NavTyped'
  BY <1>2 DEF NavTyped
<1>4. called'[1] <= day'
  BY <1>1, <1>2
<1>5. EarlierNavsStored'
  BY DEF EarlierNavsStored
<1>6. RowsSound(quotes, unguarded)'
  OBVIOUS
<1> QED
  BY <1>3, <1>4, <1>5, <1>6

LEMMA BaselineIsPrevious ==
  ASSUME NEW f
  PROVE  LET b == BaselineFrom(f) IN b # None => b = PreviousTradingDate(called[1])
BY DEF BaselineFrom

LEMMA NavsArriveKeeps ==
  ASSUME NavInductive, NavsArrive
  PROVE  NavInductive'
<1> USE DEF NavInductive
<1>1. PICK missing \in SUBSET Rows, bad \in SUBSET Rows, failing \in SUBSET Rows :
        LET f   == NavResponse(missing, bad)
            acc == UpsertOfficialRows(f, failing)
            b   == BaselineFrom(f)
            faults == Cardinality(missing) + Cardinality(bad) + Cardinality(failing)
        IN  /\ navFaults + faults <= MaxNavFaults
            /\ navFaults'    = navFaults + faults
            /\ quotes'       = acc.quotes
            /\ officialDone' = acc.done
            /\ unguarded'    = acc.unguarded
            /\ IF EstimateDue(called[1], called[2]) /\ b # None
               THEN navStage' = "proxies" /\ baseline' = b
               ELSE navStage' = "idle"    /\ baseline' = None
  BY DEF NavsArrive
<1> DEFINE f == NavResponse(missing, bad)
           b == BaselineFrom(f)
           acc == UpsertOfficialRows(f, failing)
<1>2. navStage = "navs" /\ UNCHANGED << day, slot, published, called >>
  BY DEF NavsArrive
<1>3. /\ LastDate \in Nat /\ Date = 1 .. LastDate /\ TradingDay \subseteq Date
      /\ MaxNavFaults \in Nat /\ navFaults \in 0 .. MaxNavFaults
      /\ day \in Date /\ called[1] \in Date
  BY NavAssumption DEF Date, NavTyped
<1>4. /\ Cardinality(missing) \in Nat /\ Cardinality(bad) \in Nat /\ Cardinality(failing) \in Nat
      /\ Cardinality(missing) = 0 => missing = {}
      /\ Cardinality(bad) = 0 => bad = {}
      /\ Cardinality(failing) = 0 => failing = {}
  <2>1. IsFiniteSet(Date)
    BY <1>3, FS_Interval
  <2>2. Rows \subseteq Date
    BY <1>3 DEF Rows
  <2>3. IsFiniteSet(missing) /\ IsFiniteSet(bad) /\ IsFiniteSet(failing)
    BY <2>1, <2>2, FS_Subset
  <2> QED
    BY <2>3, FS_CardinalityType, FS_EmptySet
<1>5. /\ navFaults' \in 0 .. MaxNavFaults
      /\ navFaults' = 0 => /\ navFaults = 0
                           /\ missing = {} /\ bad = {} /\ failing = {}
  BY <1>1, <1>3, <1>4
<1>6. /\ quotes' = acc.quotes /\ officialDone' = acc.done /\ unguarded' = acc.unguarded
      /\ \/ /\ navStage' = "proxies" /\ baseline' = b /\ b # None
            /\ EstimateDue(called[1], called[2])
         \/ navStage' = "idle" /\ baseline' = None
  BY <1>1
<1>7. PICK upto : UpsertRun(upto, f, failing)
  BY UpsertRunExists
<1>8. acc \in Accs /\ acc = upto[LastDate]
  BY <1>3, <1>7 DEF UpsertRun
<1>9. b # None => b = PreviousTradingDate(called[1]) /\ b \in Date
  <2>1. b # None => b = PreviousTradingDate(called[1])
    BY BaselineIsPrevious
  <2>2. called[1] \in Nat
    BY <1>3
  <2>3. PreviousTradingDate(called[1]) # None => PreviousTradingDate(called[1]) \in Date
    BY <2>2, PreviousTradingDateProperties
  <2> HIDE DEF b
  <2> QED
    BY <2>1, <2>3
<1> HIDE DEF f, b, acc
<1>10. /\ RowsSound(acc.quotes, acc.unguarded) /\ quotes \subseteq acc.quotes
       /\ acc.unguarded \in SUBSET Date /\ acc.done \in {officialDone, called[1]}
  BY <1>8 DEF Accs
<1>11. NavTyped'
  BY <1>2, <1>3, <1>5, <1>6, <1>9, <1>10 DEF NavTyped
<1>12. (navStage = "proxies" =>
          /\ EstimateDue(called[1], called[2])
          /\ baseline # None /\ baseline = PreviousTradingDate(called[1]))'
  <2>1. PreviousTradingDate(called[1])' = PreviousTradingDate(called[1])
    BY <1>2
  <2> QED
    BY <1>2, <1>6, <1>9, <2>1
<1>13. EarlierNavsStored'
  <2> SUFFICES ASSUME navFaults' = 0, officialDone' # None, NEW d \in TradingDay,
                      day - NavWindow < d, d < officialDone'
               PROVE  Stored(quotes', d, Bell)
    BY <1>2 DEF EarlierNavsStored
  <2>1. CASE officialDone' = officialDone
    <3>1. Stored(quotes, d, Bell)
      BY <1>5, <2>1 DEF EarlierNavsStored
    <3> QED
      BY <1>6, <1>10, <3>1 DEF Stored
  <2>2. CASE officialDone' = called[1]
    <3>1. UpsertRun(upto, NavResponse({}, {}), {})
      BY <1>5, <1>7 DEF f
    <3>2. Stored(upto[LastDate].quotes, d, Bell)
      <4>1. d > day - NavWindow /\ d < called[1]
        BY <1>3, <2>2, NavAssumption
      <4> QED
        BY <3>1, <4>1, FaultlessNavsStored
    <3> QED
      BY <1>6, <1>8, <3>2
  <2> QED
    BY <1>6, <1>10, <2>1, <2>2
<1>14. RowsSound(quotes, unguarded)'
  BY <1>6, <1>10
<1> QED
  BY <1>2, <1>11, <1>12, <1>13, <1>14

LEMMA EstimateIsSound ==
  ASSUME NavInductive, navStage = "proxies", ~ EstimateTooLate(called[2]),
         NEW move \in [Proxy -> Moves \cup {None}], Priced(move) # {}
  PROVE  RowSound(Estimate(move), unguarded)
<1> USE DEF NavInductive
<1> DEFINE plausible == { m \in Moves : m <= MaxPlausibleMove }
           low == Min(plausible)
           high == Max(plausible)
           q == Estimate(move)
<1>1. plausible \in SUBSET (0 .. 8) /\ plausible \in SUBSET Nat
  <2>1. \A m \in plausible : m \in Nat /\ m <= 8
    BY NavAssumption DEF MaxPlausibleMove
  <2> HIDE DEF plausible
  <2> QED
    BY <2>1
<1>2. plausible # {}
  <2>1. PICK p \in Priced(move) : TRUE
    OBVIOUS
  <2>2. p \in Proxy /\ move[p] # None /\ move[p] <= MaxPlausibleMove
    BY <2>1 DEF Priced
  <2>3. move[p] \in Moves
    BY <2>2
  <2> QED
    BY <2>2, <2>3
<1>3. /\ low \in Nat /\ high \in Nat
      /\ \A m \in Moves : m <= MaxPlausibleMove => low <= m /\ m <= high
  <2>1. low \in plausible /\ \A m \in plausible : low <= m
    BY <1>1, <1>2, LeastOfNumbers
  <2>2. high \in plausible /\ \A m \in plausible : m <= high
    BY <1>1, <1>2, GreatestIndexExists
  <2> HIDE DEF low, high
  <2> QED
    BY <1>1, <2>1, <2>2
<1> HIDE DEF low, high
<1>4. EstimateTenths(move) \in 10 * low .. 10 * high
  <2> DEFINE c == Weighted(move).covered
             s == Weighted(move).moved
  <2>1. c \in Nat \ {0} /\ s \in Nat /\ low * c <= s /\ s <= high * c
    BY <1>3, WeightedProperties
  <2> HIDE DEF c, s
  <2>2. (10 * s) \div c \in 10 * low .. 10 * high
    BY <1>3, <2>1, MeanBetween
  <2> QED
    BY <2>2 DEF EstimateTenths, c, s
<1>5. EstimateTenths(move) \in Nat
  BY <1>3, <1>4
<1>6. /\ called[1] \in Date /\ called[1] \in TradingDay /\ called[2] \in Slot
      /\ called[2] # Bell /\ baseline \in Date /\ baseline = PreviousTradingDate(called[1])
  BY DEF NavTyped, EstimateDue, EstimateTooLate, Slot, Bell, None
<1>7. /\ q = [date |-> called[1], slot |-> called[2], kind |-> "estimate",
              value |-> EstimateTenths(move), base |-> baseline]
  BY DEF Estimate
<1> HIDE DEF q
<1>8. q.value \in 10 * Min(plausible) .. 10 * Max(plausible)
  BY <1>4, <1>7 DEF low, high
<1> QED
  BY <1>5, <1>6, <1>7, <1>8 DEF RowSound, q

LEMMA ProxiesArriveKeeps ==
  ASSUME NavInductive, ProxiesArrive
  PROVE  NavInductive'
<1> USE DEF NavInductive
<1>1. PICK move \in [Proxy -> Moves \cup {None}] :
        quotes' = IF Priced(move) = {} \/ EstimateTooLate(called[2]) THEN quotes
                  ELSE InsertQuote(quotes, Estimate(move))
  BY DEF ProxiesArrive
<1>2. /\ navStage = "proxies" /\ navStage' = "idle" /\ baseline' = None
      /\ UNCHANGED << day, slot, published, called, officialDone, unguarded, navFaults >>
  BY DEF ProxiesArrive
<1>3. RowsSound(quotes', unguarded) /\ quotes \subseteq quotes'
  <2>1. CASE Priced(move) = {} \/ EstimateTooLate(called[2])
    BY <1>1, <2>1
  <2>2. CASE ~ (Priced(move) = {} \/ EstimateTooLate(called[2]))
    <3>1. RowSound(Estimate(move), unguarded)
      BY <1>2, <2>2, EstimateIsSound
    <3>2. quotes' = InsertQuote(quotes, Estimate(move))
      BY <1>1, <2>2
    <3> QED
      BY <3>1, <3>2, RowsSoundAdd, InsertStores
  <2> QED
    BY <2>1, <2>2
<1>4. NavTyped'
  BY <1>2 DEF NavTyped
<1>5. EarlierNavsStored'
  BY <1>2, <1>3 DEF EarlierNavsStored, Stored
<1> QED
  BY <1>2, <1>3, <1>4, <1>5

LEMMA NavCallFailsKeeps ==
  ASSUME NavInductive, NavCallFails
  PROVE  NavInductive'
<1> USE DEF NavInductive
<1>1. navFaults \in Nat /\ MaxNavFaults \in Nat /\ navFaults' = navFaults + 1
      /\ navFaults < MaxNavFaults
  BY NavAssumption DEF NavCallFails, NavTyped
<1>2. NavTyped'
  BY <1>1 DEF NavCallFails, NavTyped
<1>3. EarlierNavsStored'
  BY <1>1 DEF EarlierNavsStored
<1>4. RowsSound(quotes, unguarded)'
  BY DEF NavCallFails
<1> QED
  BY <1>2, <1>3, <1>4 DEF NavCallFails

LEMMA NavInductiveStep == NavInductive /\ [NavNext]_navVars => NavInductive'
<1> SUFFICES ASSUME NavInductive, [NavNext]_navVars PROVE NavInductive'
  OBVIOUS
<1>1. CASE PassTime
  BY <1>1, PassTimeKeeps
<1>2. CASE PublishNav
  BY <1>2, PublishNavKeeps
<1>3. CASE NavCall
  BY <1>3, NavCallKeeps
<1>4. CASE NavsArrive
  BY <1>4, NavsArriveKeeps
<1>5. CASE ProxiesArrive
  BY <1>5, ProxiesArriveKeeps
<1>6. CASE NavCallFails
  BY <1>6, NavCallFailsKeeps
<1>7. CASE UNCHANGED navVars
  BY <1>7 DEF navVars, NavInductive, NavTyped, EarlierNavsStored
<1> QED
  BY <1>1, <1>2, <1>3, <1>4, <1>5, <1>6, <1>7 DEF NavNext, NavStep

LEMMA NavInductiveGivesTypes == NavInductive => NavTypeOK
<1> SUFFICES ASSUME NavInductive PROVE NavTypeOK
  OBVIOUS
<1>1. quotes \subseteq [ date : Date, slot : Slot, kind : {"official", "estimate"},
                         value : Nat, base : Date ]
  BY DEF NavInductive, RowsSound, RowSound
<1> QED
  BY <1>1 DEF NavInductive, RowsSound, NavTyped, NavTypeOK

LEMMA NavInductiveGivesSoundness == NavInductive => NavRowsSound
<1> SUFFICES ASSUME NavInductive PROVE NavRowsSound
  OBVIOUS
<1>1. \A q \in quotes : RowSound(q, unguarded)
  BY DEF NavInductive, RowsSound
<1>2. OfficialRowsUnblocked
  BY <1>1 DEF OfficialRowsUnblocked, RowSound
<1>3. EstimateOnPreviousSession
  BY <1>1 DEF EstimateOnPreviousSession, RowSound
<1>4. EstimateWithinMoves
  BY <1>1 DEF EstimateWithinMoves, RowSound
<1>5. StaleOnlyUnguarded
  BY <1>1 DEF StaleOnlyUnguarded, RowSound
<1> QED
  BY <1>2, <1>3, <1>4, <1>5 DEF NavRowsSound, NavInductive

(* The prices of the fund keep their types, with one row per time, whatever *)
(* Yahoo answers (SyntheticNavRunner).                                      *)
THEOREM NavTypeCorrect == NavSpec => []NavTypeOK
<1>1. NavInit => NavInductive
  BY NavStartsInductive
<1> QED
  BY <1>1, NavInductiveStep, NavInductiveGivesTypes, PTL DEF NavSpec

(* What _upsert_official_rows and _insert_estimate store is sound: rows of  *)
(* trading days only, an estimate on the NAV of the session before and      *)
(* within the moves of its proxies, a close that Yahoo repeats taken for a  *)
(* NAV only where there was nothing to compare it with, and no NAV left     *)
(* behind without a failure.                                                *)
THEOREM NavRowsAreSound == NavSpec => []NavRowsSound
<1>1. NavInit => NavInductive
  BY NavStartsInductive
<1> QED
  BY <1>1, NavInductiveStep, NavInductiveGivesSoundness, PTL DEF NavSpec

-----------------------------------------------------------------------------
(* All producers side by side keep the types of their variables.            *)
THEOREM ProducersKeepTypes == ProducersSpec => []ProducersTypeOK
<1>1. ProducersTypeOK <=> /\ NavTypeOK /\ PacingTypeOK /\ NewsTypeOK /\ FeedTypeOK
                          /\ GlobalTypeOK /\ EventTypeOK /\ PollingTypeOK
  BY DEF ProducersTypeOK
<1> QED
  BY <1>1, NavTypeCorrect, PacingTypeCorrect, NewsTypeCorrect, FeedTypeCorrect,
     GlobalTypeCorrect, EventTypeCorrect, PollingTypeCorrect, PTL
     DEF ProducersSpec
=============================================================================
