----------------------- MODULE SentimentConsumerProofs -----------------------
(***************************************************************************)
(* sentiment-service for every set of posts, batch size and number of      *)
(* failures: type correctness, that no accepted post is lost while a retry *)
(* copy replaces the original, that dead letters and surplus copies are    *)
(* paid for by failures, and that the stage implements the settlement      *)
(* promise.                                                                *)
(***************************************************************************)
EXTENDS SentimentConsumer, ConsumerSessionProofs

(* While the worker is in a loop over its batch, it is at a message of it.  *)
Looping == {"score", "ackScore", "retryAll", "retryOne", "ackRetry"}
InBatchLoop == working \in Looping => pos \in 1 .. Len(batch)

Typed == TypeOK /\ SessionShape /\ InBatchLoop

(* What must be true of a message before its acknowledgement is sent: its   *)
(* post is published or dead-lettered, or its retry copy is in the queue.   *)
SafeToAck(m) ==
  \/ scored[PostOf(m)] > 0
  \/ DeadLettered(PostOf(m))
  \/ Attempt(m) = 0 /\ Outstanding(Retried(PostOf(m)))

CoveredBeforeAck ==
  working \in {"ackScore", "ackRetry"} => SafeToAck(Current.msg)

(* The inductive invariant: an acknowledgement takes a copy from the        *)
(* broker, so that NoPostLost needs what every acknowledgement waits for.   *)
Inductive == Typed /\ HandCopied /\ CoveredBeforeAck /\ NoPostLost

-----------------------------------------------------------------------------
(* A message is a post before or after its retry.                           *)
LEMMA MessagesOfPost ==
  ASSUME NEW p \in Post
  PROVE  /\ First(p) \in Message /\ Retried(p) \in Message
         /\ PostOf(First(p)) = p /\ PostOf(Retried(p)) = p
         /\ Attempt(First(p)) = 0 /\ Attempt(Retried(p)) = 1
         /\ First(p) # Retried(p)
BY MessageAssumption DEF First, Retried, PostOf, Attempt

LEMMA PostOfMessage ==
  ASSUME NEW m \in Message
  PROVE  /\ PostOf(m) \in Post
         /\ \/ Attempt(m) = 0 /\ m = First(PostOf(m))
            \/ Attempt(m) = 1 /\ m = Retried(PostOf(m))
BY MessageAssumption DEF First, Retried, PostOf, Attempt

LEMMA CurrentMessage ==
  ASSUME Typed, working \in Looping
  PROVE  Current.msg \in Message
BY HeldMessage DEF Typed, TypeOK, SessionTypeOK, InBatchLoop, Current

LEMMA CountedFailures ==
  ASSUME Typed, NEW I, I = DOMAIN batch \/ I = {pos}, CountFailures(I)
  PROVE  failed' \in [Post -> Nat]
<1>1. Len(batch) \in Nat /\ DOMAIN batch = 1 .. Len(batch)
  BY DEF Typed, TypeOK, SessionTypeOK
<1>2. IsFiniteSet(I)
  <2>1. CASE I = DOMAIN batch
    <3>1. IsFiniteSet(1 .. Len(batch))
      BY <1>1, FS_Interval
    <3> QED
      BY <1>1, <2>1, <3>1
  <2>2. CASE I = {pos}
    BY <2>2, FS_Singleton
  <2> QED
    BY <2>1, <2>2
<1>3. ASSUME NEW p \in Post
      PROVE  failed[p] + Cardinality({ j \in I : PostOf(batch[j].msg) = p }) \in Nat
  <2>1. IsFiniteSet({ j \in I : PostOf(batch[j].msg) = p })
    BY <1>2, FS_Subset
  <2>2. Cardinality({ j \in I : PostOf(batch[j].msg) = p }) \in Nat
    BY <2>1, FS_CardinalityType
  <2>3. failed[p] \in Nat
    BY DEF Typed, TypeOK
  <2> QED
    BY <2>2, <2>3
<1> QED
  BY <1>3 DEF CountFailures

-----------------------------------------------------------------------------
LEMMA InitInductive == Init => Inductive
<1> SUFFICES ASSUME Init PROVE Inductive
  OBVIOUS
<1>1. SessionTypeOK /\ SessionShape
  BY SessionInitTypes DEF Init
<1>2. \A m \in Message : accepted[m] = 0
  BY DEF Init, SessionInit
<1>3. \A p \in Post : ~ Accepted(p)
  BY <1>2, MessagesOfPost DEF Accepted
<1>4. working = "stopped" /\ receiving = "stopped"
  BY DEF Init, SessionInit
<1>5. scored \in [Post -> Nat] /\ failed \in [Post -> Nat]
  BY DEF Init
<1> QED
  BY <1>1, <1>3, <1>4, <1>5
     DEF Inductive, Typed, TypeOK, InBatchLoop, Looping, HandCopied,
         CoveredBeforeAck, NoPostLost

(* A step of the stage itself leaves the session's other state alone.       *)
StageStep == ProcessBatch \/ InferBreaks \/ PublishScoredFails \/ CopyFails

LEMMA StageFrame ==
  ASSUME StageStep
  PROVE  /\ UNCHANGED << accepted, session, receiving, hand, buffer >>
         /\ working \in Looping \cup {"flush"}
BY DEF StageStep, ProcessBatch, Infer, InferFails, InferRefused, InferBreaks,
       PublishScored, PublishScoredFails, DeadLetterInvalid, RetryOrDeadLetter,
       CopyFails, AckScored, AckRetried, AckRaises, Looping, consumerVars,
       brokerVars

(* What a step of the stage does with the batch and the loop over it.       *)
LEMMA StageLoops ==
  ASSUME Typed, StageStep
  PROVE  /\ batch' \in Seq(Delivery) /\ Len(batch') <= BatchSize /\ pos' \in Nat
         /\ \/ working' = "collect" /\ batch' = << >>
            \/ working' = "requeue"
            \/ working' \in Looping /\ pos' \in 1 .. Len(batch')
<1>1. CASE /\ working = "flush"
           /\ StartBatchLoop("score") \/ StartBatchLoop("retryAll")
  BY <1>1, BatchNotEmpty
     DEF StartBatchLoop, Typed, TypeOK, SessionTypeOK, Looping
<1>2. CASE GiveUp
  BY <1>2 DEF GiveUp, StartBatchLoop, Typed, TypeOK, SessionTypeOK
<1>3. CASE /\ working \in {"ackScore", "ackRetry"}
           /\ NextInBatch("score") \/ NextInBatch("retryAll")
  BY <1>3, NextInBatchTypes DEF Typed, TypeOK, InBatchLoop, Looping
<1>4. CASE /\ working \in {"score", "retryAll", "retryOne"}
           /\ working' \in {"ackScore", "ackRetry", "retryOne"}
           /\ UNCHANGED << batch, pos >>
  BY <1>4 DEF Typed, TypeOK, SessionTypeOK, InBatchLoop, Looping
<1> QED
  BY <1>1, <1>2, <1>3, <1>4
     DEF StageStep, ProcessBatch, Infer, InferFails, InferRefused, InferBreaks,
         PublishScored, PublishScoredFails, DeadLetterInvalid,
         RetryOrDeadLetter, CopyFails, AckScored, AckRetried, AckRaises,
         SettleCurrent

-----------------------------------------------------------------------------
LEMMA SessionTyped ==
  ASSUME Typed, SessionNext, UNCHANGED stageVars
  PROVE  Typed'
<1>1. SessionTypeOK' /\ SessionShape'
  BY SessionTypes DEF Typed, TypeOK
<1>2. \/ working' \in {"collect", "flush", "requeue", "cancelled", "stopped"}
      \/ working' = working /\ pos' = pos /\ Len(batch') = Len(batch)
  BY SessionKeepsBatch DEF Typed, TypeOK
<1> QED
  BY <1>1, <1>2 DEF Typed, TypeOK, InBatchLoop, Looping, stageVars

(* The copy that replaces a failed message.                                 *)
LEMMA RetryCopyTypes ==
  ASSUME SessionTypeOK, NEW m \in Message, PublishRetryCopy(m)
  PROVE  ready' \in Counts /\ deadLetters' \in Counts
<1>1. PostOf(m) \in Post /\ Retried(PostOf(m)) \in Message
  BY PostOfMessage, MessagesOfPost
<1> QED
  BY <1>1, BrokerTypes DEF PublishRetryCopy, SessionTypeOK

LEMMA StageTyped ==
  ASSUME Typed, StageStep
  PROVE  Typed'
<1>1. /\ UNCHANGED << accepted, session, receiving, hand, buffer >>
      /\ working \in Looping \cup {"flush"}
  BY StageFrame
<1>2. session' # "down"
  BY <1>1 DEF Typed, SessionShape, Looping
<1>3. /\ ready' \in Counts /\ unacked' \in Counts /\ deadLetters' \in Counts
      /\ faults' \in 0 .. MaxFaults
  <2> USE <1>1, BrokerTypes, BoundsAssumption, CurrentMessage, RetryCopyTypes
      DEF Typed, TypeOK, SessionTypeOK, brokerVars, Looping
  <2>1. CASE Infer
    BY <2>1 DEF Infer
  <2>2. CASE InferRefused \/ InferBreaks
    BY <2>2 DEF InferRefused, InferBreaks, InferFails, Fault
  <2>3. CASE PublishScored \/ PublishScoredFails
    BY <2>3 DEF PublishScored, PublishScoredFails, Fault
  <2>4. CASE DeadLetterInvalid
    BY <2>4 DEF DeadLetterInvalid
  <2>5. CASE RetryOrDeadLetter
    BY <2>5 DEF RetryOrDeadLetter
  <2>6. CASE CopyFails
    BY <2>6 DEF CopyFails, Fault
  <2>7. CASE AckScored \/ AckRetried
    BY <2>7 DEF AckScored, AckRetried, SettleCurrent
  <2>8. CASE AckRaises
    BY <2>8 DEF AckRaises
  <2> QED
    BY <2>1, <2>2, <2>3, <2>4, <2>5, <2>6, <2>7, <2>8 DEF StageStep, ProcessBatch
<1>4. scored' \in [Post -> Nat] /\ failed' \in [Post -> Nat]
  <2>1. scored \in [Post -> Nat] /\ failed \in [Post -> Nat]
    BY DEF Typed, TypeOK
  <2>2. [scored EXCEPT ![PostOf(Current.msg)] = @ + 1] \in [Post -> Nat]
    <3>1. \A p \in Post : scored[p] \in Nat /\ scored[p] + 1 \in Nat
      BY <2>1
    <3> QED
      BY <2>1, <3>1
  <2> QED
    BY <2>1, <2>2, CountedFailures
       DEF StageStep, ProcessBatch, Infer, InferFails, InferRefused,
           InferBreaks, PublishScored, PublishScoredFails, DeadLetterInvalid,
           RetryOrDeadLetter, CopyFails, AckScored, AckRetried, AckRaises,
           stageVars
<1>5. batch' = << >> => Len(batch') < BatchSize
  BY BatchSizeAssumption
<1>6. /\ batch' \in Seq(Delivery) /\ Len(batch') <= BatchSize /\ pos' \in Nat
      /\ \/ working' = "collect" /\ batch' = << >>
         \/ working' = "requeue"
         \/ working' \in Looping /\ pos' \in 1 .. Len(batch')
  BY StageLoops
<1> QED
  BY <1>1, <1>2, <1>3, <1>4, <1>5, <1>6
     DEF Typed, TypeOK, SessionTypeOK, SessionShape, InBatchLoop, Looping

-----------------------------------------------------------------------------
(* A post that is published, dead-lettered or waiting as its retry copy     *)
(* stays one of the three: an acknowledgement that is safe stays safe.      *)
LEMMA SessionSafe ==
  ASSUME Inductive, SessionNext, UNCHANGED stageVars
  PROVE  Inductive'
<1>1. Typed'
  BY SessionTyped DEF Inductive
<1>2. SessionTypeOK /\ SessionShape /\ HandCopied
  BY DEF Inductive, Typed, TypeOK
<1>3. ASSUME NEW m \in Message
      PROVE  /\ deadLetters[m] \in Nat /\ deadLetters'[m] \in Nat
             /\ deadLetters'[m] >= deadLetters[m]
             /\ Outstanding(m) => Outstanding(m)' \/ deadLetters'[m] > 0
             /\ accepted'[m] > 0 => accepted[m] > 0 \/ Outstanding(m)'
  BY <1>1, <1>2, SessionSettles DEF Typed, TypeOK, SessionTypeOK, Counts
<1>4. HandCopied'
  BY <1>2, HandCopiedKept
<1>5. ASSUME NEW p \in Post
      PROVE  /\ DeadLettered(p) => DeadLettered(p)'
             /\ Open(p) => Open(p)' \/ DeadLettered(p)'
             /\ Outstanding(Retried(p)) => Outstanding(Retried(p))' \/ DeadLettered(p)'
             /\ Accepted(p)' => Accepted(p) \/ Open(p)'
             /\ scored'[p] = scored[p]
  <2>1. First(p) \in Message /\ Retried(p) \in Message
    BY MessagesOfPost
  <2>2. scored' = scored
    BY DEF stageVars
  <2> QED
    BY <1>3, <2>1, <2>2 DEF DeadLettered, Open, Accepted
<1>6. CoveredBeforeAck'
  <2>1. CASE working' \in {"collect", "flush", "requeue", "cancelled", "stopped"}
    BY <2>1 DEF CoveredBeforeAck
  <2>2. CASE /\ working' = working /\ pos' = pos /\ Len(batch') = Len(batch)
             /\ \A i \in 1 .. Len(batch) : batch'[i].msg = batch[i].msg
    <3> SUFFICES ASSUME working \in {"ackScore", "ackRetry"}
                 PROVE  SafeToAck(Current.msg)'
      BY <2>2 DEF CoveredBeforeAck
    <3>1. /\ Current.msg \in Message /\ Current'.msg = Current.msg
          /\ PostOf(Current.msg) \in Post
      BY <2>2, CurrentMessage, PostOfMessage
         DEF Inductive, Typed, InBatchLoop, Looping, Current
    <3>2. SafeToAck(Current.msg)
      BY DEF Inductive, CoveredBeforeAck
    <3> QED
      BY <1>5, <3>1, <3>2 DEF SafeToAck
  <2> QED
    BY <1>2, <2>1, <2>2, SessionKeepsBatch
<1>7. NoPostLost'
  BY <1>5 DEF Inductive, NoPostLost
<1> QED
  BY <1>1, <1>4, <1>6, <1>7 DEF Inductive

(* A step of the stage loses no post and takes back nothing it published.   *)
LEMMA StageSettles ==
  ASSUME Inductive, StageStep, NEW p \in Post
  PROVE  /\ scored[p] > 0 => scored'[p] > 0
         /\ DeadLettered(p) => DeadLettered(p)'
         /\ Open(p) => Open(p)' \/ scored'[p] > 0 \/ DeadLettered(p)'
<1> USE DEF Inductive, Typed
<1>1. /\ ready \in Counts /\ unacked \in Counts /\ deadLetters \in Counts
      /\ scored \in [Post -> Nat]
  BY DEF TypeOK, SessionTypeOK
<1>2. First(p) \in Message /\ Retried(p) \in Message /\ First(p) # Retried(p)
  BY MessagesOfPost
<1>3. CASE AckScored \/ AckRetried
  <2>1. working \in {"ackScore", "ackRetry"}
    BY <1>3 DEF AckScored, AckRetried
  <2>2. Current.msg \in Message /\ SafeToAck(Current.msg)
    BY <2>1, CurrentMessage DEF CoveredBeforeAck, Looping
  <2>3. /\ Ack(Current.msg)
        /\ UNCHANGED << ready, deadLetters, scored >>
    BY <1>3 DEF AckScored, AckRetried, SettleCurrent, stageVars
  <2>4. CASE PostOf(Current.msg) = p
    <3>1. CASE Current.msg = First(p)
      BY <1>1, <1>2, <2>2, <2>3, <2>4, <3>1, BrokerOwes
         DEF SafeToAck, Open, DeadLettered
    <3>2. CASE Attempt(Current.msg) = 1
      BY <2>2, <2>3, <2>4, <3>2 DEF SafeToAck, DeadLettered
    <3> QED
      BY <2>2, <2>4, <3>1, <3>2, PostOfMessage
  <2>5. CASE PostOf(Current.msg) # p
    <3>1. Current.msg # First(p) /\ Current.msg # Retried(p)
      BY <2>5, MessagesOfPost
    <3> QED
      BY <1>1, <1>2, <2>2, <2>3, <3>1, BrokerOwes DEF Open, DeadLettered
  <2> QED
    BY <2>4, <2>5
<1>4. CASE /\ UNCHANGED << ready, unacked, deadLetters >>
           /\ \/ UNCHANGED scored
              \/ scored' = [scored EXCEPT ![PostOf(Current.msg)] = @ + 1]
  BY <1>1, <1>4 DEF Open, Outstanding, DeadLettered
<1>5. CASE /\ working \in Looping /\ UNCHANGED << unacked, scored >>
           /\ \/ PublishRetryCopy(Current.msg)
              \/ DeadLetter(Current.msg) /\ UNCHANGED ready
  <2>1. Current.msg \in Message
    BY <1>5, CurrentMessage
  <2>2. PostOf(Current.msg) \in Post /\ Retried(PostOf(Current.msg)) \in Message
    BY <2>1, PostOfMessage, MessagesOfPost
  <2>3. CASE DeadLetter(Current.msg) /\ UNCHANGED ready
    <3>1. /\ deadLetters'[First(p)] >= deadLetters[First(p)]
          /\ deadLetters'[Retried(p)] >= deadLetters[Retried(p)]
          /\ deadLetters[First(p)] \in Nat /\ deadLetters[Retried(p)] \in Nat
          /\ deadLetters'[First(p)] \in Nat /\ deadLetters'[Retried(p)] \in Nat
      BY <1>1, <1>2, <2>1, <2>3, BrokerTypes, DeadLetterCounts DEF Counts
    <3> QED
      BY <1>5, <2>3, <3>1 DEF Open, Outstanding, DeadLettered
  <2>4. CASE Enqueue(Retried(PostOf(Current.msg))) /\ UNCHANGED deadLetters
    BY <1>1, <1>2, <1>5, <2>2, <2>4, BrokerOwes DEF Open, DeadLettered
  <2> QED
    BY <1>5, <2>3, <2>4 DEF PublishRetryCopy
<1> QED
  BY <1>3, <1>4, <1>5
     DEF StageStep, ProcessBatch, Infer, InferFails, InferRefused, InferBreaks,
         PublishScored, PublishScoredFails, DeadLetterInvalid,
         RetryOrDeadLetter, CopyFails, AckRaises, brokerVars, stageVars, Looping

(* What the stage publishes before it goes on to an acknowledgement.        *)
LEMMA StageCovers ==
  ASSUME Inductive, StageStep, working' \in {"ackScore", "ackRetry"}
  PROVE  SafeToAck(Current.msg)'
<1> USE DEF Inductive, Typed
<1>1. PublishScored \/ DeadLetterInvalid \/ RetryOrDeadLetter
  <2>1. ASSUME AckScored \/ AckRetried PROVE FALSE
    BY <2>1, NextInBatchTypes
       DEF AckScored, AckRetried, SettleCurrent, TypeOK, InBatchLoop, Looping
  <2> QED
    BY <2>1 DEF StageStep, ProcessBatch, Infer, InferFails, InferRefused,
         InferBreaks, PublishScoredFails, CopyFails, AckRaises, GiveUp,
         StartBatchLoop
<1>2. working \in Looping /\ UNCHANGED << batch, pos, unacked >>
  BY <1>1 DEF PublishScored, DeadLetterInvalid, RetryOrDeadLetter, Looping,
       brokerVars
<1>3. Current.msg \in Message /\ Current'.msg = Current.msg
  BY <1>2, CurrentMessage DEF Current
<1>4. /\ PostOf(Current.msg) \in Post /\ First(PostOf(Current.msg)) \in Message
      /\ Retried(PostOf(Current.msg)) \in Message
      /\ \/ Current.msg = First(PostOf(Current.msg)) /\ Attempt(Current.msg) = 0
         \/ Current.msg = Retried(PostOf(Current.msg)) /\ Attempt(Current.msg) = 1
  BY <1>3, PostOfMessage, MessagesOfPost
<1>5. deadLetters \in Counts /\ ready \in Counts /\ scored \in [Post -> Nat]
  BY DEF TypeOK, SessionTypeOK
<1>6. CASE PublishScored
  BY <1>3, <1>4, <1>5, <1>6 DEF PublishScored, SafeToAck
<1>7. CASE DeadLetter(Current.msg)
  <2>1. deadLetters' \in Counts /\ deadLetters'[Current.msg] > 0
    BY <1>3, <1>5, <1>7, BrokerTypes, DeadLetterCounts, StageTyped
       DEF TypeOK, SessionTypeOK
  <2>2. /\ deadLetters'[First(PostOf(Current.msg))] \in Nat
        /\ deadLetters'[Retried(PostOf(Current.msg))] \in Nat
    BY <1>4, <2>1 DEF Counts
  <2> QED
    BY <1>3, <1>4, <2>1, <2>2 DEF SafeToAck, DeadLettered
<1>8. CASE Attempt(Current.msg) = 0 /\ Enqueue(Retried(PostOf(Current.msg)))
  <2>1. ready'[Retried(PostOf(Current.msg))] > 0
    BY <1>4, <1>5, <1>8 DEF Enqueue, Counts
  <2> QED
    BY <1>3, <1>8, <2>1 DEF SafeToAck, Outstanding
<1> QED
  BY <1>1, <1>4, <1>6, <1>7, <1>8
     DEF DeadLetterInvalid, RetryOrDeadLetter, PublishRetryCopy

LEMMA StageSafe ==
  ASSUME Inductive, StageStep
  PROVE  Inductive'
<1>1. Typed'
  BY StageTyped DEF Inductive
<1>2. UNCHANGED << accepted, receiving, hand >>
  BY StageFrame
<1>3. HandCopied'
  <2>1. receiving \in {"publish", "ack"} => hand[1].msg \in Message
    BY HeldMessage DEF Inductive, Typed, TypeOK, SessionTypeOK, SessionShape
  <2>2. ASSUME NEW m \in Message, deadLetters[m] > 0
        PROVE  deadLetters'[m] > 0
    <3>1. /\ deadLetters \in Counts /\ deadLetters' \in Counts
          /\ \/ deadLetters' = deadLetters
             \/ working \in Looping /\ DeadLetter(Current.msg)
      BY <1>1 DEF StageStep, ProcessBatch, Infer, InferFails, InferRefused,
           InferBreaks, PublishScored, PublishScoredFails, DeadLetterInvalid,
           RetryOrDeadLetter, PublishRetryCopy, CopyFails, AckScored,
           AckRetried, AckRaises, SettleCurrent, brokerVars, Looping,
           Inductive, Typed, TypeOK, SessionTypeOK
    <3>2. CASE working \in Looping /\ DeadLetter(Current.msg)
      <4>1. Current.msg \in Message
        BY <3>2, CurrentMessage DEF Inductive
      <4> QED
        BY <2>2, <3>1, <3>2, <4>1, DeadLetterCounts DEF Counts
    <3> QED
      BY <2>2, <3>1, <3>2
  <2> QED
    BY <1>2, <2>1, <2>2 DEF Inductive, HandCopied
<1>4. CoveredBeforeAck'
  BY StageCovers DEF CoveredBeforeAck
<1>5. NoPostLost'
  <2>1. \A p \in Post : Accepted(p)' => Accepted(p)
    BY <1>2 DEF Accepted
  <2> QED
    BY <2>1, StageSettles DEF Inductive, NoPostLost
<1> QED
  BY <1>1, <1>3, <1>4, <1>5 DEF Inductive

LEMMA InductiveStep == Inductive /\ [Next]_vars => Inductive'
<1> SUFFICES ASSUME Inductive, [Next]_vars PROVE Inductive'
  OBVIOUS
<1>1. CASE UNCHANGED vars
  BY <1>1 DEF vars, sessionVars, brokerVars, Inductive, Typed, TypeOK,
       SessionTypeOK, SessionShape, InBatchLoop, HandCopied, CoveredBeforeAck,
       SafeToAck, Current, NoPostLost, Accepted, Open, DeadLettered, Outstanding
<1>2. CASE SessionNext /\ UNCHANGED stageVars
  BY <1>2, SessionSafe
<1>3. CASE StageStep
  BY <1>3, StageSafe
<1> QED
  BY <1>1, <1>2, <1>3 DEF Next, StageStep

LEMMA InductiveInvariant == SafetySpec => []Inductive
BY InitInductive, InductiveStep, PTL DEF SafetySpec

-----------------------------------------------------------------------------
(* The state of sentiment-service is well-typed: the buffer stays within    *)
(* its capacity and the batch within BATCH_SIZE.                            *)
THEOREM TypeCorrect == SafetySpec => []TypeOK
<1>1. Inductive => TypeOK
  BY DEF Inductive, Typed
<1> QED
  BY <1>1, InductiveInvariant, PTL

(* No accepted post is ever lost between its queue, its retry copy, the     *)
(* scored posts and the dead letters, whatever fails and however often.     *)
THEOREM SentimentLosesNothing == SafetySpec => []NoPostLost
<1>1. Inductive => NoPostLost
  BY DEF Inductive
<1> QED
  BY <1>1, InductiveInvariant, PTL

-----------------------------------------------------------------------------
(* A step of the stage is a StageMove of its session, and it only ever adds *)
(* to what failed.                                                          *)
LEMMA StageMoves ==
  ASSUME Typed, StageStep
  PROVE  StageMove
<1>1. /\ UNCHANGED << accepted, session, receiving, hand, buffer >>
      /\ working \in Looping \cup {"flush"}
  BY StageFrame
<1> QED
  BY <1>1 DEF StageStep, ProcessBatch, Infer, InferFails, InferRefused,
       InferBreaks, PublishScored, PublishScoredFails, DeadLetterInvalid,
       RetryOrDeadLetter, CopyFails, AckScored, AckRetried, AckRaises,
       StageMove, SessionSteps, StartBatchLoop, GiveUp, Looping, brokerVars

LEMMA FailuresCount ==
  ASSUME Typed, NEW I, I = DOMAIN batch \/ I = {pos}, CountFailures(I), NEW p \in Post
  PROVE  /\ failed[p] \in Nat /\ failed'[p] \in Nat
         /\ failed'[p] >= failed[p]
         /\ \A i \in I : PostOf(batch[i].msg) = p => failed'[p] > failed[p]
<1>1. Len(batch) \in Nat /\ DOMAIN batch = 1 .. Len(batch)
  BY DEF Typed, TypeOK, SessionTypeOK
<1>2. IsFiniteSet(I)
  <2>1. IsFiniteSet(1 .. Len(batch))
    BY <1>1, FS_Interval
  <2>2. IsFiniteSet({pos})
    BY FS_Singleton
  <2> QED
    BY <1>1, <2>1, <2>2
<1> DEFINE S == { j \in I : PostOf(batch[j].msg) = p }
<1>3. IsFiniteSet(S) /\ Cardinality(S) \in Nat /\ (S # {} => Cardinality(S) # 0)
  <2>1. IsFiniteSet(S)
    BY <1>2, FS_Subset
  <2> QED
    BY <2>1, FS_CardinalityType, FS_EmptySet
<1>4. failed'[p] = failed[p] + Cardinality(S) /\ failed[p] \in Nat
  BY DEF CountFailures, Typed, TypeOK
<1>5. ASSUME NEW i \in I, PostOf(batch[i].msg) = p PROVE S # {}
  BY <1>5
<1> HIDE DEF S
<1> QED
  BY <1>3, <1>4, <1>5

(* The account of a post: a surplus copy among the scored posts, or of the  *)
(* message in its queue, is owed until an acknowledgement, or some failure  *)
(* pays for it.                                                             *)
Copies(p) == {First(p), Retried(p)}
AckSteps  == {"ackScore", "ackRetry"}
PostPaid(p) ==
  scored[p] + ready[First(p)] + unacked[First(p)] + ready[Retried(p)]
      + unacked[Retried(p)] + Foreseen(Copies(p), AckSteps)
    <= accepted[First(p)] + faults + Owed(Copies(p), AckSteps)

(* What the stage knows of a message before it handles it: its post was     *)
(* accepted, and a message with a used attempt has failed once.             *)
Known == { m \in Message : /\ Accepted(PostOf(m))
                           /\ Attempt(m) = 1 => failed[PostOf(m)] >= 1 }

(* A message that is about to be retried failed in this very attempt.       *)
FailedNow(m) == failed[PostOf(m)] > Attempt(m)

Traced ==
  /\ \A m \in Message : Outstanding(m) => m \in Known
  /\ HeldFrom(Known)
  /\ working = "retryOne" => FailedNow(Current.msg)
  /\ working \in {"retryAll", "ackRetry"} =>
       \A i \in 1 .. Len(batch) : ~ (i < pos) => FailedNow(batch[i].msg)

(* The inductive invariant of FailuresPaidFor: that a dead letter has two   *)
(* failures behind it depends on where the second attempt came from.        *)
Booked ==
  /\ Inductive
  /\ ConsumerShape /\ WorkerShape /\ SessionBooks
  /\ \A p \in Post : PostPaid(p)
  /\ Traced
  /\ DeadLetterNeedsTwoFailures

LEMMA AckStepsApart == AckSteps \cap SessionSteps = {}
BY DEF AckSteps, SessionSteps

LEMMA BookedInit == Init => Booked
<1> SUFFICES ASSUME Init PROVE Booked
  OBVIOUS
<1>1. Inductive /\ SessionBooks /\ ConsumerShape /\ WorkerShape
  BY InitInductive, SessionBooksInit DEF Init
<1>2. /\ working = "stopped" /\ hand = << >> /\ buffer = << >> /\ batch = << >>
      /\ faults = 0 /\ \A p \in Post : scored[p] = 0
      /\ \A m \in Message : /\ deadLetters[m] = 0 /\ accepted[m] = 0
                            /\ ready[m] = 0 /\ unacked[m] = 0
  BY DEF Init, SessionInit, BrokerInit
<1>3. ASSUME NEW p \in Post PROVE PostPaid(p) /\ ~ DeadLettered(p)
  <2>1. First(p) \in Message /\ Retried(p) \in Message
    BY MessagesOfPost
  <2>2. Owed(Copies(p), AckSteps) = 0 /\ Foreseen(Copies(p), AckSteps) = 0
    BY <1>2 DEF Owed, Foreseen, AtAck, AckSteps
  <2> QED
    BY <1>2, <2>1, <2>2 DEF PostPaid, DeadLettered
<1>4. Traced
  <2>1. ASSUME NEW m \in Message PROVE ~ Outstanding(m)
    <3>1. ready[m] = 0 /\ unacked[m] = 0
      BY <1>2
    <3> QED
      BY <3>1 DEF Outstanding
  <2>2. HeldFrom(Known)
    BY <1>2 DEF HeldFrom, AllFrom
  <2> QED
    BY <1>2, <2>1, <2>2 DEF Traced
<1> QED
  BY <1>1, <1>3, <1>4 DEF Booked, DeadLetterNeedsTwoFailures

-----------------------------------------------------------------------------
LEMMA SessionKeepsPostPaid ==
  ASSUME Booked, SessionNext, UNCHANGED stageVars, NEW p \in Post
  PROVE  PostPaid(p)'
<1>1. SessionTypeOK /\ SessionShape /\ ConsumerShape /\ WorkerShape
      /\ SessionTypeOK'
  BY SessionTypes DEF Booked, Inductive, Typed, TypeOK
<1> DEFINE a == First(p)
           b == Retried(p)
           owed   == Owed(Copies(p), AckSteps)
           owedN  == Owed(Copies(p), AckSteps)'
           stale  == Foreseen(Copies(p), AckSteps)
           staleN == Foreseen(Copies(p), AckSteps)'
<1>2. a \in Message /\ b \in Message /\ b \notin Inbound
  BY MessagesOfPost, MessageAssumption DEF Retried
<1>3. /\ ready[a] \in Nat /\ unacked[a] \in Nat /\ accepted[a] \in Nat
      /\ ready'[a] \in Nat /\ unacked'[a] \in Nat /\ accepted'[a] \in Nat
      /\ accepted[a] + ready'[a] + unacked'[a] <= accepted'[a] + ready[a] + unacked[a]
  BY <1>1, <1>2, SessionQueues
<1>4. /\ ready[b] \in Nat /\ unacked[b] \in Nat
      /\ ready'[b] \in Nat /\ unacked'[b] \in Nat
      /\ ready'[b] + unacked'[b] <= ready[b] + unacked[b]
  <2>1. /\ ready[b] \in Nat /\ unacked[b] \in Nat /\ accepted[b] \in Nat
        /\ ready'[b] \in Nat /\ unacked'[b] \in Nat
        /\ accepted[b] + ready'[b] + unacked'[b] <= accepted'[b] + ready[b] + unacked[b]
    BY <1>1, <1>2, SessionQueues
  <2>2. accepted'[b] = accepted[b]
    BY <1>1, <1>2, SessionOpens
  <2> QED
    BY <2>1, <2>2
<1>5. faults + owed + staleN <= faults' + owedN + stale
  BY <1>1, AckStepsApart, SessionPays
<1>6. /\ faults \in Nat /\ faults' \in Nat /\ scored[p] \in Nat /\ scored'[p] = scored[p]
      /\ owed \in {0, 1} /\ owedN \in {0, 1} /\ stale \in {0, 1} /\ staleN \in {0, 1}
  BY <1>1, BoundsAssumption
     DEF SessionTypeOK, Owed, Foreseen, stageVars, Booked, Inductive, Typed, TypeOK
<1>7. scored[p] + ready[a] + unacked[a] + ready[b] + unacked[b] + stale
        <= accepted[a] + faults + owed
  BY DEF Booked, PostPaid
<1> HIDE DEF a, b, owed, owedN, stale, staleN
<1>8. scored'[p] + ready'[a] + unacked'[a] + ready'[b] + unacked'[b] + staleN
        <= accepted'[a] + faults' + owedN
  <2>1. scored'[p] + accepted[a] + ready'[a] + unacked'[a] + faults + owed + staleN
          <= scored[p] + accepted'[a] + ready[a] + unacked[a] + faults' + owedN + stale
    BY <1>3, <1>5, <1>6
  <2> QED
    BY <1>3, <1>4, <1>6, <1>7, <2>1
<1> QED
  BY <1>8 DEF PostPaid, a, b, owedN, staleN, First, Retried, Copies

LEMMA CopiesOfPost ==
  ASSUME NEW p \in Post, NEW m \in Message
  PROVE  m \in Copies(p) <=> PostOf(m) = p
BY MessagesOfPost, PostOfMessage DEF Copies

(* What the broker holds of a post after a retry copy, or an acknowledgement.*)
LEMMA QueueOfPost ==
  ASSUME ready \in Counts, unacked \in Counts, NEW p \in Post, NEW m \in Message
  PROVE  LET a == First(p) b == Retried(p) here == IF PostOf(m) = p THEN 1 ELSE 0 IN
         /\ PublishRetryCopy(m) =>
              ready'[a] = ready[a] /\ ready'[b] \in {ready[b], ready[b] + here}
         /\ Ack(m) => unacked[a] + unacked[b] = unacked'[a] + unacked'[b] + here
<1> DEFINE a == First(p)
           b == Retried(p)
           here == IF PostOf(m) = p THEN 1 ELSE 0
<1>1. a \in Message /\ b \in Message /\ a # b /\ PostOf(a) = p /\ PostOf(b) = p
  BY MessagesOfPost
<1>2. ready[a] \in Nat /\ ready[b] \in Nat /\ unacked[a] \in Nat /\ unacked[b] \in Nat
  BY <1>1 DEF Counts
<1>3. m = a \/ m = b <=> PostOf(m) = p
  BY CopiesOfPost DEF Copies
<1>4. ASSUME PublishRetryCopy(m)
      PROVE  ready'[a] = ready[a] /\ ready'[b] \in {ready[b], ready[b] + here}
  <2>1. CASE ready' = ready
    BY <2>1
  <2>2. CASE Enqueue(Retried(PostOf(m)))
    <3>1. PostOf(m) \in Post /\ Retried(PostOf(m)) # a
          /\ (Retried(PostOf(m)) = b <=> PostOf(m) = p)
      BY PostOfMessage, MessagesOfPost
    <3>2. ready'[a] = ready[a]
          /\ ready'[b] = IF Retried(PostOf(m)) = b THEN ready[b] + 1 ELSE ready[b]
      <4> HIDE DEF a, b
      <4> QED
        BY <1>1, <2>2, <3>1 DEF Enqueue, Counts
    <3> HIDE DEF a, b
    <3> QED
      BY <1>2, <3>1, <3>2
  <2> QED
    BY <1>4, <2>1, <2>2 DEF PublishRetryCopy
<1>5. ASSUME Ack(m)
      PROVE  unacked[a] + unacked[b] = unacked'[a] + unacked'[b] + here
  <2> HIDE DEF a, b
  <2>1. /\ unacked'[a] = IF m = a THEN unacked[a] - 1 ELSE unacked[a]
        /\ unacked'[b] = IF m = b THEN unacked[b] - 1 ELSE unacked[b]
    BY <1>1, <1>5 DEF Ack, Counts
  <2> QED
    BY <1>1, <1>2, <1>3, <2>1
<1> QED
  BY <1>4, <1>5

LEMMA StageKeepsPostPaid ==
  ASSUME Booked, StageStep, Typed', NEW p \in Post
  PROVE  PostPaid(p)'
<1>1. SessionTypeOK /\ SessionShape /\ ConsumerShape /\ WorkerShape /\ SessionBooks
      /\ SessionTypeOK' /\ StageMove /\ Typed
  BY StageMoves DEF Booked, Inductive, Typed, TypeOK
<1>2. accepted' = accepted /\ working \in Looping \cup {"flush"}
  BY StageFrame
<1> DEFINE a == First(p)
           b == Retried(p)
           m == Current.msg
           owed   == Owed(Copies(p), AckSteps)
           owedN  == Owed(Copies(p), AckSteps)'
           stale  == Foreseen(Copies(p), AckSteps)
           staleN == Foreseen(Copies(p), AckSteps)'
           held   == ready[a] + unacked[a] + ready[b] + unacked[b]
           heldN  == ready'[a] + unacked'[a] + ready'[b] + unacked'[b]
           here   == IF PostOf(m) = p THEN 1 ELSE 0
           Goal   == scored'[p] + heldN + staleN <= accepted[a] + faults' + owedN
<1>3. a \in Message /\ b \in Message /\ (working \in Looping => m \in Message)
  BY <1>1, MessagesOfPost, CurrentMessage
<1>4. /\ ready \in Counts /\ unacked \in Counts /\ scored \in [Post -> Nat]
      /\ ready[a] \in Nat /\ unacked[a] \in Nat /\ ready[b] \in Nat /\ unacked[b] \in Nat
      /\ ready'[a] \in Nat /\ unacked'[a] \in Nat /\ ready'[b] \in Nat
      /\ unacked'[b] \in Nat
      /\ accepted[a] \in Nat /\ faults \in Nat /\ faults' \in Nat
      /\ scored[p] \in Nat /\ scored'[p] \in Nat
      /\ held \in Nat /\ heldN \in Nat
  <2>1. /\ ready \in Counts /\ unacked \in Counts /\ accepted \in Counts
        /\ ready' \in Counts /\ unacked' \in Counts
        /\ scored \in [Post -> Nat] /\ scored' \in [Post -> Nat]
        /\ faults \in Nat /\ faults' \in Nat
    BY <1>1, BoundsAssumption DEF SessionTypeOK, Typed, TypeOK
  <2> HIDE DEF a, b
  <2> QED
    BY <1>3, <2>1 DEF Counts
<1>5. scored[p] + held + stale <= accepted[a] + faults + owed
  <2>1. scored[p] + ready[a] + unacked[a] + ready[b] + unacked[b] + stale
          <= accepted[a] + faults + owed
    BY DEF Booked, PostPaid
  <2>2. stale \in Nat
    BY DEF Foreseen
  <2> HIDE DEF a, b, stale, owed
  <2> QED
    BY <1>4, <2>1, <2>2
<1>6. /\ owed \in {0, 1} /\ owedN \in {0, 1} /\ stale \in {0, 1} /\ staleN \in {0, 1}
      /\ working \notin AckSteps /\ working' \notin AckSteps =>
           owed = 0 /\ owedN = 0 /\ staleN <= stale
      /\ working \notin AckSteps /\ working' \in AckSteps /\ working # "flush"
           /\ batch' = batch /\ pos' = pos =>
           owed = 0 /\ staleN + (IF m \in Copies(p) THEN 1 ELSE 0) <= owedN + stale
      /\ \A step : working \in AckSteps /\ step \notin AckSteps /\ SettleCurrent(step) =>
           /\ owed = IF m \in Copies(p) THEN 1 ELSE 0
           /\ owedN = 0 /\ staleN <= stale
      /\ working \in AckSteps /\ Current.state = "stale" /\ GiveUp =>
           owed = 0 /\ owedN = 0 /\ staleN = 0
  BY <1>1, AckStepsApart, StagePays
<1>7. working \in Looping => here = (IF m \in Copies(p) THEN 1 ELSE 0) /\ here \in {0, 1}
  BY <1>3, CopiesOfPost
<1>8. /\ working \in Looping /\ PublishRetryCopy(m) /\ UNCHANGED unacked =>
           heldN \in {held, held + here}
      /\ working \in Looping /\ Ack(m) /\ UNCHANGED ready => held = heldN + here
      /\ UNCHANGED << ready, unacked >> => heldN = held
  <2>1. ASSUME working \in Looping, PublishRetryCopy(m), UNCHANGED unacked
        PROVE  heldN \in {held, held + here}
    <3>1. ready'[a] = ready[a] /\ ready'[b] \in {ready[b], ready[b] + here}
      BY <1>3, <1>4, <2>1, QueueOfPost
    <3> HIDE DEF a, b, here
    <3> QED
      BY <1>3, <1>4, <1>7, <2>1, <3>1
  <2>2. ASSUME working \in Looping, Ack(m), UNCHANGED ready
        PROVE  held = heldN + here
    <3>1. unacked[a] + unacked[b] = unacked'[a] + unacked'[b] + here
      BY <1>3, <1>4, <2>2, QueueOfPost
    <3> HIDE DEF a, b, here
    <3> QED
      BY <1>3, <1>4, <1>7, <2>2, <3>1
  <2> QED
    BY <2>1, <2>2
<1> HIDE DEF owed, owedN, stale, staleN, held, heldN, here, a, b
<1>9. ASSUME working \in Looping \ AckSteps, working' \in AckSteps,
             UNCHANGED << unacked, batch, pos, faults >>,
             \/ UNCHANGED ready /\ scored'[p] \in {scored[p], scored[p] + here}
             \/ PublishRetryCopy(m) /\ scored' = scored
      PROVE  Goal
  <2>1. owed = 0 /\ staleN + here <= owedN + stale /\ here \in {0, 1}
    BY <1>6, <1>7, <1>9 DEF Looping
  <2>2. heldN + scored'[p] \in {held + scored[p], held + scored[p] + here}
    BY <1>4, <1>8, <1>9, <2>1
  <2> QED
    BY <1>4, <1>5, <1>6, <1>9, <2>1, <2>2
<1>10. ASSUME working \notin AckSteps, working' \notin AckSteps,
              UNCHANGED unacked,
              \/ UNCHANGED ready /\ scored' = scored /\ faults <= faults'
              \/ faults' = faults + 1 /\ working \in Looping
                   /\ \/ UNCHANGED ready /\ scored'[p] \in {scored[p], scored[p] + 1}
                      \/ PublishRetryCopy(m) /\ scored' = scored
       PROVE  Goal
  <2>1. owed = 0 /\ owedN = 0 /\ staleN <= stale
    BY <1>6, <1>10
  <2>2. \/ heldN + scored'[p] = held + scored[p] /\ faults <= faults'
        \/ heldN + scored'[p] <= held + scored[p] + 1 /\ faults' = faults + 1
    BY <1>4, <1>7, <1>8, <1>10
  <2> QED
    BY <1>4, <1>5, <1>6, <2>1, <2>2
<1>11. ASSUME AckScored \/ AckRetried PROVE Goal
  <2>1. PICK step \in {"score", "retryAll"} :
          /\ working \in AckSteps /\ SettleCurrent(step)
          /\ UNCHANGED << ready, faults, scored >>
    BY <1>11 DEF AckScored, AckRetried, AckSteps, stageVars
  <2>2. working \in Looping /\ step \notin AckSteps /\ Ack(m)
    BY <2>1 DEF AckSteps, Looping, SettleCurrent
  <2>3. owed = here /\ owedN = 0 /\ staleN <= stale /\ here \in {0, 1}
    BY <1>6, <1>7, <2>1, <2>2
  <2>4. held = heldN + here
    BY <1>8, <2>1, <2>2
  <2> QED
    BY <1>4, <1>5, <1>6, <2>1, <2>3, <2>4
<1>12. ASSUME AckRaises PROVE Goal
  <2>1. /\ working \in AckSteps /\ Current.state = "stale" /\ GiveUp
        /\ UNCHANGED << ready, unacked, faults, scored >>
    BY <1>12 DEF AckRaises, AckSteps, stageVars, brokerVars
  <2>2. owed = 0 /\ owedN = 0 /\ staleN = 0 /\ heldN = held
    BY <1>6, <1>8, <2>1
  <2> QED
    BY <1>4, <1>5, <1>6, <2>1, <2>2
<1>13. ASSUME Infer \/ InferRefused \/ InferBreaks PROVE Goal
  BY <1>4, <1>10, <1>13
     DEF Infer, InferRefused, InferBreaks, InferFails, StartBatchLoop, Fault,
         AckSteps, brokerVars, stageVars
<1>14. ASSUME PublishScored \/ PublishScoredFails PROVE Goal
  <2>1. /\ working = "score" /\ UNCHANGED << ready, unacked, batch, pos >>
        /\ \/ working' = "ackScore" /\ UNCHANGED faults
                /\ scored' = [scored EXCEPT ![PostOf(m)] = @ + 1]
           \/ working' = "retryOne" /\ faults' = faults + 1
                /\ scored' \in {scored, [scored EXCEPT ![PostOf(m)] = @ + 1]}
    BY <1>14 DEF PublishScored, PublishScoredFails, Fault, brokerVars
  <2>2. [scored EXCEPT ![PostOf(m)] = @ + 1][p] = scored[p] + here
    BY <1>4 DEF here
  <2>3. working \in Looping /\ here \in {0, 1}
    BY <1>7, <2>1 DEF Looping
  <2> QED
    BY <1>4, <1>9, <1>10, <2>1, <2>2, <2>3 DEF AckSteps
<1>15. ASSUME DeadLetterInvalid \/ RetryOrDeadLetter PROVE Goal
  BY <1>4, <1>9, <1>15 DEF DeadLetterInvalid, RetryOrDeadLetter, AckSteps, Looping,
     stageVars
<1>16. ASSUME CopyFails PROVE Goal
  <2>1. /\ working \in {"score", "retryAll", "retryOne"} /\ working' = "requeue"
        /\ UNCHANGED << unacked, scored >> /\ faults' = faults + 1
        /\ UNCHANGED ready \/ PublishRetryCopy(m)
    BY <1>16 DEF CopyFails, GiveUp, StartBatchLoop, Fault, stageVars
  <2> QED
    BY <1>4, <1>10, <2>1 DEF AckSteps, Looping
<1>17. Goal
  BY <1>11, <1>12, <1>13, <1>14, <1>15, <1>16 DEF StageStep, ProcessBatch
<1>18. scored'[p] + ready'[a] + unacked'[a] + ready'[b] + unacked'[b] + staleN
         <= accepted'[a] + faults' + owedN
  BY <1>2, <1>4, <1>6, <1>17 DEF heldN
<1> QED
  BY <1>18 DEF PostPaid, a, b, owedN, staleN, First, Retried, Copies

-----------------------------------------------------------------------------
(* What is known of a message stays known while posts are accepted and      *)
(* failures counted.                                                        *)
LEMMA KnownGrows ==
  ASSUME Typed, Typed',
         \A m \in Message : accepted[m] > 0 => accepted'[m] > 0,
         \A p \in Post : failed'[p] >= failed[p],
         NEW m \in Known
  PROVE  m \in Known'
<1>1. m \in Message /\ PostOf(m) \in Post /\ First(PostOf(m)) \in Message
  BY PostOfMessage, MessagesOfPost DEF Known
<1>2. failed[PostOf(m)] \in Nat /\ failed'[PostOf(m)] \in Nat
  BY <1>1 DEF Typed, TypeOK
<1>3. Accepted(PostOf(m))' /\ (Attempt(m) = 1 => failed'[PostOf(m)] >= 1)
  BY <1>1, <1>2 DEF Known, Accepted
<1> QED
  BY <1>1, <1>3 DEF Known

LEMMA SessionTraced ==
  ASSUME Booked, SessionNext, UNCHANGED stageVars
  PROVE  Traced' /\ DeadLetterNeedsTwoFailures'
<1>1. SessionTypeOK /\ SessionShape /\ Typed /\ Typed' /\ HandCopied
  BY SessionTyped DEF Booked, Inductive, Typed, TypeOK
<1>2. failed' = failed /\ failed \in [Post -> Nat]
  BY <1>1 DEF stageVars, Typed, TypeOK
<1>3. \A m \in Known : m \in Known'
  <2>1. \A m \in Message : accepted[m] > 0 => accepted'[m] > 0
    BY <1>1, SessionOpens
  <2>2. \A p \in Post : failed'[p] >= failed[p]
    BY <1>2
  <2> QED
    BY <1>1, <2>1, <2>2, KnownGrows
<1>4. \A m \in Message : Outstanding(m) => m \in Known
  BY DEF Booked, Traced
<1>5. ASSUME NEW m \in Message, Outstanding(m)' PROVE m \in Known'
  <2>1. CASE Outstanding(m)
    BY <1>3, <1>4, <2>1
  <2>2. CASE m \in Inbound /\ accepted'[m] > 0
    <3>1. Attempt(m) = 0 /\ m = First(PostOf(m))
      BY <2>2, MessageAssumption DEF Attempt, PostOf, First
    <3> QED
      BY <2>2, <3>1 DEF Known, Accepted
  <2> QED
    BY <1>1, <1>5, <2>1, <2>2, SessionOpens
<1>6. AllFrom(Known', hand') /\ AllFrom(Known', buffer') /\ AllFrom(Known', batch')
  <2>1. HeldFrom(Known')
    BY <1>3 DEF Booked, Traced, HeldFrom, AllFrom
  <2>2. \A m \in Message : Outstanding(m) => m \in Known'
    BY <1>3, <1>4
  <2> QED
    BY <1>1, <2>1, <2>2, SessionKeepsOrigins
<1>7. /\ working' = "retryOne" => FailedNow(Current.msg)'
      /\ working' \in {"retryAll", "ackRetry"} =>
           \A i \in 1 .. Len(batch') : ~ (i < pos') => FailedNow(batch[i].msg)'
  <2>1. CASE working' \in {"collect", "flush", "requeue", "cancelled", "stopped"}
    BY <2>1
  <2>2. CASE /\ working' = working /\ pos' = pos /\ Len(batch') = Len(batch)
             /\ \A i \in 1 .. Len(batch) : batch'[i].msg = batch[i].msg
    <3>1. working \in Looping => pos \in 1 .. Len(batch)
      BY <1>1 DEF Typed, InBatchLoop
    <3>2. working' = "retryOne" => FailedNow(Current.msg)'
      <4>1. working = "retryOne" => Current'.msg = Current.msg /\ FailedNow(Current.msg)
        BY <2>2, <3>1 DEF Current, Looping, Booked, Traced
      <4> QED
        BY <1>2, <2>2, <4>1 DEF FailedNow
    <3>3. ASSUME working' \in {"retryAll", "ackRetry"}, NEW i \in 1 .. Len(batch'),
                 ~ (i < pos')
          PROVE  FailedNow(batch[i].msg)'
      <4>1. batch'[i].msg = batch[i].msg /\ FailedNow(batch[i].msg)
        BY <2>2, <3>3 DEF Booked, Traced
      <4> QED
        BY <1>2, <4>1 DEF FailedNow
    <3> QED
      BY <3>2, <3>3
  <2> QED
    BY <1>1, <2>1, <2>2, SessionKeepsBatch
<1>8. Traced'
  BY <1>5, <1>6, <1>7 DEF Traced, HeldFrom, AllFrom
<1>9. ASSUME NEW p \in Post, DeadLettered(p)'
      PROVE  First(p) \in Malformed \/ p \in InvalidResult \/ failed'[p] >= 2
  <2>1. First(p) \in Message /\ Retried(p) \in Message /\ Retried(p) \notin Malformed
    BY MessagesOfPost, MessageAssumption, MalformedAssumption DEF Retried
  <2>2. ASSUME NEW m \in {First(p), Retried(p)}
        PROVE  /\ deadLetters[m] \in Nat /\ deadLetters'[m] \in Nat
               /\ deadLetters'[m] > deadLetters[m] => m \in Malformed
    BY <1>1, <2>1, SessionSettles DEF Typed, TypeOK, SessionTypeOK, Counts
  <2>3. First(p) \in Malformed \/ DeadLettered(p)
    BY <1>9, <2>1, <2>2 DEF DeadLettered
  <2> QED
    BY <1>2, <2>3 DEF Booked, DeadLetterNeedsTwoFailures
<1> QED
  BY <1>8, <1>9 DEF DeadLetterNeedsTwoFailures

(* A message the worker retries has just failed.                            *)
LEMMA CurrentFailed ==
  ASSUME Booked, working \in {"retryAll", "retryOne", "ackRetry"}
  PROVE  FailedNow(Current.msg) /\ Current.msg \in Known
<1>1. pos \in 1 .. Len(batch) /\ ~ (pos < pos)
  BY DEF Booked, Inductive, Typed, InBatchLoop, Looping, TypeOK, SessionTypeOK
<1> QED
  BY <1>1 DEF Booked, Traced, Current, HeldFrom, AllFrom

(* What the stage does to the failures, and to the queue it consumes.       *)
LEMMA StageFails ==
  ASSUME Typed, StageStep
  PROVE  \A p \in Post : failed'[p] >= failed[p]
<1>1. failed \in [Post -> Nat]
  BY DEF Typed, TypeOK
<1>2. \/ failed' = failed
      \/ CountFailures(DOMAIN batch) \/ CountFailures({pos})
  BY DEF StageStep, ProcessBatch, Infer, InferFails, InferRefused, InferBreaks,
     PublishScored, PublishScoredFails, DeadLetterInvalid, RetryOrDeadLetter,
     CopyFails, AckScored, AckRetried, AckRaises, stageVars
<1> QED
  BY <1>1, <1>2, FailuresCount

LEMMA StageKnown ==
  ASSUME Booked, StageStep, Typed', NEW m \in Message, Outstanding(m)'
  PROVE  m \in Known'
<1>1. Typed /\ ready \in Counts /\ unacked \in Counts /\ accepted' = accepted
  BY StageFrame DEF Booked, Inductive, Typed, TypeOK, SessionTypeOK
<1>2. \A d \in Known : d \in Known'
  BY <1>1, StageFails, KnownGrows
<1>3. CASE Outstanding(m)
  BY <1>2, <1>3 DEF Booked, Traced
<1>4. CASE ~ Outstanding(m)
  <2>1. \/ UNCHANGED << ready, unacked >>
        \/ UNCHANGED ready /\ Ack(Current.msg)
        \/ /\ working \in {"retryAll", "retryOne"} /\ UNCHANGED unacked
           /\ PublishRetryCopy(Current.msg) /\ UNCHANGED failed
    BY DEF StageStep, ProcessBatch, Infer, InferFails, InferRefused, InferBreaks,
       PublishScored, PublishScoredFails, DeadLetterInvalid, RetryOrDeadLetter,
       CopyFails, AckScored, AckRetried, AckRaises, SettleCurrent, brokerVars, stageVars
  <2>2. /\ working \in {"retryAll", "retryOne"} /\ UNCHANGED << unacked, failed >>
        /\ ~ (Attempt(Current.msg) >= 1) /\ Enqueue(Retried(PostOf(Current.msg)))
    <3>1. ~ UNCHANGED << ready, unacked >> /\ ~ (UNCHANGED ready /\ Ack(Current.msg))
      BY <1>1, <1>4 DEF Outstanding, Ack, Counts
    <3>2. ready' # ready
      BY <1>4, <2>1, <3>1 DEF Outstanding
    <3> QED
      BY <2>1, <3>1, <3>2 DEF PublishRetryCopy
  <2>3. /\ Current.msg \in Known /\ FailedNow(Current.msg)
    BY <2>2, CurrentFailed
  <2>4. PostOf(Current.msg) \in Post /\ Attempt(Current.msg) = 0
        /\ Accepted(PostOf(Current.msg)) /\ failed[PostOf(Current.msg)] \in Nat
    BY <1>1, <2>2, <2>3, PostOfMessage DEF Known, Typed, TypeOK
  <2>5. m = Retried(PostOf(Current.msg))
    BY <1>1, <1>4, <2>2 DEF Enqueue, Outstanding, Counts
  <2>6. PostOf(m) = PostOf(Current.msg)
    BY <2>4, <2>5, MessagesOfPost
  <2>7. failed'[PostOf(m)] >= 1 /\ Accepted(PostOf(m))'
    BY <1>1, <2>2, <2>3, <2>4, <2>6 DEF FailedNow, Accepted
  <2> QED
    BY <2>7 DEF Known
<1> QED
  BY <1>3, <1>4

LEMMA StageTraced ==
  ASSUME Booked, StageStep, Typed'
  PROVE  Traced'
<1>1. Typed /\ SessionTypeOK /\ WorkerShape /\ StageMove /\ accepted' = accepted
      /\ failed \in [Post -> Nat] /\ failed' \in [Post -> Nat]
      /\ batch \in Seq(Delivery) /\ DOMAIN batch = 1 .. Len(batch)
  BY StageMoves, StageFrame DEF Booked, Inductive, Typed, TypeOK, SessionTypeOK
<1>2. \A m \in Known : m \in Known'
  BY <1>1, StageFails, KnownGrows
<1>3. AllFrom(Known', hand') /\ AllFrom(Known', buffer') /\ AllFrom(Known', batch')
  <2>1. HeldFrom(Known')
    BY <1>2 DEF Booked, Traced, HeldFrom, AllFrom
  <2> QED
    BY <1>1, <2>1, StageKeepsOrigins
<1>4. ASSUME NEW I, I = DOMAIN batch \/ I = {pos}, CountFailures(I),
             NEW i \in 1 .. Len(batch), i \in I
      PROVE  FailedNow(batch[i].msg)'
             \/ batch' # batch
  <2> SUFFICES ASSUME batch' = batch PROVE FailedNow(batch[i].msg)'
    OBVIOUS
  <2> DEFINE m == batch[i].msg
  <2>1. m \in Known
    BY DEF Booked, Traced, HeldFrom, AllFrom
  <2>2. /\ PostOf(m) \in Post /\ Attempt(m) \in {0, 1}
        /\ Attempt(m) = 1 => failed[PostOf(m)] >= 1
    BY <2>1, PostOfMessage DEF Known
  <2>3. failed'[PostOf(m)] > failed[PostOf(m)]
    BY <1>1, <1>4, <2>2, FailuresCount
  <2> HIDE DEF m
  <2>4. failed'[PostOf(m)] > Attempt(m)
    BY <1>1, <2>2, <2>3
  <2> QED
    BY <2>4 DEF FailedNow, m
<1>5. ASSUME working' = "retryOne" PROVE FailedNow(Current.msg)'
  <2>1. /\ working = "score" /\ CountFailures({pos}) /\ UNCHANGED << batch, pos >>
    BY <1>5 DEF StageStep, ProcessBatch, Infer, InferFails, InferRefused,
       InferBreaks, PublishScored, PublishScoredFails, DeadLetterInvalid,
       RetryOrDeadLetter, CopyFails, AckScored, AckRetried, AckRaises,
       SettleCurrent, NextInBatch, GiveUp, StartBatchLoop
  <2>2. pos \in 1 .. Len(batch)
    BY <1>1, <2>1 DEF Typed, InBatchLoop, Looping
  <2>3. FailedNow(batch[pos].msg)'
    <3>1. \A i \in 1 .. Len(batch) : i \in {pos} =>
            FailedNow(batch[i].msg)' \/ batch' # batch
      BY <1>4, <2>1
    <3> QED
      BY <2>1, <2>2, <3>1 DEF FailedNow
  <2> QED
    BY <2>3 DEF Current
<1>6. ASSUME working' \in {"retryAll", "ackRetry"}, NEW i \in 1 .. Len(batch'),
             ~ (i < pos')
      PROVE  FailedNow(batch[i].msg)'
  <2>1. \/ InferRefused \/ InferBreaks
        \/ RetryOrDeadLetter /\ working = "retryAll"
        \/ AckRetried
    <3>1. ~ AckScored
      BY <1>6 DEF AckScored, SettleCurrent, NextInBatch
    <3> QED
      BY <1>6, <3>1 DEF StageStep, ProcessBatch, Infer, PublishScored,
         PublishScoredFails, DeadLetterInvalid, RetryOrDeadLetter, CopyFails,
         AckRaises, GiveUp, StartBatchLoop
  <2>2. CASE InferRefused \/ InferBreaks
    <3>1. CountFailures(DOMAIN batch) /\ batch' = batch
      BY <2>2 DEF InferRefused, InferBreaks, InferFails, StartBatchLoop
    <3> QED
      BY <1>1, <1>4, <1>6, <3>1
  <2>3. CASE RetryOrDeadLetter /\ working = "retryAll"
    <3>1. UNCHANGED << batch, pos, failed >>
      BY <2>3 DEF RetryOrDeadLetter, stageVars
    <3>2. FailedNow(batch[i].msg)
      BY <1>6, <2>3, <3>1 DEF Booked, Traced
    <3> QED
      BY <3>1, <3>2 DEF FailedNow
  <2>4. CASE AckRetried
    <3>1. /\ working = "ackRetry" /\ NextInBatch("retryAll") /\ failed' = failed
          /\ pos \in 1 .. Len(batch)
      BY <1>1, <2>4 DEF AckRetried, SettleCurrent, stageVars, Typed, InBatchLoop, Looping
    <3>2. /\ pos' = pos + 1 /\ batch' = [batch EXCEPT ![pos] = AsDone(@)]
      BY <1>6, <3>1 DEF NextInBatch
    <3>3. /\ Len(batch') = Len(batch)
          /\ \A j \in 1 .. Len(batch) : batch'[j].msg = batch[j].msg
      BY <1>1, <1>6, <3>1, NextInBatchTypes
    <3>4. ~ (i < pos)
      BY <1>6, <3>1, <3>2, <3>3
    <3>5. FailedNow(batch[i].msg)
      BY <1>6, <3>1, <3>3, <3>4 DEF Booked, Traced
    <3> QED
      BY <1>6, <3>1, <3>3, <3>5 DEF FailedNow
  <2> QED
    BY <2>1, <2>2, <2>3, <2>4
<1>7. \A m \in Message : Outstanding(m)' => m \in Known'
  BY StageKnown
<1> QED
  BY <1>3, <1>5, <1>6, <1>7 DEF Traced, HeldFrom, AllFrom

LEMMA StageDeadLetters ==
  ASSUME Booked, StageStep, Typed'
  PROVE  DeadLetterNeedsTwoFailures'
<1>1. Typed /\ deadLetters \in Counts /\ failed \in [Post -> Nat]
      /\ failed' \in [Post -> Nat] /\ deadLetters' \in Counts
  BY DEF Booked, Inductive, Typed, TypeOK, SessionTypeOK
<1> SUFFICES ASSUME NEW p \in Post, DeadLettered(p)'
             PROVE  First(p) \in Malformed \/ p \in InvalidResult \/ failed'[p] >= 2
  BY DEF DeadLetterNeedsTwoFailures
<1>2. failed[p] \in Nat /\ failed'[p] \in Nat /\ failed'[p] >= failed[p]
  BY <1>1, StageFails
<1>3. First(p) \in Message /\ Retried(p) \in Message
  BY MessagesOfPost
<1>4. CASE DeadLettered(p)
  BY <1>2, <1>4 DEF Booked, DeadLetterNeedsTwoFailures
<1>5. CASE ~ DeadLettered(p)
  <2>1. deadLetters' # deadLetters
    BY <1>5 DEF DeadLettered
  <2>2. /\ working \in Looping /\ DeadLetter(Current.msg) /\ UNCHANGED failed
        /\ \/ PostOf(Current.msg) \in InvalidResult
           \/ /\ working \in {"retryAll", "retryOne"}
              /\ Attempt(Current.msg) >= 1
    BY <2>1 DEF StageStep, ProcessBatch, Infer, InferFails, InferRefused,
       InferBreaks, PublishScored, PublishScoredFails, DeadLetterInvalid,
       RetryOrDeadLetter, PublishRetryCopy, CopyFails, AckScored, AckRetried,
       AckRaises, brokerVars, stageVars, Looping
  <2>3. Current.msg \in Message
    BY <1>1, <2>2, CurrentMessage
  <2>4. PostOf(Current.msg) = p
    <3>1. Current.msg \in {First(p), Retried(p)}
      BY <1>1, <1>3, <1>5, <2>2, <2>3, DeadLetterCounts DEF DeadLettered
    <3> QED
      BY <3>1, MessagesOfPost
  <2>5. CASE working \in {"retryAll", "retryOne"} /\ Attempt(Current.msg) >= 1
    <3>1. FailedNow(Current.msg) /\ Attempt(Current.msg) \in {0, 1}
      BY <2>3, <2>5, CurrentFailed, PostOfMessage
    <3> QED
      BY <1>2, <2>2, <2>4, <2>5, <3>1 DEF FailedNow
  <2> QED
    BY <2>2, <2>4, <2>5
<1> QED
  BY <1>4, <1>5

LEMMA BookedStep == Booked /\ [Next]_vars => Booked'
<1> SUFFICES ASSUME Booked, [Next]_vars PROVE Booked'
  OBVIOUS
<1>1. Inductive' /\ Typed'
  BY InductiveStep DEF Booked, Inductive
<1>2. CASE UNCHANGED vars
  <2>1. UNCHANGED << ready, unacked, deadLetters, accepted, session, receiving,
                     hand, buffer, working, batch, pos, faults, scored, failed >>
    BY <1>2 DEF vars, sessionVars, brokerVars
  <2>2. /\ ConsumerShape' /\ WorkerShape'
    BY <2>1 DEF Booked, ConsumerShape, WorkerShape, Has
  <2>3. SessionBooks'
    BY <2>1 DEF Booked, SessionBooks, DeliveriesAccountedFor, Unsettled, HeldIn, CountIn
  <2>4. \A p \in Post : PostPaid(p)'
    BY <2>1 DEF Booked, PostPaid, Foreseen, Owed, AtAck, StaleHeld, Has, Current
  <2>5. Traced'
    BY <2>1 DEF Booked, Traced, Known, Accepted, Outstanding, FailedNow, HeldFrom,
         AllFrom, Current
  <2>6. DeadLetterNeedsTwoFailures'
    BY <2>1 DEF Booked, DeadLetterNeedsTwoFailures, DeadLettered
  <2> QED
    BY <1>1, <2>2, <2>3, <2>4, <2>5, <2>6 DEF Booked
<1>3. CASE SessionNext /\ UNCHANGED stageVars
  <2>1. /\ SessionTypeOK /\ SessionShape /\ ConsumerShape /\ WorkerShape
        /\ SessionBooks
    BY DEF Booked, Inductive, Typed, TypeOK
  <2>2. ConsumerShape' /\ WorkerShape' /\ SessionBooks'
    BY <1>3, <2>1, SessionKeepsShape, SessionKeepsBooks
  <2>3. (\A p \in Post : PostPaid(p)') /\ Traced' /\ DeadLetterNeedsTwoFailures'
    BY <1>3, SessionKeepsPostPaid, SessionTraced
  <2> QED
    BY <1>1, <2>2, <2>3 DEF Booked
<1>4. CASE StageStep
  <2>1. SessionTypeOK /\ SessionShape /\ ConsumerShape /\ WorkerShape /\ SessionBooks
        /\ SessionTypeOK' /\ StageMove
    BY <1>1, <1>4, StageMoves DEF Booked, Inductive, Typed, TypeOK
  <2>2. ConsumerShape' /\ WorkerShape' /\ SessionBooks'
    BY <2>1, StageKeepsBooks
  <2>3. (\A p \in Post : PostPaid(p)') /\ Traced' /\ DeadLetterNeedsTwoFailures'
    BY <1>1, <1>4, StageKeepsPostPaid, StageTraced, StageDeadLetters
  <2> QED
    BY <1>1, <2>2, <2>3 DEF Booked
<1> QED
  BY <1>2, <1>3, <1>4 DEF Next, StageStep

LEMMA BookedInvariant == SafetySpec => []Booked
BY BookedInit, BookedStep, PTL DEF SafetySpec

(* What is owed at most is one copy, of a message still unacknowledged.     *)
LEMMA CopiesBounded == Booked => DuplicatesBounded
<1> SUFFICES ASSUME Booked, NEW p \in Post
             PROVE  scored[p] <= accepted[First(p)] + faults
  BY DEF DuplicatesBounded
<1> DEFINE a == First(p)
           b == Retried(p)
           owed  == Owed(Copies(p), AckSteps)
           stale == Foreseen(Copies(p), AckSteps)
<1>1. SessionTypeOK /\ WorkerShape /\ DeliveriesAccountedFor /\ PostPaid(p)
      /\ scored \in [Post -> Nat] /\ a \in Message /\ b \in Message
  BY MessagesOfPost DEF Booked, Inductive, Typed, TypeOK, SessionBooks
<1>2. /\ scored[p] \in Nat /\ accepted[a] \in Nat /\ faults \in Nat
      /\ ready[a] \in Nat /\ unacked[a] \in Nat /\ ready[b] \in Nat /\ unacked[b] \in Nat
  BY <1>1, BoundsAssumption DEF SessionTypeOK, Counts
<1>3. owed \in {0, 1} /\ stale \in {0, 1}
  BY DEF Owed, Foreseen
<1>4. owed = 1 => unacked[a] >= 1 \/ unacked[b] >= 1
  <2> SUFFICES ASSUME AtAck(Copies(p), AckSteps, "live")
               PROVE  unacked[a] >= 1 \/ unacked[b] >= 1
    BY DEF Owed
  <2>1. pos \in 1 .. Len(batch) /\ batch[pos].state = "live" /\ batch[pos].msg \in {a, b}
    BY <1>1, AckStepsApart DEF AtAck, WorkerShape, Current, Copies
  <2> QED
    BY <1>1, <2>1, LiveIsUnacked
<1>5. scored[p] + ready[a] + unacked[a] + ready[b] + unacked[b] + stale
        <= accepted[a] + faults + owed
  BY <1>1 DEF PostPaid
<1> HIDE DEF a, b, owed, stale
<1>6. scored[p] <= accepted[a] + faults
  BY <1>2, <1>3, <1>4, <1>5
<1> QED
  BY <1>6 DEF a

(* A well-formed post with a valid result is dead-lettered only after two   *)
(* failed attempts, surplus scored copies are paid for by failures, and     *)
(* every unacknowledged delivery is held by the stage.                      *)
THEOREM SentimentFailuresPaidFor == SafetySpec => []FailuresPaidFor
<1>1. Booked => FailuresPaidFor
  BY CopiesBounded DEF Booked, SessionBooks, FailuresPaidFor
<1> QED
  BY <1>1, BookedInvariant, PTL

-----------------------------------------------------------------------------
(* The settlement promise, post by post: each step of the stage is one step *)
(* of Settlement, or none.                                                  *)
acceptedPosts == { p \in Post : Accepted(p) }
openPosts     == { p \in Post : Open(p) }
storedPosts   == { p \in Post : scored[p] > 0 }
rejectedPosts == { p \in Post : DeadLettered(p) }

PromiseStep == [Promise!Next]_(Promise!settlementVars)

LEMMA Stutters ==
  ASSUME acceptedPosts' = acceptedPosts, openPosts' = openPosts,
         storedPosts' = storedPosts, rejectedPosts' = rejectedPosts
  PROVE  PromiseStep
BY DEF PromiseStep, Promise!settlementVars, acceptedPosts, openPosts, storedPosts,
       rejectedPosts

LEMMA AcceptMaps ==
  ASSUME NEW p \in Post, acceptedPosts' = acceptedPosts \cup {p},
         openPosts' = openPosts \cup {p}, storedPosts' = storedPosts,
         rejectedPosts' = rejectedPosts
  PROVE  PromiseStep
<1>1. Promise!Accept(p)
  BY DEF Promise!Accept, acceptedPosts, openPosts, storedPosts, rejectedPosts
<1> QED
  BY <1>1 DEF PromiseStep, Promise!Next

LEMMA StoreMaps ==
  ASSUME NEW p \in Post, Accepted(p), acceptedPosts' = acceptedPosts,
         openPosts' = openPosts, storedPosts' = storedPosts \cup {p},
         rejectedPosts' = rejectedPosts
  PROVE  PromiseStep
<1>1. {p} \in SUBSET Post /\ {p} \subseteq { q \in Post : Accepted(q) }
  OBVIOUS
<1>2. Promise!Store({p})
  BY <1>1 DEF Promise!Store, acceptedPosts, openPosts, storedPosts, rejectedPosts
<1> QED
  BY <1>1, <1>2 DEF PromiseStep, Promise!Next

LEMMA RejectMaps ==
  ASSUME NEW p \in Post, Accepted(p), acceptedPosts' = acceptedPosts,
         openPosts' = openPosts, storedPosts' = storedPosts,
         rejectedPosts' = rejectedPosts \cup {p}
  PROVE  PromiseStep
<1>1. p \in Post \cap { q \in Post : Accepted(q) }
  OBVIOUS
<1>2. Promise!Reject(p)
  BY <1>1 DEF Promise!Reject, acceptedPosts, openPosts, storedPosts, rejectedPosts
<1> QED
  BY <1>2 DEF PromiseStep, Promise!Next

(* What the queues' steps mean for the posts.                               *)
LEMMA PostsUnchanged ==
  ASSUME UNCHANGED << deadLetters, accepted, scored >>,
         \A m \in Message : Outstanding(m)' <=> Outstanding(m)
  PROVE  PromiseStep
<1>1. ASSUME NEW p \in Post PROVE Open(p)' <=> Open(p)
  BY MessagesOfPost DEF Open
<1>2. openPosts' = openPosts
  BY <1>1 DEF openPosts
<1>3. /\ acceptedPosts' = acceptedPosts /\ storedPosts' = storedPosts
      /\ rejectedPosts' = rejectedPosts
  BY DEF acceptedPosts, Accepted, storedPosts, rejectedPosts, DeadLettered
<1> QED
  BY <1>2, <1>3, Stutters

LEMMA EnqueueMaps ==
  ASSUME SessionTypeOK, NEW m \in Message, Enqueue(m),
         UNCHANGED << unacked, deadLetters, scored >>,
         \/ accepted' = [accepted EXCEPT ![m] = @ + 1] /\ m \in Inbound
         \/ accepted' = accepted /\ Accepted(PostOf(m))
  PROVE  PromiseStep
<1> DEFINE p == PostOf(m)
<1>1. /\ p \in Post /\ m \in {First(p), Retried(p)} /\ (m \in Inbound => m = First(p))
      /\ \A q \in Post : m = First(q) \/ m = Retried(q) => q = p
      /\ \A q \in Post : First(q) \in Message /\ Retried(q) \in Message
  <2>1. p \in Post /\ (m = First(p) \/ m = Retried(p))
    BY PostOfMessage
  <2>2. \A q \in Post : /\ PostOf(First(q)) = q /\ PostOf(Retried(q)) = q
                        /\ First(q) \in Message /\ Retried(q) \in Message
    BY MessagesOfPost
  <2>3. \A q \in Post : Retried(q) \notin Inbound
    BY MessageAssumption DEF Retried
  <2> QED
    BY <2>1, <2>2, <2>3
<1>2. /\ ready \in Counts /\ unacked \in Counts /\ accepted \in Counts
  BY DEF SessionTypeOK
<1> HIDE DEF p
<1>3. ASSUME NEW q \in Post PROVE Open(q)' <=> (Open(q) \/ q = p)
  <2>1. ASSUME NEW d \in Message PROVE Outstanding(d)' <=> (Outstanding(d) \/ d = m)
    BY <1>2 DEF Enqueue, Outstanding, Counts
  <2> QED
    BY <1>1, <2>1 DEF Open
<1>4. ASSUME NEW q \in Post PROVE Accepted(q)' <=> (Accepted(q) \/ q = p)
  <2>1. CASE accepted' = [accepted EXCEPT ![m] = @ + 1] /\ m \in Inbound
    <3>1. accepted'[First(q)] = IF First(q) = m THEN accepted[m] + 1 ELSE accepted[First(q)]
      BY <1>1, <1>2, <2>1 DEF Counts
    <3>2. accepted[m] \in Nat /\ (First(q) = m <=> q = p)
      BY <1>1, <1>2, <2>1 DEF Counts
    <3> QED
      BY <3>1, <3>2 DEF Accepted
  <2>2. CASE accepted' = accepted /\ Accepted(PostOf(m))
    BY <2>2 DEF Accepted, p
  <2> QED
    BY <2>1, <2>2
<1>5. openPosts' = openPosts \cup {p} /\ acceptedPosts' = acceptedPosts \cup {p}
  BY <1>1, <1>3, <1>4 DEF openPosts, acceptedPosts
<1>6. storedPosts' = storedPosts /\ rejectedPosts' = rejectedPosts
  BY DEF storedPosts, rejectedPosts, DeadLettered
<1> QED
  BY <1>1, <1>5, <1>6, AcceptMaps

LEMMA DeadLetterMaps ==
  ASSUME SessionTypeOK, NEW m \in Message, DeadLetter(m), Accepted(PostOf(m)),
         UNCHANGED << ready, unacked, accepted, scored >>
  PROVE  PromiseStep
<1> DEFINE p == PostOf(m)
<1>1. /\ p \in Post /\ m \in {First(p), Retried(p)}
      /\ \A q \in Post : m = First(q) \/ m = Retried(q) => q = p
      /\ \A q \in Post : First(q) \in Message /\ Retried(q) \in Message
                         /\ First(q) # Retried(q)
  BY PostOfMessage, MessagesOfPost
<1>2. deadLetters \in Counts
  BY DEF SessionTypeOK
<1> HIDE DEF p
<1>3. ASSUME NEW q \in Post PROVE DeadLettered(q)' <=> (DeadLettered(q) \/ q = p)
  <2>1. /\ deadLetters'[First(q)] = deadLetters[First(q)] + IF First(q) = m THEN 1 ELSE 0
        /\ deadLetters'[Retried(q)] = deadLetters[Retried(q)] + IF Retried(q) = m THEN 1 ELSE 0
        /\ deadLetters[First(q)] \in Nat /\ deadLetters[Retried(q)] \in Nat
    BY <1>1, <1>2 DEF DeadLetter, Counts
  <2>2. q = p <=> First(q) = m \/ Retried(q) = m
    BY <1>1
  <2> QED
    BY <2>1, <2>2 DEF DeadLettered
<1>4. rejectedPosts' = rejectedPosts \cup {p}
  BY <1>1, <1>3 DEF rejectedPosts
<1>5. openPosts' = openPosts /\ acceptedPosts' = acceptedPosts /\ storedPosts' = storedPosts
  BY DEF openPosts, Open, Outstanding, acceptedPosts, Accepted, storedPosts
<1> QED
  BY <1>1, <1>4, <1>5, RejectMaps DEF p

LEMMA AckMaps ==
  ASSUME SessionTypeOK, NEW m \in Message, Ack(m), SafeToAck(m),
         UNCHANGED << ready, deadLetters, accepted, scored >>
  PROVE  PromiseStep
<1> DEFINE p == PostOf(m)
<1>1. /\ p \in Post /\ m \in {First(p), Retried(p)} /\ First(p) # Retried(p)
      /\ \A q \in Post : m = First(q) \/ m = Retried(q) => q = p
      /\ \A q \in Post : First(q) \in Message /\ Retried(q) \in Message
      /\ (Attempt(m) = 0 => m = First(p))
  <2>1. /\ p \in Post
        /\ \/ Attempt(m) = 0 /\ m = First(p)
           \/ Attempt(m) = 1 /\ m = Retried(p)
    BY PostOfMessage
  <2>2. \A q \in Post : /\ PostOf(First(q)) = q /\ PostOf(Retried(q)) = q
                        /\ First(q) # Retried(q)
                        /\ First(q) \in Message /\ Retried(q) \in Message
    BY MessagesOfPost
  <2>3. Attempt(m) = 0 => m = First(p)
    BY <2>1
  <2>4. m \in {First(p), Retried(p)}
    BY <2>1
  <2> QED
    BY <2>1, <2>2, <2>3, <2>4
<1>2. ready \in Counts /\ unacked \in Counts
  BY DEF SessionTypeOK
<1>3. ASSUME NEW d \in Message PROVE d # m => (Outstanding(d)' <=> Outstanding(d))
  BY <1>2 DEF Ack, Outstanding, Counts
<1>4. Outstanding(m)
  BY <1>2 DEF Ack, Outstanding, Counts
<1> HIDE DEF p
<1>5. Open(p) /\ \A q \in Post : q # p => (Open(q)' <=> Open(q))
  BY <1>1, <1>3, <1>4 DEF Open
<1>6. acceptedPosts' = acceptedPosts /\ storedPosts' = storedPosts
      /\ rejectedPosts' = rejectedPosts
  BY DEF acceptedPosts, Accepted, storedPosts, rejectedPosts, DeadLettered
<1>7. CASE Open(p)'
  <2>1. openPosts' = openPosts
    BY <1>1, <1>5, <1>7 DEF openPosts
  <2> QED
    BY <1>6, <2>1, Stutters
<1>8. CASE ~ Open(p)'
  <2>1. openPosts' = openPosts \ {p}
    BY <1>1, <1>5, <1>8 DEF openPosts
  <2>2. scored[p] > 0 \/ DeadLettered(p)
    <3>1. Attempt(m) = 0 /\ Outstanding(Retried(p)) => Outstanding(Retried(p))'
      BY <1>1, <1>3
    <3> QED
      BY <1>8, <3>1 DEF SafeToAck, Open, p
  <2>3. Promise!Settle(p)
    BY <1>1, <1>5, <1>6, <2>1, <2>2
       DEF Promise!Settle, acceptedPosts, openPosts, storedPosts, rejectedPosts
  <2> QED
    BY <1>1, <2>3 DEF PromiseStep, Promise!Next
<1> QED
  BY <1>7, <1>8

-----------------------------------------------------------------------------
LEMMA SessionMaps ==
  ASSUME Booked, SessionNext, UNCHANGED stageVars
  PROVE  PromiseStep
<1>1. SessionTypeOK /\ SessionShape /\ HandCopied /\ ready \in Counts /\ unacked \in Counts
      /\ deadLetters \in Counts /\ scored' = scored
  BY DEF Booked, Inductive, Typed, TypeOK, SessionTypeOK, stageVars
<1>2. receiving \in {"publish", "ack"} => hand[1].msg \in Known /\ hand[1].msg \in Message
  <2>1. receiving \in {"publish", "ack"} => 1 \in 1 .. Len(hand)
    BY <1>1 DEF SessionShape
  <2> QED
    BY <2>1 DEF Booked, Traced, HeldFrom, AllFrom, Known
<1>3. ASSUME NEW d \in Inbound, Publish(d) PROVE PromiseStep
  BY <1>1, <1>3, EnqueueMaps, InboundAssumption DEF Publish
<1>4. CASE UNCHANGED << brokerVars, accepted >>
  BY <1>1, <1>4, PostsUnchanged DEF brokerVars, Outstanding
<1>5. CASE /\ UNCHANGED << deadLetters, accepted >>
           /\ RequeueUnacked \/ \E d \in Message : Deliver(d) \/ Requeue(d)
  <2>1. ASSUME NEW m \in Message PROVE Outstanding(m)' <=> Outstanding(m)
    BY <1>1, <1>5 DEF RequeueUnacked, Deliver, Requeue, Counts, Outstanding
  <2> QED
    BY <1>1, <1>5, <2>1, PostsUnchanged
<1>6. CASE /\ receiving = "publish" /\ DeadLetter(hand[1].msg)
           /\ UNCHANGED << ready, unacked, accepted >>
  BY <1>1, <1>2, <1>6, DeadLetterMaps DEF Known
<1>7. CASE /\ receiving = "ack" /\ Ack(hand[1].msg)
           /\ UNCHANGED << ready, deadLetters, accepted >>
  <2> DEFINE m == hand[1].msg
  <2>1. m \in Message /\ deadLetters[m] > 0
    BY <1>1, <1>2, <1>7 DEF HandCopied
  <2>2. m \in {First(PostOf(m)), Retried(PostOf(m))} /\ PostOf(m) \in Post
        /\ First(PostOf(m)) \in Message /\ Retried(PostOf(m)) \in Message
    BY <2>1, PostOfMessage, MessagesOfPost
  <2>3. SafeToAck(m)
    <3> HIDE DEF m
    <3>1. deadLetters[First(PostOf(m))] \in Nat /\ deadLetters[Retried(PostOf(m))] \in Nat
      BY <1>1, <2>2 DEF Counts
    <3> QED
      BY <2>1, <2>2, <3>1 DEF SafeToAck, DeadLettered
  <2> QED
    BY <1>1, <1>7, <2>1, <2>3, AckMaps
<1> QED
  BY <1>1, <1>3, <1>4, <1>5, <1>6, <1>7, SessionBroker

LEMMA StageMaps ==
  ASSUME Booked, StageStep
  PROVE  PromiseStep
<1>1. SessionTypeOK /\ Typed /\ accepted' = accepted /\ scored \in [Post -> Nat]
      /\ HeldFrom(Known)
  BY StageFrame DEF Booked, Inductive, Typed, TypeOK, Traced
<1> DEFINE m == Current.msg
           p == PostOf(Current.msg)
<1>2. working \in Looping =>
        m \in Message /\ p \in Post /\ Accepted(p) /\ Retried(p) \in Message
        /\ PostOf(Retried(p)) = p
  <2>1. working \in Looping => pos \in 1 .. Len(batch)
    BY <1>1 DEF Typed, InBatchLoop
  <2>2. working \in Looping => m \in Known
    BY <1>1, <2>1 DEF HeldFrom, AllFrom, Current
  <2> QED
    BY <2>2, PostOfMessage, MessagesOfPost DEF Known
<1>3. CASE UNCHANGED << brokerVars, scored >>
  BY <1>1, <1>3, PostsUnchanged DEF brokerVars, Outstanding
<1>4. CASE AckScored \/ AckRetried
  <2>1. /\ working \in {"ackScore", "ackRetry"} /\ Ack(m)
        /\ UNCHANGED << ready, deadLetters, accepted, scored >>
    BY <1>4 DEF AckScored, AckRetried, SettleCurrent, stageVars
  <2>2. SafeToAck(m) /\ m \in Message
    BY <1>2, <2>1 DEF Booked, Inductive, CoveredBeforeAck, Looping
  <2> QED
    BY <1>1, <2>1, <2>2, AckMaps
<1>5. CASE /\ working \in Looping /\ UNCHANGED << unacked, scored >>
           /\ \/ PublishRetryCopy(m)
              \/ DeadLetter(m) /\ UNCHANGED ready
  <2>1. CASE DeadLetter(m) /\ UNCHANGED ready
    BY <1>1, <1>2, <1>5, <2>1, DeadLetterMaps
  <2>2. CASE Enqueue(Retried(p)) /\ UNCHANGED deadLetters
    <3>1. Accepted(PostOf(Retried(p)))
      BY <1>2, <1>5
    <3> QED
      BY <1>1, <1>2, <1>5, <2>2, <3>1, EnqueueMaps
  <2> QED
    BY <1>5, <2>1, <2>2 DEF PublishRetryCopy
<1>6. CASE /\ working \in Looping /\ UNCHANGED brokerVars
           /\ scored' = [scored EXCEPT ![p] = @ + 1]
  <2>1. p \in Post /\ Accepted(p)
    BY <1>2, <1>6
  <2> HIDE DEF p
  <2>2. ASSUME NEW q \in Post PROVE scored'[q] > 0 <=> (scored[q] > 0 \/ q = p)
    BY <1>1, <1>6
  <2>3. storedPosts' = storedPosts \cup {p}
    BY <2>1, <2>2 DEF storedPosts
  <2>4. /\ acceptedPosts' = acceptedPosts /\ openPosts' = openPosts
        /\ rejectedPosts' = rejectedPosts
    BY <1>1, <1>6 DEF brokerVars, acceptedPosts, Accepted, openPosts, Open, Outstanding,
         rejectedPosts, DeadLettered
  <2> QED
    BY <2>1, <2>3, <2>4, StoreMaps
<1> QED
  BY <1>3, <1>4, <1>5, <1>6
     DEF StageStep, ProcessBatch, Infer, InferFails, InferRefused, InferBreaks,
         PublishScored, PublishScoredFails, DeadLetterInvalid,
         RetryOrDeadLetter, CopyFails, AckRaises, brokerVars, stageVars, Looping

LEMMA StepMaps == Booked /\ [Next]_vars => [Promise!Next]_(Promise!settlementVars)
<1> SUFFICES ASSUME Booked, [Next]_vars PROVE PromiseStep
  BY DEF PromiseStep
<1>1. CASE UNCHANGED vars
  BY <1>1, PostsUnchanged DEF vars, sessionVars, brokerVars, Outstanding
<1>2. CASE SessionNext /\ UNCHANGED stageVars
  BY <1>2, SessionMaps
<1>3. CASE StageStep
  BY <1>3, StageMaps
<1> QED
  BY <1>1, <1>2, <1>3 DEF Next, StageStep

LEMMA InitMaps == Init => Promise!Init
<1> SUFFICES ASSUME Init PROVE Promise!Init
  OBVIOUS
<1>1. /\ \A p \in Post : scored[p] = 0
      /\ \A m \in Message : /\ deadLetters[m] = 0 /\ accepted[m] = 0
                            /\ ready[m] = 0 /\ unacked[m] = 0
  BY DEF Init, SessionInit, BrokerInit
<1>2. ASSUME NEW p \in Post
      PROVE  ~ Accepted(p) /\ ~ Open(p) /\ ~ DeadLettered(p) /\ ~ (scored[p] > 0)
  BY <1>1, MessagesOfPost DEF Accepted, Open, Outstanding, DeadLettered
<1> QED
  BY <1>2 DEF Promise!Init

(* Whatever fails, the sentiment stage behaves like the promise: a post is  *)
(* forgotten only once it is scored or dead-lettered, also while its retry  *)
(* copy replaces the original.                                              *)
THEOREM SentimentImplementsSettlement == SafetySpec => ImplementsSettlement
BY InitMaps, StepMaps, BookedInvariant, PTL
   DEF SafetySpec, ImplementsSettlement, Promise!Spec

-----------------------------------------------------------------------------
(* What is scored has passed the model and the schema: while its batch is   *)
(* being published, no post of the batch is one the model raises on.        *)
BatchInferred ==
  working \in {"score", "ackScore", "retryOne"} =>
    \A i \in DOMAIN batch : PostOf(batch[i].msg) \notin Unscorable

ScoredFit ==
  /\ BatchInferred
  /\ \A p \in Post : scored[p] > 0 => p \notin Unscorable \cup InvalidResult

(* A step that adds a scored post leaves the queues of the stage alone.     *)
LEMMA ScoredAlone ==
  ASSUME Next
  PROVE  scored' = scored \/ UNCHANGED brokerVars
BY DEF Next, ProcessBatch, Infer, InferFails, InferRefused, InferBreaks, PublishScored,
       PublishScoredFails, DeadLetterInvalid, RetryOrDeadLetter, CopyFails, AckScored,
       AckRetried, AckRaises, stageVars

LEMMA InferredNext ==
  ASSUME Typed, BatchInferred, NextInBatch("score"),
         working \in {"score", "ackScore", "retryOne"}
  PROVE  BatchInferred'
<1>1. batch \in Seq(Delivery) /\ pos \in 1 .. Len(batch)
  BY DEF Typed, TypeOK, SessionTypeOK, InBatchLoop, Looping
<1>2. CASE batch' = [batch EXCEPT ![pos] = AsDone(@)]
  <2>1. Len(batch') = Len(batch) /\ \A i \in 1 .. Len(batch) : batch'[i].msg = batch[i].msg
    BY <1>1, <1>2, DoneKeepsMessages
  <2>2. DOMAIN batch' = DOMAIN batch /\ DOMAIN batch = 1 .. Len(batch)
    BY <1>1, <1>2
  <2> QED
    BY <2>1, <2>2 DEF BatchInferred
<1> QED
  BY <1>2 DEF NextInBatch, BatchInferred

LEMMA ScoredFitStep == Typed /\ ScoredFit /\ [Next]_vars => ScoredFit'
<1> SUFFICES ASSUME Typed, ScoredFit, [Next]_vars PROVE ScoredFit'
  OBVIOUS
<1>1. scored \in [Post -> Nat]
  BY DEF Typed, TypeOK
<1>2. CASE UNCHANGED vars
  BY <1>2 DEF vars, sessionVars, ScoredFit, BatchInferred
<1>3. CASE SessionNext /\ UNCHANGED stageVars
  <2>1. CASE working' \in {"collect", "flush", "requeue", "cancelled", "stopped"}
    BY <1>3, <2>1 DEF ScoredFit, BatchInferred, stageVars
  <2>2. CASE /\ working' = working /\ Len(batch') = Len(batch)
             /\ \A i \in 1 .. Len(batch) : batch'[i].msg = batch[i].msg
    <3>1. SessionTypeOK /\ SessionTypeOK'
      BY <1>3, SessionTyped DEF Typed, TypeOK
    <3>2. DOMAIN batch' = 1 .. Len(batch) /\ DOMAIN batch = 1 .. Len(batch)
      BY <2>2, <3>1 DEF SessionTypeOK
    <3> QED
      BY <1>3, <2>2, <3>2 DEF ScoredFit, BatchInferred, stageVars
  <2> QED
    BY <1>3, <2>1, <2>2, SessionKeepsBatch DEF Typed, TypeOK
<1>4. CASE StageStep
  <2>1. CASE PublishScored \/ PublishScoredFails
    <3>1. working = "score" /\ PostOf(Current.msg) \notin InvalidResult
      BY <2>1 DEF PublishScored, PublishScoredFails
    <3>2. PostOf(Current.msg) \notin Unscorable
      BY <3>1 DEF Typed, TypeOK, SessionTypeOK, InBatchLoop, Looping, ScoredFit,
           BatchInferred, Current
    <3>3. BatchInferred'
      BY <2>1, <3>1 DEF PublishScored, PublishScoredFails, ScoredFit, BatchInferred
    <3>4. \A p \in Post : scored'[p] > 0 => scored[p] > 0 \/ p = PostOf(Current.msg)
      BY <1>1, <2>1 DEF PublishScored, PublishScoredFails
    <3> QED
      BY <3>1, <3>2, <3>3, <3>4 DEF ScoredFit
  <2>2. CASE Infer
    BY <2>2 DEF Infer, StartBatchLoop, stageVars, ScoredFit, BatchInferred
  <2>3. CASE AckScored \/ AckRetried
    <3>1. scored' = scored
      BY <2>3 DEF AckScored, AckRetried, stageVars
    <3>2. CASE AckScored
      BY <3>1, <3>2, InferredNext DEF AckScored, SettleCurrent, ScoredFit
    <3>3. CASE AckRetried
      BY <3>1, <3>3 DEF AckRetried, SettleCurrent, NextInBatch, ScoredFit, BatchInferred
    <3> QED
      BY <2>3, <3>2, <3>3
  <2>4. CASE RetryOrDeadLetter \/ DeadLetterInvalid
    BY <2>4 DEF RetryOrDeadLetter, DeadLetterInvalid, stageVars, ScoredFit, BatchInferred
  <2>5. CASE InferRefused \/ InferBreaks \/ CopyFails \/ AckRaises
    BY <2>5 DEF InferRefused, InferBreaks, InferFails, CopyFails, AckRaises, GiveUp,
         StartBatchLoop, stageVars, ScoredFit, BatchInferred
  <2> QED
    BY <1>4, <2>1, <2>2, <2>3, <2>4, <2>5 DEF StageStep, ProcessBatch
<1> QED
  BY <1>2, <1>3, <1>4 DEF Next, StageStep

(* Only a post the model scores, with a result that fits the schema, is     *)
(* ever in the scored-posts queue.                                          *)
LEMMA OnlyFitScored == SafetySpec => []ScoredFit
<1>1. Init => ScoredFit
  BY DEF Init, SessionInit, ScoredFit, BatchInferred
<1>2. Inductive => Typed
  BY DEF Inductive
<1> QED
  BY <1>1, <1>2, ScoredFitStep, InductiveInvariant, PTL DEF SafetySpec
=============================================================================
