------------------------ MODULE StorageConsumerProofs ------------------------
(***************************************************************************)
(* storage-service for every set of messages, batch size and number of     *)
(* failures: type correctness, that no accepted message is lost, that only *)
(* messages that can never be stored are dead-lettered, that deliveries    *)
(* and surplus copies are accounted for, and that the stage implements the *)
(* settlement promise: each of its steps is one step of Settlement, or     *)
(* none.                                                                   *)
(***************************************************************************)
EXTENDS StorageConsumer, ConsumerSessionProofs

(* While the worker is in a loop over its batch, it is at a message of it.  *)
InBatchLoop == working \in {"ack", "isolate", "ackOne"} => pos \in 1 .. Len(batch)

Typed == TypeOK /\ SessionShape /\ InBatchLoop

(* An acknowledgement the worker is about to send is for a settled message. *)
SettledBeforeAck ==
  /\ working = "ack"    => \A i \in 1 .. Len(batch) : batch[i].msg \in posts
  /\ working = "ackOne" => Settled(Current.msg)

(* The inductive invariant: the two properties are not inductive, because   *)
(* an acknowledgement takes a copy from the broker; they hold because every *)
(* acknowledgement is preceded by a commit or a dead-letter copy.           *)
Inductive ==
  /\ Typed
  /\ HandCopied
  /\ SettledBeforeAck
  /\ NoMessageLost
  /\ OnlyUnstorableDeadLettered

-----------------------------------------------------------------------------
LEMMA InitInductive == Init => Inductive
<1> SUFFICES ASSUME Init PROVE Inductive
  OBVIOUS
<1>1. SessionTypeOK /\ SessionShape
  BY SessionInitTypes DEF Init
<1>2. \A m \in Message : deadLetters[m] = 0 /\ accepted[m] = 0
  BY DEF Init, SessionInit, BrokerInit
<1>3. /\ working = "stopped" /\ receiving = "stopped" /\ posts = {}
  BY DEF Init, SessionInit
<1> QED
  BY <1>1, <1>2, <1>3
     DEF Inductive, Typed, TypeOK, InBatchLoop, HandCopied, SettledBeforeAck,
         NoMessageLost, OnlyUnstorableDeadLettered

(* A step of the stage itself leaves the session's other state alone.       *)
StageStep == Persist \/ InsertBatchFails \/ IsolateFails

LEMMA StageFrame ==
  ASSUME Typed, StageStep
  PROVE  /\ UNCHANGED << ready, accepted, session, receiving, hand, buffer >>
         /\ working \in {"flush", "ack", "isolate", "ackOne"}
BY DEF Typed, TypeOK, StageStep, Persist, InsertBatch, InsertBatchRefused,
       InsertBatchFails, AckInserted, InsertOne, DeadLetterPoison, IsolateFails,
       AckIsolated, AckRaises, consumerVars, brokerVars

LEMMA CurrentMessage ==
  ASSUME Typed, working \in {"ack", "isolate", "ackOne"}
  PROVE  Current.msg \in Message
BY HeldMessage DEF Typed, TypeOK, SessionTypeOK, InBatchLoop, Current

-----------------------------------------------------------------------------
LEMMA SessionTyped ==
  ASSUME Typed, SessionNext, UNCHANGED posts
  PROVE  Typed'
<1>1. SessionTypeOK' /\ SessionShape'
  BY SessionTypes DEF Typed, TypeOK
<1>2. \/ working' \in {"collect", "flush", "requeue", "cancelled", "stopped"}
      \/ working' = working /\ pos' = pos /\ Len(batch') = Len(batch)
  BY SessionKeepsBatch DEF Typed, TypeOK
<1> QED
  BY <1>1, <1>2 DEF Typed, TypeOK, InBatchLoop

LEMMA StageTyped ==
  ASSUME Typed, StageStep
  PROVE  Typed'
<1>1. /\ UNCHANGED << ready, accepted, session, receiving, hand, buffer >>
      /\ working \in {"flush", "ack", "isolate", "ackOne"}
  BY StageFrame
<1>2. session' # "down"
  BY <1>1 DEF Typed, SessionShape
<1>3. BatchMessages \subseteq Message
  BY HeldMessage DEF BatchMessages, Typed, TypeOK, SessionTypeOK
<1>4. /\ unacked' \in Counts /\ deadLetters' \in Counts
      /\ faults' \in 0 .. MaxFaults /\ posts' \subseteq Message
  <2> USE <1>1, <1>3, BrokerTypes, BoundsAssumption, CurrentMessage
      DEF Typed, TypeOK, SessionTypeOK
  <2>1. CASE InsertBatch
    BY <2>1 DEF InsertBatch, brokerVars
  <2>2. CASE InsertBatchRefused
    BY <2>2 DEF InsertBatchRefused, brokerVars
  <2>3. CASE InsertBatchFails
    BY <2>3 DEF InsertBatchFails, Fault, brokerVars
  <2>4. CASE AckInserted
    BY <2>4 DEF AckInserted, SettleCurrent
  <2>5. CASE InsertOne
    BY <2>5 DEF InsertOne, brokerVars
  <2>6. CASE DeadLetterPoison
    BY <2>6 DEF DeadLetterPoison
  <2>7. CASE IsolateFails
    BY <2>7 DEF IsolateFails, Fault
  <2>8. CASE AckIsolated
    BY <2>8 DEF AckIsolated, SettleCurrent
  <2>9. CASE AckRaises
    BY <2>9 DEF AckRaises, brokerVars
  <2> QED
    BY <2>1, <2>2, <2>3, <2>4, <2>5, <2>6, <2>7, <2>8, <2>9
       DEF StageStep, Persist
<1>5. /\ batch' \in Seq(Delivery) /\ Len(batch') <= BatchSize /\ pos' \in Nat
      /\ \/ working' = "collect" /\ batch' = << >>
         \/ working' = "requeue"
         \/ working' \in {"ack", "isolate", "ackOne"} /\ pos' \in 1 .. Len(batch')
  <2>1. CASE /\ working = "flush"
             /\ StartBatchLoop("ack") \/ StartBatchLoop("isolate")
    BY <2>1, BatchNotEmpty DEF StartBatchLoop, Typed, TypeOK, SessionTypeOK
  <2>2. CASE GiveUp
    BY <2>2 DEF GiveUp, StartBatchLoop, Typed, TypeOK, SessionTypeOK
  <2>3. CASE /\ working \in {"ack", "ackOne"}
             /\ NextInBatch("ack") \/ NextInBatch("isolate")
    BY <2>3, NextInBatchTypes DEF Typed, TypeOK, InBatchLoop
  <2>4. CASE working = "isolate" /\ working' = "ackOne" /\ UNCHANGED << batch, pos >>
    BY <2>4 DEF Typed, TypeOK, SessionTypeOK, InBatchLoop
  <2> QED
    BY <2>1, <2>2, <2>3, <2>4
       DEF StageStep, Persist, InsertBatch, InsertBatchRefused,
           InsertBatchFails, AckInserted, InsertOne, DeadLetterPoison,
           IsolateFails, AckIsolated, AckRaises, SettleCurrent
<1>6. batch' = << >> => Len(batch') < BatchSize
  BY BatchSizeAssumption
<1> QED
  BY <1>1, <1>2, <1>4, <1>5, <1>6
     DEF Typed, TypeOK, SessionTypeOK, SessionShape, InBatchLoop

-----------------------------------------------------------------------------
(* A step of the session keeps the invariant: what it dead-letters is       *)
(* malformed, and it acknowledges only what it dead-lettered.               *)
LEMMA SessionSafe ==
  ASSUME Inductive, SessionNext, UNCHANGED posts
  PROVE  Inductive'
<1>1. Typed'
  BY SessionTyped DEF Inductive
<1>2. SessionTypeOK /\ SessionShape /\ HandCopied
  BY DEF Inductive, Typed, TypeOK
<1>3. ASSUME NEW m \in Message
      PROVE  /\ deadLetters[m] \in Nat /\ deadLetters'[m] \in Nat
             /\ deadLetters'[m] >= deadLetters[m]
             /\ deadLetters'[m] > deadLetters[m] => m \in Malformed
             /\ Outstanding(m) => Outstanding(m)' \/ deadLetters'[m] > 0
             /\ accepted'[m] > 0 => accepted[m] > 0 \/ Outstanding(m)'
  BY <1>1, <1>2, SessionSettles DEF Typed, TypeOK, SessionTypeOK, Counts
<1>4. HandCopied'
  BY <1>2, HandCopiedKept
<1>5. SettledBeforeAck'
  <2>1. CASE working' \in {"collect", "flush", "requeue", "cancelled", "stopped"}
    BY <2>1 DEF SettledBeforeAck
  <2>2. CASE /\ working' = working /\ pos' = pos /\ Len(batch') = Len(batch)
             /\ \A i \in 1 .. Len(batch) : batch'[i].msg = batch[i].msg
    <3>1. working = "ackOne" => Current.msg \in Message /\ Current'.msg = Current.msg
      BY <2>2, CurrentMessage DEF Inductive, Typed, InBatchLoop, Current
    <3> QED
      BY <1>3, <2>2, <3>1 DEF Inductive, SettledBeforeAck, Settled
  <2> QED
    BY <1>2, <2>1, <2>2, SessionKeepsBatch
<1>6. NoMessageLost'
  BY <1>3 DEF Inductive, NoMessageLost, Settled
<1>7. OnlyUnstorableDeadLettered'
  BY <1>3 DEF Inductive, OnlyUnstorableDeadLettered
<1> QED
  BY <1>1, <1>4, <1>5, <1>6, <1>7 DEF Inductive

(* What a step of the stage settles stays settled, and it acknowledges only *)
(* what is.                                                                 *)
LEMMA StageSettles ==
  ASSUME Inductive, StageStep, NEW m \in Message
  PROVE  /\ deadLetters[m] \in Nat /\ deadLetters'[m] >= deadLetters[m]
         /\ deadLetters'[m] > deadLetters[m] => m \in Poison
         /\ posts \subseteq posts'
         /\ Outstanding(m) => Outstanding(m)' \/ Settled(m)'
<1> USE DEF Inductive, Typed
<1>1. /\ ready \in Counts /\ unacked \in Counts /\ deadLetters \in Counts
      /\ deadLetters[m] \in Nat
  BY DEF TypeOK, SessionTypeOK, Counts
<1>2. ready' = ready
  BY StageFrame
<1>3. CASE AckInserted \/ AckIsolated
  <2>1. Current.msg \in Message /\ Settled(Current.msg)
    BY <1>3, CurrentMessage
       DEF AckInserted, AckIsolated, SettledBeforeAck, InBatchLoop, Current, Settled
  <2>2. Ack(Current.msg) /\ deadLetters' = deadLetters /\ posts' = posts
    BY <1>3 DEF AckInserted, AckIsolated, SettleCurrent
  <2>3. CASE m = Current.msg
    BY <1>1, <2>1, <2>2, <2>3 DEF Settled
  <2>4. CASE m # Current.msg
    BY <1>1, <1>2, <2>1, <2>2, <2>4, BrokerOwes
  <2> QED
    BY <2>3, <2>4
<1>4. CASE /\ working = "isolate" /\ Current.msg \in Poison
           /\ DeadLetter(Current.msg) /\ UNCHANGED << posts, unacked >>
  <2>1. Current.msg \in Message
    BY <1>4, CurrentMessage
  <2> QED
    BY <1>1, <1>2, <1>4, <2>1, DeadLetterCounts DEF Outstanding
<1>5. CASE UNCHANGED << deadLetters, unacked >> /\ posts \subseteq posts'
  BY <1>1, <1>2, <1>5 DEF Outstanding
<1> QED
  BY <1>3, <1>4, <1>5
     DEF StageStep, Persist, InsertBatch, InsertBatchRefused, InsertBatchFails,
         InsertOne, DeadLetterPoison, IsolateFails, AckRaises, brokerVars

LEMMA StageSafe ==
  ASSUME Inductive, StageStep
  PROVE  Inductive'
<1> USE DEF Inductive
<1>1. Typed'
  BY StageTyped
<1>2. ASSUME NEW m \in Message
      PROVE  /\ deadLetters[m] \in Nat /\ deadLetters'[m] \in Nat
             /\ deadLetters'[m] >= deadLetters[m]
             /\ deadLetters'[m] > deadLetters[m] => m \in Poison
             /\ posts \subseteq posts'
             /\ Outstanding(m) => Outstanding(m)' \/ Settled(m)'
  BY <1>1, StageSettles DEF Typed, TypeOK, SessionTypeOK, Counts
<1>3. UNCHANGED << accepted, receiving, hand >>
  BY StageFrame
<1>4. HandCopied'
  <2>1. receiving \in {"publish", "ack"} => hand[1].msg \in Message
    BY HeldMessage DEF Typed, TypeOK, SessionTypeOK, SessionShape
  <2> QED
    BY <1>2, <1>3, <2>1 DEF HandCopied
<1>5. SettledBeforeAck'
  <2>1. working' = "ack" => \A i \in 1 .. Len(batch') : batch'[i].msg \in posts'
    <3> SUFFICES ASSUME working' = "ack"
                 PROVE  \A i \in 1 .. Len(batch') : batch'[i].msg \in posts'
      OBVIOUS
    <3>1. CASE InsertBatch
      BY <3>1 DEF InsertBatch, StartBatchLoop, BatchMessages, Typed, TypeOK, SessionTypeOK
    <3>2. CASE AckInserted
      <4>1. /\ Len(batch') = Len(batch)
            /\ \A i \in 1 .. Len(batch) : batch'[i].msg = batch[i].msg
        BY <3>2, NextInBatchTypes
           DEF AckInserted, SettleCurrent, Typed, TypeOK, InBatchLoop
      <4> QED
        BY <3>2, <4>1 DEF AckInserted, SettledBeforeAck
    <3>3. InsertBatch \/ AckInserted
      <4>1. ASSUME AckIsolated PROVE FALSE
        BY <4>1, NextInBatchTypes DEF AckIsolated, SettleCurrent, Typed, TypeOK, InBatchLoop
      <4> QED
        BY <4>1 DEF StageStep, Persist, InsertBatchRefused, InsertBatchFails,
             InsertOne, DeadLetterPoison, IsolateFails, AckRaises, GiveUp,
             StartBatchLoop
    <3> QED
      BY <3>1, <3>2, <3>3
  <2>2. working' = "ackOne" => Settled(Current.msg)'
    <3> SUFFICES ASSUME working' = "ackOne" PROVE Settled(Current.msg)'
      OBVIOUS
    <3>1. CASE InsertOne
      BY <3>1 DEF InsertOne, Settled, Current
    <3>2. CASE DeadLetterPoison
      BY <3>2, CurrentMessage, DeadLetterCounts
         DEF DeadLetterPoison, Settled, Current, Typed, TypeOK, SessionTypeOK
    <3>3. InsertOne \/ DeadLetterPoison
      <4>1. ASSUME AckInserted \/ AckIsolated PROVE FALSE
        BY <4>1, NextInBatchTypes
           DEF AckInserted, AckIsolated, SettleCurrent, Typed, TypeOK, InBatchLoop
      <4> QED
        BY <4>1 DEF StageStep, Persist, InsertBatch, InsertBatchRefused,
             InsertBatchFails, IsolateFails, AckRaises, GiveUp, StartBatchLoop
    <3> QED
      BY <3>1, <3>2, <3>3
  <2> QED
    BY <2>1, <2>2 DEF SettledBeforeAck
<1>6. NoMessageLost'
  BY <1>2, <1>3 DEF NoMessageLost, Settled
<1>7. OnlyUnstorableDeadLettered'
  BY <1>2 DEF OnlyUnstorableDeadLettered
<1> QED
  BY <1>1, <1>4, <1>5, <1>6, <1>7

LEMMA InductiveStep == Inductive /\ [Next]_vars => Inductive'
<1> SUFFICES ASSUME Inductive, [Next]_vars PROVE Inductive'
  OBVIOUS
<1>1. CASE UNCHANGED vars
  BY <1>1 DEF vars, sessionVars, brokerVars, Inductive, Typed, TypeOK,
       SessionTypeOK, SessionShape, InBatchLoop, HandCopied, SettledBeforeAck,
       Settled, Current, NoMessageLost, Outstanding, OnlyUnstorableDeadLettered
<1>2. CASE SessionNext /\ UNCHANGED posts
  BY <1>2, SessionSafe
<1>3. CASE StageStep
  BY <1>3, StageSafe
<1> QED
  BY <1>1, <1>2, <1>3 DEF Next, StageStep

LEMMA InductiveInvariant == SafetySpec => []Inductive
BY InitInductive, InductiveStep, PTL DEF SafetySpec

-----------------------------------------------------------------------------
(* The state of storage-service is well-typed: the buffer stays within its  *)
(* capacity and the batch within BATCH_SIZE.                                *)
THEOREM TypeCorrect == SafetySpec => []TypeOK
<1>1. Inductive => TypeOK
  BY DEF Inductive, Typed
<1> QED
  BY <1>1, InductiveInvariant, PTL

(* No accepted message is ever lost, whatever fails and however often.      *)
THEOREM StorageLosesNothing == SafetySpec => []NoMessageLost
<1>1. Inductive => NoMessageLost
  BY DEF Inductive
<1> QED
  BY <1>1, InductiveInvariant, PTL

(* No outage and no poison neighbour ever dead-letters a valid post.        *)
THEOREM ValidPostsNeverDeadLettered == SafetySpec => []OnlyUnstorableDeadLettered
<1>1. Inductive => OnlyUnstorableDeadLettered
  BY DEF Inductive
<1> QED
  BY <1>1, InductiveInvariant, PTL

-----------------------------------------------------------------------------
(* The worker loses its place in a batch only with the batch: a step of the *)
(* stage is a StageMove of its session.                                     *)
LEMMA StageMoves ==
  ASSUME Typed, StageStep
  PROVE  StageMove
<1>1. /\ UNCHANGED << accepted, session, receiving, hand, buffer >>
      /\ working \in {"flush", "ack", "isolate", "ackOne"}
  BY StageFrame
<1> QED
  BY <1>1 DEF StageStep, Persist, InsertBatch, InsertBatchRefused,
       InsertBatchFails, AckInserted, InsertOne, DeadLetterPoison, IsolateFails,
       AckIsolated, AckRaises, StageMove, SessionSteps, StartBatchLoop, GiveUp,
       brokerVars

(* The account of a poison message: a surplus dead-letter copy is owed from *)
(* its confirmation to the acknowledgement, or some failure pays for it.    *)
AckStep == {"ackOne"}
PoisonPaid ==
  \A m \in Poison :
    deadLetters[m] + ready[m] + unacked[m] + Foreseen({m}, AckStep)
      <= accepted[m] + faults + Owed({m}, AckStep)

(* The inductive invariant of the books: DeliveriesBounded is not inductive *)
(* by itself, because whether a step leaves a second copy depends on what   *)
(* is acknowledged next, and whether that raises on which deliveries are    *)
(* stale.                                                                   *)
Booked ==
  /\ Inductive
  /\ ConsumerShape /\ WorkerShape /\ SessionBooks
  /\ Calm
  /\ MalformedPaid
  /\ PoisonPaid

LEMMA PoisonIsMessage ==
  /\ Poison \subseteq Message /\ Malformed \subseteq Message
  /\ Poison \cap Malformed = {}
  /\ AckStep \cap SessionSteps = {}
BY InboundAssumption, MalformedAssumption, PoisonAssumption DEF AckStep, SessionSteps

LEMMA BookedInit == Init => Booked
<1> SUFFICES ASSUME Init PROVE Booked
  OBVIOUS
<1>1. Inductive /\ SessionBooks /\ ConsumerShape /\ WorkerShape
  BY InitInductive, SessionBooksInit DEF Init
<1>2. /\ session = "down" /\ working = "stopped" /\ receiving = "stopped"
      /\ hand = << >> /\ buffer = << >> /\ batch = << >> /\ faults = 0
      /\ \A m \in Message : /\ deadLetters[m] = 0 /\ accepted[m] = 0
                            /\ ready[m] = 0 /\ unacked[m] = 0
  BY DEF Init, SessionInit, BrokerInit
<1>3. ~ StaleHeld
  BY <1>2, HasEmpty DEF StaleHeld
<1>4. ASSUME NEW m PROVE HandOwed(m) = 0 /\ HandForeseen(m) = 0
  BY <1>2 DEF HandOwed, HandAtAck, HandForeseen
<1>5. ASSUME NEW m PROVE Owed({m}, AckStep) = 0 /\ Foreseen({m}, AckStep) = 0
  BY <1>2 DEF Owed, Foreseen, AtAck, AckStep
<1>6. MalformedPaid
  <2> SUFFICES ASSUME NEW m \in Malformed
               PROVE  deadLetters[m] + ready[m] + unacked[m] + HandForeseen(m)
                        <= accepted[m] + faults + HandOwed(m)
    BY DEF MalformedPaid
  <2>1. HandOwed(m) = 0 /\ HandForeseen(m) = 0 /\ m \in Message
    BY <1>4, PoisonIsMessage
  <2> QED
    BY <1>2, <2>1
<1>7. PoisonPaid
  <2> SUFFICES ASSUME NEW m \in Poison
               PROVE  deadLetters[m] + ready[m] + unacked[m] + Foreseen({m}, AckStep)
                        <= accepted[m] + faults + Owed({m}, AckStep)
    BY DEF PoisonPaid
  <2>1. Owed({m}, AckStep) = 0 /\ Foreseen({m}, AckStep) = 0 /\ m \in Message
    BY <1>5, PoisonIsMessage
  <2> QED
    BY <1>2, <2>1
<1> QED
  BY <1>1, <1>2, <1>3, <1>6, <1>7 DEF Booked, Calm

LEMMA SessionKeepsPoisonPaid ==
  ASSUME Booked, SessionNext
  PROVE  PoisonPaid'
<1>1. SessionTypeOK /\ SessionShape /\ ConsumerShape /\ WorkerShape /\ HandCopied
      /\ SessionTypeOK'
  BY SessionTypes DEF Booked, Inductive, Typed, TypeOK
<1> SUFFICES ASSUME NEW m \in Poison
             PROVE  deadLetters'[m] + ready'[m] + unacked'[m] + Foreseen({m}, AckStep)'
                      <= accepted'[m] + faults' + Owed({m}, AckStep)'
  BY DEF PoisonPaid
<1>2. m \in Message /\ m \notin Malformed /\ AckStep \cap SessionSteps = {}
  BY PoisonIsMessage
<1>3. /\ ready[m] \in Nat /\ unacked[m] \in Nat /\ accepted[m] \in Nat
      /\ ready'[m] \in Nat /\ unacked'[m] \in Nat /\ accepted'[m] \in Nat
      /\ accepted[m] + ready'[m] + unacked'[m] <= accepted'[m] + ready[m] + unacked[m]
  BY <1>1, <1>2, SessionQueues
<1>4. faults + Owed({m}, AckStep) + Foreseen({m}, AckStep)'
        <= faults' + Owed({m}, AckStep)' + Foreseen({m}, AckStep)
  BY <1>1, <1>2, SessionPays
<1>5. deadLetters'[m] = deadLetters[m]
  <2>1. /\ deadLetters'[m] >= deadLetters[m] /\ ~ (deadLetters'[m] > deadLetters[m])
        /\ deadLetters[m] \in Nat /\ deadLetters'[m] \in Nat
    BY <1>1, <1>2, SessionSettles DEF SessionTypeOK, Counts
  <2> QED
    BY <2>1
<1>6. /\ faults \in Nat /\ faults' \in Nat /\ deadLetters[m] \in Nat
      /\ Owed({m}, AckStep) \in {0, 1} /\ Owed({m}, AckStep)' \in {0, 1}
      /\ Foreseen({m}, AckStep) \in {0, 1} /\ Foreseen({m}, AckStep)' \in {0, 1}
  BY <1>1, <1>2, BoundsAssumption DEF SessionTypeOK, Counts, Owed, Foreseen
<1>7. deadLetters[m] + ready[m] + unacked[m] + Foreseen({m}, AckStep)
        <= accepted[m] + faults + Owed({m}, AckStep)
  BY DEF Booked, PoisonPaid
<1> QED
  BY <1>3, <1>4, <1>5, <1>6, <1>7

(* The copy is made while nothing is owed, and the acknowledgement pays for *)
(* it; a failure between the two counts.                                    *)
LEMMA StageKeepsPoisonPaid ==
  ASSUME Booked, StageStep, Typed'
  PROVE  PoisonPaid'
<1>1. SessionTypeOK /\ SessionShape /\ ConsumerShape /\ WorkerShape /\ SessionBooks
      /\ SessionTypeOK' /\ StageMove /\ Typed
  BY StageMoves DEF Booked, Inductive, Typed, TypeOK
<1>2. /\ ready' = ready /\ accepted' = accepted
      /\ working \in {"flush", "ack", "isolate", "ackOne"}
  BY <1>1, StageFrame
<1> SUFFICES ASSUME NEW m \in Poison
             PROVE  deadLetters'[m] + ready'[m] + unacked'[m] + Foreseen({m}, AckStep)'
                      <= accepted'[m] + faults' + Owed({m}, AckStep)'
  BY DEF PoisonPaid
<1> DEFINE owed   == Owed({m}, AckStep)
           owedN  == Owed({m}, AckStep)'
           stale  == Foreseen({m}, AckStep)
           staleN == Foreseen({m}, AckStep)'
           here   == IF Current.msg \in {m} THEN 1 ELSE 0
           Goal   == deadLetters'[m] + ready[m] + unacked'[m] + staleN
                       <= accepted[m] + faults' + owedN
<1>3. m \in Message /\ AckStep \cap SessionSteps = {}
  BY PoisonIsMessage
<1>4. /\ ready[m] \in Nat /\ unacked[m] \in Nat /\ accepted[m] \in Nat
      /\ deadLetters[m] \in Nat /\ faults \in Nat
      /\ deadLetters \in Counts /\ unacked \in Counts
      /\ deadLetters'[m] \in Nat /\ unacked'[m] \in Nat /\ faults' \in Nat
  BY <1>1, <1>3, BoundsAssumption DEF SessionTypeOK, Counts
<1>5. deadLetters[m] + ready[m] + unacked[m] + stale <= accepted[m] + faults + owed
  BY DEF Booked, PoisonPaid
<1>6. /\ owed \in {0, 1} /\ owedN \in {0, 1} /\ stale \in {0, 1} /\ staleN \in {0, 1}
      /\ here \in {0, 1}
      /\ working \notin AckStep /\ working' \notin AckStep =>
           owed = 0 /\ owedN = 0 /\ staleN <= stale
      /\ working \notin AckStep /\ working' \in AckStep /\ working # "flush"
           /\ batch' = batch /\ pos' = pos =>
           owed = 0 /\ staleN + here <= owedN + stale
      /\ \A step : working \in AckStep /\ step \notin AckStep /\ SettleCurrent(step) =>
           owed = here /\ owedN = 0 /\ staleN <= stale
      /\ working \in AckStep /\ Current.state = "stale" /\ GiveUp =>
           owed = 0 /\ owedN = 0 /\ staleN = 0
  BY <1>1, <1>3, StagePays
<1> HIDE DEF owed, owedN, stale, staleN
<1>7. ASSUME working = "isolate", working' = "ackOne",
             UNCHANGED << unacked, batch, pos, faults >>,
             \/ DeadLetter(Current.msg)
             \/ Current.msg \notin Poison /\ UNCHANGED deadLetters
      PROVE  Goal
  <2>1. owed = 0 /\ staleN + here <= owedN + stale
    BY <1>6, <1>7 DEF AckStep
  <2>2. deadLetters'[m] = deadLetters[m] + here
    BY <1>3, <1>4, <1>7 DEF DeadLetter, Counts
  <2> HIDE DEF here
  <2> QED
    BY <1>4, <1>5, <1>6, <1>7, <2>1, <2>2
<1>8. ASSUME IsolateFails PROVE Goal
  <2>1. owed = 0 /\ owedN = 0 /\ staleN <= stale
    BY <1>6, <1>8 DEF AckStep, IsolateFails, GiveUp, StartBatchLoop
  <2>2. faults' = faults + 1 /\ unacked' = unacked
        /\ deadLetters'[m] \in {deadLetters[m], deadLetters[m] + 1}
    BY <1>3, <1>4, <1>8 DEF IsolateFails, Fault, DeadLetter, Counts
  <2> QED
    BY <1>4, <1>5, <1>6, <2>1, <2>2
<1>9. ASSUME AckIsolated PROVE Goal
  <2>1. /\ working = "ackOne" /\ SettleCurrent("isolate")
        /\ UNCHANGED << deadLetters, faults >>
    BY <1>9 DEF AckIsolated
  <2>2. owed = here /\ owedN = 0 /\ staleN <= stale
    BY <1>6, <2>1 DEF AckStep
  <2>3. unacked'[m] = unacked[m] - here
    BY <1>3, <1>4, <2>1 DEF SettleCurrent, Ack, Counts
  <2> HIDE DEF here
  <2> QED
    BY <1>4, <1>5, <1>6, <2>1, <2>2, <2>3
<1>10. ASSUME AckRaises PROVE Goal
  <2>1. /\ Current.state = "stale" /\ GiveUp /\ working' = "requeue"
        /\ UNCHANGED << deadLetters, unacked, faults >>
    BY <1>10 DEF AckRaises, GiveUp, StartBatchLoop, brokerVars
  <2>2. owed = 0 /\ owedN = 0 /\ staleN <= stale
    BY <1>2, <1>6, <2>1 DEF AckStep
  <2> QED
    BY <1>4, <1>5, <1>6, <2>1, <2>2
<1>11. ASSUME working \in {"flush", "ack"}, working' # "ackOne",
              UNCHANGED deadLetters, unacked'[m] <= unacked[m], faults <= faults'
       PROVE  Goal
  <2>1. owed = 0 /\ owedN = 0 /\ staleN <= stale
    BY <1>6, <1>11 DEF AckStep
  <2> QED
    BY <1>4, <1>5, <1>6, <1>11, <2>1
<1>12. ASSUME InsertBatch \/ InsertBatchRefused \/ InsertBatchFails PROVE Goal
  BY <1>4, <1>11, <1>12 DEF InsertBatch, InsertBatchRefused, InsertBatchFails,
     StartBatchLoop, GiveUp, Fault, brokerVars
<1>13. ASSUME AckInserted PROVE Goal
  BY <1>4, <1>11, <1>13 DEF AckInserted, SettleCurrent, Ack, NextInBatch, Counts
<1>14. ASSUME InsertOne \/ DeadLetterPoison PROVE Goal
  BY <1>7, <1>14 DEF InsertOne, DeadLetterPoison, brokerVars
<1>15. Goal
  BY <1>8, <1>9, <1>10, <1>12, <1>13, <1>14 DEF StageStep, Persist
<1> QED
  BY <1>2, <1>15 DEF staleN, owedN

LEMMA StageBooked ==
  ASSUME Booked, StageStep
  PROVE  Booked'
<1>1. Inductive' /\ Typed' /\ Typed
  BY StageSafe DEF Booked, Inductive
<1>2. SessionTypeOK /\ SessionShape /\ ConsumerShape /\ WorkerShape /\ SessionBooks
      /\ SessionTypeOK' /\ StageMove /\ Calm /\ MalformedPaid
  BY <1>1, StageMoves DEF Booked, Typed, TypeOK
<1>3. ConsumerShape' /\ WorkerShape' /\ SessionBooks'
  BY <1>2, StageKeepsBooks
<1>4. faults \in Nat /\ faults' \in Nat /\ faults <= faults'
      /\ (faults' = 0 => faults = 0 /\ (working' = "requeue" => StaleHeld))
  <2>1. faults \in Nat
    BY <1>2, BoundsAssumption DEF SessionTypeOK
  <2>2. faults' = faults + 1 \/ faults' = faults
    BY DEF StageStep, Persist, InsertBatch, InsertBatchRefused, InsertBatchFails,
           AckInserted, InsertOne, DeadLetterPoison, IsolateFails, AckIsolated,
           AckRaises, Fault
  <2>3. faults' = faults /\ working' = "requeue" => AckRaises
    BY <2>1 DEF StageStep, Persist, InsertBatch, InsertBatchRefused, InsertBatchFails,
           AckInserted, InsertOne, DeadLetterPoison, IsolateFails, AckIsolated,
           Fault, StartBatchLoop, SettleCurrent, NextInBatch
  <2>4. AckRaises => StaleHeld
    <3> SUFFICES ASSUME AckRaises PROVE StaleHeld
      OBVIOUS
    <3>1. pos \in 1 .. Len(batch) /\ batch[pos].state = "stale"
      BY <1>1 DEF AckRaises, Typed, InBatchLoop, Current
    <3> QED
      BY <3>1 DEF StaleHeld, Has
  <2> QED
    BY <2>1, <2>2, <2>3, <2>4
<1>5. Calm'
  BY <1>2, <1>4, StageKeepsCalm
<1>6. MalformedPaid'
  <2>1. ASSUME NEW m \in Malformed
        PROVE  deadLetters'[m] = deadLetters[m] /\ unacked'[m] <= unacked[m]
    <3>1. m \in Message /\ m \notin Poison
      BY PoisonIsMessage
    <3>2. /\ deadLetters[m] \in Nat /\ deadLetters'[m] \in Nat
          /\ unacked \in Counts /\ unacked[m] \in Nat
      BY <1>2, <3>1 DEF SessionTypeOK, Counts
    <3>3. deadLetters'[m] >= deadLetters[m] /\ ~ (deadLetters'[m] > deadLetters[m])
      BY <3>1, StageSettles DEF Booked
    <3>4. unacked' = unacked \/ Ack(Current.msg)
      BY DEF StageMove, SettleCurrent, StageStep, Persist, InsertBatch,
         InsertBatchRefused, InsertBatchFails, AckInserted, InsertOne,
         DeadLetterPoison, IsolateFails, AckIsolated, AckRaises, brokerVars
    <3>5. unacked'[m] <= unacked[m]
      BY <3>1, <3>2, <3>4 DEF Ack, Counts
    <3> QED
      BY <3>2, <3>3, <3>5
  <2>2. UNCHANGED ready
    BY <1>1, StageFrame
  <2> QED
    BY <1>2, <1>4, <2>1, <2>2, StageKeepsMalformedPaid
<1>7. PoisonPaid'
  BY <1>1, StageKeepsPoisonPaid
<1> QED
  BY <1>1, <1>3, <1>5, <1>6, <1>7 DEF Booked

LEMMA BookedStep == Booked /\ [Next]_vars => Booked'
<1> SUFFICES ASSUME Booked, [Next]_vars PROVE Booked'
  OBVIOUS
<1>1. Inductive'
  BY InductiveStep DEF Booked
<1>2. CASE UNCHANGED vars
  <2>1. UNCHANGED << ready, unacked, deadLetters, accepted, session, receiving,
                     hand, buffer, working, batch, pos, faults >>
    BY <1>2 DEF vars, sessionVars, brokerVars
  <2>2. /\ ConsumerShape' /\ WorkerShape' /\ Calm'
    BY <2>1 DEF Booked, ConsumerShape, WorkerShape, Calm, StaleHeld, Has
  <2>3. SessionBooks'
    BY <2>1 DEF Booked, SessionBooks, DeliveriesAccountedFor, Unsettled, HeldIn, CountIn
  <2>4. MalformedPaid'
    BY <2>1 DEF Booked, MalformedPaid, HandForeseen, HandOwed, HandAtAck, StaleHeld, Has
  <2>5. PoisonPaid'
    BY <2>1 DEF Booked, PoisonPaid, Foreseen, Owed, AtAck, StaleHeld, Has, Current
  <2> QED
    BY <1>1, <2>2, <2>3, <2>4, <2>5 DEF Booked
<1>3. CASE SessionNext /\ UNCHANGED posts
  <2>1. /\ SessionTypeOK /\ SessionShape /\ ConsumerShape /\ WorkerShape
        /\ SessionBooks /\ Calm /\ MalformedPaid
    BY DEF Booked, Inductive, Typed, TypeOK
  <2>2. ConsumerShape' /\ WorkerShape'
    BY <1>3, <2>1, SessionKeepsShape
  <2>3. SessionBooks' /\ Calm' /\ MalformedPaid'
    BY <1>3, <2>1, SessionKeepsBooks, SessionKeepsCalm, SessionKeepsMalformedPaid
  <2>4. PoisonPaid'
    BY <1>3, SessionKeepsPoisonPaid
  <2> QED
    BY <1>1, <2>2, <2>3, <2>4 DEF Booked
<1>4. CASE StageStep
  BY <1>4, StageBooked
<1> QED
  BY <1>2, <1>3, <1>4 DEF Next, StageStep

LEMMA BookedInvariant == SafetySpec => []Booked
BY BookedInit, BookedStep, PTL DEF SafetySpec

(* What is owed at most is one copy, of a message still unacknowledged.     *)
LEMMA CopiesBounded == Booked => DeadLetterCopiesBounded
<1> SUFFICES ASSUME Booked, NEW m \in Message
             PROVE  deadLetters[m] <= accepted[m] + faults
  BY DEF DeadLetterCopiesBounded
<1>1. SessionTypeOK /\ SessionShape /\ WorkerShape /\ DeliveriesAccountedFor
      /\ OnlyUnstorableDeadLettered
  BY DEF Booked, Inductive, Typed, TypeOK, SessionBooks
<1>2. /\ deadLetters[m] \in Nat /\ accepted[m] \in Nat /\ ready[m] \in Nat
      /\ unacked[m] \in Nat /\ faults \in Nat
  BY <1>1, BoundsAssumption DEF SessionTypeOK, Counts
<1>3. CASE m \in Malformed
  <2>1. deadLetters[m] + ready[m] + unacked[m] + HandForeseen(m)
          <= accepted[m] + faults + HandOwed(m)
    BY <1>3 DEF Booked, MalformedPaid
  <2>2. HandForeseen(m) \in {0, 1} /\ HandOwed(m) \in {0, 1}
    BY DEF HandForeseen, HandOwed
  <2>3. HandOwed(m) = 1 => unacked[m] >= 1
    <3> SUFFICES ASSUME HandAtAck(m, "live") PROVE unacked[m] >= 1
      BY DEF HandOwed
    <3>1. Len(hand) = 1 /\ hand[1].state = "live" /\ hand[1].msg = m
      BY <1>1 DEF HandAtAck, SessionShape
    <3>2. 1 \in 1 .. Len(hand)
      BY <3>1
    <3> QED
      BY <1>1, <3>1, <3>2, LiveIsUnacked
  <2> QED
    BY <1>2, <2>1, <2>2, <2>3
<1>4. CASE m \in Poison
  <2>1. deadLetters[m] + ready[m] + unacked[m] + Foreseen({m}, AckStep)
          <= accepted[m] + faults + Owed({m}, AckStep)
    BY <1>4 DEF Booked, PoisonPaid
  <2>2. Foreseen({m}, AckStep) \in {0, 1} /\ Owed({m}, AckStep) \in {0, 1}
    BY DEF Foreseen, Owed
  <2>3. Owed({m}, AckStep) = 1 => unacked[m] >= 1
    <3> SUFFICES ASSUME AtAck({m}, AckStep, "live") PROVE unacked[m] >= 1
      BY DEF Owed
    <3>1. pos \in 1 .. Len(batch) /\ batch[pos].state = "live" /\ batch[pos].msg = m
      BY <1>1, PoisonIsMessage DEF AtAck, WorkerShape, Current
    <3> QED
      BY <1>1, <3>1, LiveIsUnacked
  <2> QED
    BY <1>2, <2>1, <2>2, <2>3
<1>5. CASE m \notin Malformed \cup Poison
  BY <1>1, <1>2, <1>5 DEF OnlyUnstorableDeadLettered
<1> QED
  BY <1>3, <1>4, <1>5

(* Every delivery is where the broker believes it to be, a message has more *)
(* dead-letter copies than publications only as often as a failure struck,  *)
(* and while the channel lives the consumer task never blocks on its buffer *)
(* (prefetch_count equals the queue's maxsize): for every batch size.       *)
THEOREM StorageKeepsBooks == SafetySpec => []DeliveriesBounded
<1>1. Booked => DeliveriesBounded
  <2> SUFFICES ASSUME Booked PROVE DeliveriesBounded
    OBVIOUS
  <2>1. DeliveriesAccountedFor /\ DeadLetterCopiesBounded
    BY CopiesBounded DEF Booked, SessionBooks
  <2>2. PutNeverBlocks
    BY RoomForHand DEF PutNeverBlocks, Booked, Inductive, Typed, TypeOK
  <2> QED
    BY <2>1, <2>2 DEF DeliveriesBounded
<1> QED
  BY <1>1, BookedInvariant, PTL

(* A message goes back to the queue only after a failure: neither a poison  *)
(* nor a malformed message makes its neighbours be delivered again.         *)
THEOREM StorageRequeuesOnlyAfterFailure == SafetySpec => RequeuedOnlyAfterFailure
<1> DEFINE Returned == \E m \in Message : ready'[m] > ready[m] /\ accepted'[m] = accepted[m]
<1>1. ASSUME Booked, [Next]_vars, Returned, NEW m \in Message,
             ready'[m] > ready[m], accepted'[m] = accepted[m]
      PROVE  faults' > 0
  <2>1. SessionTypeOK /\ SessionShape /\ ConsumerShape /\ WorkerShape /\ Calm /\ Typed
    BY <1>1 DEF Booked, Inductive, Typed, TypeOK
  <2>2. faults' \in Nat /\ ready[m] \in Nat
    <3>1. Booked'
      BY <1>1, BookedStep
    <3> QED
      BY <2>1, <3>1, BoundsAssumption
         DEF Booked, Inductive, Typed, TypeOK, SessionTypeOK, Counts
  <2>3. ~ UNCHANGED vars
    BY <1>1, <2>2 DEF vars, sessionVars, brokerVars
  <2>4. ~ StageStep
    <3>1. StageStep => ready' = ready
      BY <2>1, StageFrame
    <3> QED
      BY <1>1, <2>2, <3>1
  <2>5. SessionNext
    BY <1>1, <2>3, <2>4 DEF Next, StageStep
  <2>6. ready'[m] \in Nat
    BY <2>1, <2>5, SessionTypes DEF SessionTypeOK, Counts
  <2>7. faults' # 0
    BY <1>1, <2>1, <2>2, <2>5, <2>6, CalmKeepsQueue
  <2> QED
    BY <2>2, <2>7
<1>2. Booked /\ [Next]_vars => [Returned => faults' > 0]_vars
  BY <1>1
<1> QED
  BY <1>2, BookedInvariant, PTL DEF SafetySpec, RequeuedOnlyAfterFailure

-----------------------------------------------------------------------------
(* Everything the stage holds was accepted before: Settlement stores and    *)
(* rejects accepted messages only.                                          *)
OfAccepted(s) == \A i \in 1 .. Len(s) : accepted[s[i].msg] > 0

Origins ==
  /\ \A m \in Message : Outstanding(m) => accepted[m] > 0
  /\ OfAccepted(hand) /\ OfAccepted(buffer) /\ OfAccepted(batch)

-----------------------------------------------------------------------------
LEMMA OriginsInit == Init => Origins
<1> SUFFICES ASSUME Init PROVE Origins
  OBVIOUS
<1>1. ASSUME NEW m \in Message PROVE ~ Outstanding(m)
  <2>1. ready[m] = 0 /\ unacked[m] = 0
    BY DEF Init, SessionInit, BrokerInit
  <2> QED
    BY <2>1 DEF Outstanding
<1>2. hand = << >> /\ buffer = << >> /\ batch = << >> /\ Len(<< >>) = 0
  BY DEF Init, SessionInit
<1> QED
  BY <1>1, <1>2 DEF Origins, OfAccepted

LEMMA SessionOrigins ==
  ASSUME Typed, Origins, SessionNext, UNCHANGED posts
  PROVE  Origins'
<1> DEFINE A == { m \in Message : accepted'[m] > 0 }
<1>1. SessionTypeOK /\ SessionShape
  BY DEF Typed, TypeOK
<1>2. \A m \in Message : accepted[m] > 0 => m \in A
  BY <1>1, SessionOpens
<1>3. /\ AllFrom(A, hand) /\ AllFrom(A, buffer) /\ AllFrom(A, batch)
      /\ \A m \in Message : Outstanding(m) => m \in A
  BY <1>1, <1>2, HeldMessage DEF Origins, OfAccepted, AllFrom, SessionTypeOK
<1> HIDE DEF A
<1>4. AllFrom(A, hand') /\ AllFrom(A, buffer') /\ AllFrom(A, batch')
  BY <1>1, <1>3, SessionKeepsOrigins DEF HeldFrom
<1>5. \A m \in Message : Outstanding(m)' => accepted'[m] > 0
  <2>1. ASSUME NEW m \in Message, Outstanding(m)' PROVE accepted'[m] > 0
    <3>1. Outstanding(m) \/ (m \in Inbound /\ accepted'[m] > 0)
      BY <1>1, <2>1, SessionOpens
    <3> QED
      BY <1>3, <3>1 DEF A
  <2> QED
    BY <2>1
<1> QED
  BY <1>4, <1>5 DEF A, Origins, OfAccepted, AllFrom

(* The stage takes nothing but its batch, and puts nothing in the queue.    *)
LEMMA StageOrigins ==
  ASSUME Typed, Origins, StageStep
  PROVE  Origins'
<1>1. UNCHANGED << ready, accepted, hand, buffer >>
  BY StageFrame
<1>2. batch \in Seq(Delivery) /\ \A i \in 1 .. Len(batch) : batch[i].msg \in Message
  BY HeldMessage DEF Typed, TypeOK, SessionTypeOK
<1>3. \/ batch' \in {batch, << >>}
      \/ pos \in 1 .. Len(batch) /\ batch' = [batch EXCEPT ![pos] = AsDone(@)]
  <2>1. working \in {"ack", "ackOne"} => pos \in 1 .. Len(batch)
    BY DEF Typed, InBatchLoop
  <2> QED
    BY <2>1 DEF StageStep, Persist, InsertBatch, InsertBatchRefused,
         InsertBatchFails, AckInserted, InsertOne, DeadLetterPoison,
         IsolateFails, AckIsolated, AckRaises, SettleCurrent, NextInBatch,
         GiveUp, StartBatchLoop
<1>4. OfAccepted(batch)'
  <2> DEFINE A == { m \in Message : accepted[m] > 0 }
  <2>1. \A i \in 1 .. Len(batch) : batch[i].msg \in A
    BY <1>2 DEF Origins, OfAccepted
  <2> HIDE DEF A
  <2>2. \A i \in 1 .. Len(batch') : batch'[i].msg \in A
    BY <1>2, <1>3, <2>1, OriginsKept
  <2> QED
    BY <1>1, <2>2 DEF A, OfAccepted
<1>5. ASSUME NEW m \in Message, Outstanding(m)' PROVE Outstanding(m)
  <2>1. unacked' = unacked \/ Ack(Current.msg)
    BY DEF StageStep, Persist, InsertBatch, InsertBatchRefused,
         InsertBatchFails, AckInserted, InsertOne, DeadLetterPoison,
         IsolateFails, AckIsolated, AckRaises, SettleCurrent, brokerVars
  <2>2. unacked \in Counts
    BY DEF Typed, TypeOK, SessionTypeOK
  <2> QED
    BY <1>1, <1>5, <2>1, <2>2 DEF Outstanding, Ack, Counts
<1> QED
  BY <1>1, <1>4, <1>5 DEF Origins, OfAccepted

Refinable == Inductive /\ Origins

LEMMA OriginsStep == Refinable /\ [Next]_vars => Refinable'
<1> SUFFICES ASSUME Refinable, [Next]_vars PROVE Refinable'
  OBVIOUS
<1>1. Inductive'
  BY InductiveStep DEF Refinable
<1>2. CASE UNCHANGED vars
  BY <1>1, <1>2 DEF Refinable, vars, sessionVars, brokerVars, Origins,
       OfAccepted, Outstanding
<1>3. CASE SessionNext /\ UNCHANGED posts
  BY <1>1, <1>3, SessionOrigins DEF Refinable, Inductive
<1>4. CASE StageStep
  BY <1>1, <1>4, StageOrigins DEF Refinable, Inductive
<1> QED
  BY <1>2, <1>3, <1>4 DEF Next, StageStep

LEMMA RefinableInvariant == SafetySpec => []Refinable
<1>1. Init => Refinable
  BY InitInductive, OriginsInit DEF Refinable
<1> QED
  BY <1>1, OriginsStep, PTL DEF SafetySpec

-----------------------------------------------------------------------------
(* An acknowledgement of a settled message is a Settle step, or none when   *)
(* the broker owes another copy of it.                                      *)
LEMMA AckMaps ==
  ASSUME Typed, NEW m \in Message, Ack(m), Settled(m),
         UNCHANGED << ready, deadLetters, accepted, posts >>
  PROVE  [Promise!Next]_(Promise!settlementVars)
<1> DEFINE open  == { d \in Message : Outstanding(d) }
           openN == { d \in Message : Outstanding(d)' }
<1>1. ready \in Counts /\ unacked \in Counts
  BY DEF Typed, TypeOK, SessionTypeOK
<1>2. Outstanding(m)
  BY <1>1 DEF Ack, Counts, Outstanding
<1>3. \A d \in Message : d # m => (Outstanding(d)' <=> Outstanding(d))
  BY <1>1 DEF Ack, Counts, Outstanding
<1>4. /\ { d \in Message : accepted'[d] > 0 } = { d \in Message : accepted[d] > 0 }
      /\ { d \in Message : deadLetters'[d] > 0 } = { d \in Message : deadLetters[d] > 0 }
      /\ posts' = posts
  OBVIOUS
<1>5. CASE Outstanding(m)'
  <2>1. openN = open
    BY <1>2, <1>3, <1>5
  <2> QED
    BY <1>4, <2>1 DEF Promise!settlementVars
<1>6. CASE ~ Outstanding(m)'
  <2>1. openN = open \ {m}
    BY <1>3, <1>6
  <2>2. m \in open \cap (posts \cup { d \in Message : deadLetters[d] > 0 })
    BY <1>2 DEF Settled
  <2>3. Promise!Settle(m)
    BY <1>4, <2>1, <2>2 DEF Promise!Settle
  <2> QED
    BY <2>3 DEF Promise!Next
<1> QED
  BY <1>5, <1>6

LEMMA RejectMaps ==
  ASSUME Typed, NEW m \in Malformed \cup Poison, m \in Message, accepted[m] > 0,
         DeadLetter(m), UNCHANGED << ready, unacked, accepted, posts >>
  PROVE  [Promise!Next]_(Promise!settlementVars)
<1>1. deadLetters \in Counts
  BY DEF Typed, TypeOK, SessionTypeOK
<1>2. ASSUME NEW d \in Message
      PROVE  (deadLetters'[d] > 0) <=> (deadLetters[d] > 0 \/ d = m)
  BY <1>1 DEF DeadLetter, Counts
<1>3. { d \in Message : deadLetters'[d] > 0 }
        = { d \in Message : deadLetters[d] > 0 } \cup {m}
  BY <1>2
<1>4. { d \in Message : Outstanding(d)' } = { d \in Message : Outstanding(d) }
  BY DEF Outstanding
<1>5. Promise!Reject(m)
  BY <1>3, <1>4 DEF Promise!Reject
<1> QED
  BY <1>5 DEF Promise!Next

LEMMA StoreMaps ==
  ASSUME NEW S \in SUBSET Message, \A m \in S : accepted[m] > 0,
         posts' = posts \cup S, UNCHANGED << brokerVars, accepted >>
  PROVE  [Promise!Next]_(Promise!settlementVars)
<1>1. /\ { d \in Message : Outstanding(d)' } = { d \in Message : Outstanding(d) }
      /\ { d \in Message : deadLetters'[d] > 0 } = { d \in Message : deadLetters[d] > 0 }
      /\ { d \in Message : accepted'[d] > 0 } = { d \in Message : accepted[d] > 0 }
      /\ S \subseteq { d \in Message : accepted[d] > 0 }
  BY DEF brokerVars, Outstanding
<1>2. Promise!Store(S)
  BY <1>1 DEF Promise!Store
<1> QED
  BY <1>2 DEF Promise!Next

(* What changes the state of no message is no step of the promise.          *)
LEMMA Stutters ==
  ASSUME UNCHANGED << deadLetters, accepted, posts >>,
         \A m \in Message : Outstanding(m)' <=> Outstanding(m)
  PROVE  [Promise!Next]_(Promise!settlementVars)
<1>1. { d \in Message : Outstanding(d)' } = { d \in Message : Outstanding(d) }
  OBVIOUS
<1> QED
  BY <1>1 DEF Promise!settlementVars

LEMMA AcceptMaps ==
  ASSUME Typed, NEW m \in Inbound, Publish(m), UNCHANGED posts
  PROVE  [Promise!Next]_(Promise!settlementVars)
<1>1. /\ ready \in Counts /\ accepted \in Counts /\ m \in Message
  BY InboundAssumption DEF Typed, TypeOK, SessionTypeOK
<1>2. ASSUME NEW d \in Message
      PROVE  /\ accepted'[d] > 0 <=> (accepted[d] > 0 \/ d = m)
             /\ Outstanding(d)' <=> (Outstanding(d) \/ d = m)
  <2>1. /\ ready' = [ready EXCEPT ![m] = @ + 1] /\ unacked' = unacked
        /\ accepted' = [accepted EXCEPT ![m] = @ + 1]
    BY DEF Publish, Enqueue
  <2>2. CASE d = m
    BY <1>1, <2>1, <2>2 DEF Counts, Outstanding
  <2>3. CASE d # m
    BY <1>1, <2>1, <2>3 DEF Counts, Outstanding
  <2> QED
    BY <2>2, <2>3
<1>3. { d \in Message : accepted'[d] > 0 } = { d \in Message : accepted[d] > 0 } \cup {m}
  BY <1>1, <1>2
<1>4. { d \in Message : Outstanding(d)' } = { d \in Message : Outstanding(d) } \cup {m}
  BY <1>1, <1>2
<1>5. deadLetters' = deadLetters
  BY DEF Publish
<1>6. Promise!Accept(m)
  BY <1>3, <1>4, <1>5 DEF Promise!Accept
<1> QED
  BY <1>1, <1>6 DEF Promise!Next

-----------------------------------------------------------------------------
LEMMA SessionMaps ==
  ASSUME Refinable, SessionNext, UNCHANGED posts
  PROVE  [Promise!Next]_(Promise!settlementVars)
<1> USE DEF Refinable, Inductive
<1>1. ready \in Counts /\ unacked \in Counts
  BY DEF Typed, TypeOK, SessionTypeOK
<1>2. receiving \in {"publish", "ack"} =>
        hand[1].msg \in Message /\ accepted[hand[1].msg] > 0
  <2>1. receiving \in {"publish", "ack"} => hand \in Seq(Delivery) /\ 1 \in 1 .. Len(hand)
    <3>1. hand \in Seq(Delivery) /\ (receiving \in {"publish", "ack"} => Len(hand) = 1)
      BY DEF Typed, TypeOK, SessionTypeOK, SessionShape
    <3> HIDE DEF Refinable, Inductive
    <3> QED
      BY <3>1
  <2> QED
    BY <2>1, HeldMessage DEF Origins, OfAccepted
<1>3. ASSUME NEW d \in Inbound, Publish(d)
      PROVE  [Promise!Next]_(Promise!settlementVars)
  BY <1>3, AcceptMaps
<1>4. CASE UNCHANGED << brokerVars, accepted >>
  BY <1>4, Stutters DEF brokerVars, Outstanding
<1>5. CASE /\ UNCHANGED << deadLetters, accepted >>
           /\ RequeueUnacked \/ \E d \in Message : Deliver(d) \/ Requeue(d)
  <2>1. ASSUME NEW m \in Message PROVE Outstanding(m)' <=> Outstanding(m)
    BY <1>1, <1>5 DEF RequeueUnacked, Deliver, Requeue, Counts, Outstanding
  <2> QED
    BY <1>5, <2>1, Stutters
<1>6. CASE /\ receiving = "publish" /\ DeadLetter(hand[1].msg)
           /\ UNCHANGED << ready, unacked, accepted >>
  BY <1>2, <1>6, RejectMaps DEF HandCopied
<1>7. CASE /\ receiving = "ack" /\ Ack(hand[1].msg)
           /\ UNCHANGED << ready, deadLetters, accepted >>
  BY <1>2, <1>7, AckMaps DEF HandCopied, Settled
<1> QED
  BY <1>3, <1>4, <1>5, <1>6, <1>7, SessionBroker DEF Typed, TypeOK

LEMMA StageMaps ==
  ASSUME Refinable, StageStep
  PROVE  [Promise!Next]_(Promise!settlementVars)
<1> USE DEF Refinable, Inductive
<1>1. UNCHANGED << ready, accepted >>
  BY StageFrame
<1>2. /\ BatchMessages \in SUBSET Message
      /\ \A m \in BatchMessages : accepted[m] > 0
  <2>1. /\ batch \in Seq(Delivery) /\ DOMAIN batch = 1 .. Len(batch)
        /\ \A i \in 1 .. Len(batch) : accepted[batch[i].msg] > 0
    BY DEF Typed, TypeOK, SessionTypeOK, Origins, OfAccepted
  <2>2. \A i \in 1 .. Len(batch) : batch[i].msg \in Message
    BY <2>1, HeldMessage
  <2> QED
    BY <2>1, <2>2 DEF BatchMessages
<1>3. working \in {"ack", "isolate", "ackOne"} =>
        Current.msg \in Message /\ accepted[Current.msg] > 0
  BY CurrentMessage DEF Typed, InBatchLoop, Current, Origins, OfAccepted
<1>4. CASE AckInserted \/ AckIsolated
  <2>1. Current.msg \in Message /\ Settled(Current.msg)
    BY <1>3, <1>4
       DEF AckInserted, AckIsolated, SettledBeforeAck, Typed, InBatchLoop,
           Current, Settled
  <2>2. Ack(Current.msg) /\ UNCHANGED << deadLetters, posts >>
    BY <1>4 DEF AckInserted, AckIsolated, SettleCurrent
  <2> QED
    BY <1>1, <2>1, <2>2, AckMaps
<1>5. CASE UNCHANGED << unacked, deadLetters, posts >>
  BY <1>1, <1>5, Stutters DEF Outstanding
<1>6. CASE UNCHANGED << unacked, deadLetters >> /\ posts' = posts \cup BatchMessages
  BY <1>1, <1>2, <1>6, StoreMaps DEF brokerVars
<1>7. CASE /\ working = "isolate" /\ UNCHANGED << unacked, deadLetters >>
           /\ posts' = posts \cup {Current.msg}
  <2>1. {Current.msg} \in SUBSET Message /\ \A m \in {Current.msg} : accepted[m] > 0
    BY <1>3, <1>7
  <2> QED
    BY <1>1, <1>7, <2>1, StoreMaps DEF brokerVars
<1>8. CASE /\ working = "isolate" /\ Current.msg \in Poison
           /\ DeadLetter(Current.msg) /\ UNCHANGED << unacked, posts >>
  BY <1>1, <1>3, <1>8, RejectMaps
<1> QED
  BY <1>4, <1>5, <1>6, <1>7, <1>8
     DEF StageStep, Persist, InsertBatch, InsertBatchRefused, InsertBatchFails,
         InsertOne, DeadLetterPoison, IsolateFails, AckRaises, brokerVars

LEMMA StepMaps == Refinable /\ [Next]_vars => [Promise!Next]_(Promise!settlementVars)
<1> SUFFICES ASSUME Refinable, [Next]_vars
             PROVE  [Promise!Next]_(Promise!settlementVars)
  OBVIOUS
<1>1. CASE UNCHANGED vars
  BY <1>1, Stutters DEF vars, sessionVars, brokerVars, Outstanding
<1>2. CASE SessionNext /\ UNCHANGED posts
  BY <1>2, SessionMaps
<1>3. CASE StageStep
  BY <1>3, StageMaps
<1> QED
  BY <1>1, <1>2, <1>3 DEF Next, StageStep

LEMMA InitMaps == Init => Promise!Init
BY DEF Init, SessionInit, BrokerInit, Outstanding, Promise!Init

(* Whatever fails, the storage stage behaves like the promise: a message is *)
(* forgotten only once it is in the table or in the dead-letter queue.      *)
THEOREM StorageImplementsSettlement == SafetySpec => ImplementsSettlement
BY InitMaps, StepMaps, RefinableInvariant, PTL
   DEF SafetySpec, ImplementsSettlement, Promise!Spec

-----------------------------------------------------------------------------
(* insert_scored_batch_async is one transaction, so that a batch with a     *)
(* post PostgreSQL refuses leaves no row, that of the post least of all.    *)
LEMMA NoPoisonStored == SafetySpec => [](posts \cap Poison = {})
<1>1. Init => posts \cap Poison = {}
  BY DEF Init
<1>2. ASSUME posts \cap Poison = {}, [Next]_vars PROVE (posts \cap Poison = {})'
  <2>1. CASE InsertBatch \/ InsertBatchFails
    BY <1>2, <2>1 DEF InsertBatch, InsertBatchFails
  <2>2. CASE InsertOne \/ IsolateFails
    BY <1>2, <2>2 DEF InsertOne, IsolateFails
  <2>3. CASE UNCHANGED posts
    BY <1>2, <2>3
  <2> QED
    BY <1>2, <2>1, <2>2, <2>3 DEF Next, Persist, InsertBatchRefused, AckInserted,
       DeadLetterPoison, AckIsolated, AckRaises, vars
<1> QED
  BY <1>1, <1>2, PTL DEF SafetySpec
=============================================================================
