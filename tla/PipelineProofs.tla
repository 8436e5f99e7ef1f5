---------------------------- MODULE PipelineProofs ----------------------------
(***************************************************************************)
(* preprocessing-service for every set of posts, prefetch window and       *)
(* number of failures: type correctness, that the broker waits for exactly *)
(* what the consumer holds, that burials and surplus copies are paid for,  *)
(* and that the stage implements the settlement promise.  Then the three   *)
(* services in a row: the theorems on each stage hold of its instance, and *)
(* the promises of the stages compose to one from the producers to the     *)
(* posts table.                                                            *)
(***************************************************************************)
EXTENDS Pipeline, SequenceTheorems, FiniteSetTheorems, TLAPS

PreDelivery == [msg : Message, live : BOOLEAN]

LiveCopy(m) == [msg |-> m, live |-> TRUE]

LiveCopies(s, m) == Cardinality({ i \in DOMAIN s : s[i] = LiveCopy(m) })

(* While a delivery is handled, there is one.                               *)
PreTyped ==
  /\ PreTypeOK
  /\ doing \notin {"idle", "raised"} => held # << >>

AtHand(p) == held # << >> /\ HeldPost = p

(* The channel goes away under all deliveries that are held, so the stale   *)
(* ones come first: behind a live delivery there are only live ones.        *)
LiveTogether ==
  held # << >> /\ HeldLive => \A i \in DOMAIN held : held[i].live

(* A copy that waits to be handled is in the queue, and so is one that was  *)
(* handled and is still to be acknowledged (Passed): that one is counted    *)
(* twice.  A stale delivery that is worked on was given back, and may have  *)
(* one more effect before the session ends (Astray).                        *)
Queued(p) ==
  ready[<< p, 0 >>] + ready[<< p, 1 >>] + unacked[<< p, 0 >>] + unacked[<< p, 1 >>]
Passed(p) == IF AtHand(p) /\ HeldLive /\ doing = "ack" THEN 1 ELSE 0
Astray(p) ==
  IF AtHand(p) /\ ~ HeldLive /\ doing \notin {"ack", "raised"} THEN 1 ELSE 0

CopiesPaid ==
  \A p \in Raw :
    clean[p] + Queued(p) + Astray(p) <= taken[p] + preFaults + Passed(p)

(* A second attempt comes after a failed first one, and what is about to be *)
(* buried has failed in this attempt, too, unless it is illformed.          *)
FailuresTraced ==
  /\ \A p \in Raw : Outstanding(<< p, 1 >>) => failures[p] >= 1
  /\ \A i \in DOMAIN held : held[i].msg[2] = 1 => failures[held[i].msg[1]] >= 1
  /\ doing = "retry" => failures[HeldPost] >= 1 + Held[2]
  /\ doing = "deadLetter" => HeldPost \in Illformed

(* What is about to be acknowledged was passed on, buried, dropped, or has  *)
(* its copy for a second attempt in the queue.                              *)
CoveredBeforeAck ==
  /\ doing = "ackShort" => HeldPost \in dropped
  /\ doing = "ack" =>
       \/ clean[HeldPost] > 0
       \/ Buried(HeldPost)
       \/ Held[2] = 0 /\ Outstanding(<< HeldPost, 1 >>)

(* Only what a producer published is in the queue and in hand.              *)
FromProducers ==
  /\ \A p \in Raw : Pending(p) => taken[p] > 0
  /\ \A i \in DOMAIN held : taken[held[i].msg[1]] > 0

PreInductive ==
  /\ PreTyped /\ LiveTogether /\ CopiesPaid /\ FailuresTraced
  /\ BuriedAfterTwoFailures /\ CoveredBeforeAck /\ FromProducers

-----------------------------------------------------------------------------
LEMMA MessageParts ==
  ASSUME NEW m \in Message
  PROVE  m[1] \in Raw /\ m[2] \in {0, 1} /\ m = << m[1], m[2] >>
BY RawAssumption

LEMMA MessageOfParts ==
  ASSUME NEW p \in Raw, NEW a \in {0, 1}
  PROVE  << p, a >> \in Message
BY RawAssumption

(* Counting the live copies of a message in the hands of the consumer.      *)
LEMMA CopiesType ==
  ASSUME NEW s \in Seq(PreDelivery), NEW m
  PROVE  /\ IsFiniteSet({ i \in DOMAIN s : s[i] = LiveCopy(m) })
         /\ LiveCopies(s, m) \in Nat
<1>1. DOMAIN s = 1 .. Len(s) /\ Len(s) \in Nat
  OBVIOUS
<1>2. IsFiniteSet(DOMAIN s)
  BY <1>1, FS_Interval
<1>3. IsFiniteSet({ i \in DOMAIN s : s[i] = LiveCopy(m) })
  BY <1>2, FS_Subset
<1> QED
  BY <1>3, FS_CardinalityType DEF LiveCopies

LEMMA NoCopies ==
  ASSUME NEW s \in Seq(PreDelivery), NEW m,
         \A i \in 1 .. Len(s) : s[i] # LiveCopy(m)
  PROVE  LiveCopies(s, m) = 0
<1>1. { i \in DOMAIN s : s[i] = LiveCopy(m) } = {}
  OBVIOUS
<1> QED
  BY <1>1, FS_EmptySet DEF LiveCopies

LEMMA CopiesAppend ==
  ASSUME NEW s \in Seq(PreDelivery), NEW d \in PreDelivery, NEW m
  PROVE  LiveCopies(Append(s, d), m)
           = LiveCopies(s, m) + IF d = LiveCopy(m) THEN 1 ELSE 0
<1> DEFINE S == { i \in DOMAIN s : s[i] = LiveCopy(m) }
           T == { i \in DOMAIN Append(s, d) : Append(s, d)[i] = LiveCopy(m) }
<1>1. /\ DOMAIN s = 1 .. Len(s) /\ Len(s) \in Nat
      /\ DOMAIN Append(s, d) = 1 .. Len(s) + 1
      /\ \A i \in 1 .. Len(s) : Append(s, d)[i] = s[i]
      /\ Append(s, d)[Len(s) + 1] = d
  BY AppendProperties
<1>2. IsFiniteSet(S)
  BY CopiesType
<1>3. CASE d = LiveCopy(m)
  <2>1. T = S \cup {Len(s) + 1} /\ Len(s) + 1 \notin S
    BY <1>1, <1>3
  <2> QED
    BY <1>2, <1>3, <2>1, FS_AddElement DEF LiveCopies
<1>4. CASE d # LiveCopy(m)
  <2>1. T = S
    BY <1>1, <1>4
  <2>2. LiveCopies(Append(s, d), m) = LiveCopies(s, m)
    BY <2>1 DEF LiveCopies
  <2>3. LiveCopies(s, m) \in Nat
    BY CopiesType
  <2> QED
    BY <1>4, <2>2, <2>3
<1> QED
  BY <1>3, <1>4

LEMMA CopiesTail ==
  ASSUME NEW s \in Seq(PreDelivery), s # << >>, NEW m
  PROVE  LiveCopies(s, m)
           = LiveCopies(Tail(s), m) + IF Head(s) = LiveCopy(m) THEN 1 ELSE 0
<1> DEFINE S == { i \in DOMAIN s : s[i] = LiveCopy(m) }
           T == { i \in DOMAIN Tail(s) : Tail(s)[i] = LiveCopy(m) }
           R == { i + 1 : i \in T }
           next == [i \in T |-> i + 1]
<1>1. /\ DOMAIN s = 1 .. Len(s) /\ Len(s) \in Nat /\ 1 \in 1 .. Len(s)
      /\ Tail(s) \in Seq(PreDelivery) /\ DOMAIN Tail(s) = 1 .. Len(s) - 1
      /\ \A i \in 1 .. Len(s) - 1 : Tail(s)[i] = s[i + 1]
      /\ Head(s) = s[1]
  BY HeadTailProperties, EmptySeq
<1>2. IsFiniteSet(T)
  BY <1>1, CopiesType
<1>3. \A i \in T : i \in Nat
  BY <1>1
<1>4. next \in Bijection(T, R)
  BY <1>3 DEF Bijection, Injection, Surjection, IsInjective
<1>5. IsFiniteSet(R) /\ Cardinality(R) = Cardinality(T)
  <2>1. ExistsBijection(T, R)
    BY <1>4 DEF ExistsBijection
  <2> QED
    BY <1>2, <2>1, FS_Bijection
<1>6. R = S \ {1}
  <2>1. ASSUME NEW j \in S, j # 1 PROVE j \in R
    <3>1. j - 1 \in T /\ j = (j - 1) + 1
      BY <1>1, <2>1
    <3> QED
      BY <3>1
  <2>2. ASSUME NEW i \in T PROVE i + 1 \in S /\ i + 1 # 1
    BY <1>1
  <2> QED
    BY <2>1, <2>2
<1>7. LiveCopies(s, m) = Cardinality(S) /\ LiveCopies(Tail(s), m) = Cardinality(T)
  BY DEF LiveCopies
<1>8. CASE Head(s) = LiveCopy(m)
  <2>1. S = R \cup {1} /\ 1 \notin R
    BY <1>1, <1>6, <1>8
  <2>2. Cardinality(S) = Cardinality(R) + 1
    BY <1>5, <2>1, FS_AddElement
  <2> QED
    BY <1>5, <1>7, <1>8, <2>2
<1>9. CASE Head(s) # LiveCopy(m)
  <2>1. S = R
    BY <1>1, <1>6, <1>9
  <2>2. LiveCopies(s, m) = LiveCopies(Tail(s), m)
    BY <1>5, <1>7, <2>1
  <2>3. LiveCopies(Tail(s), m) \in Nat
    BY <1>1, CopiesType
  <2> QED
    BY <1>9, <2>2, <2>3
<1> QED
  BY <1>8, <1>9

LEMMA HeldTyped ==
  ASSUME PreTyped, held # << >>
  PROVE  /\ Head(held) \in PreDelivery /\ Held \in Message /\ HeldPost \in Raw
         /\ Held[2] \in {0, 1} /\ Held = << HeldPost, Held[2] >>
         /\ Tail(held) \in Seq(PreDelivery)
         /\ HeldLive \in BOOLEAN
<1>1. held \in Seq(PreDelivery)
  BY DEF PreTyped, PreTypeOK, PreDelivery
<1>2. Head(held) \in PreDelivery /\ Tail(held) \in Seq(PreDelivery)
  BY <1>1, HeadTailProperties
<1>3. Head(held).msg \in Message /\ Head(held).live \in BOOLEAN
  BY <1>2 DEF PreDelivery
<1> QED
  BY <1>2, <1>3, MessageParts DEF Held, HeldPost, HeldLive

(* The counters of the broker stay counters.                                *)
LEMMA CountersTyped ==
  ASSUME ready \in Counts, unacked \in Counts, deadLetters \in Counts, NEW m
  PROVE  /\ Enqueue(m)     => ready' \in Counts
         /\ DeadLetter(m)  => deadLetters' \in Counts
         /\ Deliver(m)     => ready' \in Counts /\ unacked' \in Counts
         /\ Ack(m)         => unacked' \in Counts
         /\ Requeue(m)     => ready' \in Counts /\ unacked' \in Counts
         /\ RequeueUnacked => ready' \in Counts /\ unacked' \in Counts
BY DEF Counts, Enqueue, DeadLetter, Deliver, Ack, Requeue, RequeueUnacked

LEMMA CopyTyped ==
  ASSUME PreTyped, CopyPost
  PROVE  ready' \in Counts /\ deadLetters' \in Counts
<1>1. /\ ready \in Counts /\ unacked \in Counts /\ deadLetters \in Counts
  BY DEF PreTyped, PreTypeOK
<1> QED
  BY <1>1, CountersTyped DEF CopyPost, PublishCopy

(* The broker waits for exactly what is held of the live channel.           *)
LEMMA CountsHeld ==
  ASSUME PreTyped, NEW m \in Message
  PROVE  unacked[m] = LiveCopies(held, m) /\ unacked[m] \in Nat
BY DEF PreTyped, PreTypeOK, LiveCopies, LiveCopy, Counts

(* A reset makes what is held stale, and moves nothing.                     *)
LEMMA ResetTyped ==
  ASSUME PreTyped, held' = [i \in DOMAIN held |-> [held[i] EXCEPT !.live = FALSE]]
  PROVE  /\ held' \in Seq(PreDelivery) /\ Len(held') = Len(held)
         /\ DOMAIN held' = DOMAIN held
         /\ held # << >> => held' # << >>
         /\ \A i \in DOMAIN held : held'[i].msg = held[i].msg /\ held'[i].live = FALSE
<1>1. held \in Seq(PreDelivery)
  BY DEF PreTyped, PreTypeOK, PreDelivery
<1>2. ASSUME NEW i \in 1 .. Len(held)
      PROVE  /\ [held[i] EXCEPT !.live = FALSE] \in PreDelivery
             /\ [held[i] EXCEPT !.live = FALSE].msg = held[i].msg
             /\ [held[i] EXCEPT !.live = FALSE].live = FALSE
  <2>1. held[i] \in PreDelivery
    BY <1>1
  <2> QED
    BY <2>1 DEF PreDelivery
<1>3. Len(held) \in Nat /\ DOMAIN held = 1 .. Len(held)
  BY <1>1
<1>4. held' \in Seq(PreDelivery) /\ Len(held') = Len(held) /\ DOMAIN held' = DOMAIN held
  BY <1>2, <1>3
<1>5. held # << >> => held' # << >>
  BY <1>1, <1>4, EmptySeq
<1> QED
  BY <1>2, <1>3, <1>4, <1>5

LEMMA InitTyped == PreInit => PreTyped
<1> SUFFICES ASSUME PreInit PROVE PreTyped
  OBVIOUS
<1>1. << >> \in Seq(PreDelivery) /\ held = << >>
  BY DEF PreInit
<1>2. ASSUME NEW m \in Message PROVE unacked[m] = LiveCopies(held, m)
  <2>1. \A i \in 1 .. Len(<< >>) : << >>[i] # LiveCopy(m)
    OBVIOUS
  <2>2. LiveCopies(<< >>, m) = 0
    BY <1>1, <2>1, NoCopies
  <2> QED
    BY <1>1, <2>2 DEF PreInit, BrokerInit
<1> QED
  <2>1. held \in Seq([msg : Message, live : BOOLEAN])
    BY <1>1 DEF PreDelivery
  <2>2. \A m \in Message :
          unacked[m] = Cardinality({ i \in DOMAIN held : held[i] = [msg |-> m, live |-> TRUE] })
    BY <1>2 DEF LiveCopies, LiveCopy
  <2>3. /\ ready \in Counts /\ unacked \in Counts /\ deadLetters \in Counts
        /\ taken \in [Raw -> Nat] /\ listening = FALSE /\ doing = "idle"
        /\ clean \in [Raw -> Nat] /\ dropped = {}
        /\ failures \in [Raw -> Nat] /\ preFaults \in 0 .. MaxPreFaults
    BY PreBoundsAssumption DEF PreInit, BrokerInit, Counts
  <2> QED
    BY <2>1, <2>2, <2>3 DEF PreTyped, PreTypeOK

(* Everything but the queues' shares of what is held.                       *)
LEMMA StepTypes ==
  ASSUME PreTyped, PreNext
  PROVE  /\ ready' \in Counts /\ unacked' \in Counts /\ deadLetters' \in Counts
         /\ taken' \in [Raw -> Nat] /\ listening' \in BOOLEAN
         /\ held' \in Seq(PreDelivery)
         /\ doing' \in {"idle", "deadLetter", "ackShort", "predict", "publish",
                        "retry", "ack", "raised"}
         /\ doing' \notin {"idle", "raised"} => held' # << >>
         /\ clean' \in [Raw -> Nat] /\ dropped' \subseteq TooShort
         /\ failures' \in [Raw -> Nat] /\ preFaults' \in 0 .. MaxPreFaults
<1> DEFINE Goal ==
         /\ ready' \in Counts /\ unacked' \in Counts /\ deadLetters' \in Counts
         /\ taken' \in [Raw -> Nat] /\ listening' \in BOOLEAN
         /\ held' \in Seq(PreDelivery)
         /\ doing' \in {"idle", "deadLetter", "ackShort", "predict", "publish",
                        "retry", "ack", "raised"}
         /\ doing' \notin {"idle", "raised"} => held' # << >>
         /\ clean' \in [Raw -> Nat] /\ dropped' \subseteq TooShort
         /\ failures' \in [Raw -> Nat] /\ preFaults' \in 0 .. MaxPreFaults
<1>1. /\ ready \in Counts /\ unacked \in Counts /\ deadLetters \in Counts
      /\ taken \in [Raw -> Nat] /\ listening \in BOOLEAN
      /\ held \in Seq(PreDelivery)
      /\ doing \in {"idle", "deadLetter", "ackShort", "predict", "publish",
                    "retry", "ack", "raised"}
      /\ doing \notin {"idle", "raised"} => held # << >>
      /\ clean \in [Raw -> Nat] /\ dropped \subseteq TooShort
      /\ failures \in [Raw -> Nat] /\ preFaults \in 0 .. MaxPreFaults
  BY DEF PreTyped, PreTypeOK, PreDelivery
<1>2. /\ held # << >> => Tail(held) \in Seq(PreDelivery) /\ HeldPost \in Raw
      /\ << >> \in Seq(PreDelivery)
  BY HeldTyped
<1>3. PreFault => preFaults' \in 0 .. MaxPreFaults
  BY <1>1, PreBoundsAssumption DEF PreFault
<1>4. CountFailure /\ held # << >> => failures' \in [Raw -> Nat]
  BY <1>1, <1>2 DEF CountFailure
<1>5. ASSUME NEW p \in Raw, Produce(p) PROVE Goal
  <2>1. ready' \in Counts
    BY <1>1, <1>5, CountersTyped DEF Produce
  <2>2. taken' \in [Raw -> Nat]
    BY <1>1, <1>5 DEF Produce
  <2> QED
    BY <1>1, <1>5, <2>1, <2>2 DEF Produce
<1>6. CASE StartPost
  BY <1>1, <1>2, <1>6 DEF StartPost, brokerVars
<1>7. CASE Predict
  BY <1>1, <1>7 DEF Predict, brokerVars
<1>8. CASE PredictRaises
  BY <1>1, <1>3, <1>4, <1>8 DEF PredictRaises, brokerVars
<1>9. CASE PublishClean
  BY <1>1, <1>2, <1>9 DEF PublishClean, brokerVars
<1>10. CASE PublishCopyDone
  BY <1>1, <1>10, CopyTyped DEF PublishCopyDone, CopyPost
<1>11. CASE AckPost
  <2>1. unacked' \in Counts
    BY <1>1, <1>11, CountersTyped DEF AckPost
  <2> QED
    BY <1>1, <1>2, <1>11, <2>1 DEF AckPost
<1>12. CASE AckRaises
  BY <1>1, <1>4, <1>12 DEF AckRaises, brokerVars
<1>13. CASE EndSession
  <2>1. ready' \in Counts /\ unacked' \in Counts
    BY <1>1, <1>13, CountersTyped DEF EndSession, CloseSession
  <2> QED
    BY <1>1, <1>2, <1>13, <2>1 DEF EndSession, CloseSession
<1>14. CASE Listen
  BY <1>1, <1>14 DEF Listen, brokerVars
<1>15. ASSUME NEW m \in Message, TakeDelivery(m) PROVE Goal
  <2>1. ready' \in Counts /\ unacked' \in Counts
    BY <1>1, <1>15, CountersTyped DEF TakeDelivery
  <2>2. [msg |-> m, live |-> TRUE] \in PreDelivery
    BY DEF PreDelivery
  <2>3. held' \in Seq(PreDelivery) /\ held' # << >>
    BY <1>1, <1>15, <2>2, AppendProperties DEF TakeDelivery
  <2>4. UNCHANGED << deadLetters, taken, listening, doing, clean, dropped,
                     failures, preFaults >>
    BY <1>15 DEF TakeDelivery
  <2> QED
    BY <1>1, <2>1, <2>3, <2>4
<1>16. CASE PublishCleanFails
  <2>1. clean' \in [Raw -> Nat]
    <3>1. HeldPost \in Raw
      BY <1>1, <1>2, <1>16 DEF PublishCleanFails
    <3>2. [clean EXCEPT ![HeldPost] = @ + 1] \in [Raw -> Nat]
      BY <1>1, <3>1
    <3> QED
      BY <1>1, <1>16, <3>2 DEF PublishCleanFails
  <2>2. failures' \in [Raw -> Nat] /\ preFaults' \in 0 .. MaxPreFaults
    BY <1>1, <1>3, <1>4, <1>16 DEF PublishCleanFails
  <2>3. /\ UNCHANGED << ready, unacked, deadLetters, taken, listening, held, dropped >>
        /\ doing' = "retry" /\ held # << >>
    BY <1>1, <1>16 DEF PublishCleanFails, brokerVars
  <2> QED
    BY <1>1, <2>1, <2>2, <2>3
<1>17. CASE CopyUnconfirmed
  <2>1. ready' \in Counts /\ deadLetters' \in Counts
    BY <1>1, <1>17, CopyTyped DEF CopyUnconfirmed
  <2> QED
    BY <1>1, <1>3, <1>17, <2>1 DEF CopyUnconfirmed
<1>18. CASE CancelTask
  <2>1. CASE InTry /\ HeldLive
    <3>1. ready' \in Counts /\ unacked' \in Counts
      BY <1>1, <1>18, <2>1, CountersTyped DEF CancelTask
    <3> QED
      BY <1>1, <1>2, <1>3, <1>18, <2>1, <3>1 DEF CancelTask, InTry
  <2>2. CASE ~ (InTry /\ HeldLive)
    BY <1>1, <1>3, <1>18, <2>2 DEF CancelTask
  <2> QED
    BY <2>1, <2>2
<1>19. CASE ResetChannel
  <2>1. ready' \in Counts /\ unacked' \in Counts
    BY <1>1, <1>19, CountersTyped DEF ResetChannel
  <2>2. held' \in Seq(PreDelivery) /\ (held # << >> => held' # << >>)
    BY <1>1, <1>19, ResetTyped DEF ResetChannel
  <2> QED
    BY <1>1, <1>3, <1>19, <2>1, <2>2 DEF ResetChannel
<1>20. CASE KillProcess
  <2>1. ready' \in Counts /\ unacked' \in Counts
    BY <1>1, <1>20, CountersTyped DEF KillProcess, CloseSession
  <2> QED
    BY <1>1, <1>2, <1>3, <1>20, <2>1 DEF KillProcess, CloseSession
<1> QED
  BY <1>5, <1>6, <1>7, <1>8, <1>9, <1>10, <1>11, <1>12, <1>13, <1>14, <1>15,
     <1>16, <1>17, <1>18, <1>19, <1>20 DEF PreNext, ConsumerStep

(* What happens to the deliveries the consumer holds, and what the broker   *)
(* still waits for with them.                                               *)
HeldStep ==
  \/ UNCHANGED << held, unacked >>
  \/ \E m \in Message : Deliver(m) /\ held' = Append(held, LiveCopy(m))
  \/ /\ held # << >> /\ HeldLive /\ held' = Tail(held)
     /\ Ack(Held)
  \/ /\ RequeueUnacked
     /\ held' \in { << >>, [i \in DOMAIN held |-> [held[i] EXCEPT !.live = FALSE]] }

LEMMA StepOfHeld ==
  ASSUME PreTyped, PreNext
  PROVE  HeldStep
<1>1. doing \notin {"idle", "raised"} => held # << >>
  BY DEF PreTyped
<1>2. ASSUME NEW m \in Message, TakeDelivery(m) PROVE HeldStep
  BY <1>2 DEF TakeDelivery, HeldStep, LiveCopy
<1>3. CASE AckPost
  BY <1>1, <1>3 DEF AckPost, HeldStep
<1>4. CASE EndSession \/ KillProcess
  BY <1>4 DEF EndSession, KillProcess, CloseSession, HeldStep
<1>5. CASE CancelTask
  <2>1. CASE InTry /\ HeldLive
    <3>1. held # << >>
      BY <1>1, <2>1 DEF InTry
    <3> QED
      BY <1>5, <2>1, <3>1 DEF CancelTask, HeldStep, Requeue, Ack
  <2> QED
    BY <1>5, <2>1 DEF CancelTask, HeldStep
<1>6. CASE ResetChannel
  BY <1>6 DEF ResetChannel, HeldStep
<1>7. ASSUME \/ \E p \in Raw : Produce(p)
             \/ StartPost \/ Predict \/ PredictRaises \/ PublishClean
             \/ PublishCopyDone \/ AckRaises \/ Listen
             \/ PublishCleanFails \/ CopyUnconfirmed
      PROVE  UNCHANGED << held, unacked >>
  BY <1>7 DEF Produce, StartPost, Predict, PredictRaises, PublishClean,
     PublishCopyDone, AckRaises, Listen, PublishCleanFails, CopyUnconfirmed,
     brokerVars
<1> QED
  BY <1>2, <1>3, <1>4, <1>5, <1>6, <1>7 DEF PreNext, ConsumerStep, HeldStep

LEMMA CountsKept ==
  ASSUME PreTyped, HeldStep, unacked' \in Counts, held' \in Seq(PreDelivery),
         NEW m \in Message
  PROVE  unacked'[m] = LiveCopies(held', m)
<1>1. held \in Seq(PreDelivery) /\ unacked \in Counts
  BY DEF PreTyped, PreTypeOK, PreDelivery
<1>2. unacked[m] = LiveCopies(held, m) /\ unacked[m] \in Nat
  BY CountsHeld
<1>3. CASE UNCHANGED << held, unacked >>
  BY <1>2, <1>3
<1>4. ASSUME NEW n \in Message, Deliver(n), held' = Append(held, LiveCopy(n))
      PROVE  unacked'[m] = LiveCopies(held', m)
  <2>1. LiveCopy(n) \in PreDelivery /\ (LiveCopy(n) = LiveCopy(m) <=> n = m)
    BY DEF LiveCopy, PreDelivery
  <2>2. LiveCopies(held', m) = LiveCopies(held, m) + IF n = m THEN 1 ELSE 0
    BY <1>1, <1>4, <2>1, CopiesAppend
  <2>3. unacked'[m] = unacked[m] + IF n = m THEN 1 ELSE 0
    BY <1>1, <1>2, <1>4 DEF Deliver, Counts
  <2> QED
    BY <1>2, <2>2, <2>3
<1>5. CASE held # << >> /\ HeldLive /\ held' = Tail(held) /\ Ack(Held)
  <2>1. Head(held) = LiveCopy(m) <=> Held = m
    BY <1>5, HeldTyped DEF LiveCopy, PreDelivery, Held, HeldLive
  <2>2. LiveCopies(held, m) = LiveCopies(held', m) + IF Held = m THEN 1 ELSE 0
    BY <1>1, <1>5, <2>1, CopiesTail
  <2>3. LiveCopies(held', m) \in Nat
    BY <1>1, <1>5, HeldTyped, CopiesType
  <2>4. unacked'[m] = unacked[m] - IF Held = m THEN 1 ELSE 0
    BY <1>1, <1>2, <1>5 DEF Ack, Counts
  <2> QED
    BY <1>2, <2>2, <2>3, <2>4
<1>6. CASE /\ RequeueUnacked
           /\ held' \in { << >>, [i \in DOMAIN held |-> [held[i] EXCEPT !.live = FALSE]] }
  <2>1. \A i \in 1 .. Len(held') : held'[i] # LiveCopy(m)
    <3>1. CASE held' = << >>
      BY <3>1
    <3>2. CASE held' = [i \in DOMAIN held |-> [held[i] EXCEPT !.live = FALSE]]
      <4>1. Len(held') = Len(held) /\ DOMAIN held = 1 .. Len(held)
        BY <1>1, <3>2, ResetTyped
      <4>2. \A i \in DOMAIN held : held'[i].live = FALSE
        BY <3>2, ResetTyped
      <4> QED
        BY <4>1, <4>2 DEF LiveCopy
    <3> QED
      BY <1>6, <3>1, <3>2
  <2>2. LiveCopies(held', m) = 0
    BY <2>1, NoCopies
  <2> QED
    BY <1>6, <2>2 DEF RequeueUnacked
<1> QED
  BY <1>3, <1>4, <1>5, <1>6 DEF HeldStep

LEMMA PreTypedStep ==
  ASSUME PreTyped, PreNext
  PROVE  PreTyped'
<1>1. /\ ready' \in Counts /\ unacked' \in Counts /\ deadLetters' \in Counts
      /\ taken' \in [Raw -> Nat] /\ listening' \in BOOLEAN
      /\ held' \in Seq(PreDelivery)
      /\ doing' \in {"idle", "deadLetter", "ackShort", "predict", "publish",
                     "retry", "ack", "raised"}
      /\ doing' \notin {"idle", "raised"} => held' # << >>
      /\ clean' \in [Raw -> Nat] /\ dropped' \subseteq TooShort
      /\ failures' \in [Raw -> Nat] /\ preFaults' \in 0 .. MaxPreFaults
  BY StepTypes
<1>2. \A m \in Message : unacked'[m] = LiveCopies(held', m)
  BY <1>1, StepOfHeld, CountsKept
<1>3. \A m \in Message :
        unacked'[m] = Cardinality({ i \in DOMAIN held' : held'[i] = [msg |-> m, live |-> TRUE] })
  BY <1>2 DEF LiveCopies, LiveCopy
<1>4. held' \in Seq([msg : Message, live : BOOLEAN])
  BY <1>1 DEF PreDelivery
<1> QED
  BY <1>1, <1>3, <1>4 DEF PreTyped, PreTypeOK

-----------------------------------------------------------------------------
(* The delivery at hand after a step that changes what is held.             *)
LEMMA HeadUnchanged ==
  ASSUME held' = held
  PROVE  /\ Held' = Held /\ HeldPost' = HeldPost /\ HeldLive' = HeldLive
         /\ \A p : AtHand(p)' = AtHand(p)
BY DEF Held, HeldPost, HeldLive, AtHand

LEMMA HeadAppended ==
  ASSUME PreTyped, NEW m \in Message, held' = Append(held, LiveCopy(m))
  PROVE  /\ held # << >> => Head(held') = Head(held)
         /\ held = << >> => Head(held') = LiveCopy(m)
         /\ held' # << >>
<1>1. held \in Seq(PreDelivery) /\ LiveCopy(m) \in PreDelivery
  BY DEF PreTyped, PreTypeOK, PreDelivery, LiveCopy
<1>2. /\ Len(held') = Len(held) + 1 /\ Len(held) \in Nat
      /\ \A i \in 1 .. Len(held) : held'[i] = held[i]
      /\ held'[Len(held) + 1] = LiveCopy(m)
      /\ held' \in Seq(PreDelivery)
  BY <1>1, AppendProperties
<1>3. Head(held') = held'[1] /\ Head(held) = held[1] /\ held' # << >>
  BY <1>1, <1>2
<1>4. held # << >> => 1 \in 1 .. Len(held)
  BY <1>1, EmptySeq
<1>5. held = << >> => Len(held) + 1 = 1
  OBVIOUS
<1> QED
  BY <1>2, <1>3, <1>4, <1>5

LEMMA HeadReset ==
  ASSUME PreTyped, held' = [i \in DOMAIN held |-> [held[i] EXCEPT !.live = FALSE]]
  PROVE  /\ \A p : AtHand(p)' = AtHand(p)
         /\ held # << >> => Held' = Held /\ HeldPost' = HeldPost /\ HeldLive' = FALSE
<1>1. held \in Seq(PreDelivery) /\ held' \in Seq(PreDelivery)
  BY ResetTyped DEF PreTyped, PreTypeOK, PreDelivery
<1>2. held # << >> => /\ held' # << >> /\ 1 \in DOMAIN held
                      /\ Head(held') = held'[1] /\ Head(held) = held[1]
  BY <1>1, ResetTyped, EmptySeq
<1>3. held # << >> => Head(held').msg = Head(held).msg /\ Head(held').live = FALSE
  BY <1>2, ResetTyped
<1>4. held = << >> => held' = << >>
  BY <1>1, ResetTyped, EmptySeq
<1> QED
  BY <1>2, <1>3, <1>4 DEF Held, HeldPost, HeldLive, AtHand

LEMMA LiveTogetherStep ==
  ASSUME PreTyped, LiveTogether, HeldStep
  PROVE  LiveTogether'
<1>0. held \in Seq(PreDelivery) /\ Len(held) \in Nat /\ DOMAIN held = 1 .. Len(held)
  BY DEF PreTyped, PreTypeOK, PreDelivery
<1>1. CASE UNCHANGED << held, unacked >>
  BY <1>1 DEF LiveTogether, HeldLive
<1>2. ASSUME NEW m \in Message, held' = Append(held, LiveCopy(m))
      PROVE  LiveTogether'
  <2>1. LiveCopy(m) \in PreDelivery /\ LiveCopy(m).live = TRUE
    BY DEF PreDelivery, LiveCopy
  <2>2. /\ Len(held') = Len(held) + 1 /\ DOMAIN held' = 1 .. Len(held) + 1
        /\ \A i \in 1 .. Len(held) : held'[i] = held[i]
        /\ held'[Len(held) + 1] = LiveCopy(m)
    BY <1>0, <1>2, <2>1, AppendProperties
  <2>3. SUFFICES ASSUME HeldLive', NEW i \in DOMAIN held' PROVE held'[i].live
    BY DEF LiveTogether
  <2>4. CASE i = Len(held) + 1
    BY <2>1, <2>2, <2>4
  <2>5. CASE i \in 1 .. Len(held)
    <3>1. held # << >>
      BY <1>0, <2>5
    <3>2. HeldLive
      BY <1>2, <2>3, <3>1, HeadAppended DEF HeldLive
    <3> QED
      BY <1>0, <2>2, <2>5, <3>1, <3>2 DEF LiveTogether
  <2> QED
    BY <1>0, <2>2, <2>4, <2>5
<1>3. CASE held # << >> /\ HeldLive /\ held' = Tail(held)
  <2>1. /\ Len(held') = Len(held) - 1 /\ DOMAIN held' = 1 .. Len(held')
        /\ \A i \in 1 .. Len(held') : held'[i] = held[i + 1]
    BY <1>0, <1>3, HeadTailProperties
  <2>2. ASSUME NEW i \in DOMAIN held' PROVE held'[i].live
    <3>1. i + 1 \in DOMAIN held /\ held'[i] = held[i + 1]
      BY <1>0, <2>1
    <3> QED
      BY <1>3, <3>1 DEF LiveTogether
  <2> QED
    BY <2>2 DEF LiveTogether
<1>4. CASE held' = << >>
  BY <1>4 DEF LiveTogether
<1>5. CASE held' = [i \in DOMAIN held |-> [held[i] EXCEPT !.live = FALSE]]
  <2>1. held' # << >> => held # << >>
    <3>1. held = << >> => Len(held') = 0 /\ held' \in Seq(PreDelivery)
      BY <1>5, ResetTyped
    <3> QED
      BY <3>1, EmptySeq
  <2> QED
    BY <1>5, <2>1, HeadReset DEF LiveTogether
<1> QED
  BY <1>1, <1>2, <1>3, <1>4, <1>5 DEF HeldStep

-----------------------------------------------------------------------------
(* How the broker's steps change what is queued of a post.                  *)
LEMMA QueuedTyped ==
  ASSUME ready \in Counts, unacked \in Counts, NEW p \in Raw
  PROVE  /\ << p, 0 >> \in Message /\ << p, 1 >> \in Message
         /\ ready[<< p, 0 >>] \in Nat /\ ready[<< p, 1 >>] \in Nat
         /\ unacked[<< p, 0 >>] \in Nat /\ unacked[<< p, 1 >>] \in Nat
         /\ Queued(p) \in Nat
<1>1. << p, 0 >> \in Message /\ << p, 1 >> \in Message
  BY MessageOfParts
<1>2. /\ ready[<< p, 0 >>] \in Nat /\ ready[<< p, 1 >>] \in Nat
      /\ unacked[<< p, 0 >>] \in Nat /\ unacked[<< p, 1 >>] \in Nat
  BY <1>1 DEF Counts
<1> QED
  BY <1>1, <1>2 DEF Queued

LEMMA QueuedSame ==
  ASSUME ready \in Counts, unacked \in Counts, NEW p \in Raw,
         \/ UNCHANGED << ready, unacked >>
         \/ \E m \in Message : Deliver(m) \/ Requeue(m)
         \/ RequeueUnacked
  PROVE  Queued(p)' = Queued(p)
<1>1. /\ << p, 0 >> \in Message /\ << p, 1 >> \in Message
      /\ ready[<< p, 0 >>] \in Nat /\ ready[<< p, 1 >>] \in Nat
      /\ unacked[<< p, 0 >>] \in Nat /\ unacked[<< p, 1 >>] \in Nat
  BY QueuedTyped
<1>2. CASE UNCHANGED << ready, unacked >>
  BY <1>2 DEF Queued
<1>3. ASSUME NEW m \in Message, Deliver(m) \/ Requeue(m)
      PROVE  \A n \in Message : ready'[n] + unacked'[n] = ready[n] + unacked[n]
  BY <1>3 DEF Deliver, Requeue, Counts
<1>4. ASSUME RequeueUnacked
      PROVE  \A n \in Message : ready'[n] + unacked'[n] = ready[n] + unacked[n]
  BY <1>4 DEF RequeueUnacked, Counts
<1>5. ASSUME \A n \in Message : ready'[n] + unacked'[n] = ready[n] + unacked[n],
             ready' \in Counts, unacked' \in Counts
      PROVE  Queued(p)' = Queued(p)
  <2>1. /\ ready'[<< p, 0 >>] \in Nat /\ ready'[<< p, 1 >>] \in Nat
        /\ unacked'[<< p, 0 >>] \in Nat /\ unacked'[<< p, 1 >>] \in Nat
    BY <1>1, <1>5 DEF Counts
  <2>2. /\ ready'[<< p, 0 >>] + unacked'[<< p, 0 >>] = ready[<< p, 0 >>] + unacked[<< p, 0 >>]
        /\ ready'[<< p, 1 >>] + unacked'[<< p, 1 >>] = ready[<< p, 1 >>] + unacked[<< p, 1 >>]
    BY <1>1, <1>5
  <2> QED
    BY <1>1, <2>1, <2>2 DEF Queued
<1>6. \/ UNCHANGED << ready, unacked >>
      \/ ready' \in Counts /\ unacked' \in Counts
  BY DEF Counts, Deliver, Requeue, RequeueUnacked
<1> QED
  BY <1>2, <1>3, <1>4, <1>5, <1>6

LEMMA QueuedEnqueue ==
  ASSUME ready \in Counts, unacked \in Counts, NEW p \in Raw,
         NEW r \in Raw, NEW a \in {0, 1}, Enqueue(<< r, a >>), unacked' = unacked
  PROVE  Queued(p)' = Queued(p) + IF r = p THEN 1 ELSE 0
<1>1. /\ << p, 0 >> \in Message /\ << p, 1 >> \in Message /\ << r, a >> \in Message
      /\ ready[<< p, 0 >>] \in Nat /\ ready[<< p, 1 >>] \in Nat
      /\ unacked[<< p, 0 >>] \in Nat /\ unacked[<< p, 1 >>] \in Nat
  BY QueuedTyped, MessageOfParts
<1>2. \A n \in Message :
        ready'[n] = IF n = << r, a >> THEN ready[n] + 1 ELSE ready[n]
  BY DEF Enqueue, Counts
<1>3. /\ ready'[<< p, 0 >>] = ready[<< p, 0 >>] + IF p = r /\ a = 0 THEN 1 ELSE 0
      /\ ready'[<< p, 1 >>] = ready[<< p, 1 >>] + IF p = r /\ a = 1 THEN 1 ELSE 0
  BY <1>1, <1>2
<1> QED
  BY <1>1, <1>3 DEF Queued

LEMMA QueuedAck ==
  ASSUME ready \in Counts, unacked \in Counts, NEW p \in Raw,
         NEW r \in Raw, NEW a \in {0, 1}, Ack(<< r, a >>), ready' = ready
  PROVE  Queued(p)' = Queued(p) - IF r = p THEN 1 ELSE 0
<1>1. /\ << p, 0 >> \in Message /\ << p, 1 >> \in Message /\ << r, a >> \in Message
      /\ ready[<< p, 0 >>] \in Nat /\ ready[<< p, 1 >>] \in Nat
      /\ unacked[<< p, 0 >>] \in Nat /\ unacked[<< p, 1 >>] \in Nat
  BY QueuedTyped, MessageOfParts
<1>2. \A n \in Message :
        unacked'[n] = IF n = << r, a >> THEN unacked[n] - 1 ELSE unacked[n]
  BY DEF Ack, Counts
<1>3. /\ unacked'[<< p, 0 >>] = unacked[<< p, 0 >>] - IF p = r /\ a = 0 THEN 1 ELSE 0
      /\ unacked'[<< p, 1 >>] = unacked[<< p, 1 >>] - IF p = r /\ a = 1 THEN 1 ELSE 0
  BY <1>1, <1>2
<1> QED
  BY <1>1, <1>3 DEF Queued

-----------------------------------------------------------------------------
LEMMA TokenTypes ==
  \A p : Passed(p) \in {0, 1} /\ Astray(p) \in {0, 1}
BY DEF Passed, Astray

LEMMA CopiesTyped ==
  ASSUME PreTyped, NEW p \in Raw
  PROVE  /\ clean[p] \in Nat /\ Queued(p) \in Nat /\ taken[p] \in Nat
         /\ preFaults \in Nat
         /\ Passed(p) \in {0, 1} /\ Astray(p) \in {0, 1}
<1>1. ready \in Counts /\ unacked \in Counts /\ clean \in [Raw -> Nat]
      /\ taken \in [Raw -> Nat] /\ preFaults \in 0 .. MaxPreFaults
  BY DEF PreTyped, PreTypeOK
<1>2. preFaults \in Nat
  BY <1>1, PreBoundsAssumption
<1> QED
  BY <1>1, <1>2, QueuedTyped, TokenTypes

(* Each action weighs what it adds for a post against what it settles, and  *)
(* against the fault it costs.                                              *)
LEMMA CopiesStep ==
  ASSUME PreTyped, LiveTogether, CopiesPaid, PreNext
  PROVE  CopiesPaid'
<1> SUFFICES ASSUME NEW p \in Raw
             PROVE  clean'[p] + Queued(p)' + Astray(p)' <= taken'[p] + preFaults' + Passed(p)'
  BY DEF CopiesPaid
<1> DEFINE Goal == clean'[p] + Queued(p)' + Astray(p)' <= taken'[p] + preFaults' + Passed(p)'
<1>1. /\ clean[p] \in Nat /\ Queued(p) \in Nat /\ taken[p] \in Nat
      /\ preFaults \in Nat
      /\ Passed(p) \in {0, 1} /\ Astray(p) \in {0, 1}
      /\ Passed(p)' \in {0, 1} /\ Astray(p)' \in {0, 1}
      /\ clean[p] + Queued(p) + Astray(p) <= taken[p] + preFaults + Passed(p)
  BY CopiesTyped, TokenTypes DEF CopiesPaid, Passed, Astray
<1>2. /\ ready \in Counts /\ unacked \in Counts /\ clean \in [Raw -> Nat]
      /\ taken \in [Raw -> Nat]
      /\ doing \notin {"idle", "raised"} => held # << >>
  BY DEF PreTyped, PreTypeOK
<1>3. held # << >> => HeldPost \in Raw /\ Held[2] \in {0, 1} /\ Held = << HeldPost, Held[2] >>
  BY HeldTyped
<1>4. held' = held => AtHand(p)' = AtHand(p) /\ HeldLive' = HeldLive
  BY HeadUnchanged
<1>5. UNCHANGED << ready, unacked >> => Queued(p)' = Queued(p)
  BY <1>2, QueuedSame
<1>6. ASSUME NEW r \in Raw, Produce(r) PROVE Goal
  <2>1. Queued(p)' = Queued(p) + IF r = p THEN 1 ELSE 0
    BY <1>2, <1>6, QueuedEnqueue DEF Produce
  <2>2. taken'[p] = taken[p] + IF r = p THEN 1 ELSE 0
    BY <1>2, <1>6 DEF Produce
  <2>3. Astray(p)' = Astray(p) /\ Passed(p)' = Passed(p)
    BY <1>4, <1>6 DEF Produce, Astray, Passed
  <2>4. UNCHANGED << clean, preFaults >>
    BY <1>6 DEF Produce
  <2> QED
    BY <1>1, <2>1, <2>2, <2>3, <2>4
<1>7. ASSUME UNCHANGED << ready, unacked, held, clean, taken, preFaults >>,
             Astray(p)' - Passed(p)' <= Astray(p) - Passed(p)
      PROVE  Goal
  BY <1>1, <1>5, <1>7
<1>8. ASSUME UNCHANGED << ready, unacked, held, clean, taken >>, preFaults' = preFaults + 1,
             Astray(p)' <= Astray(p)
      PROVE  Goal
  BY <1>1, <1>5, <1>8
<1>9. CASE StartPost
  <2>1. UNCHANGED << ready, unacked, held, clean, taken, preFaults >>
    BY <1>9 DEF StartPost, brokerVars
  <2>2. Astray(p)' = Astray(p) /\ Passed(p)' = Passed(p)
    BY <1>4, <1>9 DEF StartPost, Astray, Passed
  <2> QED
    BY <1>1, <1>7, <2>1, <2>2
<1>10. CASE Predict
  <2>1. UNCHANGED << ready, unacked, held, clean, taken, preFaults >>
    BY <1>10 DEF Predict, brokerVars
  <2>2. Astray(p)' = Astray(p) /\ Passed(p)' = Passed(p)
    BY <1>4, <1>10 DEF Predict, Astray, Passed
  <2> QED
    BY <1>1, <1>7, <2>1, <2>2
<1>11. CASE PredictRaises
  <2>1. UNCHANGED << ready, unacked, held, clean, taken >>
    BY <1>11 DEF PredictRaises, brokerVars
  <2>2. Astray(p)' = Astray(p) /\ Passed(p)' = Passed(p)
    BY <1>4, <1>11 DEF PredictRaises, Astray, Passed
  <2>3. preFaults' = preFaults \/ preFaults' = preFaults + 1
    BY <1>11 DEF PredictRaises, PreFault
  <2> QED
    BY <1>1, <1>7, <1>8, <2>1, <2>2, <2>3
<1>12. CASE PublishClean
  <2>1. UNCHANGED << ready, unacked, held, taken, preFaults >> /\ HeldPost \in Raw
    BY <1>2, <1>3, <1>12 DEF PublishClean, brokerVars
  <2>2. clean'[p] = clean[p] + IF p = HeldPost THEN 1 ELSE 0
    BY <1>2, <1>12, <2>1 DEF PublishClean
  <2>3. Astray(p)' - Passed(p)' = Astray(p) - Passed(p) - IF p = HeldPost THEN 1 ELSE 0
    <3>1. AtHand(p) <=> p = HeldPost
      BY <1>2, <1>12 DEF PublishClean, AtHand
    <3> QED
      BY <1>4, <1>12, <2>1, <3>1 DEF PublishClean, Astray, Passed
  <2> QED
    BY <1>1, <1>5, <2>1, <2>2, <2>3
<1>13. ASSUME doing \in {"deadLetter", "retry"}, CopyPost \/ UNCHANGED << ready, deadLetters >>,
              unacked' = unacked
       PROVE  Queued(p)' \in { Queued(p), Queued(p) + IF AtHand(p) THEN 1 ELSE 0 }
  <2>1. HeldPost \in Raw /\ (AtHand(p) <=> HeldPost = p)
    BY <1>2, <1>3, <1>13 DEF AtHand
  <2>2. CASE ready' = ready
    BY <1>5, <1>13, <2>2
  <2>3. CASE Enqueue(<< HeldPost, 1 >>)
    BY <1>2, <1>13, <2>1, <2>3, QueuedEnqueue
  <2> QED
    BY <1>13, <2>2, <2>3 DEF CopyPost, PublishCopy, HeldPost
<1>14. CASE PublishCopyDone
  <2>1. /\ UNCHANGED << unacked, held, clean, taken, preFaults >> /\ doing' = "ack"
        /\ doing \in {"deadLetter", "retry"} /\ CopyPost
    BY <1>14 DEF PublishCopyDone, CopyPost
  <2>2. Astray(p)' - Passed(p)' = Astray(p) - Passed(p) - IF AtHand(p) THEN 1 ELSE 0
    BY <1>4, <2>1 DEF Astray, Passed
  <2> QED
    BY <1>1, <1>13, <2>1, <2>2
<1>15. CASE AckPost
  <2>1. /\ held # << >> /\ HeldLive /\ Ack(Held) /\ held' = Tail(held) /\ doing' = "idle"
        /\ UNCHANGED << ready, clean, taken, preFaults >>
    BY <1>2, <1>15 DEF AckPost
  <2>2. Queued(p)' = Queued(p) - IF HeldPost = p THEN 1 ELSE 0
    BY <1>2, <1>3, <2>1, QueuedAck
  <2>3. Passed(p) <= IF HeldPost = p THEN 1 ELSE 0
    BY <1>1 DEF Passed, AtHand
  <2>4. Astray(p)' = 0
    <3>1. held' # << >> => HeldLive'
      <4>1. held \in Seq(PreDelivery) /\ held' \in Seq(PreDelivery)
        BY <2>1, HeldTyped DEF PreTyped, PreTypeOK, PreDelivery
      <4>2. held' # << >> => 2 \in DOMAIN held /\ Head(held') = held[2]
        BY <2>1, <4>1, HeadTailProperties
      <4> QED
        BY <2>1, <4>2 DEF LiveTogether, HeldLive
    <3> QED
      BY <3>1 DEF Astray, AtHand
  <2>5. /\ clean'[p] = clean[p] /\ taken'[p] = taken[p] /\ preFaults' = preFaults
        /\ Queued(p)' \in Int /\ Queued(p)' + Passed(p) <= Queued(p)
    BY <1>1, <2>1, <2>2, <2>3
  <2> QED
    BY <1>1, <2>4, <2>5
<1>16. CASE AckRaises
  <2>1. UNCHANGED << ready, unacked, held, clean, taken, preFaults >>
    BY <1>16 DEF AckRaises, brokerVars
  <2>2. Astray(p)' - Passed(p)' <= Astray(p) - Passed(p)
    BY <1>4, <1>16, <2>1 DEF AckRaises, Astray, Passed
  <2> QED
    BY <1>7, <2>1, <2>2
<1>17. ASSUME CloseSession, doing = "raised" \/ preFaults' = preFaults + 1, 
              preFaults' = preFaults \/ preFaults' = preFaults + 1
       PROVE  Goal
  <2>1. Queued(p)' = Queued(p) /\ UNCHANGED << clean, taken >>
    BY <1>2, <1>17, QueuedSame DEF CloseSession
  <2>2. Astray(p)' = 0
    BY <1>17 DEF CloseSession, Astray, AtHand
  <2>3. doing = "raised" => Passed(p) = 0
    BY DEF Passed
  <2> QED
    BY <1>1, <1>17, <2>1, <2>2, <2>3
<1>18. CASE EndSession
  BY <1>17, <1>18 DEF EndSession
<1>19. CASE KillProcess
  BY <1>17, <1>19 DEF KillProcess, PreFault
<1>20. CASE Listen
  <2>1. UNCHANGED << ready, unacked, held, clean, taken, preFaults >>
    BY <1>20 DEF Listen, brokerVars
  <2>2. Astray(p)' = Astray(p) /\ Passed(p)' = Passed(p)
    BY <1>4, <1>20 DEF Listen, Astray, Passed
  <2> QED
    BY <1>1, <1>7, <2>1, <2>2
<1>21. ASSUME NEW m \in Message, TakeDelivery(m) PROVE Goal
  <2>1. Queued(p)' = Queued(p) /\ UNCHANGED << clean, taken, preFaults, doing >>
    BY <1>2, <1>21, QueuedSame DEF TakeDelivery
  <2>2. /\ held # << >> => Head(held') = Head(held)
        /\ held = << >> => Head(held') = LiveCopy(m)
        /\ held' # << >>
    BY <1>21, HeadAppended DEF TakeDelivery, LiveCopy
  <2>3. CASE held # << >>
    <3>1. Astray(p)' = Astray(p) /\ Passed(p)' = Passed(p)
      BY <2>1, <2>2, <2>3 DEF Astray, Passed, AtHand, HeldPost, HeldLive, Held
    <3> QED
      BY <1>1, <2>1, <3>1
  <2>4. CASE held = << >>
    <3>1. Passed(p) = 0 /\ Astray(p) = 0
      BY <2>4 DEF Passed, Astray, AtHand
    <3>2. Astray(p)' = 0
      BY <2>2, <2>4 DEF Astray, HeldLive, LiveCopy
    <3> QED
      BY <1>1, <2>1, <3>1, <3>2
  <2> QED
    BY <2>3, <2>4
<1>22. CASE PublishCleanFails
  <2>1. /\ UNCHANGED << ready, unacked, held, taken >> /\ preFaults' = preFaults + 1
        /\ HeldPost \in Raw
    BY <1>2, <1>3, <1>22 DEF PublishCleanFails, PreFault, brokerVars
  <2>2. clean'[p] <= clean[p] + 1 /\ clean'[p] \in Nat
    <3>1. CASE clean' = clean
      BY <1>1, <3>1
    <3>2. CASE clean' = [clean EXCEPT ![HeldPost] = @ + 1]
      BY <1>1, <1>2, <2>1, <3>2
    <3> QED
      BY <1>22, <3>1, <3>2 DEF PublishCleanFails
  <2>3. Astray(p)' = Astray(p) /\ Passed(p)' = Passed(p)
    BY <1>4, <1>22 DEF PublishCleanFails, Astray, Passed
  <2> QED
    BY <1>1, <1>5, <2>1, <2>2, <2>3
<1>23. CASE CopyUnconfirmed
  <2>1. /\ UNCHANGED << unacked, held, clean, taken >> /\ preFaults' = preFaults + 1
        /\ doing' = "raised" /\ doing \in {"deadLetter", "retry"}
        /\ CopyPost \/ UNCHANGED << ready, deadLetters >>
    BY <1>23 DEF CopyUnconfirmed, PreFault
  <2>2. Astray(p)' = 0 /\ Passed(p) = 0
    BY <2>1 DEF Astray, Passed
  <2>3. Queued(p)' <= Queued(p) + 1
    BY <1>1, <1>13, <2>1
  <2>4. Queued(p)' \in Nat
    BY <1>1, <1>13, <2>1
  <2> QED
    BY <1>1, <2>1, <2>2, <2>3, <2>4
<1>24. CASE CancelTask
  <2>1. UNCHANGED << clean, taken >> /\ preFaults' = preFaults + 1 /\ doing' = "raised"
    BY <1>24 DEF CancelTask, PreFault
  <2>2. Queued(p)' = Queued(p)
    <3>1. \/ UNCHANGED << ready, unacked >>
          \/ held # << >> /\ Requeue(Held) /\ Held \in Message
      BY <1>2, <1>24, HeldTyped DEF CancelTask, InTry
    <3> QED
      BY <1>2, <3>1, QueuedSame
  <2>3. Astray(p)' = 0
    BY <2>1 DEF Astray
  <2> QED
    BY <1>1, <2>1, <2>2, <2>3
<1>25. CASE ResetChannel
  <2>1. UNCHANGED << clean, taken, doing >> /\ preFaults' = preFaults + 1
    BY <1>25 DEF ResetChannel, PreFault
  <2>2. Queued(p)' = Queued(p)
    BY <1>2, <1>25, QueuedSame DEF ResetChannel
  <2>3. Astray(p)' + Passed(p) <= 1
    <3>1. doing = "ack" => Astray(p)' = 0
      BY <2>1 DEF Astray
    <3>2. doing # "ack" => Passed(p) = 0
      BY DEF Passed
    <3> QED
      BY <1>1, <3>1, <3>2
  <2> QED
    BY <1>1, <2>1, <2>2, <2>3
<1> QED
  BY <1>6, <1>9, <1>10, <1>11, <1>12, <1>14, <1>15, <1>16, <1>18, <1>19, <1>20,
     <1>21, <1>22, <1>23, <1>24, <1>25 DEF PreNext, ConsumerStep

-----------------------------------------------------------------------------
(* Where a step puts messages: a copy of the one at hand, a new post, or    *)
(* what the broker already owed.                                            *)
OwedBefore(m) ==
  \/ Outstanding(m)
  \/ m[2] = 0 /\ taken'[m[1]] > 0
  \/ held # << >> /\ doing = "retry" /\ Held[2] = 0 /\ m = << HeldPost, 1 >>

LEMMA StepOwes ==
  ASSUME PreTyped, PreNext, NEW m \in Message, Outstanding(m)'
  PROVE  OwedBefore(m)
<1>1. /\ ready \in Counts /\ unacked \in Counts /\ taken \in [Raw -> Nat]
      /\ doing \notin {"idle", "raised"} => held # << >>
  BY DEF PreTyped, PreTypeOK
<1>2. /\ held # << >> => Held[2] \in {0, 1}
      /\ ready[m] \in Nat /\ unacked[m] \in Nat
  BY <1>1, HeldTyped DEF Counts
<1>3. ASSUME UNCHANGED << ready, unacked >> PROVE Outstanding(m)
  BY <1>3 DEF Outstanding
<1>4. ASSUME NEW p \in Raw, Produce(p) PROVE OwedBefore(m)
  <2>1. /\ taken' = [taken EXCEPT ![p] = @ + 1] /\ Enqueue(<< p, 0 >>)
        /\ unacked' = unacked
    BY <1>4 DEF Produce
  <2>2. ready'[m] = IF m = << p, 0 >> THEN ready[m] + 1 ELSE ready[m]
    BY <1>1, <2>1 DEF Enqueue, Counts
  <2>3. CASE m = << p, 0 >>
    <3>1. taken'[p] > 0
      BY <1>1, <2>1
    <3> QED
      BY <2>3, <3>1 DEF OwedBefore
  <2>4. CASE m # << p, 0 >>
    BY <2>1, <2>2, <2>4 DEF OwedBefore, Outstanding
  <2> QED
    BY <2>3, <2>4
<1>5. ASSUME CopyPost, unacked' = unacked PROVE OwedBefore(m)
  <2>1. CASE ready' = ready
    BY <1>3, <1>5, <2>1 DEF OwedBefore
  <2>2. CASE doing = "retry" /\ Held[2] = 0 /\ Enqueue(<< HeldPost, 1 >>)
    <3>1. ready'[m] = IF m = << HeldPost, 1 >> THEN ready[m] + 1 ELSE ready[m]
      BY <1>1, <2>2 DEF Enqueue, Counts
    <3> QED
      BY <1>1, <1>5, <2>2, <3>1 DEF OwedBefore, Outstanding
  <2> QED
    BY <1>1, <1>2, <1>5, <2>1, <2>2 DEF CopyPost, PublishCopy, HeldPost
<1>6. ASSUME \/ RequeueUnacked
             \/ \E n \in Message : Deliver(n) \/ Requeue(n)
             \/ \E n \in Message : Ack(n) /\ ready' = ready
      PROVE  Outstanding(m)
  <2>1. CASE RequeueUnacked
    BY <1>1, <1>2, <2>1 DEF RequeueUnacked, Outstanding, Counts
  <2>2. ASSUME NEW n \in Message, Deliver(n) PROVE Outstanding(m)
    BY <1>1, <1>2, <2>2 DEF Deliver, Outstanding, Counts
  <2>3. ASSUME NEW n \in Message, Requeue(n) PROVE Outstanding(m)
    BY <1>1, <1>2, <2>3 DEF Requeue, Outstanding, Counts
  <2>4. ASSUME NEW n \in Message, Ack(n), ready' = ready PROVE Outstanding(m)
    BY <1>1, <1>2, <2>4 DEF Ack, Outstanding, Counts
  <2> QED
    BY <1>6, <2>1, <2>2, <2>3, <2>4
<1>7. ASSUME \/ StartPost \/ Predict \/ PredictRaises \/ PublishClean
             \/ AckRaises \/ Listen \/ PublishCleanFails
      PROVE  UNCHANGED << ready, unacked >>
  BY <1>7 DEF StartPost, Predict, PredictRaises, PublishClean, AckRaises,
     Listen, PublishCleanFails, brokerVars
<1>8. CASE PublishCopyDone
  BY <1>5, <1>8 DEF PublishCopyDone
<1>9. CASE CopyUnconfirmed
  BY <1>3, <1>5, <1>9 DEF CopyUnconfirmed, OwedBefore
<1>10. CASE AckPost
  <2>1. Held \in Message /\ Ack(Held) /\ ready' = ready
    BY <1>1, <1>10, HeldTyped DEF AckPost
  <2> QED
    BY <1>6, <2>1 DEF OwedBefore
<1>11. CASE CancelTask
  <2>1. \/ UNCHANGED << ready, unacked >>
        \/ Held \in Message /\ Requeue(Held)
    BY <1>1, <1>11, HeldTyped DEF CancelTask, InTry
  <2> QED
    BY <1>3, <1>6, <2>1 DEF OwedBefore
<1>12. CASE EndSession \/ KillProcess \/ ResetChannel
  <2>1. RequeueUnacked
    BY <1>12 DEF EndSession, KillProcess, ResetChannel, CloseSession
  <2> QED
    BY <1>6, <2>1 DEF OwedBefore
<1>13. ASSUME NEW n \in Message, TakeDelivery(n) PROVE OwedBefore(m)
  BY <1>6, <1>13 DEF TakeDelivery, OwedBefore
<1> QED
  BY <1>3, <1>4, <1>7, <1>8, <1>9, <1>10, <1>11, <1>12, <1>13
     DEF PreNext, ConsumerStep, OwedBefore

(* What is held after a step was held before, or was owed by the broker.    *)
LEMMA StepHolds ==
  ASSUME PreTyped, HeldStep, NEW i \in DOMAIN held'
  PROVE  \/ \E j \in DOMAIN held : held[j].msg = held'[i].msg
         \/ held'[i].msg \in Message /\ Outstanding(held'[i].msg)
<1>1. held \in Seq(PreDelivery) /\ Len(held) \in Nat /\ DOMAIN held = 1 .. Len(held)
  BY DEF PreTyped, PreTypeOK, PreDelivery
<1>2. CASE UNCHANGED << held, unacked >>
  BY <1>2
<1>3. ASSUME NEW m \in Message, Deliver(m), held' = Append(held, LiveCopy(m))
      PROVE  \/ \E j \in DOMAIN held : held[j].msg = held'[i].msg
             \/ held'[i].msg \in Message /\ Outstanding(held'[i].msg)
  <2>1. LiveCopy(m) \in PreDelivery /\ LiveCopy(m).msg = m
    BY DEF PreDelivery, LiveCopy
  <2>2. /\ DOMAIN held' = 1 .. Len(held) + 1
        /\ \A j \in 1 .. Len(held) : held'[j] = held[j]
        /\ held'[Len(held) + 1] = LiveCopy(m)
    BY <1>1, <1>3, <2>1, AppendProperties
  <2>3. Outstanding(m)
    BY <1>3 DEF Deliver, Outstanding
  <2> QED
    BY <1>1, <2>1, <2>2, <2>3
<1>4. CASE held # << >> /\ held' = Tail(held)
  <2>1. /\ Len(held') = Len(held) - 1 /\ DOMAIN held' = 1 .. Len(held')
        /\ \A j \in 1 .. Len(held') : held'[j] = held[j + 1]
    BY <1>1, <1>4, HeadTailProperties
  <2>2. i + 1 \in DOMAIN held /\ held[i + 1] = held'[i]
    BY <1>1, <2>1
  <2> QED
    BY <2>2
<1>5. CASE held' = << >>
  BY <1>5
<1>6. CASE held' = [k \in DOMAIN held |-> [held[k] EXCEPT !.live = FALSE]]
  BY <1>6, ResetTyped
<1> QED
  BY <1>2, <1>3, <1>4, <1>5, <1>6 DEF HeldStep

LEMMA HeldMessages ==
  ASSUME PreTyped, NEW j \in DOMAIN held
  PROVE  held[j].msg \in Message
<1>1. held \in Seq(PreDelivery)
  BY DEF PreTyped, PreTypeOK, PreDelivery
<1>2. held[j] \in PreDelivery
  BY <1>1
<1> QED
  BY <1>2 DEF PreDelivery

LEMMA HeldIsFirst ==
  ASSUME PreTyped, held # << >>
  PROVE  1 \in DOMAIN held /\ held[1].msg = Held
<1>1. held \in Seq(PreDelivery)
  BY DEF PreTyped, PreTypeOK, PreDelivery
<1> QED
  BY <1>1, EmptySeq DEF Held

LEMMA FromProducersStep ==
  ASSUME PreTyped, FromProducers, PreNext
  PROVE  FromProducers'
<1>1. \A p \in Raw : taken[p] > 0 => taken'[p] > 0
  <2>1. taken \in [Raw -> Nat]
    BY DEF PreTyped, PreTypeOK
  <2>2. ASSUME NEW r \in Raw, Produce(r)
        PROVE  \A p \in Raw : taken[p] > 0 => taken'[p] > 0
    BY <2>1, <2>2 DEF Produce
  <2>3. taken' = taken \/ \E r \in Raw : Produce(r)
    BY DEF PreNext, ConsumerStep, StartPost, Predict, PredictRaises, PublishClean,
       PublishCopyDone, AckPost, AckRaises, EndSession, CloseSession, Listen,
       TakeDelivery, PublishCleanFails, CopyUnconfirmed, CancelTask, ResetChannel,
       KillProcess
  <2> QED
    BY <2>2, <2>3
<1>2. \A m \in Message : Outstanding(m) => taken[m[1]] > 0
  <2> SUFFICES ASSUME NEW m \in Message, Outstanding(m) PROVE taken[m[1]] > 0
    OBVIOUS
  <2>1. m[1] \in Raw /\ m[2] \in {0, 1} /\ m = << m[1], m[2] >>
    BY MessageParts
  <2>2. Pending(m[1])
    BY <2>1 DEF Pending
  <2> QED
    BY <2>1, <2>2 DEF FromProducers
<1>3. held # << >> => taken[HeldPost] > 0 /\ HeldPost \in Raw
  BY HeldIsFirst, HeldTyped DEF FromProducers, HeldPost
<1>4. ASSUME NEW m \in Message, Outstanding(m)' PROVE taken'[m[1]] > 0
  <2>1. OwedBefore(m) /\ m[1] \in Raw
    BY <1>4, StepOwes, MessageParts
  <2> QED
    BY <1>1, <1>2, <1>3, <2>1 DEF OwedBefore
<1>5. ASSUME NEW p \in Raw, Pending(p)' PROVE taken'[p] > 0
  <2>1. PICK a \in {0, 1} : Outstanding(<< p, a >>)'
    BY <1>5 DEF Pending
  <2> QED
    BY <1>4, <2>1, MessageOfParts
<1>6. ASSUME NEW i \in DOMAIN held' PROVE taken'[held'[i].msg[1]] > 0
  <2>1. HeldStep
    BY StepOfHeld
  <2>2. \/ \E j \in DOMAIN held : held[j].msg = held'[i].msg
        \/ held'[i].msg \in Message /\ Outstanding(held'[i].msg)
    BY <1>6, <2>1, StepHolds
  <2>3. \A j \in DOMAIN held : taken[held[j].msg[1]] > 0 /\ held[j].msg[1] \in Raw
    <3>1. ASSUME NEW j \in DOMAIN held PROVE held[j].msg \in Message
      BY HeldMessages
    <3> QED
      BY <3>1, MessageParts DEF FromProducers
  <2> QED
    BY <1>1, <1>2, <2>2, <2>3, MessageParts
<1> QED
  BY <1>5, <1>6 DEF FromProducers

-----------------------------------------------------------------------------
(* Failures are only ever added, and one is added whenever a step makes the *)
(* message at hand a case for retry_or_dead_letter.                         *)
LEMMA FailuresGrow ==
  ASSUME PreTyped, PreNext
  PROVE  /\ \A p \in Raw : failures'[p] \in Nat /\ failures'[p] >= failures[p]
         /\ doing' = "retry" /\ doing # "retry" =>
              failures'[HeldPost] = failures[HeldPost] + 1 /\ held' = held
         /\ doing' = "retry" /\ doing = "retry" => HeldPost' = HeldPost /\ Held' = Held
<1>1. /\ failures \in [Raw -> Nat] /\ failures' \in [Raw -> Nat]
      /\ doing \notin {"idle", "raised"} => held # << >>
  BY StepTypes DEF PreTyped, PreTypeOK
<1>2. held # << >> => HeldPost \in Raw
  BY HeldTyped
<1>3. ASSUME PredictRaises \/ PublishCleanFails \/ (AckRaises /\ doing = "ackShort")
      PROVE  /\ \A p \in Raw : failures'[p] >= failures[p]
             /\ failures'[HeldPost] = failures[HeldPost] + 1 /\ held' = held
             /\ doing # "retry"
  <2>1. /\ HeldPost \in Raw /\ CountFailure /\ held' = held /\ doing # "retry"
    BY <1>1, <1>2, <1>3 DEF PredictRaises, PublishCleanFails, AckRaises
  <2> QED
    BY <1>1, <2>1 DEF CountFailure
<1>4. ASSUME ~ (PredictRaises \/ PublishCleanFails \/ (AckRaises /\ doing = "ackShort"))
      PROVE  /\ failures' = failures
             /\ doing' = "retry" => doing = "retry"
    BY <1>4 DEF PreNext, ConsumerStep, Produce, StartPost, Predict, PublishClean,
       PublishCopyDone, AckPost, AckRaises, EndSession, CloseSession, Listen,
       TakeDelivery, CopyUnconfirmed, CancelTask, ResetChannel, KillProcess, CountFailure
<1>5. ASSUME doing = "retry", doing' = "retry"
      PROVE  HeldPost' = HeldPost /\ Held' = Held
  <2>1. \/ held' = held
        \/ \E m \in Message : TakeDelivery(m)
        \/ ResetChannel
    BY <1>5 DEF PreNext, ConsumerStep, Produce, StartPost, Predict, PredictRaises,
       PublishClean, PublishCleanFails, PublishCopyDone, AckPost, AckRaises, EndSession,
       CloseSession, Listen, CopyUnconfirmed, CancelTask, KillProcess
  <2>2. CASE held' = held
    BY <2>2, HeadUnchanged
  <2>3. ASSUME NEW m \in Message, TakeDelivery(m) PROVE Held' = Held
    BY <1>1, <1>5, <2>3, HeadAppended DEF TakeDelivery, LiveCopy, Held
  <2>4. CASE ResetChannel
    BY <1>1, <1>5, <2>4, HeadReset DEF ResetChannel
  <2> QED
    BY <2>1, <2>2, <2>3, <2>4 DEF HeldPost
<1>6. \A p \in Raw : failures'[p] >= failures[p] /\ failures'[p] \in Nat
  BY <1>1, <1>3, <1>4
<1> QED
  BY <1>3, <1>4, <1>5, <1>6

LEMMA FailuresTracedStep ==
  ASSUME PreTyped, FailuresTraced, PreNext
  PROVE  FailuresTraced'
<1>1. /\ \A p \in Raw : failures[p] \in Nat /\ failures'[p] \in Nat
      /\ \A p \in Raw : failures'[p] >= failures[p]
      /\ doing \notin {"idle", "raised"} => held # << >>
      /\ doing' \notin {"idle", "raised"} => held' # << >>
      /\ held # << >> => HeldPost \in Raw /\ Held[2] \in {0, 1}
  <2>1. /\ failures \in [Raw -> Nat]
        /\ doing \notin {"idle", "raised"} => held # << >>
    BY DEF PreTyped, PreTypeOK
  <2> QED
    BY <2>1, FailuresGrow, HeldTyped, StepTypes
<1>2. ASSUME NEW m \in Message, m[2] = 1, Outstanding(m)
      PROVE  failures[m[1]] >= 1
  BY <1>2, MessageParts DEF FailuresTraced
<1>3. ASSUME NEW m \in Message, m[2] = 1, Outstanding(m)'
      PROVE  failures'[m[1]] >= 1
  <2>1. OwedBefore(m) /\ m[1] \in Raw
    BY <1>3, StepOwes, MessageParts
  <2>2. CASE Outstanding(m)
    BY <1>1, <1>2, <1>3, <2>1, <2>2
  <2>3. CASE held # << >> /\ doing = "retry" /\ m = << HeldPost, 1 >>
    <3>1. failures[HeldPost] >= 1
      BY <1>1, <2>3 DEF FailuresTraced
    <3> QED
      BY <1>1, <2>3, <3>1
  <2> QED
    BY <1>3, <2>1, <2>2, <2>3 DEF OwedBefore
<1>4. ASSUME NEW i \in DOMAIN held', held'[i].msg[2] = 1
      PROVE  failures'[held'[i].msg[1]] >= 1
  <2>1. \/ \E j \in DOMAIN held : held[j].msg = held'[i].msg
        \/ held'[i].msg \in Message /\ Outstanding(held'[i].msg)
    BY <1>4, StepOfHeld, StepHolds
  <2>2. ASSUME NEW j \in DOMAIN held, held[j].msg = held'[i].msg
        PROVE  failures'[held'[i].msg[1]] >= 1
    <3>1. failures[held'[i].msg[1]] >= 1 /\ held'[i].msg[1] \in Raw
      BY <1>4, <2>2, HeldMessages, MessageParts DEF FailuresTraced
    <3> QED
      BY <1>1, <3>1
  <2>3. CASE held'[i].msg \in Message /\ Outstanding(held'[i].msg)
    BY <1>1, <1>2, <1>4, <2>3, MessageParts
  <2> QED
    BY <2>1, <2>2, <2>3
<1>5. ASSUME doing' = "retry" PROVE (failures[HeldPost] >= 1 + Held[2])'
  <2>1. CASE doing = "retry"
    <3>1. failures[HeldPost] >= 1 + Held[2] /\ HeldPost' = HeldPost /\ Held' = Held
      BY <1>5, <2>1, FailuresGrow DEF FailuresTraced
    <3> QED
      BY <1>1, <2>1, <3>1
  <2>2. CASE doing # "retry"
    <3>1. failures'[HeldPost] = failures[HeldPost] + 1 /\ held' = held /\ held # << >>
      BY <1>1, <1>5, <2>2, FailuresGrow
    <3>2. Held' = Held /\ HeldPost' = HeldPost
      BY <3>1, HeadUnchanged
    <3>3. Held[2] = 1 => failures[HeldPost] >= 1
      BY <3>1, HeldIsFirst DEF FailuresTraced, HeldPost
    <3> QED
      BY <1>1, <3>1, <3>2, <3>3
  <2> QED
    BY <2>1, <2>2
<1>6. ASSUME doing' = "deadLetter" PROVE HeldPost' \in Illformed
  <2>1. \/ held' = held
        \/ \E m \in Message : TakeDelivery(m) /\ doing = "deadLetter"
        \/ ResetChannel /\ doing = "deadLetter"
    BY <1>6 DEF PreNext, ConsumerStep, Produce, StartPost, Predict, PredictRaises,
       PublishClean, PublishCleanFails, PublishCopyDone, AckPost, AckRaises, EndSession,
       CloseSession, Listen, CopyUnconfirmed, CancelTask, KillProcess, TakeDelivery,
       ResetChannel
  <2>2. doing = "deadLetter" => HeldPost \in Illformed
    BY DEF FailuresTraced
  <2>3. CASE held' = held
    <3>1. HeldPost' = HeldPost
      BY <2>3, HeadUnchanged
    <3>2. HeldPost \in Illformed
      <4>1. doing = "deadLetter" \/ StartPost
        BY <1>6 DEF PreNext, ConsumerStep, Produce, Predict, PredictRaises,
           PublishClean, PublishCleanFails, PublishCopyDone, AckPost, AckRaises,
           EndSession, CloseSession, Listen, CopyUnconfirmed, CancelTask, KillProcess,
           TakeDelivery, ResetChannel
      <4> QED
        BY <1>6, <2>2, <4>1 DEF StartPost
    <3> QED
      BY <3>1, <3>2
  <2>4. ASSUME NEW m \in Message, TakeDelivery(m), doing = "deadLetter" PROVE HeldPost' = HeldPost
    BY <1>1, <2>4, HeadAppended DEF TakeDelivery, LiveCopy, Held, HeldPost
  <2>5. CASE ResetChannel /\ doing = "deadLetter"
    BY <1>1, <2>2, <2>5, HeadReset DEF ResetChannel
  <2> QED
    BY <2>1, <2>2, <2>3, <2>4, <2>5
<1>7. \A p \in Raw : Outstanding(<< p, 1 >>)' => failures'[p] >= 1
  BY <1>3, MessageOfParts
<1> QED
  BY <1>4, <1>5, <1>6, <1>7 DEF FailuresTraced

LEMMA StepBuries ==
  ASSUME PreTyped, PreNext, NEW m \in Message
  PROVE  /\ deadLetters'[m] >= deadLetters[m] /\ deadLetters[m] \in Nat
         /\ deadLetters'[m] > 0 /\ deadLetters[m] = 0 =>
              /\ m = Held /\ CopyPost
              /\ doing = "deadLetter" \/ (doing = "retry" /\ Held[2] >= 1)
<1>1. deadLetters \in Counts /\ deadLetters[m] \in Nat
  BY DEF PreTyped, PreTypeOK, Counts
<1>2. CASE deadLetters' = deadLetters
  BY <1>1, <1>2
<1>3. ASSUME CopyPost, deadLetters' # deadLetters
      PROVE  DeadLetter(Held) /\ (doing = "deadLetter" \/ (doing = "retry" /\ Held[2] >= 1))
  <2>1. CASE doing = "deadLetter" /\ DeadLetter(Held)
    BY <2>1
  <2>2. CASE doing = "retry" /\ PublishCopy(Held)
    <3>1. Held[2] >= 1 /\ DeadLetter(Held)
      BY <1>3, <2>2 DEF PublishCopy
    <3> QED
      BY <2>2, <3>1
  <2> QED
    BY <1>3, <2>1, <2>2 DEF CopyPost
<1>4. deadLetters' = deadLetters \/ CopyPost
  BY DEF PreNext, ConsumerStep, Produce, StartPost, Predict, PredictRaises,
     PublishClean, PublishCleanFails, PublishCopyDone, AckPost, AckRaises, EndSession,
     CloseSession, Listen, CopyUnconfirmed, CancelTask, KillProcess, TakeDelivery,
     ResetChannel, brokerVars
<1>5. CASE CopyPost /\ deadLetters' # deadLetters
  <2>0. DeadLetter(Held)
    BY <1>3, <1>5
  <2>1. deadLetters'[m] = IF m = Held THEN deadLetters[m] + 1 ELSE deadLetters[m]
    BY <1>1, <2>0 DEF DeadLetter, Counts
  <2> QED
    BY <1>1, <1>3, <1>5, <2>1
<1> QED
  BY <1>2, <1>4, <1>5

LEMMA BuriedStep ==
  ASSUME PreTyped, FailuresTraced, BuriedAfterTwoFailures, PreNext
  PROVE  BuriedAfterTwoFailures'
<1> SUFFICES ASSUME NEW p \in Raw \ Illformed, NEW a \in {0, 1}, deadLetters'[<< p, a >>] > 0
             PROVE  failures'[p] >= 2
  BY DEF BuriedAfterTwoFailures, Buried
<1>1. << p, a >> \in Message
  BY MessageOfParts
<1>2. failures[p] \in Nat /\ failures'[p] \in Nat /\ failures'[p] >= failures[p]
  BY FailuresGrow DEF PreTyped, PreTypeOK
<1>3. deadLetters[<< p, a >>] \in Nat
  BY <1>1, StepBuries
<1>4. CASE deadLetters[<< p, a >>] > 0
  <2>1. failures[p] >= 2
    BY <1>4 DEF BuriedAfterTwoFailures, Buried
  <2> QED
    BY <1>2, <2>1
<1>5. CASE deadLetters[<< p, a >>] = 0
  <2>1. /\ << p, a >> = Held
        /\ doing = "deadLetter" \/ (doing = "retry" /\ Held[2] >= 1)
    BY <1>1, <1>5, StepBuries
  <2>2. HeldPost = p /\ Held[2] = a
    BY <2>1 DEF HeldPost
  <2>3. failures[p] >= 1 + a /\ a = 1
    BY <2>1, <2>2 DEF FailuresTraced
  <2> QED
    BY <1>2, <2>3
<1> QED
  BY <1>3, <1>4, <1>5

-----------------------------------------------------------------------------
LEMMA OwedKept ==
  ASSUME PreTyped, PreNext, NEW m \in Message, Outstanding(m)
  PROVE  Outstanding(m)' \/ (AckPost /\ m = Held)
<1>1. /\ ready \in Counts /\ unacked \in Counts
      /\ ready[m] \in Nat /\ unacked[m] \in Nat
  BY DEF PreTyped, PreTypeOK, Counts
<1>2. ASSUME UNCHANGED << ready, unacked >> PROVE Outstanding(m)'
  BY <1>2 DEF Outstanding
<1>3. ASSUME NEW n, Enqueue(n), unacked' = unacked PROVE Outstanding(m)'
  <2>1. ready'[m] = IF m = n THEN ready[m] + 1 ELSE ready[m]
    BY <1>1, <1>3 DEF Enqueue, Counts
  <2> QED
    BY <1>1, <1>3, <2>1 DEF Outstanding
<1>4. ASSUME NEW n \in Message, Deliver(n) \/ Requeue(n) PROVE Outstanding(m)'
  BY <1>1, <1>4 DEF Deliver, Requeue, Outstanding, Counts
<1>5. CASE RequeueUnacked
  BY <1>1, <1>5 DEF RequeueUnacked, Outstanding, Counts
<1>6. CASE AckPost
  <2>1. /\ unacked' = [unacked EXCEPT ![Held] = @ - 1] /\ ready' = ready
    BY <1>6 DEF AckPost, Ack
  <2>2. m # Held => unacked'[m] = unacked[m]
    BY <1>1, <2>1 DEF Counts
  <2> QED
    BY <1>6, <2>1, <2>2 DEF Outstanding
<1>7. ASSUME NEW p \in Raw, Produce(p) PROVE Outstanding(m)'
  BY <1>3, <1>7 DEF Produce
<1>8. ASSUME CopyPost, unacked' = unacked PROVE Outstanding(m)'
  <2>1. ready' = ready \/ Enqueue(<< Held[1], 1 >>)
    BY <1>8 DEF CopyPost, PublishCopy
  <2>2. CASE ready' = ready
    BY <1>2, <1>8, <2>2
  <2>3. CASE Enqueue(<< Held[1], 1 >>)
    BY <1>3, <1>8, <2>3
  <2> QED
    BY <2>1, <2>2, <2>3
<1>9. CASE PublishCopyDone
  BY <1>8, <1>9 DEF PublishCopyDone
<1>10. CASE CopyUnconfirmed
  BY <1>2, <1>8, <1>10 DEF CopyUnconfirmed
<1>11. CASE EndSession \/ KillProcess \/ ResetChannel
  BY <1>5, <1>11 DEF EndSession, KillProcess, ResetChannel, CloseSession
<1>12. CASE CancelTask
  <2>1. \/ UNCHANGED << ready, unacked >>
        \/ Held \in Message /\ Requeue(Held)
    BY <1>12, HeldTyped DEF CancelTask, InTry, PreTyped
  <2> QED
    BY <1>2, <1>4, <2>1
<1>13. ASSUME NEW n \in Message, TakeDelivery(n) PROVE Outstanding(m)'
  BY <1>4, <1>13 DEF TakeDelivery
<1>14. ASSUME \/ StartPost \/ Predict \/ PredictRaises \/ PublishClean
              \/ AckRaises \/ Listen \/ PublishCleanFails
       PROVE  UNCHANGED << ready, unacked >>
  BY <1>14 DEF StartPost, Predict, PredictRaises, PublishClean, AckRaises,
     Listen, PublishCleanFails, brokerVars
<1> QED
  BY <1>2, <1>6, <1>7, <1>9, <1>10, <1>11, <1>12, <1>13, <1>14 DEF PreNext, ConsumerStep

(* Clean copies, dead letters and dropped posts are never taken back.       *)
LEMMA OutcomesKept ==
  ASSUME PreTyped, PreNext, NEW p \in Raw
  PROVE  /\ clean[p] > 0 => clean'[p] > 0
         /\ Buried(p) => Buried(p)'
         /\ dropped \subseteq dropped'
<1>1. clean \in [Raw -> Nat] /\ (doing \notin {"idle", "raised"} => held # << >>)
  BY DEF PreTyped, PreTypeOK
<1>2. clean' = clean \/ clean' = [clean EXCEPT ![HeldPost] = @ + 1]
  BY DEF PreNext, ConsumerStep, Produce, StartPost, Predict, PredictRaises,
     PublishClean, PublishCleanFails, PublishCopyDone, AckPost, AckRaises, EndSession,
     CloseSession, Listen, CopyUnconfirmed, CancelTask, KillProcess, TakeDelivery,
     ResetChannel
<1>3. clean'[p] >= clean[p]
  BY <1>1, <1>2
<1>4. dropped \subseteq dropped'
  BY DEF PreNext, ConsumerStep, Produce, StartPost, Predict, PredictRaises,
     PublishClean, PublishCleanFails, PublishCopyDone, AckPost, AckRaises, EndSession,
     CloseSession, Listen, CopyUnconfirmed, CancelTask, KillProcess, TakeDelivery,
     ResetChannel
<1>5. \A a \in {0, 1} : deadLetters[<< p, a >>] > 0 => deadLetters'[<< p, a >>] > 0
  <2> SUFFICES ASSUME NEW a \in {0, 1}, deadLetters[<< p, a >>] > 0
               PROVE  deadLetters'[<< p, a >>] > 0
    OBVIOUS
  <2>1. /\ << p, a >> \in Message
        /\ deadLetters'[<< p, a >>] >= deadLetters[<< p, a >>]
        /\ deadLetters[<< p, a >>] \in Nat
    BY MessageOfParts, StepBuries
  <2>2. deadLetters'[<< p, a >>] \in Nat
    BY <2>1, StepTypes DEF Counts
  <2> QED
    BY <2>1, <2>2
<1>6. clean[p] \in Nat /\ clean'[p] \in Nat
  BY <1>1, StepTypes
<1>7. clean[p] > 0 => clean'[p] > 0
  BY <1>3, <1>6
<1>8. Buried(p) => Buried(p)'
  BY <1>5 DEF Buried
<1> QED
  BY <1>4, <1>7, <1>8

LEMMA CoveredStep ==
  ASSUME PreTyped, CoveredBeforeAck, PreNext
  PROVE  CoveredBeforeAck'
<1>1. /\ doing \notin {"idle", "raised"} => held # << >>
      /\ held # << >> => /\ HeldPost \in Raw /\ Held[2] \in {0, 1}
                         /\ Held = << HeldPost, Held[2] >> /\ Held \in Message
  BY HeldTyped DEF PreTyped
<1>2. ASSUME doing' = doing, doing \in {"ack", "ackShort"}
      PROVE  Held' = Held /\ HeldPost' = HeldPost /\ ~ AckPost
  <2>1. \/ held' = held
        \/ \E m \in Message : TakeDelivery(m)
        \/ ResetChannel
    BY <1>2 DEF PreNext, ConsumerStep, Produce, StartPost, Predict, PredictRaises,
       PublishClean, PublishCleanFails, PublishCopyDone, AckPost, AckRaises, EndSession,
       CloseSession, Listen, CopyUnconfirmed, CancelTask, KillProcess
  <2>2. ASSUME held' = held PROVE Held' = Held
    BY <2>2, HeadUnchanged
  <2>3. ASSUME NEW m \in Message, TakeDelivery(m) PROVE Held' = Held
    BY <1>1, <1>2, <2>3, HeadAppended DEF TakeDelivery, LiveCopy, Held
  <2>4. ASSUME ResetChannel PROVE Held' = Held
    BY <1>1, <1>2, <2>4, HeadReset DEF ResetChannel
  <2>5. ~ AckPost
    BY <1>2 DEF AckPost
  <2> QED
    BY <2>1, <2>2, <2>3, <2>4, <2>5 DEF HeldPost
<1>3. ASSUME doing' = "ackShort" PROVE HeldPost' \in dropped'
  <2>1. doing = "ackShort" \/ StartPost
    BY <1>3 DEF PreNext, ConsumerStep, Produce, Predict, PredictRaises,
       PublishClean, PublishCleanFails, PublishCopyDone, AckPost, AckRaises,
       EndSession, CloseSession, Listen, CopyUnconfirmed, CancelTask, KillProcess,
       TakeDelivery, ResetChannel
  <2>2. CASE doing = "ackShort"
    BY <1>1, <1>2, <1>3, <2>2, OutcomesKept DEF CoveredBeforeAck
  <2>3. CASE StartPost
    <3>1. HeldPost' = HeldPost
      BY <2>3, HeadUnchanged DEF StartPost
    <3>2. HeldPost \in TooShort
      BY <1>3, <2>3 DEF StartPost
    <3> QED
      BY <2>3, <3>1, <3>2 DEF StartPost
  <2> QED
    BY <2>1, <2>2, <2>3
<1>4. ASSUME doing' = "ack"
      PROVE  \/ (clean[HeldPost] > 0)'
             \/ Buried(HeldPost)'
             \/ (Held[2] = 0 /\ Outstanding(<< HeldPost, 1 >>))'
  <2>1. doing = "ack" \/ PublishClean \/ PublishCopyDone
    BY <1>4 DEF PreNext, ConsumerStep, Produce, StartPost, Predict, PredictRaises,
       PublishCleanFails, AckPost, AckRaises, EndSession, CloseSession, Listen,
       CopyUnconfirmed, CancelTask, KillProcess, TakeDelivery, ResetChannel
  <2>2. CASE doing = "ack"
    <3>1. Held' = Held /\ HeldPost' = HeldPost /\ ~ AckPost /\ HeldPost \in Raw
      BY <1>1, <1>2, <1>4, <2>2
    <3>2. CASE clean[HeldPost] > 0
      <4>1. clean'[HeldPost] > 0
        BY <3>1, <3>2, OutcomesKept
      <4> QED
        BY <3>1, <4>1
    <3>3. CASE Buried(HeldPost)
      BY <3>1, <3>3, OutcomesKept
    <3>4. CASE Held[2] = 0 /\ Outstanding(<< HeldPost, 1 >>)
      <4>1. << HeldPost, 1 >> \in Message
        BY <3>1, MessageOfParts
      <4>2. Outstanding(<< HeldPost, 1 >>)'
        BY <3>1, <3>4, <4>1, OwedKept
      <4> QED
        BY <3>1, <3>4, <4>2
    <3> QED
      BY <2>2, <3>2, <3>3, <3>4 DEF CoveredBeforeAck
  <2>3. CASE PublishClean
    <3>1. HeldPost' = HeldPost /\ HeldPost \in Raw
      BY <1>1, <2>3, HeadUnchanged DEF PublishClean
    <3>2. clean'[HeldPost] > 0
      <4>1. clean \in [Raw -> Nat]
        BY DEF PreTyped, PreTypeOK
      <4> QED
        BY <2>3, <3>1, <4>1 DEF PublishClean
    <3> QED
      BY <3>1, <3>2
  <2>4. CASE PublishCopyDone
    <3>1. /\ Held' = Held /\ HeldPost' = HeldPost /\ HeldPost \in Raw
          /\ Held \in Message /\ Held = << HeldPost, Held[2] >> /\ Held[2] \in {0, 1}
      BY <1>1, <2>4, HeadUnchanged DEF PublishCopyDone, CopyPost
    <3>2. /\ ready \in Counts /\ deadLetters \in Counts
          /\ ready[<< HeldPost, 1 >>] \in Nat /\ deadLetters[Held] \in Nat
          /\ << HeldPost, 1 >> \in Message
      BY <3>1, MessageOfParts DEF PreTyped, PreTypeOK, Counts
    <3>3. CASE DeadLetter(Held)
      <4>1. deadLetters'[Held] > 0
        BY <3>1, <3>2, <3>3 DEF DeadLetter, Counts
      <4>2. Buried(HeldPost)'
        BY <3>1, <4>1 DEF Buried
      <4> QED
        BY <3>1, <4>2
    <3>4. CASE Held[2] = 0 /\ Enqueue(<< Held[1], 1 >>)
      <4>1. ready'[<< HeldPost, 1 >>] > 0
        BY <3>1, <3>2, <3>4 DEF Enqueue, Counts, HeldPost
      <4> QED
        BY <3>1, <3>4, <4>1 DEF Outstanding
    <3>5. Held[2] >= 1 <=> Held[2] = 1
      BY <3>1
    <3> QED
      BY <2>4, <3>1, <3>3, <3>4, <3>5 DEF PublishCopyDone, CopyPost, PublishCopy
  <2> QED
    BY <2>1, <2>2, <2>3, <2>4
<1> QED
  BY <1>3, <1>4 DEF CoveredBeforeAck

-----------------------------------------------------------------------------
LEMMA PreInductiveInit == PreInit => PreInductive
<1> SUFFICES ASSUME PreInit PROVE PreInductive
  OBVIOUS
<1>1. PreTyped
  BY InitTyped
<1>2. held = << >> /\ doing = "idle"
  BY DEF PreInit
<1>3. \A m \in Message : ready[m] = 0 /\ unacked[m] = 0 /\ deadLetters[m] = 0
  BY DEF PreInit, BrokerInit
<1>4. \A p \in Raw : << p, 0 >> \in Message /\ << p, 1 >> \in Message
  BY MessageOfParts
<1>5. CopiesPaid
  <2> SUFFICES ASSUME NEW p \in Raw
               PROVE  clean[p] + Queued(p) + Astray(p) <= taken[p] + preFaults + Passed(p)
    BY DEF CopiesPaid
  <2>1. Queued(p) = 0
    BY <1>3, <1>4 DEF Queued
  <2>2. Astray(p) = 0 /\ Passed(p) = 0
    BY <1>2 DEF Astray, Passed, AtHand
  <2>3. clean[p] = 0 /\ taken[p] = 0 /\ preFaults = 0
    BY DEF PreInit
  <2> QED
    BY <2>1, <2>2, <2>3
<1>6. \A p \in Raw : ~ Buried(p)
  <2> SUFFICES ASSUME NEW p \in Raw, NEW a \in {0, 1} PROVE ~ (deadLetters[<< p, a >>] > 0)
    BY DEF Buried
  <2>1. deadLetters[<< p, a >>] = 0
    BY <1>3, MessageOfParts
  <2> QED
    BY <2>1
<1>7. ASSUME NEW p \in Raw, NEW a \in {0, 1} PROVE ~ Outstanding(<< p, a >>)
  <2>1. ready[<< p, a >>] = 0 /\ unacked[<< p, a >>] = 0
    BY <1>3, MessageOfParts
  <2> QED
    BY <2>1 DEF Outstanding
<1>8. LiveTogether /\ CoveredBeforeAck
  BY <1>2 DEF LiveTogether, CoveredBeforeAck
<1>9. FailuresTraced /\ FromProducers
  <2>1. \A i \in DOMAIN held : FALSE
    BY <1>2
  <2>2. \A p \in Raw : ~ Pending(p) /\ ~ Outstanding(<< p, 1 >>)
    BY <1>7 DEF Pending
  <2> QED
    BY <1>2, <2>1, <2>2 DEF FailuresTraced, FromProducers
<1> QED
  BY <1>1, <1>5, <1>6, <1>8, <1>9 DEF PreInductive, BuriedAfterTwoFailures

LEMMA PreInductiveStep == PreInductive /\ [PreNext]_preVars => PreInductive'
<1> SUFFICES ASSUME PreInductive, [PreNext]_preVars PROVE PreInductive'
  OBVIOUS
<1>1. CASE PreNext
  BY <1>1, PreTypedStep, StepOfHeld, LiveTogetherStep, CopiesStep, FailuresTracedStep,
     BuriedStep, CoveredStep, FromProducersStep DEF PreInductive
<1>2. CASE UNCHANGED preVars
  BY <1>2 DEF preVars, brokerVars, PreInductive, PreTyped, PreTypeOK, LiveTogether,
     CopiesPaid, Queued, Passed, Astray, AtHand, FailuresTraced, BuriedAfterTwoFailures,
     Buried, CoveredBeforeAck, FromProducers, Pending, Outstanding, Held, HeldPost, HeldLive
<1> QED
  BY <1>1, <1>2

LEMMA PreInvariant == PreSafetySpec => []PreInductive
<1> QED
  BY PreInductiveInit, PreInductiveStep, PTL DEF PreSafetySpec

(* The state of preprocessing-service is well-typed, and the broker waits   *)
(* for exactly the live deliveries the consumer holds.                      *)
THEOREM PreTypeCorrect == PreSafetySpec => []PreTypeOK
<1>1. PreInductive => PreTypeOK
  BY DEF PreInductive, PreTyped
<1> QED
  BY <1>1, PreInvariant, PTL

(* process_message and retry_or_dead_letter: a well-formed post is buried   *)
(* only after two failed attempts, and each surplus clean copy of a post is *)
(* paid for by a fault, for every prefetch window and number of failures.   *)
THEOREM PreprocessingPaysForAttempts == PreSafetySpec => []AttemptsPaidFor
<1>1. PreInductive => AttemptsPaidFor
  <2> SUFFICES ASSUME PreInductive, NEW p \in Raw PROVE clean[p] <= taken[p] + preFaults
    BY DEF PreInductive, AttemptsPaidFor, CleanCopiesBounded
  <2>1. /\ clean[p] \in Nat /\ Queued(p) \in Nat /\ taken[p] \in Nat /\ preFaults \in Nat
        /\ Passed(p) \in {0, 1} /\ Astray(p) \in {0, 1}
        /\ clean[p] + Queued(p) + Astray(p) <= taken[p] + preFaults + Passed(p)
    BY CopiesTyped DEF PreInductive, CopiesPaid
  <2>2. Passed(p) <= Queued(p)
    <3>1. CASE AtHand(p) /\ HeldLive /\ doing = "ack"
      <4>1. /\ held # << >> /\ HeldPost = p /\ Held \in Message
            /\ Held = << p, Held[2] >> /\ Held[2] \in {0, 1}
        BY <3>1, HeldTyped DEF AtHand, PreInductive
      <4>2. unacked[Held] = LiveCopies(held, Held) /\ unacked[Held] \in Nat
        BY <4>1, CountsHeld DEF PreInductive
      <4>3. Head(held) = LiveCopy(Held)
        BY <3>1, <4>1, HeldTyped DEF PreInductive, LiveCopy, PreDelivery, Held, HeldLive
      <4>4. held \in Seq(PreDelivery) /\ Tail(held) \in Seq(PreDelivery)
        BY <4>1, HeldTyped DEF PreInductive, PreTyped, PreTypeOK, PreDelivery
      <4>5. LiveCopies(held, Held) = LiveCopies(Tail(held), Held) + 1
        BY <4>1, <4>3, <4>4, CopiesTail
      <4>6. LiveCopies(Tail(held), Held) \in Nat
        BY <4>4, CopiesType
      <4>7. unacked[Held] >= 1
        BY <4>2, <4>5, <4>6
      <4>8. /\ ready[<< p, 0 >>] \in Nat /\ ready[<< p, 1 >>] \in Nat
            /\ unacked[<< p, 0 >>] \in Nat /\ unacked[<< p, 1 >>] \in Nat
        BY QueuedTyped DEF PreInductive, PreTyped, PreTypeOK
      <4>9. unacked[<< p, 0 >>] >= 1 \/ unacked[<< p, 1 >>] >= 1
        BY <4>1, <4>7
      <4>10. Queued(p) >= 1
        BY <4>8, <4>9 DEF Queued
      <4> QED
        BY <2>1, <4>10
    <3>2. CASE ~ (AtHand(p) /\ HeldLive /\ doing = "ack")
      BY <2>1, <3>2 DEF Passed
    <3> QED
      BY <3>1, <3>2
  <2> QED
    BY <2>1, <2>2
<1> QED
  BY <1>1, PreInvariant, PTL

-----------------------------------------------------------------------------
(* The refinement.  Every step does at most one thing the promise speaks    *)
(* of: it publishes a post or its copy (Accept), passes on or drops one     *)
(* (Store), buries one (Reject), or acknowledges the last copy (Settle).    *)
takenPosts  == { p \in Raw : taken[p] > 0 }
openPosts   == { p \in Raw : Pending(p) }
storedPosts == { p \in Raw : clean[p] > 0 } \cup dropped
buriedPosts == { p \in Raw : Buried(p) }

PassingStep == [Passing!Next]_(Passing!settlementVars)

LEMMA PassingStutters ==
  ASSUME UNCHANGED << takenPosts, openPosts, storedPosts, buriedPosts >>
  PROVE  PassingStep
BY DEF PassingStep, Passing!settlementVars, takenPosts, openPosts, storedPosts,
       buriedPosts

LEMMA PassingAccepts ==
  ASSUME NEW p \in Raw, takenPosts' = takenPosts \cup {p},
         openPosts' = openPosts \cup {p}, UNCHANGED << storedPosts, buriedPosts >>
  PROVE  PassingStep
<1>1. Passing!Accept(p)
  BY DEF Passing!Accept, takenPosts, openPosts, storedPosts, buriedPosts
<1> QED
  BY <1>1 DEF PassingStep, Passing!Next

LEMMA PassingStores ==
  ASSUME NEW p \in Raw, taken[p] > 0, storedPosts' = storedPosts \cup {p},
         UNCHANGED << takenPosts, openPosts, buriedPosts >>
  PROVE  PassingStep
<1>1. {p} \in SUBSET Raw /\ {p} \subseteq { q \in Raw : taken[q] > 0 }
  OBVIOUS
<1>2. Passing!Store({p})
  BY <1>1 DEF Passing!Store, takenPosts, openPosts, storedPosts, buriedPosts
<1> QED
  BY <1>1, <1>2 DEF PassingStep, Passing!Next

LEMMA PassingRejects ==
  ASSUME NEW p \in Raw, taken[p] > 0, buriedPosts' = buriedPosts \cup {p},
         UNCHANGED << takenPosts, openPosts, storedPosts >>
  PROVE  PassingStep
<1>1. p \in Raw \cap { q \in Raw : taken[q] > 0 }
  OBVIOUS
<1>2. Passing!Reject(p)
  BY <1>1 DEF Passing!Reject, takenPosts, openPosts, storedPosts, buriedPosts
<1> QED
  BY <1>2 DEF PassingStep, Passing!Next

LEMMA PassingSettles ==
  ASSUME NEW p \in openPosts, p \in storedPosts \cup buriedPosts,
         openPosts' = openPosts \ {p},
         UNCHANGED << takenPosts, storedPosts, buriedPosts >>
  PROVE  PassingStep
<1>1. p \in Raw
  BY DEF openPosts
<1>2. Passing!Settle(p)
  BY DEF Passing!Settle, takenPosts, openPosts, storedPosts, buriedPosts
<1> QED
  BY <1>1, <1>2 DEF PassingStep, Passing!Next

LEMMA OpenFromOwed ==
  ASSUME \A m \in Message : Outstanding(m)' <=> Outstanding(m)
  PROVE  openPosts' = openPosts
<1>1. ASSUME NEW p \in Raw PROVE Pending(p)' <=> Pending(p)
  BY MessageOfParts DEF Pending
<1> QED
  BY <1>1 DEF openPosts

(* A copy in the queue opens its post, if it was not open.                  *)
LEMMA EnqueueOpens ==
  ASSUME PreTyped, NEW p \in Raw, NEW a \in {0, 1}, Enqueue(<< p, a >>), unacked' = unacked
  PROVE  openPosts' = openPosts \cup {p}
<1>1. /\ ready \in Counts /\ unacked \in Counts /\ << p, a >> \in Message
  BY MessageOfParts DEF PreTyped, PreTypeOK
<1>2. ASSUME NEW m \in Message
      PROVE  Outstanding(m)' <=> Outstanding(m) \/ m = << p, a >>
  <2>1. ready'[m] = IF m = << p, a >> THEN ready[m] + 1 ELSE ready[m]
    BY <1>1 DEF Enqueue, Counts
  <2>2. ready[m] \in Nat
    BY <1>1 DEF Counts
  <2> QED
    BY <2>1, <2>2 DEF Outstanding
<1>3. ASSUME NEW q \in Raw PROVE Pending(q)' <=> Pending(q) \/ q = p
  <2>1. \A b \in {0, 1} :
          Outstanding(<< q, b >>)' <=> Outstanding(<< q, b >>) \/ (q = p /\ b = a)
    BY <1>2, MessageOfParts
  <2> QED
    BY <2>1 DEF Pending
<1> QED
  BY <1>3 DEF openPosts

LEMMA DeadLetterBuries ==
  ASSUME PreTyped, NEW p \in Raw, NEW a \in {0, 1}, DeadLetter(<< p, a >>)
  PROVE  buriedPosts' = buriedPosts \cup {p}
<1>1. deadLetters \in Counts /\ << p, a >> \in Message
  BY MessageOfParts DEF PreTyped, PreTypeOK
<1>2. ASSUME NEW m \in Message
      PROVE  deadLetters'[m] > 0 <=> deadLetters[m] > 0 \/ m = << p, a >>
  <2>1. deadLetters'[m] = IF m = << p, a >> THEN deadLetters[m] + 1 ELSE deadLetters[m]
    BY <1>1 DEF DeadLetter, Counts
  <2>2. deadLetters[m] \in Nat
    BY <1>1 DEF Counts
  <2> QED
    BY <2>1, <2>2
<1>3. ASSUME NEW q \in Raw PROVE Buried(q)' <=> Buried(q) \/ q = p
  <2>1. \A b \in {0, 1} :
          deadLetters'[<< q, b >>] > 0 <=> deadLetters[<< q, b >>] > 0 \/ (q = p /\ b = a)
    BY <1>2, MessageOfParts
  <2> QED
    BY <2>1 DEF Buried
<1> QED
  BY <1>3 DEF buriedPosts

LEMMA QueueStepsKeepOwed ==
  ASSUME PreTyped,
         \/ UNCHANGED << ready, unacked >>
         \/ RequeueUnacked
         \/ \E m \in Message : Deliver(m) \/ Requeue(m)
  PROVE  openPosts' = openPosts
<1>1. ready \in Counts /\ unacked \in Counts
  BY DEF PreTyped, PreTypeOK
<1> SUFFICES ASSUME NEW m \in Message PROVE Outstanding(m)' <=> Outstanding(m)
  BY OpenFromOwed
<1>2. ready[m] \in Nat /\ unacked[m] \in Nat
  BY <1>1 DEF Counts
<1>3. CASE UNCHANGED << ready, unacked >>
  BY <1>3 DEF Outstanding
<1>4. CASE RequeueUnacked
  <2>1. ready'[m] = ready[m] + unacked[m] /\ unacked'[m] = 0
    BY <1>4 DEF RequeueUnacked
  <2> QED
    BY <1>2, <2>1 DEF Outstanding
<1>5. ASSUME NEW n \in Message, Deliver(n)
      PROVE  Outstanding(m)' <=> Outstanding(m)
  <2>1. /\ ready'[m] = IF m = n THEN ready[m] - 1 ELSE ready[m]
        /\ unacked'[m] = IF m = n THEN unacked[m] + 1 ELSE unacked[m]
        /\ ready[n] > 0
    BY <1>1, <1>5 DEF Deliver, Counts
  <2> QED
    BY <1>2, <2>1 DEF Outstanding
<1>6. ASSUME NEW n \in Message, Requeue(n)
      PROVE  Outstanding(m)' <=> Outstanding(m)
  <2>1. /\ ready'[m] = IF m = n THEN ready[m] + 1 ELSE ready[m]
        /\ unacked'[m] = IF m = n THEN unacked[m] - 1 ELSE unacked[m]
        /\ unacked[n] > 0
    BY <1>1, <1>6 DEF Requeue, Counts
  <2> QED
    BY <1>2, <2>1 DEF Outstanding
<1> QED
  BY <1>3, <1>4, <1>5, <1>6

(* What else the promise sees is unchanged when its variables are.          *)
LEMMA OutcomesSame ==
  /\ taken' = taken => takenPosts' = takenPosts
  /\ clean' = clean /\ dropped' = dropped => storedPosts' = storedPosts
  /\ deadLetters' = deadLetters => buriedPosts' = buriedPosts
BY DEF takenPosts, storedPosts, buriedPosts, Buried

LEMMA CopyMaps ==
  ASSUME PreInductive, CopyPost, UNCHANGED << unacked, taken, clean, dropped >>
  PROVE  PassingStep
<1>1. /\ HeldPost \in Raw /\ Held[2] \in {0, 1} /\ Held = << HeldPost, Held[2] >>
      /\ taken[HeldPost] > 0
  <2>1. PreTyped /\ held # << >>
    BY DEF PreInductive, PreTyped, CopyPost
  <2> QED
    BY <2>1, HeldTyped, HeldIsFirst DEF PreInductive, FromProducers, HeldPost
<1>2. takenPosts' = takenPosts /\ storedPosts' = storedPosts
  BY OutcomesSame
<1>3. CASE DeadLetter(Held) /\ UNCHANGED ready
  <2>1. buriedPosts' = buriedPosts \cup {HeldPost}
    BY <1>1, <1>3, DeadLetterBuries DEF PreInductive
  <2>2. openPosts' = openPosts
    BY <1>3, QueueStepsKeepOwed DEF PreInductive
  <2> QED
    BY <1>1, <1>2, <2>1, <2>2, PassingRejects
<1>4. CASE Enqueue(<< HeldPost, 1 >>) /\ UNCHANGED deadLetters
  <2>1. openPosts' = openPosts \cup {HeldPost}
    BY <1>1, <1>4, EnqueueOpens DEF PreInductive
  <2>2. HeldPost \in takenPosts
    BY <1>1 DEF takenPosts
  <2> QED
    BY <1>1, <1>2, <1>4, <2>1, <2>2, OutcomesSame, PassingAccepts
<1> QED
  BY <1>3, <1>4 DEF CopyPost, PublishCopy, HeldPost

LEMMA AckMaps ==
  ASSUME PreInductive, AckPost
  PROVE  PassingStep
<1>1. /\ PreTyped /\ held # << >> /\ HeldLive /\ Ack(Held) /\ ready' = ready
      /\ UNCHANGED << deadLetters, taken, clean, dropped >>
  BY DEF PreInductive, PreTyped, AckPost
<1>2. /\ HeldPost \in Raw /\ Held[2] \in {0, 1} /\ Held = << HeldPost, Held[2] >>
      /\ Held \in Message
  BY <1>1, HeldTyped
<1> PICK p \in Raw : p = HeldPost
  BY <1>2
<1>3. /\ unacked \in Counts /\ ready \in Counts
  BY <1>1 DEF PreTyped, PreTypeOK
<1>4. UNCHANGED << takenPosts, storedPosts, buriedPosts >>
  BY <1>1, OutcomesSame
<1>5. ASSUME NEW m \in Message, m # Held PROVE Outstanding(m)' <=> Outstanding(m)
  <2>1. unacked'[m] = unacked[m]
    BY <1>1, <1>3, <1>5 DEF Ack, Counts
  <2> QED
    BY <1>1, <2>1 DEF Outstanding
<1>6. ASSUME NEW q \in Raw, q # p PROVE Pending(q)' <=> Pending(q)
  <2>1. ASSUME NEW b \in {0, 1} PROVE Outstanding(<< q, b >>)' <=> Outstanding(<< q, b >>)
    <3>1. << q, b >> \in Message /\ << q, b >>[1] # Held[1]
      BY <1>2, <1>6, MessageOfParts DEF HeldPost
    <3> QED
      BY <1>5, <3>1
  <2> QED
    BY <2>1 DEF Pending
<1>7. Pending(p)
  <2>1. Outstanding(Held)
    BY <1>1 DEF Ack, Outstanding
  <2>2. PICK a \in {0, 1} : Held = << p, a >>
    BY <1>2
  <2> QED
    BY <2>1, <2>2 DEF Pending
<1>8. CASE Pending(p)'
  <2>1. openPosts' = openPosts
    BY <1>6, <1>7, <1>8 DEF openPosts
  <2> QED
    BY <1>4, <2>1, PassingStutters
<1>9. CASE ~ Pending(p)'
  <2>1. openPosts' = openPosts \ {p}
    BY <1>6, <1>9 DEF openPosts
  <2>2. ~ (Held[2] = 0 /\ Outstanding(<< p, 1 >>))
    <3>1. ASSUME Held[2] = 0, Outstanding(<< p, 1 >>) PROVE FALSE
      <4>1. << p, 1 >> \in Message /\ << p, 1 >>[2] # Held[2]
        BY <1>2, <3>1, MessageOfParts
      <4>2. Outstanding(<< p, 1 >>)'
        BY <1>5, <3>1, <4>1
      <4> QED
        BY <1>9, <4>2 DEF Pending
    <3> QED
      BY <3>1
  <2>3. p \in dropped \/ clean[p] > 0 \/ Buried(p)
    BY <2>2 DEF AckPost, PreInductive, CoveredBeforeAck
  <2>4. p \in openPosts /\ p \in storedPosts \cup buriedPosts
    BY <1>2, <1>7, <2>3 DEF openPosts, storedPosts, buriedPosts
  <2> QED
    BY <1>4, <2>1, <2>4, PassingSettles
<1> QED
  BY <1>8, <1>9

LEMMA PassingMaps == PreInductive /\ [PreNext]_preVars => PassingStep
<1> SUFFICES ASSUME PreInductive, [PreNext]_preVars PROVE PassingStep
  OBVIOUS
<1>1. PreTyped /\ (doing \notin {"idle", "raised"} => held # << >>)
  BY DEF PreInductive, PreTyped
<1>2. held # << >> => HeldPost \in Raw /\ taken[HeldPost] > 0 /\ Held \in Message
  BY <1>1, HeldTyped, HeldIsFirst DEF PreInductive, FromProducers, HeldPost
<1>3. ASSUME UNCHANGED << deadLetters, taken, clean, dropped >>,
             \/ UNCHANGED << ready, unacked >>
             \/ RequeueUnacked
             \/ \E m \in Message : Deliver(m) \/ Requeue(m)
      PROVE  PassingStep
  BY <1>1, <1>3, QueueStepsKeepOwed, OutcomesSame, PassingStutters
<1>4. CASE UNCHANGED preVars
  BY <1>3, <1>4 DEF preVars, brokerVars
<1>5. ASSUME NEW p \in Raw, Produce(p) PROVE PassingStep
  <2>1. openPosts' = openPosts \cup {p}
    BY <1>1, <1>5, EnqueueOpens DEF Produce
  <2>2. takenPosts' = takenPosts \cup {p}
    <3>1. taken \in [Raw -> Nat] /\ taken' = [taken EXCEPT ![p] = @ + 1]
      BY <1>1, <1>5 DEF PreTyped, PreTypeOK, Produce
    <3>2. ASSUME NEW q \in Raw PROVE taken'[q] > 0 <=> taken[q] > 0 \/ q = p
      BY <3>1
    <3> QED
      BY <3>2 DEF takenPosts
  <2>3. UNCHANGED << storedPosts, buriedPosts >>
    BY <1>5, OutcomesSame DEF Produce
  <2> QED
    BY <2>1, <2>2, <2>3, PassingAccepts
<1>6. CASE StartPost
  <2>1. /\ HeldPost \in Raw /\ taken[HeldPost] > 0
        /\ UNCHANGED << ready, unacked, deadLetters, taken, clean >>
        /\ dropped' = dropped \cup ({HeldPost} \cap TooShort)
    BY <1>2, <1>6 DEF StartPost, brokerVars
  <2>2. CASE HeldPost \in TooShort
    <3>1. storedPosts' = storedPosts \cup {HeldPost}
      BY <2>1, <2>2 DEF storedPosts
    <3> QED
      BY <1>1, <2>1, <3>1, OutcomesSame, QueueStepsKeepOwed, PassingStores
  <2>3. CASE HeldPost \notin TooShort
    <3>1. dropped' = dropped
      BY <2>1, <2>3
    <3> QED
      BY <1>3, <2>1, <3>1
  <2> QED
    BY <2>2, <2>3
<1>7. CASE PublishClean \/ PublishCleanFails
  <2>1. /\ HeldPost \in Raw /\ taken[HeldPost] > 0
        /\ UNCHANGED << ready, unacked, deadLetters, taken, dropped >>
        /\ clean' = clean \/ clean' = [clean EXCEPT ![HeldPost] = @ + 1]
    BY <1>1, <1>2, <1>7 DEF PublishClean, PublishCleanFails, brokerVars
  <2>2. CASE clean' = clean
    BY <1>3, <2>1, <2>2
  <2>3. CASE clean' = [clean EXCEPT ![HeldPost] = @ + 1]
    <3>1. clean \in [Raw -> Nat]
      BY <1>1 DEF PreTyped, PreTypeOK
    <3>2. ASSUME NEW q \in Raw PROVE clean'[q] > 0 <=> clean[q] > 0 \/ q = HeldPost
      BY <2>1, <2>3, <3>1
    <3>3. storedPosts' = storedPosts \cup {HeldPost}
      BY <2>1, <3>2 DEF storedPosts
    <3> QED
      BY <1>1, <2>1, <3>3, OutcomesSame, QueueStepsKeepOwed, PassingStores
  <2> QED
    BY <2>1, <2>2, <2>3
<1>8. CASE PublishCopyDone
  BY <1>8, CopyMaps DEF PublishCopyDone
<1>9. CASE CopyUnconfirmed
  <2>1. UNCHANGED << unacked, taken, clean, dropped >>
    BY <1>9 DEF CopyUnconfirmed
  <2>2. CASE CopyPost
    BY <2>1, <2>2, CopyMaps
  <2>3. CASE UNCHANGED << ready, deadLetters >>
    BY <1>3, <2>1, <2>3
  <2> QED
    BY <1>9, <2>2, <2>3 DEF CopyUnconfirmed
<1>10. CASE AckPost
  BY <1>10, AckMaps
<1>11. CASE Predict \/ PredictRaises \/ AckRaises \/ Listen
  BY <1>3, <1>11 DEF Predict, PredictRaises, AckRaises, Listen, brokerVars
<1>12. CASE EndSession \/ KillProcess \/ ResetChannel
  BY <1>3, <1>12 DEF EndSession, KillProcess, ResetChannel, CloseSession
<1>13. ASSUME NEW m \in Message, TakeDelivery(m) PROVE PassingStep
  BY <1>3, <1>13 DEF TakeDelivery
<1>14. CASE CancelTask
  <2>1. /\ UNCHANGED << deadLetters, taken, clean, dropped >>
        /\ UNCHANGED << ready, unacked >> \/ (Held \in Message /\ Requeue(Held))
    BY <1>1, <1>2, <1>14 DEF CancelTask, InTry
  <2> QED
    BY <1>3, <2>1
<1> QED
  BY <1>4, <1>5, <1>6, <1>7, <1>8, <1>9, <1>10, <1>11, <1>12, <1>13, <1>14
     DEF PreNext, ConsumerStep

LEMMA PassingInit == PreInit => Passing!Init
<1> SUFFICES ASSUME PreInit PROVE Passing!Init
  OBVIOUS
<1>1. ASSUME NEW p \in Raw, NEW a \in {0, 1}
      PROVE  ~ Outstanding(<< p, a >>) /\ ~ (deadLetters[<< p, a >>] > 0)
  <2>1. << p, a >> \in Message
    BY MessageOfParts
  <2>2. ready[<< p, a >>] = 0 /\ unacked[<< p, a >>] = 0 /\ deadLetters[<< p, a >>] = 0
    BY <2>1 DEF PreInit, BrokerInit
  <2> QED
    BY <2>2 DEF Outstanding
<1>2. ASSUME NEW p \in Raw
      PROVE  ~ Pending(p) /\ ~ Buried(p) /\ ~ (taken[p] > 0) /\ ~ (clean[p] > 0)
  BY <1>1 DEF Pending, Buried, PreInit
<1>3. dropped = {}
  BY DEF PreInit
<1> QED
  BY <1>2, <1>3 DEF Passing!Init

(* Whatever call fails, preprocessing-service behaves like the settlement   *)
(* promise: a raw post is owed until it is passed on, dropped as too short, *)
(* or in the dead-letter queue, also while a copy replaces the original.    *)
THEOREM PreprocessingSettles == PreSafetySpec => RawPostsSettled
<1>1. PreInductive /\ [PreNext]_preVars => [Passing!Next]_(Passing!settlementVars)
  BY PassingMaps DEF PassingStep
<1> QED
  BY <1>1, PassingInit, PreInvariant, PTL DEF PreSafetySpec, RawPostsSettled, Passing!Spec

-----------------------------------------------------------------------------
(* The stages of the pipeline.                                              *)
(* What the later stages assume of their constants.                         *)
LEMMA StageConstants ==
  /\ Raw \X {0} \subseteq Message /\ {} \subseteq Raw \X {0}
  /\ MaxRaw + MaxPreFaults \in Nat /\ MaxRaw + MaxPreFaults + MaxScorerFaults \in Nat
  /\ Unscorable \subseteq Raw /\ InvalidResult \subseteq Raw \ Unscorable
  /\ Poison \subseteq Raw \ {} /\ Raw \subseteq Raw /\ {} \subseteq Raw
BY RawAssumption, LateAssumption, PreBoundsAssumption, PipelineBoundsAssumption

LEMMA PipelineInitial == PipelineInit => PreInit /\ Sentiment!Init /\ Storage!Init
BY DEF PipelineInit

(* Each stage sees a step of its own or a stutter: what one publishes, the  *)
(* next one takes.                                                          *)
LEMMA PipelineStages ==
  ASSUME [PipelineNext]_pipelineVars
  PROVE  [PreNext]_preVars /\ [Sentiment!Next]_(Sentiment!vars) /\ [Storage!Next]_(Storage!vars)
<1>1. CASE UNCHANGED pipelineVars
  <2>1. UNCHANGED preVars /\ UNCHANGED scorerVars /\ UNCHANGED writerVars
    BY <1>1 DEF pipelineVars
  <2>2. UNCHANGED Sentiment!vars
    BY <2>1 DEF Sentiment!vars, Sentiment!sessionVars, Sentiment!brokerVars, scorerVars,
           preVars, CleanTaken
  <2>3. UNCHANGED Storage!vars
    BY <2>1 DEF Storage!vars, Storage!sessionVars, Storage!brokerVars, scorerVars,
           writerVars
  <2> QED
    BY <2>1, <2>2, <2>3
<1>2. CASE PreprocessingStep
  <2>1. UNCHANGED Storage!vars
    BY <1>2 DEF PreprocessingStep, CleanArrives, Storage!vars, Storage!sessionVars,
           Storage!brokerVars, scorerVars, writerVars
  <2>2. CASE clean' = clean /\ UNCHANGED scorerVars
    BY <1>2, <2>1, <2>2 DEF PreprocessingStep, Sentiment!vars, Sentiment!sessionVars,
           Sentiment!brokerVars, scorerVars, CleanTaken
  <2>3. CASE (\E p \in Raw : Sentiment!Publish(<< p, 0 >>)) /\ UNCHANGED << scored, failed >>
    <3>1. PICK p \in Raw : Sentiment!Publish(<< p, 0 >>)
      BY <2>3
    <3>2. << p, 0 >> \in Raw \X {0}
      OBVIOUS
    <3>3. Sentiment!SessionNext
      BY <3>1, <3>2 DEF Sentiment!SessionNext
    <3>4. Sentiment!Next
      BY <2>3, <3>3 DEF Sentiment!Next, Sentiment!stageVars
    <3> QED
      BY <1>2, <2>1, <3>4 DEF PreprocessingStep
  <2> QED
    BY <1>2, <2>2, <2>3 DEF PreprocessingStep, CleanArrives
<1>3. CASE SentimentStep
  <2>1. CASE scored' = scored /\ UNCHANGED writerVars
    BY <1>3, <2>1 DEF SentimentStep, Storage!vars, Storage!sessionVars,
           Storage!brokerVars, writerVars
  <2>2. CASE \E p \in Raw : Storage!Publish(p) /\ UNCHANGED posts
    <3>1. Storage!Next
      BY <2>2 DEF Storage!Next, Storage!SessionNext
    <3> QED
      BY <1>3, <3>1 DEF SentimentStep
  <2> QED
    BY <1>3, <2>1, <2>2 DEF SentimentStep, ScoredArrives
<1>4. CASE StorageStep
  BY <1>4 DEF StorageStep, Sentiment!vars, Sentiment!sessionVars, Sentiment!brokerVars,
         scorerVars, preVars, CleanTaken
<1> QED
  BY <1>1, <1>2, <1>3, <1>4 DEF PipelineNext

LEMMA StageSpecs ==
  PipelineSpec => PreSafetySpec /\ Sentiment!SafetySpec /\ Storage!SafetySpec
<1>1. [PipelineNext]_pipelineVars => [PreNext]_preVars
  BY PipelineStages
<1>2. [PipelineNext]_pipelineVars => [Sentiment!Next]_(Sentiment!vars)
  BY PipelineStages
<1>3. [PipelineNext]_pipelineVars => [Storage!Next]_(Storage!vars)
  BY PipelineStages
<1> QED
  BY <1>1, <1>2, <1>3, PipelineInitial, PTL
     DEF PipelineSpec, PreSafetySpec, Sentiment!SafetySpec, Storage!SafetySpec

-----------------------------------------------------------------------------
(* The posts each stage has accepted, owes, passed on or dead-lettered.     *)
cleanPosts  == { p \in Raw : clean[p] > 0 }
scorerOpen  == { p \in Raw : Sentiment!Open(p) }
scorerDead  == { p \in Raw : Sentiment!DeadLettered(p) }
scoredPosts == { p \in Raw : scored[p] > 0 }
writerOpen  == { p \in Raw : Storage!Outstanding(p) }
writerDead  == { p \in Raw : scoredDead[p] > 0 }

openAnywhere == openPosts \cup scorerOpen \cup writerOpen
settledPosts == posts \cup dropped
deadAnywhere == buriedPosts \cup scorerDead \cup writerDead

(* What one stage passed on is what the next one accepted: from stage to    *)
(* stage, no post is forgotten and none appears.                            *)
StagesComplete ==
  /\ takenPosts  = openPosts  \cup cleanPosts \cup dropped \cup buriedPosts
  /\ cleanPosts  = scorerOpen \cup scoredPosts \cup scorerDead
  /\ scoredPosts = writerOpen \cup posts \cup writerDead

EndToEndStep == [EndToEnd!Next]_(EndToEnd!settlementVars)

LEMMA EndToEndStutters ==
  ASSUME UNCHANGED << takenPosts, openAnywhere, settledPosts, deadAnywhere >>
  PROVE  EndToEndStep
<1>1. UNCHANGED EndToEnd!settlementVars
  BY DEF EndToEnd!settlementVars, takenPosts, openAnywhere, settledPosts, deadAnywhere,
     openPosts, scorerOpen, writerOpen, buriedPosts, scorerDead, writerDead
<1> QED
  BY <1>1 DEF EndToEndStep

(* The four steps of the end-to-end promise.                                *)
LEMMA EndToEndNext ==
  ASSUME \/ \E m \in Raw :
              /\ takenPosts' = takenPosts \cup {m} /\ openAnywhere' = openAnywhere \cup {m}
              /\ UNCHANGED << settledPosts, deadAnywhere >>
         \/ \E S \in SUBSET takenPosts :
              /\ settledPosts' = settledPosts \cup S
              /\ UNCHANGED << takenPosts, openAnywhere, deadAnywhere >>
         \/ \E m \in takenPosts :
              /\ deadAnywhere' = deadAnywhere \cup {m}
              /\ UNCHANGED << takenPosts, openAnywhere, settledPosts >>
         \/ \E m \in openAnywhere \cap (settledPosts \cup deadAnywhere) :
              /\ openAnywhere' = openAnywhere \ {m}
              /\ UNCHANGED << takenPosts, settledPosts, deadAnywhere >>
  PROVE EndToEndStep
<1>1. ASSUME NEW m \in Raw, takenPosts' = takenPosts \cup {m},
             openAnywhere' = openAnywhere \cup {m}, UNCHANGED << settledPosts, deadAnywhere >>
      PROVE  EndToEnd!Accept(m)
  BY <1>1 DEF EndToEnd!Accept, takenPosts, openAnywhere, settledPosts, deadAnywhere,
     openPosts, scorerOpen, writerOpen, buriedPosts, scorerDead, writerDead
<1>2. ASSUME NEW S \in SUBSET takenPosts, settledPosts' = settledPosts \cup S,
             UNCHANGED << takenPosts, openAnywhere, deadAnywhere >>
      PROVE  EndToEnd!Store(S)
  BY <1>2 DEF EndToEnd!Store, takenPosts, openAnywhere, settledPosts, deadAnywhere,
     openPosts, scorerOpen, writerOpen, buriedPosts, scorerDead, writerDead
<1>3. ASSUME NEW m \in takenPosts, deadAnywhere' = deadAnywhere \cup {m},
             UNCHANGED << takenPosts, openAnywhere, settledPosts >>
      PROVE  EndToEnd!Reject(m)
  BY <1>3 DEF EndToEnd!Reject, takenPosts, openAnywhere, settledPosts, deadAnywhere,
     openPosts, scorerOpen, writerOpen, buriedPosts, scorerDead, writerDead
<1>4. ASSUME NEW m \in openAnywhere \cap (settledPosts \cup deadAnywhere),
             openAnywhere' = openAnywhere \ {m},
             UNCHANGED << takenPosts, settledPosts, deadAnywhere >>
      PROVE  EndToEnd!Settle(m)
  BY <1>4 DEF EndToEnd!Settle, takenPosts, openAnywhere, settledPosts, deadAnywhere,
     openPosts, scorerOpen, writerOpen, buriedPosts, scorerDead, writerDead
<1>5. takenPosts \subseteq Raw /\ openAnywhere \subseteq Raw
  BY DEF takenPosts, openAnywhere, openPosts, scorerOpen, writerOpen
<1> QED
  BY <1>1, <1>2, <1>3, <1>4, <1>5 DEF EndToEndStep, EndToEnd!Next

(* sentiment-service has accepted what preprocessing-service passed on.     *)
LEMMA CleanAccepted ==
  /\ cleanPosts = { p \in Raw : Sentiment!Accepted(p) }
  /\ cleanPosts' = { p \in Raw : Sentiment!Accepted(p)' }
<1>1. ASSUME NEW p \in Raw
      PROVE  CleanTaken[<< p, 0 >>] = clean[p] /\ CleanTaken'[<< p, 0 >>] = clean'[p]
  BY MessageOfParts DEF CleanTaken
<1> QED
  BY <1>1 DEF cleanPosts, Sentiment!Accepted, Sentiment!First

(* The promise of each stage, as moves of its sets of posts.                *)
LEMMA FirstMoves ==
  ASSUME [Passing!Next]_(Passing!settlementVars)
  PROVE  \/ UNCHANGED << takenPosts, openPosts, storedPosts, buriedPosts >>
         \/ \E m \in Raw :
              /\ takenPosts' = takenPosts \cup {m} /\ openPosts' = openPosts \cup {m}
              /\ UNCHANGED << storedPosts, buriedPosts >>
         \/ \E S \in SUBSET takenPosts :
              /\ storedPosts' = storedPosts \cup S
              /\ UNCHANGED << takenPosts, openPosts, buriedPosts >>
         \/ \E m \in takenPosts :
              /\ buriedPosts' = buriedPosts \cup {m}
              /\ UNCHANGED << takenPosts, openPosts, storedPosts >>
         \/ \E m \in openPosts \cap (storedPosts \cup buriedPosts) :
              /\ openPosts' = openPosts \ {m}
              /\ UNCHANGED << takenPosts, storedPosts, buriedPosts >>
BY DEF Passing!Next, Passing!settlementVars, Passing!Accept, Passing!Store,
       Passing!Reject,
       Passing!Settle, takenPosts, openPosts, storedPosts, buriedPosts

LEMMA MiddleMoves ==
  ASSUME [Sentiment!Promise!Next]_(Sentiment!Promise!settlementVars)
  PROVE  \/ UNCHANGED << cleanPosts, scorerOpen, scoredPosts, scorerDead >>
         \/ \E m \in Raw :
              /\ cleanPosts' = cleanPosts \cup {m} /\ scorerOpen' = scorerOpen \cup {m}
              /\ UNCHANGED << scoredPosts, scorerDead >>
         \/ \E S \in SUBSET cleanPosts :
              /\ scoredPosts' = scoredPosts \cup S
              /\ UNCHANGED << cleanPosts, scorerOpen, scorerDead >>
         \/ \E m \in cleanPosts :
              /\ scorerDead' = scorerDead \cup {m}
              /\ UNCHANGED << cleanPosts, scorerOpen, scoredPosts >>
         \/ \E m \in scorerOpen \cap (scoredPosts \cup scorerDead) :
              /\ scorerOpen' = scorerOpen \ {m}
              /\ UNCHANGED << cleanPosts, scoredPosts, scorerDead >>
BY CleanAccepted
   DEF Sentiment!Promise!Next, Sentiment!Promise!settlementVars, Sentiment!Promise!Accept,
       Sentiment!Promise!Store, Sentiment!Promise!Reject, Sentiment!Promise!Settle,
       scorerOpen, scoredPosts, scorerDead

LEMMA LastMoves ==
  ASSUME [Storage!Promise!Next]_(Storage!Promise!settlementVars)
  PROVE  \/ UNCHANGED << scoredPosts, writerOpen, posts, writerDead >>
         \/ \E m \in Raw :
              /\ scoredPosts' = scoredPosts \cup {m} /\ writerOpen' = writerOpen \cup {m}
              /\ UNCHANGED << posts, writerDead >>
         \/ \E S \in SUBSET scoredPosts :
              /\ posts' = posts \cup S
              /\ UNCHANGED << scoredPosts, writerOpen, writerDead >>
         \/ \E m \in scoredPosts :
              /\ writerDead' = writerDead \cup {m}
              /\ UNCHANGED << scoredPosts, writerOpen, posts >>
         \/ \E m \in writerOpen \cap (posts \cup writerDead) :
              /\ writerOpen' = writerOpen \ {m}
              /\ UNCHANGED << scoredPosts, posts, writerDead >>
BY DEF Storage!Promise!Next, Storage!Promise!settlementVars, Storage!Promise!Accept,
       Storage!Promise!Store, Storage!Promise!Reject,
       Storage!Promise!Settle, scoredPosts, writerOpen, writerDead

(* A step of preprocessing that passes nothing on.                          *)
LEMMA FirstSteps ==
  ASSUME StagesComplete, [Passing!Next]_(Passing!settlementVars),
         \/ dropped' = dropped
         \/ dropped \subseteq dropped' /\ UNCHANGED << takenPosts, openPosts, buriedPosts >>,
         StagesComplete',
         UNCHANGED << cleanPosts, scorerOpen, scorerDead, scoredPosts, writerOpen,
                      posts, writerDead >>
  PROVE  EndToEndStep
<1>0. storedPosts = cleanPosts \cup dropped /\ storedPosts' = cleanPosts' \cup dropped'
  BY DEF storedPosts, cleanPosts
<1>1. CASE UNCHANGED << takenPosts, openPosts, buriedPosts >> /\ dropped \subseteq dropped'
  <2>1. dropped' \in SUBSET takenPosts
    BY <1>1 DEF StagesComplete
  <2>2. settledPosts' = settledPosts \cup dropped' /\ UNCHANGED << openAnywhere, deadAnywhere >>
    BY <1>1 DEF settledPosts, openAnywhere, deadAnywhere
  <2> QED
    BY <1>1, <2>1, <2>2, EndToEndNext
<1> SUFFICES ASSUME dropped' = dropped, ~ UNCHANGED << takenPosts, openPosts, buriedPosts >>
             PROVE  EndToEndStep
  BY <1>1
<1>2. storedPosts' = storedPosts /\ settledPosts' = settledPosts
  BY <1>0 DEF settledPosts
<1>3. CASE \E m \in Raw : /\ takenPosts' = takenPosts \cup {m} /\ openPosts' = openPosts \cup {m}
                          /\ UNCHANGED buriedPosts
  <2>1. PICK m \in Raw : /\ takenPosts' = takenPosts \cup {m} /\ openPosts' = openPosts \cup {m}
                         /\ UNCHANGED buriedPosts
    BY <1>3
  <2>2. openAnywhere' = openAnywhere \cup {m} /\ deadAnywhere' = deadAnywhere
    BY <2>1 DEF openAnywhere, deadAnywhere
  <2> QED
    BY <1>2, <2>1, <2>2, EndToEndNext
<1>4. CASE \E m \in takenPosts : /\ buriedPosts' = buriedPosts \cup {m}
                                 /\ UNCHANGED << takenPosts, openPosts >>
  <2>1. PICK m \in takenPosts : /\ buriedPosts' = buriedPosts \cup {m}
                                /\ UNCHANGED << takenPosts, openPosts >>
    BY <1>4
  <2>2. deadAnywhere' = deadAnywhere \cup {m} /\ openAnywhere' = openAnywhere
    BY <2>1 DEF openAnywhere, deadAnywhere
  <2> QED
    BY <1>2, <2>1, <2>2, EndToEndNext
<1>5. CASE \E m \in openPosts \cap (storedPosts \cup buriedPosts) :
             openPosts' = openPosts \ {m} /\ UNCHANGED << takenPosts, buriedPosts >>
  <2>1. PICK m \in openPosts \cap (storedPosts \cup buriedPosts) :
             openPosts' = openPosts \ {m} /\ UNCHANGED << takenPosts, buriedPosts >>
    BY <1>5
  <2>2. deadAnywhere' = deadAnywhere
    BY <2>1 DEF deadAnywhere
  <2>3. CASE m \in scorerOpen \cup writerOpen
    <3>1. openAnywhere' = openAnywhere
      BY <2>1, <2>3 DEF openAnywhere
    <3> QED
      BY <1>2, <2>1, <2>2, <3>1, EndToEndStutters
  <2>4. CASE m \notin scorerOpen \cup writerOpen
    <3>1. openAnywhere' = openAnywhere \ {m} /\ m \in openAnywhere
      BY <2>1, <2>4 DEF openAnywhere
    <3>2. m \in settledPosts \cup deadAnywhere
      BY <1>0, <2>1, <2>4 DEF StagesComplete, settledPosts, deadAnywhere
    <3> QED
      BY <1>2, <2>1, <2>2, <3>1, <3>2, EndToEndNext
  <2> QED
    BY <2>3, <2>4
<1> QED
  BY <1>2, <1>3, <1>4, <1>5, FirstMoves

(* A step of sentiment-service's promise, while the stages around it stand  *)
(* still; its Settle stutters as long as another stage owes the post.       *)
LEMMA MiddleSteps ==
  ASSUME StagesComplete, [Sentiment!Promise!Next]_(Sentiment!Promise!settlementVars),
         StagesComplete',
         UNCHANGED << takenPosts, openPosts, dropped, buriedPosts, scoredPosts,
                      writerOpen, posts, writerDead >>
  PROVE  EndToEndStep
<1>1. settledPosts' = settledPosts
  BY DEF settledPosts
<1>2. CASE UNCHANGED << scorerOpen, scorerDead >>
  BY <1>1, <1>2, EndToEndStutters DEF openAnywhere, deadAnywhere
<1>3. CASE \E m \in Raw : /\ cleanPosts' = cleanPosts \cup {m} /\ scorerOpen' = scorerOpen \cup {m}
                          /\ UNCHANGED scorerDead
  <2>1. PICK m \in Raw : /\ cleanPosts' = cleanPosts \cup {m} /\ scorerOpen' = scorerOpen \cup {m}
                         /\ UNCHANGED scorerDead
    BY <1>3
  <2>2. takenPosts' = takenPosts \cup {m}
    BY <2>1 DEF StagesComplete
  <2>3. openAnywhere' = openAnywhere \cup {m} /\ deadAnywhere' = deadAnywhere
    BY <2>1 DEF openAnywhere, deadAnywhere
  <2> QED
    BY <1>1, <2>2, <2>3, EndToEndNext
<1>4. CASE \E m \in cleanPosts : scorerDead' = scorerDead \cup {m} /\ UNCHANGED scorerOpen
  <2>1. PICK m \in cleanPosts : scorerDead' = scorerDead \cup {m} /\ UNCHANGED scorerOpen
    BY <1>4
  <2>2. m \in takenPosts
    BY DEF StagesComplete
  <2>3. deadAnywhere' = deadAnywhere \cup {m} /\ openAnywhere' = openAnywhere
    BY <2>1 DEF openAnywhere, deadAnywhere
  <2> QED
    BY <1>1, <2>2, <2>3, EndToEndNext
<1>5. CASE \E m \in scorerOpen \cap (scoredPosts \cup scorerDead) :
             scorerOpen' = scorerOpen \ {m} /\ UNCHANGED scorerDead
  <2>1. PICK m \in scorerOpen \cap (scoredPosts \cup scorerDead) :
             scorerOpen' = scorerOpen \ {m} /\ UNCHANGED scorerDead
    BY <1>5
  <2>2. deadAnywhere' = deadAnywhere
    BY <2>1 DEF deadAnywhere
  <2>3. CASE m \in openPosts \cup writerOpen
    <3>1. openAnywhere' = openAnywhere
      BY <2>1, <2>3 DEF openAnywhere
    <3> QED
      BY <1>1, <2>1, <2>2, <3>1, EndToEndStutters
  <2>4. CASE m \notin openPosts \cup writerOpen
    <3>1. openAnywhere' = openAnywhere \ {m} /\ m \in openAnywhere
      BY <2>1, <2>4 DEF openAnywhere
    <3>2. m \in settledPosts \cup deadAnywhere
      BY <2>1, <2>4 DEF StagesComplete, settledPosts, deadAnywhere
    <3> QED
      BY <1>1, <2>1, <2>2, <3>1, <3>2, EndToEndNext
  <2> QED
    BY <2>3, <2>4
<1> QED
  BY <1>2, <1>3, <1>4, <1>5, MiddleMoves

LEMMA LastSteps ==
  ASSUME StagesComplete, [Storage!Promise!Next]_(Storage!Promise!settlementVars),
         StagesComplete',
         UNCHANGED << takenPosts, openPosts, dropped, buriedPosts, cleanPosts,
                      scorerOpen, scorerDead >>
  PROVE  EndToEndStep
<1>2. CASE UNCHANGED << writerOpen, posts, writerDead >>
  BY <1>2, EndToEndStutters DEF openAnywhere, deadAnywhere, settledPosts
<1>3. CASE \E m \in Raw : /\ scoredPosts' = scoredPosts \cup {m} /\ writerOpen' = writerOpen \cup {m}
                          /\ UNCHANGED << posts, writerDead >>
  <2>1. PICK m \in Raw : /\ scoredPosts' = scoredPosts \cup {m} /\ writerOpen' = writerOpen \cup {m}
                         /\ UNCHANGED << posts, writerDead >>
    BY <1>3
  <2>2. takenPosts' = takenPosts \cup {m}
    BY <2>1 DEF StagesComplete
  <2>3. openAnywhere' = openAnywhere \cup {m} /\ UNCHANGED << deadAnywhere, settledPosts >>
    BY <2>1 DEF openAnywhere, deadAnywhere, settledPosts
  <2> QED
    BY <2>2, <2>3, EndToEndNext
<1>4. CASE \E S \in SUBSET scoredPosts : /\ posts' = posts \cup S
                                         /\ UNCHANGED << writerOpen, writerDead >>
  <2>1. PICK S \in SUBSET scoredPosts : /\ posts' = posts \cup S
                                        /\ UNCHANGED << writerOpen, writerDead >>
    BY <1>4
  <2>2. S \in SUBSET takenPosts
    BY DEF StagesComplete
  <2>3. settledPosts' = settledPosts \cup S /\ UNCHANGED << openAnywhere, deadAnywhere >>
    BY <2>1 DEF openAnywhere, deadAnywhere, settledPosts
  <2> QED
    BY <2>2, <2>3, EndToEndNext
<1>5. CASE \E m \in scoredPosts : /\ writerDead' = writerDead \cup {m}
                                  /\ UNCHANGED << posts, writerOpen >>
  <2>1. PICK m \in scoredPosts : /\ writerDead' = writerDead \cup {m}
                                 /\ UNCHANGED << posts, writerOpen >>
    BY <1>5
  <2>2. m \in takenPosts
    BY DEF StagesComplete
  <2>3. deadAnywhere' = deadAnywhere \cup {m} /\ UNCHANGED << openAnywhere, settledPosts >>
    BY <2>1 DEF openAnywhere, deadAnywhere, settledPosts
  <2> QED
    BY <2>2, <2>3, EndToEndNext
<1>6. CASE \E m \in writerOpen \cap (posts \cup writerDead) :
             writerOpen' = writerOpen \ {m} /\ UNCHANGED << posts, writerDead >>
  <2>1. PICK m \in writerOpen \cap (posts \cup writerDead) :
             writerOpen' = writerOpen \ {m} /\ UNCHANGED << posts, writerDead >>
    BY <1>6
  <2>2. UNCHANGED << deadAnywhere, settledPosts >>
    BY <2>1 DEF deadAnywhere, settledPosts
  <2>3. CASE m \in openPosts \cup scorerOpen
    <3>1. openAnywhere' = openAnywhere
      BY <2>1, <2>3 DEF openAnywhere
    <3> QED
      BY <2>1, <2>2, <3>1, EndToEndStutters
  <2>4. CASE m \notin openPosts \cup scorerOpen
    <3>1. /\ openAnywhere' = openAnywhere \ {m}
          /\ m \in openAnywhere \cap (settledPosts \cup deadAnywhere)
      BY <2>1, <2>4 DEF openAnywhere, settledPosts, deadAnywhere
    <3> QED
      BY <2>1, <2>2, <3>1, EndToEndNext
  <2> QED
    BY <2>3, <2>4
<1> QED
  BY <1>2, <1>3, <1>4, <1>5, <1>6, LastMoves

(* A step publishes a clean post, or drops one, and does nothing else the    *)
(* promise sees.                                                            *)
LEMMA OneEffect ==
  ASSUME PreNext
  PROVE  \/ clean' = clean /\ dropped' = dropped
         \/ UNCHANGED << brokerVars, taken, dropped >>
         \/ UNCHANGED << brokerVars, taken, clean >> /\ dropped \subseteq dropped'
BY DEF PreNext, ConsumerStep, Produce, StartPost, Predict, PredictRaises, PublishClean,
       PublishCopyDone, AckPost, AckRaises, EndSession, Listen, TakeDelivery,
       PublishCleanFails, CopyUnconfirmed, CancelTask, ResetChannel, KillProcess,
       CloseSession

LEMMA PostsOfPreprocessing ==
  /\ UNCHANGED << brokerVars, taken >>
       => UNCHANGED << takenPosts, openPosts, buriedPosts >>
  /\ clean' = clean => cleanPosts' = cleanPosts
BY DEF brokerVars, takenPosts, openPosts, buriedPosts, cleanPosts, Pending, Outstanding,
       Buried

LEMMA PostsOfSentiment ==
  /\ UNCHANGED << cleanReady, cleanUnacked, cleanDead >>
       => UNCHANGED << scorerOpen, scorerDead >>
  /\ scored' = scored => scoredPosts' = scoredPosts
BY DEF scorerOpen, scorerDead, scoredPosts, Sentiment!Open, Sentiment!Outstanding,
       Sentiment!First, Sentiment!Retried, Sentiment!DeadLettered

LEMMA PostsOfStorage ==
  UNCHANGED writerVars => UNCHANGED << writerOpen, posts, writerDead >>
BY DEF writerVars, writerOpen, writerDead, Storage!Outstanding

(* The inductive invariants of the stages, and what relates them.           *)
PipelineInductive ==
  /\ PreInductive /\ Sentiment!Booked /\ Storage!Refinable
  /\ StagesComplete

LEMMA StagesMap ==
  ASSUME PipelineInductive, [PipelineNext]_pipelineVars
  PROVE  /\ [Passing!Next]_(Passing!settlementVars)
         /\ [Sentiment!Promise!Next]_(Sentiment!Promise!settlementVars)
         /\ [Storage!Promise!Next]_(Storage!Promise!settlementVars)
<1>1. [Passing!Next]_(Passing!settlementVars)
  BY PipelineStages, PassingMaps DEF PassingStep, PipelineInductive
<1>2. [Sentiment!Promise!Next]_(Sentiment!Promise!settlementVars)
  BY PipelineStages, Sentiment!StepMaps, StageConstants, RawAssumption, LateAssumption,
     PipelineBoundsAssumption DEF PipelineInductive
<1>3. [Storage!Promise!Next]_(Storage!Promise!settlementVars)
  BY PipelineStages, Storage!StepMaps, StageConstants, RawAssumption, LateAssumption,
     PipelineBoundsAssumption DEF PipelineInductive
<1> QED
  BY <1>1, <1>2, <1>3

(* A post enters the next queue in the step that leaves the stage, so that  *)
(* one promise moves at a time.                                             *)
LEMMA EndToEndMaps ==
  ASSUME PipelineInductive, StagesComplete', [PipelineNext]_pipelineVars
  PROVE  EndToEndStep
<1>1. StagesComplete
  BY DEF PipelineInductive
<1>2. CASE UNCHANGED pipelineVars
  <2>1. /\ UNCHANGED << brokerVars, taken, clean, dropped >>
        /\ UNCHANGED << cleanReady, cleanUnacked, cleanDead, scored, writerVars >>
    BY <1>2 DEF pipelineVars, preVars, scorerVars
  <2> QED
    BY <2>1, PostsOfPreprocessing, PostsOfSentiment, PostsOfStorage, EndToEndStutters
       DEF openAnywhere, settledPosts, deadAnywhere
<1>3. CASE PreprocessingStep
  <2>1. UNCHANGED << writerOpen, posts, writerDead, scoredPosts >>
    BY <1>3, PostsOfStorage, PostsOfSentiment DEF PreprocessingStep, CleanArrives,
           scorerVars
  <2>2. CASE clean' = clean /\ UNCHANGED scorerVars
    <3>1. UNCHANGED << cleanPosts, scorerOpen, scorerDead >>
      BY <2>2, PostsOfPreprocessing, PostsOfSentiment DEF scorerVars
    <3>2. \/ dropped' = dropped
          \/ dropped \subseteq dropped' /\ UNCHANGED << takenPosts, openPosts, buriedPosts >>
      BY <1>3, OneEffect, PostsOfPreprocessing DEF PreprocessingStep
    <3> QED
      BY <1>1, <2>1, <3>1, <3>2, StagesMap, FirstSteps
  <2>3. CASE ~ (clean' = clean /\ UNCHANGED scorerVars)
    <3>1. PICK p \in Raw : Sentiment!Publish(<< p, 0 >>)
      BY <1>3, <2>3 DEF PreprocessingStep, CleanArrives
    <3>2. clean \in [Raw -> Nat] /\ << p, 0 >> \in Message
      BY MessageOfParts DEF PipelineInductive, PreInductive, PreTyped, PreTypeOK
    <3>3. clean'[p] = clean[p] + 1
      <4>1. CleanTaken'[<< p, 0 >>] = CleanTaken[<< p, 0 >>] + 1
        BY <3>1, <3>2 DEF Sentiment!Publish, CleanTaken
      <4> QED
        BY <3>2, <4>1 DEF CleanTaken
    <3>4. UNCHANGED << takenPosts, openPosts, dropped, buriedPosts >>
      BY <1>3, <3>2, <3>3, OneEffect, PostsOfPreprocessing DEF PreprocessingStep
    <3> QED
      BY <1>1, <2>1, <3>4, StagesMap, MiddleSteps
  <2> QED
    BY <2>2, <2>3
<1>4. CASE SentimentStep
  <2>1. UNCHANGED << takenPosts, openPosts, dropped, buriedPosts, cleanPosts >>
    BY <1>4, PostsOfPreprocessing DEF SentimentStep, preVars
  <2>2. CASE scored' = scored /\ UNCHANGED writerVars
    BY <1>1, <2>1, <2>2, PostsOfSentiment, PostsOfStorage, StagesMap, MiddleSteps
  <2>3. CASE UNCHANGED Sentiment!brokerVars
    <3>1. UNCHANGED << scorerOpen, scorerDead >>
      BY <2>3, PostsOfSentiment DEF Sentiment!brokerVars
    <3> QED
      BY <1>1, <2>1, <3>1, StagesMap, LastSteps
  <2>4. CASE \E p \in Raw : Storage!Publish(p)
    <3>1. scored \in [Raw -> Nat]
      BY DEF PipelineInductive, Sentiment!Booked, Sentiment!Inductive, Sentiment!Typed,
             Sentiment!TypeOK
    <3>2. scored' # scored
      BY <2>4, <3>1 DEF Storage!Publish
    <3>3. Sentiment!Next
      BY <1>4 DEF SentimentStep
    <3> QED
      BY <2>3, <3>2, <3>3, Sentiment!ScoredAlone, StageConstants, RawAssumption,
         LateAssumption, PipelineBoundsAssumption
  <2> QED
    BY <1>4, <2>2, <2>4 DEF SentimentStep, ScoredArrives
<1>5. CASE StorageStep
  <2>1. /\ UNCHANGED << takenPosts, openPosts, dropped, buriedPosts, cleanPosts >>
        /\ UNCHANGED << scorerOpen, scorerDead >>
    BY <1>5, PostsOfPreprocessing, PostsOfSentiment DEF StorageStep, preVars, scorerVars
  <2> QED
    BY <1>1, <2>1, StagesMap, LastSteps
<1> QED
  BY <1>2, <1>3, <1>4, <1>5 DEF PipelineNext

-----------------------------------------------------------------------------
(* A settlement promise that is kept forgets nothing.                       *)
LEMMA PassingComplete == Passing!Spec => []Passing!Complete
<1>1. Passing!Init => Passing!Complete
  BY DEF Passing!Init, Passing!Complete
<1>2. Passing!Complete /\ [Passing!Next]_(Passing!settlementVars) => Passing!Complete'
  BY DEF Passing!Complete, Passing!Next, Passing!settlementVars, Passing!Accept,
         Passing!Store,
         Passing!Reject, Passing!Settle
<1> QED
  BY <1>1, <1>2, PTL DEF Passing!Spec

LEMMA SentimentComplete == Sentiment!Promise!Spec => []Sentiment!Promise!Complete
<1>1. Sentiment!Promise!Init => Sentiment!Promise!Complete
  BY DEF Sentiment!Promise!Init, Sentiment!Promise!Complete
<1>2. Sentiment!Promise!Complete /\ [Sentiment!Promise!Next]_(Sentiment!Promise!settlementVars)
        => Sentiment!Promise!Complete'
  BY DEF Sentiment!Promise!Complete, Sentiment!Promise!Next,
         Sentiment!Promise!settlementVars,
         Sentiment!Promise!Accept, Sentiment!Promise!Store, Sentiment!Promise!Reject,
         Sentiment!Promise!Settle
<1> QED
  BY <1>1, <1>2, PTL DEF Sentiment!Promise!Spec

LEMMA StorageComplete == Storage!Promise!Spec => []Storage!Promise!Complete
<1>1. Storage!Promise!Init => Storage!Promise!Complete
  BY DEF Storage!Promise!Init, Storage!Promise!Complete
<1>2. Storage!Promise!Complete /\ [Storage!Promise!Next]_(Storage!Promise!settlementVars)
        => Storage!Promise!Complete'
  BY DEF Storage!Promise!Complete, Storage!Promise!Next, Storage!Promise!settlementVars,
         Storage!Promise!Accept, Storage!Promise!Store, Storage!Promise!Reject,
         Storage!Promise!Settle
<1> QED
  BY <1>1, <1>2, PTL DEF Storage!Promise!Spec

LEMMA CompleteStages ==
  Passing!Complete /\ Sentiment!Promise!Complete /\ Storage!Promise!Complete => StagesComplete
<1> SUFFICES ASSUME Passing!Complete, Sentiment!Promise!Complete, Storage!Promise!Complete
             PROVE  StagesComplete
  OBVIOUS
<1>1. takenPosts = openPosts \cup cleanPosts \cup dropped \cup buriedPosts
  BY DEF Passing!Complete, takenPosts, openPosts, cleanPosts, buriedPosts
<1>2. cleanPosts = scorerOpen \cup scoredPosts \cup scorerDead
  BY CleanAccepted DEF Sentiment!Promise!Complete, scorerOpen, scoredPosts, scorerDead
<1>3. scoredPosts = writerOpen \cup posts \cup writerDead
  BY DEF Storage!Promise!Complete, scoredPosts, writerOpen, writerDead
<1> QED
  BY <1>1, <1>2, <1>3 DEF StagesComplete

LEMMA StagesInvariant == PipelineSpec => []PipelineInductive
<1>1. PipelineSpec => []StagesComplete
  <2>1. PreSafetySpec => Passing!Spec
    BY PreprocessingSettles DEF RawPostsSettled
  <2>2. Sentiment!SafetySpec => Sentiment!Promise!Spec
    BY Sentiment!SentimentImplementsSettlement, StageConstants, RawAssumption,
       LateAssumption, PipelineBoundsAssumption DEF Sentiment!ImplementsSettlement
  <2>3. Storage!SafetySpec => Storage!Promise!Spec
    BY Storage!StorageImplementsSettlement, StageConstants, RawAssumption,
       LateAssumption, PipelineBoundsAssumption DEF Storage!ImplementsSettlement
  <2> QED
    BY <2>1, <2>2, <2>3, StageSpecs, PassingComplete, SentimentComplete, StorageComplete,
       CompleteStages, PTL
<1>2. Sentiment!SafetySpec => []Sentiment!Booked
  BY Sentiment!BookedInvariant, StageConstants, RawAssumption, LateAssumption,
     PipelineBoundsAssumption
<1>3. Storage!SafetySpec => []Storage!Refinable
  BY Storage!RefinableInvariant, StageConstants, RawAssumption, LateAssumption,
     PipelineBoundsAssumption
<1>4. PreInductive /\ Sentiment!Booked /\ Storage!Refinable /\ StagesComplete => PipelineInductive
  BY DEF PipelineInductive
<1> QED
  BY <1>1, <1>2, <1>3, <1>4, StageSpecs, PreInvariant, PTL

LEMMA EndToEndInit == PipelineInit => EndToEnd!Init
<1> SUFFICES ASSUME PipelineInit PROVE EndToEnd!Init
  OBVIOUS
<1>1. /\ takenPosts = {} /\ openPosts = {} /\ dropped = {} /\ buriedPosts = {}
  BY PassingInit DEF PipelineInit, Passing!Init, takenPosts, openPosts, buriedPosts
<1>2. /\ scorerOpen = {} /\ scorerDead = {}
  BY Sentiment!InitMaps, StageConstants, RawAssumption, LateAssumption,
     PipelineBoundsAssumption
     DEF PipelineInit, Sentiment!Promise!Init, scorerOpen, scorerDead
<1>3. /\ writerOpen = {} /\ writerDead = {} /\ posts = {}
  BY Storage!InitMaps, StageConstants, RawAssumption, LateAssumption,
     PipelineBoundsAssumption
     DEF PipelineInit, Storage!Promise!Init, writerOpen, writerDead
<1> QED
  BY <1>1, <1>2, <1>3 DEF EndToEnd!Init, takenPosts, openPosts, buriedPosts, scorerOpen,
         scorerDead, writerOpen, writerDead

(* From the producers to the posts table, whatever fails in any of the three *)
(* services: a post that was published is in one of the queues until it has  *)
(* a row, was dropped as too short, or is in a dead-letter queue.            *)
THEOREM PipelineSettles == PipelineSpec => PostsSettled
<1>1. PipelineInductive /\ StagesComplete' /\ [PipelineNext]_pipelineVars
        => [EndToEnd!Next]_(EndToEnd!settlementVars)
  BY EndToEndMaps DEF EndToEndStep
<1>2. PipelineSpec => EndToEnd!Spec
  <2>1. PipelineInductive => StagesComplete
    BY DEF PipelineInductive
  <2> QED
    BY <1>1, <2>1, EndToEndInit, StagesInvariant, PTL DEF PipelineSpec, EndToEnd!Spec
<1> QED
  BY <1>2, StageSpecs, PreprocessingSettles DEF PostsSettled

-----------------------------------------------------------------------------
(* What is passed on passed the schema, the length test and the model.      *)
HeldFit ==
  /\ doing \in {"predict", "publish"} => HeldPost \notin Illformed \cup TooShort
  /\ doing = "publish" => HeldPost \notin Unpredictable

CleanFit ==
  /\ HeldFit
  /\ \A p \in Raw : clean[p] > 0 => p \notin Illformed \cup TooShort \cup Unpredictable

LEMMA HeldFitStep ==
  ASSUME PreTyped, HeldFit, PreNext
  PROVE  HeldFit'
<1>1. doing \notin {"idle", "raised"} => held # << >>
  BY DEF PreTyped
<1>2. CASE StartPost \/ Predict
  BY <1>2, HeadUnchanged DEF StartPost, Predict, HeldFit
<1>3. CASE PublishClean \/ PublishCleanFails \/ PredictRaises \/ PublishCopyDone
            \/ CopyUnconfirmed \/ AckPost \/ AckRaises \/ EndSession \/ CancelTask
            \/ KillProcess
  BY <1>3 DEF PublishClean, PublishCleanFails, PredictRaises, PublishCopyDone,
     CopyUnconfirmed, AckPost, AckRaises, EndSession, CancelTask, KillProcess,
     CloseSession, HeldFit
<1>4. CASE Listen \/ \E p \in Raw : Produce(p)
  BY <1>4, HeadUnchanged DEF Listen, Produce, HeldFit
<1>5. ASSUME NEW m \in Message, TakeDelivery(m) PROVE HeldFit'
  <2>1. held' = Append(held, LiveCopy(m)) /\ doing' = doing
    BY <1>5 DEF TakeDelivery, LiveCopy
  <2>2. held # << >> => HeldPost' = HeldPost
    BY <2>1, HeadAppended DEF HeldPost, Held
  <2> QED
    BY <1>1, <2>1, <2>2 DEF HeldFit
<1>6. CASE ResetChannel
  BY <1>1, <1>6, HeadReset DEF ResetChannel, HeldFit
<1> QED
  BY <1>2, <1>3, <1>4, <1>5, <1>6 DEF PreNext, ConsumerStep

LEMMA CleanFitStep == PreInductive /\ CleanFit /\ [PreNext]_preVars => CleanFit'
<1> SUFFICES ASSUME PreInductive, CleanFit, [PreNext]_preVars PROVE CleanFit'
  OBVIOUS
<1>1. CASE UNCHANGED preVars
  BY <1>1 DEF preVars, CleanFit, HeldFit, HeldPost, Held
<1>2. CASE PreNext
  <2>1. HeldFit'
    BY <1>2, HeldFitStep DEF PreInductive, CleanFit
  <2>2. CASE clean' = clean
    BY <2>1, <2>2 DEF CleanFit
  <2>3. CASE doing = "publish" /\ clean' = [clean EXCEPT ![HeldPost] = @ + 1]
    <3>1. clean \in [Raw -> Nat]
      BY DEF PreInductive, PreTyped, PreTypeOK
    <3>2. \A p \in Raw : clean'[p] > 0 => clean[p] > 0 \/ p = HeldPost
      BY <2>3, <3>1
    <3> QED
      BY <2>1, <2>3, <3>2 DEF CleanFit, HeldFit
  <2>4. clean' = clean \/ (doing = "publish" /\ clean' = [clean EXCEPT ![HeldPost] = @ + 1])
    BY <1>2 DEF PreNext, ConsumerStep, Produce, StartPost, Predict, PredictRaises,
       PublishClean, PublishCopyDone, AckPost, AckRaises, EndSession, Listen, TakeDelivery,
       PublishCleanFails, CopyUnconfirmed, CancelTask, ResetChannel, KillProcess, CloseSession
  <2> QED
    BY <2>2, <2>3, <2>4
<1> QED
  BY <1>1, <1>2

LEMMA OnlyFitPassedOn == PreSafetySpec => []CleanFit
<1>1. PreInit => CleanFit
  BY DEF PreInit, CleanFit, HeldFit
<1> QED
  BY <1>1, CleanFitStep, PreInvariant, PTL DEF PreSafetySpec

(* What the stages guarantee one by one accounts for a post along its path. *)
LEMMA StagesAccount ==
  ASSUME StagesComplete, CleanFit, Sentiment!ScoredFit, posts \cap Poison = {},
         AttemptsPaidFor, Sentiment!FailuresPaidFor,
         Storage!OnlyUnstorableDeadLettered, Sentiment!TypeOK, Storage!TypeOK, PreTypeOK
  PROVE  PostsAccountedFor
<1>1. RowsOfFitPosts
  <2> SUFFICES ASSUME NEW p \in posts PROVE taken[p] > 0 /\ p \notin Unfit
    BY DEF RowsOfFitPosts
  <2>1. p \in scoredPosts /\ p \in cleanPosts /\ p \in takenPosts
    BY DEF StagesComplete
  <2>2. p \in Raw /\ taken[p] > 0 /\ clean[p] > 0 /\ scored[p] > 0
    BY <2>1 DEF takenPosts, cleanPosts, scoredPosts
  <2> QED
    BY <2>2 DEF CleanFit, Sentiment!ScoredFit, Unfit
<1>2. FitPostsDeadLetteredForFailures
  <2> SUFFICES ASSUME NEW p \in Raw \ Unfit
               PROVE  /\ Buried(p) => failures[p] >= 2
                      /\ Sentiment!DeadLettered(p) => failed[p] >= 2
                      /\ scoredDead[p] = 0
    BY DEF FitPostsDeadLetteredForFailures
  <2>1. Buried(p) => failures[p] >= 2
    BY DEF AttemptsPaidFor, BuriedAfterTwoFailures, Unfit
  <2>2. Sentiment!DeadLettered(p) => failed[p] >= 2
    BY DEF Sentiment!FailuresPaidFor, Sentiment!DeadLetterNeedsTwoFailures, Unfit
  <2>3. scoredDead[p] = 0
    BY DEF Storage!OnlyUnstorableDeadLettered, Unfit, Storage!TypeOK,
       Storage!SessionTypeOK, Storage!Counts
  <2> QED
    BY <2>1, <2>2, <2>3
<1>3. ScoredCopiesBounded
  <2> SUFFICES ASSUME NEW p \in Raw
               PROVE  scored[p] <= taken[p] + preFaults + scorerFaults
    BY DEF ScoredCopiesBounded
  <2>1. CleanTaken[<< p, 0 >>] = clean[p]
    BY MessageOfParts DEF CleanTaken
  <2>2. scored[p] <= clean[p] + scorerFaults
    BY <2>1 DEF Sentiment!FailuresPaidFor, Sentiment!DuplicatesBounded, Sentiment!First
  <2>3. clean[p] <= taken[p] + preFaults
    BY DEF AttemptsPaidFor, CleanCopiesBounded
  <2>4. /\ scored[p] \in Nat /\ clean[p] \in Nat /\ taken[p] \in Nat
        /\ preFaults \in Nat /\ scorerFaults \in Nat
    BY PreBoundsAssumption, PipelineBoundsAssumption
       DEF Sentiment!TypeOK, Sentiment!SessionTypeOK, PreTypeOK
  <2> QED
    BY <2>2, <2>3, <2>4
<1> QED
  BY <1>1, <1>2, <1>3 DEF PostsAccountedFor

(* A row is of a post that was published and that no stage refuses; such a  *)
(* post is dead-lettered only after two failures of one stage, and never by *)
(* storage-service; each surplus copy is paid for by a fault of one stage.  *)
THEOREM PipelineAccountsForPosts == PipelineSpec => []PostsAccountedFor
<1>1. Sentiment!SafetySpec => /\ []Sentiment!ScoredFit /\ []Sentiment!FailuresPaidFor
                              /\ []Sentiment!TypeOK
  BY Sentiment!OnlyFitScored, Sentiment!SentimentFailuresPaidFor, Sentiment!TypeCorrect,
     StageConstants, RawAssumption, LateAssumption, PipelineBoundsAssumption
<1>2. Storage!SafetySpec => /\ [](posts \cap Poison = {})
                            /\ []Storage!OnlyUnstorableDeadLettered /\ []Storage!TypeOK
  BY Storage!NoPoisonStored, Storage!ValidPostsNeverDeadLettered, Storage!TypeCorrect,
     StageConstants, RawAssumption, LateAssumption, PipelineBoundsAssumption
<1>3. PipelineInductive => StagesComplete
  BY DEF PipelineInductive
<1>4. /\ StagesComplete /\ CleanFit /\ Sentiment!ScoredFit /\ posts \cap Poison = {}
      /\ AttemptsPaidFor /\ Sentiment!FailuresPaidFor
      /\ Storage!OnlyUnstorableDeadLettered /\ Sentiment!TypeOK /\ Storage!TypeOK /\ PreTypeOK
      => PostsAccountedFor
  BY StagesAccount
<1> QED
  BY <1>1, <1>2, <1>3, <1>4, StageSpecs, StagesInvariant, OnlyFitPassedOn,
     PreprocessingPaysForAttempts, PreTypeCorrect, PTL
=============================================================================
