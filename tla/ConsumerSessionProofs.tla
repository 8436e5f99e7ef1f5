------------------------ MODULE ConsumerSessionProofs ------------------------
(***************************************************************************)
(* What the session skeleton preserves, whatever a stage does with its     *)
(* batches: the types of its state, and the shape of the consumer task's   *)
(* hand and of the batch in every step of the two tasks.                   *)
(***************************************************************************)
EXTENDS ConsumerSession, SequenceTheorems, FiniteSetTheorems, TLAPS

(* A delivery in hand while one is being handled, room in the batch while   *)
(* it is collected, something to flush when it is flushed, and no worker    *)
(* outside a session.                                                       *)
SessionShape ==
  /\ receiving \in {"put", "publish", "ack"} => Len(hand) = 1
  /\ working = "collect" => Len(batch) < BatchSize
  /\ working = "flush" => batch # << >>
  /\ session = "down" => working = "stopped" /\ batch = << >>

-----------------------------------------------------------------------------
(* Marking a delivery keeps it a delivery of the same message.              *)
LEMMA MarkingKeepsMessage ==
  ASSUME NEW d \in Delivery
  PROVE  /\ AsDone(d) \in Delivery /\ AsDone(d).msg = d.msg
         /\ AsStale(d) \in Delivery /\ AsStale(d).msg = d.msg
BY DEF Delivery, AsDone, AsStale

LEMMA DeliveredType ==
  ASSUME NEW m \in Message
  PROVE  << Delivered(m) >> \in Seq(Delivery) /\ Delivered(m).msg = m
BY DEF Delivered, Delivery

LEMMA HeldMessage ==
  ASSUME NEW s \in Seq(Delivery), NEW i \in 1 .. Len(s)
  PROVE  s[i].msg \in Message
<1>1. s[i] \in Delivery
  OBVIOUS
<1> QED
  BY <1>1 DEF Delivery

(* Losing the channel changes the state of deliveries, not their number,    *)
(* order or messages.                                                       *)
LEMMA InvalidatedKeepsMessages ==
  ASSUME NEW s \in Seq(Delivery)
  PROVE  /\ Invalidated(s) \in Seq(Delivery)
         /\ Len(Invalidated(s)) = Len(s)
         /\ \A i \in 1 .. Len(s) : Invalidated(s)[i].msg = s[i].msg
<1>1. ASSUME NEW i \in 1 .. Len(s)
      PROVE  AsStale(s[i]) \in Delivery /\ AsStale(s[i]).msg = s[i].msg
  BY MarkingKeepsMessage
<1>2. Len(s) \in Nat
  OBVIOUS
<1> QED
  BY <1>1, <1>2 DEF Invalidated

LEMMA DoneKeepsMessages ==
  ASSUME NEW s \in Seq(Delivery), NEW p \in 1 .. Len(s),
         NEW t, t = [s EXCEPT ![p] = AsDone(@)]
  PROVE  /\ t \in Seq(Delivery)
         /\ Len(t) = Len(s)
         /\ \A i \in 1 .. Len(s) : t[i].msg = s[i].msg
<1>1. s[p] \in Delivery
  OBVIOUS
<1>2. AsDone(s[p]) \in Delivery /\ AsDone(s[p]).msg = s[p].msg
  BY <1>1, MarkingKeepsMessage
<1> QED
  BY <1>2, ExceptSeq

LEMMA TailType ==
  ASSUME NEW s \in Seq(Delivery), s # << >>
  PROVE  /\ Head(s) \in Delivery /\ Tail(s) \in Seq(Delivery)
         /\ Len(Tail(s)) = Len(s) - 1
BY HeadTailProperties

LEMMA AppendType ==
  ASSUME NEW s \in Seq(Delivery), NEW d \in Delivery
  PROVE  /\ Append(s, d) \in Seq(Delivery) /\ Append(s, d) # << >>
         /\ Len(Append(s, d)) = Len(s) + 1
BY AppendProperties

LEMMA OneMore ==
  ASSUME NEW f \in Counts, NEW m
  PROVE  [f EXCEPT ![m] = @ + 1] \in Counts
<1>1. ASSUME NEW x \in Message PROVE f[x] \in Nat /\ f[x] + 1 \in Nat
  BY DEF Counts
<1> QED
  BY <1>1 DEF Counts

(* The counters of the broker stay counters.                                *)
LEMMA BrokerTypes ==
  ASSUME ready \in Counts, unacked \in Counts, deadLetters \in Counts,
         NEW m
  PROVE  /\ Enqueue(m)     => ready' \in Counts
         /\ DeadLetter(m)  => deadLetters' \in Counts
         /\ Deliver(m)     => ready' \in Counts /\ unacked' \in Counts
         /\ Ack(m)         => unacked' \in Counts
         /\ Requeue(m)     => ready' \in Counts /\ unacked' \in Counts
         /\ RequeueUnacked => ready' \in Counts /\ unacked' \in Counts
BY DEF Counts, Enqueue, DeadLetter, Deliver, Ack, Requeue, RequeueUnacked

-----------------------------------------------------------------------------
(* Cancelling the worker, or the session, disturbs only what it names.      *)
LEMMA AbortSessionShape ==
  ASSUME SessionTypeOK, SessionShape, AbortSession
  PROVE  /\ session' = "failing" /\ receiving' = "stopped" /\ hand' = hand
         /\ buffer' \in Seq(Delivery) /\ Len(buffer') <= BufferSize
         /\ batch' \in Seq(Delivery) /\ Len(batch') <= BatchSize
         /\ pos' \in Nat
         /\ working' \in {"collect", "flush", "cancelled", "stopped"}
         /\ working' = "collect" => Len(batch') < BatchSize
         /\ working' = "flush" => batch' # << >>
<1> USE BatchSizeAssumption DEF SessionTypeOK, SessionShape, AbortSession
<1>1. CASE CancelWorker
  BY <1>1 DEF CancelWorker
<1>2. CASE CancelSwallowed
  <2>1. /\ Head(buffer) \in Delivery /\ Tail(buffer) \in Seq(Delivery)
        /\ Len(Tail(buffer)) = Len(buffer) - 1
    BY <1>2, TailType DEF CancelSwallowed
  <2>2. /\ batch' \in Seq(Delivery) /\ batch' # << >>
        /\ Len(batch') = Len(batch) + 1
    BY <1>2, <2>1, AppendType DEF CancelSwallowed
  <2>3. Len(buffer) \in Nat /\ Len(batch) \in Nat /\ BufferSize \in Nat
    BY DEF BufferSize
  <2> QED
    BY <1>2, <2>1, <2>2, <2>3 DEF CancelSwallowed
<1> QED
  BY <1>1, <1>2

(* A process that ends leaves an empty, well-typed one behind.              *)
LEMMA EndProcessShape ==
  ASSUME EndProcessState
  PROVE  /\ session' = "down" /\ receiving' = "stopped" /\ hand' = << >>
         /\ buffer' = << >> /\ batch' = << >> /\ pos' = 0
         /\ working' = "stopped"
         /\ << >> \in Seq(Delivery) /\ Len(<< >>) = 0
BY DEF EndProcessState

LEMMA SessionInitTypes == SessionInit => SessionTypeOK /\ SessionShape
<1> SUFFICES ASSUME SessionInit PROVE SessionTypeOK /\ SessionShape
  OBVIOUS
<1>1. << >> \in Seq(Delivery) /\ Len(<< >>) = 0
  OBVIOUS
<1> QED
  BY <1>1, BatchSizeAssumption, BoundsAssumption
     DEF SessionInit, SessionTypeOK, SessionShape, BrokerInit, Counts, BufferSize

(* The consumer task.                                                       *)
LEMMA ConsumerTaskTypes ==
  ASSUME SessionTypeOK, SessionShape, ConsumerTask
  PROVE  SessionTypeOK' /\ SessionShape'
<1> USE BatchSizeAssumption DEF SessionTypeOK, SessionShape, consumerVars,
        workerVars, brokerVars
<1>1. << >> \in Seq(Delivery) /\ Len(<< >>) = 0
  OBVIOUS
<1>2. ASSUME NEW m \in Message, Receive(m) PROVE SessionTypeOK' /\ SessionShape'
  <2>1. hand' \in Seq(Delivery) /\ Len(hand') = 1
    BY <1>2, DeliveredType DEF Receive
  <2>2. ready' \in Counts /\ unacked' \in Counts
    BY <1>2, BrokerTypes DEF Receive
  <2> QED
    BY <1>2, <2>1, <2>2 DEF Receive
<1>3. CASE Put
  <2>1. buffer \o hand \in Seq(Delivery) /\ Len(buffer \o hand) = Len(buffer) + Len(hand)
    BY ConcatProperties
  <2>2. Len(buffer) \in Nat /\ BufferSize \in Nat /\ Len(hand) = 1
    BY <1>3 DEF Put, BufferSize
  <2> QED
    BY <1>1, <1>3, <2>1, <2>2 DEF Put
<1>4. CASE PublishMalformed
  <2>1. deadLetters' \in Counts
    BY <1>4, BrokerTypes DEF PublishMalformed
  <2> QED
    BY <1>4, <2>1 DEF PublishMalformed
<1>5. CASE AckMalformed
  <2>1. unacked' \in Counts
    BY <1>5, BrokerTypes DEF AckMalformed
  <2> QED
    BY <1>1, <1>5, <2>1 DEF AckMalformed
<1>6. CASE AckMalformedRaises
  BY <1>6, AbortSessionShape DEF AckMalformedRaises
<1> QED
  BY <1>2, <1>3, <1>4, <1>5, <1>6 DEF ConsumerTask

(* The part of the worker task every stage shares.                          *)
LEMMA WorkerTaskTypes ==
  ASSUME SessionTypeOK, SessionShape, WorkerTask
  PROVE  SessionTypeOK' /\ SessionShape'
<1> USE BatchSizeAssumption DEF SessionTypeOK, SessionShape, consumerVars,
        workerVars, brokerVars
<1>1. << >> \in Seq(Delivery) /\ Len(<< >>) = 0
  OBVIOUS
<1>2. CASE Collect
  <2>1. /\ Head(buffer) \in Delivery /\ Tail(buffer) \in Seq(Delivery)
        /\ Len(Tail(buffer)) = Len(buffer) - 1
    BY <1>2, TailType DEF Collect
  <2>2. /\ batch' \in Seq(Delivery) /\ batch' # << >>
        /\ Len(batch') = Len(batch) + 1
    BY <1>2, <2>1, AppendType DEF Collect
  <2>3. Len(buffer) \in Nat /\ Len(batch) \in Nat /\ BufferSize \in Nat
    BY DEF BufferSize
  <2> QED
    BY <1>2, <2>1, <2>2, <2>3 DEF Collect
<1>3. CASE BatchTimeout
  BY <1>3 DEF BatchTimeout
<1>4. CASE RequeueNext
  <2>1. ready' \in Counts /\ unacked' \in Counts
    BY <1>4, BrokerTypes DEF RequeueNext
  <2>2. batch' \in Seq(Delivery) /\ Len(batch') = Len(batch)
    <3>1. CASE Current.state = "live"
      <4>1. pos \in 1 .. Len(batch) /\ batch' = [batch EXCEPT ![pos] = AsDone(@)]
        BY <1>4, <3>1 DEF RequeueNext
      <4> QED
        BY <4>1, DoneKeepsMessages
    <3>2. CASE Current.state # "live"
      BY <1>4, <3>2 DEF RequeueNext
    <3> QED
      BY <3>1, <3>2
  <2> QED
    BY <1>4, <2>1, <2>2 DEF RequeueNext
<1>5. CASE RequeueDone
  BY <1>1, <1>5 DEF RequeueDone
<1>6. CASE RequeueFails
  BY <1>1, <1>6 DEF RequeueFails, WorkerStops
<1>7. CASE CancelDone
  BY <1>1, <1>7 DEF CancelDone, WorkerStops
<1> QED
  BY <1>2, <1>3, <1>4, <1>5, <1>6, <1>7 DEF WorkerTask

(* The supervisor, main() and everything that fails.                        *)
LEMMA SupervisorTypes ==
  ASSUME SessionTypeOK, SessionShape, Supervisor \/ Failures
  PROVE  SessionTypeOK' /\ SessionShape'
<1> USE BatchSizeAssumption, BoundsAssumption DEF SessionTypeOK, SessionShape, consumerVars,
        workerVars, brokerVars
<1>1. BufferSize \in Nat /\ Len(buffer) \in Nat
  BY DEF BufferSize
<1>2. CASE StartDraining
  BY <1>2 DEF StartDraining
<1>3. CASE DrainBuffer
  <2>1. ready' \in Counts /\ unacked' \in Counts
    BY <1>3, BrokerTypes DEF DrainBuffer
  <2>2. Tail(buffer) \in Seq(Delivery) /\ Len(Tail(buffer)) = Len(buffer) - 1
    BY <1>3, TailType DEF DrainBuffer
  <2> QED
    BY <1>1, <1>3, <2>1, <2>2 DEF DrainBuffer
<1>4. CASE Disconnect
  <2>1. ready' \in Counts /\ unacked' \in Counts
    BY <1>4, BrokerTypes DEF Disconnect
  <2> QED
    BY <1>1, <1>4, <2>1, EndProcessShape DEF Disconnect
<1>5. CASE Connect
  BY <1>5 DEF Connect
<1>6. CASE Shutdown
  BY <1>6, AbortSessionShape DEF Shutdown, Fault
<1>7. CASE Crash
  <2>1. ready' \in Counts /\ unacked' \in Counts
    BY <1>7, BrokerTypes DEF Crash
  <2> QED
    BY <1>1, <1>7, <2>1, EndProcessShape DEF Crash, Fault
<1>8. CASE ChannelReset
  <2>1. ready' \in Counts /\ unacked' \in Counts
    BY <1>8, BrokerTypes DEF ChannelReset
  <2>2. /\ hand' \in Seq(Delivery) /\ Len(hand') = Len(hand)
        /\ buffer' \in Seq(Delivery) /\ Len(buffer') = Len(buffer)
        /\ batch' \in Seq(Delivery) /\ Len(batch') = Len(batch)
    BY <1>8, InvalidatedKeepsMessages DEF ChannelReset
  <2> QED
    BY <1>8, <2>1, <2>2 DEF ChannelReset, Fault
<1>9. CASE PublishMalformedFails
  <2>1. deadLetters' \in Counts
    BY <1>9, BrokerTypes DEF PublishMalformedFails
  <2> QED
    BY <1>9, <2>1, AbortSessionShape DEF PublishMalformedFails, Fault
<1> QED
  BY <1>2, <1>3, <1>4, <1>5, <1>6, <1>7, <1>8, <1>9 DEF Supervisor, Failures

(* Every step of the session keeps its types and shape.                     *)
LEMMA SessionTypes ==
  ASSUME SessionTypeOK, SessionShape, SessionNext
  PROVE  SessionTypeOK' /\ SessionShape'
<1>1. ASSUME NEW m \in Inbound, Publish(m) PROVE SessionTypeOK' /\ SessionShape'
  <2>1. ready' \in Counts
    BY <1>1, BrokerTypes DEF Publish, SessionTypeOK
  <2>2. accepted' \in Counts
    <3>1. accepted \in Counts /\ accepted' = [accepted EXCEPT ![m] = @ + 1]
      BY <1>1 DEF Publish, SessionTypeOK
    <3> QED
      BY <3>1, OneMore
  <2>3. UNCHANGED << unacked, deadLetters, session, receiving, hand, buffer,
                     working, batch, pos, faults >>
    BY <1>1 DEF Publish, consumerVars, workerVars
  <2> QED
    BY <2>1, <2>2, <2>3 DEF SessionTypeOK, SessionShape
<1> QED
  BY <1>1, ConsumerTaskTypes, WorkerTaskTypes, SupervisorTypes DEF SessionNext

-----------------------------------------------------------------------------
(* A batch being settled is disturbed by a step of the session only in the  *)
(* state of its deliveries, or else the worker has left its loop.           *)
LEMMA SessionKeepsBatch ==
  ASSUME SessionTypeOK, SessionShape, SessionNext
  PROVE  \/ working' \in {"collect", "flush", "requeue", "cancelled", "stopped"}
         \/ /\ working' = working /\ pos' = pos
            /\ Len(batch') = Len(batch)
            /\ \A i \in 1 .. Len(batch) : batch'[i].msg = batch[i].msg
<1> USE DEF consumerVars, workerVars
<1>1. CASE ChannelReset
  BY <1>1, InvalidatedKeepsMessages DEF ChannelReset, SessionTypeOK
<1>2. CASE AbortSession
  BY <1>2, AbortSessionShape
<1>3. CASE EndProcessState
  BY <1>3 DEF EndProcessState
<1>4. CASE WorkerTask
  BY <1>4 DEF WorkerTask, Collect, BatchTimeout, RequeueNext, RequeueDone,
              RequeueFails, CancelDone, WorkerStops
<1>5. \/ ChannelReset \/ AbortSession \/ EndProcessState \/ WorkerTask
      \/ UNCHANGED << pos, batch >> /\ (working' = "collect" \/ working' = working)
  BY DEF SessionNext, ConsumerTask, Supervisor, Failures, Publish, Receive, Put,
         PublishMalformed, AckMalformed, AckMalformedRaises, StartDraining,
         DrainBuffer, Disconnect, Connect, Shutdown, Crash, PublishMalformedFails
<1> QED
  BY <1>1, <1>2, <1>3, <1>4, <1>5

(* What the consumer task has in hand is malformed when it is about to be   *)
(* copied, and copied when it is about to be acknowledged.                  *)
HandCopied ==
  /\ receiving = "publish" => hand[1].msg \in Malformed
  /\ receiving = "ack"     => deadLetters[hand[1].msg] > 0

(* No operation of the broker but an acknowledgement takes back what it     *)
(* owes, and an acknowledgement only for its own message.                   *)
LEMMA BrokerOwes ==
  ASSUME ready \in Counts, unacked \in Counts, NEW m \in Message, Outstanding(m),
         NEW d \in Message
  PROVE  /\ Enqueue(d) /\ UNCHANGED unacked => Outstanding(m)'
         /\ Deliver(d)     => Outstanding(m)'
         /\ Requeue(d)     => Outstanding(m)'
         /\ RequeueUnacked => Outstanding(m)'
         /\ Ack(d) /\ d # m /\ UNCHANGED ready => Outstanding(m)'
BY DEF Counts, Outstanding, Enqueue, Deliver, Requeue, RequeueUnacked, Ack

LEMMA DeadLetterCounts ==
  ASSUME deadLetters \in Counts, NEW m \in Message, NEW d \in Message, DeadLetter(d)
  PROVE  /\ deadLetters'[m] >= deadLetters[m]
         /\ deadLetters'[d] > 0
         /\ m # d => deadLetters'[m] = deadLetters[m]
BY DEF Counts, DeadLetter

(* What a step of the session does to the queues: a publication, a delivery *)
(* or a return, a copy of a malformed message, or its acknowledgement.      *)
LEMMA SessionBroker ==
  ASSUME SessionTypeOK, SessionShape, SessionNext
  PROVE  \/ \E d \in Inbound : Publish(d)
         \/ UNCHANGED << brokerVars, accepted >>
         \/ /\ UNCHANGED << deadLetters, accepted >>
            /\ RequeueUnacked \/ \E d \in Message : Deliver(d) \/ Requeue(d)
         \/ /\ receiving = "publish" /\ DeadLetter(hand[1].msg)
            /\ UNCHANGED << ready, unacked, accepted >>
         \/ /\ receiving = "ack" /\ Ack(hand[1].msg)
            /\ UNCHANGED << ready, deadLetters, accepted >>
<1> USE DEF brokerVars
<1>1. CASE ConsumerTask
  BY <1>1 DEF ConsumerTask, Receive, Put, PublishMalformed, AckMalformed,
              AckMalformedRaises
<1>2. CASE WorkerTask
  <2>1. pos \in DOMAIN batch => Current.msg \in Message
    BY HeldMessage DEF SessionTypeOK, Current
  <2> QED
    BY <1>2, <2>1 DEF WorkerTask, Collect, BatchTimeout, RequeueNext,
                      RequeueDone, RequeueFails, CancelDone
<1>3. CASE Supervisor
  <2>1. buffer # << >> => Head(buffer).msg \in Message
    BY TailType DEF SessionTypeOK, Delivery
  <2> QED
    BY <1>3, <2>1 DEF Supervisor, StartDraining, DrainBuffer, Disconnect, Connect
<1>4. CASE Failures
  BY <1>4 DEF Failures, Shutdown, Crash, ChannelReset, PublishMalformedFails
<1> QED
  BY <1>1, <1>2, <1>3, <1>4 DEF SessionNext

(* A step of the session settles a message only by a dead-letter copy, and  *)
(* copies only malformed messages.                                          *)
LEMMA SessionSettles ==
  ASSUME SessionTypeOK, SessionShape, HandCopied, SessionNext, NEW m \in Message
  PROVE  /\ deadLetters'[m] >= deadLetters[m]
         /\ deadLetters'[m] > deadLetters[m] => m \in Malformed
         /\ Outstanding(m) => Outstanding(m)' \/ deadLetters'[m] > 0
         /\ accepted'[m] > 0 => accepted[m] > 0 \/ Outstanding(m)'
<1> DEFINE Goal ==
      /\ deadLetters'[m] >= deadLetters[m]
      /\ deadLetters'[m] > deadLetters[m] => m \in Malformed
      /\ Outstanding(m) => Outstanding(m)' \/ deadLetters'[m] > 0
      /\ accepted'[m] > 0 => accepted[m] > 0 \/ Outstanding(m)'
<1>1. /\ ready \in Counts /\ unacked \in Counts /\ deadLetters \in Counts
      /\ accepted \in Counts
      /\ deadLetters[m] \in Nat
  BY DEF SessionTypeOK, Counts
<1>2. receiving \in {"publish", "ack"} => hand[1].msg \in Message
  BY HeldMessage DEF SessionTypeOK, SessionShape
<1>3. ASSUME NEW d \in Inbound, Publish(d) PROVE Goal
  <2>1. /\ Enqueue(d) /\ UNCHANGED << unacked, deadLetters >>
        /\ accepted' = [accepted EXCEPT ![d] = @ + 1]
    BY <1>3 DEF Publish
  <2>2. d \in Message
    BY InboundAssumption
  <2>3. Outstanding(m) => Outstanding(m)'
    BY <1>1, <2>1, <2>2, BrokerOwes
  <2>4. accepted'[m] > 0 => accepted[m] > 0 \/ Outstanding(m)'
    BY <1>1, <2>1, <2>2 DEF Counts, Outstanding, Enqueue
  <2> QED
    BY <1>1, <2>1, <2>3, <2>4
<1>4. CASE UNCHANGED << brokerVars, accepted >>
  BY <1>1, <1>4 DEF brokerVars, Outstanding
<1>5. CASE /\ UNCHANGED << deadLetters, accepted >>
           /\ RequeueUnacked \/ \E d \in Message : Deliver(d) \/ Requeue(d)
  BY <1>1, <1>5, BrokerOwes
<1>6. CASE /\ receiving = "publish" /\ DeadLetter(hand[1].msg)
           /\ UNCHANGED << ready, unacked, accepted >>
  BY <1>1, <1>2, <1>6, DeadLetterCounts DEF HandCopied, Outstanding
<1>7. CASE /\ receiving = "ack" /\ Ack(hand[1].msg)
           /\ UNCHANGED << ready, deadLetters, accepted >>
  BY <1>1, <1>2, <1>7, BrokerOwes DEF HandCopied
<1> QED
  BY <1>3, <1>4, <1>5, <1>6, <1>7, SessionBroker

(* The consumer task copies before it acknowledges.                         *)
LEMMA HandCopiedKept ==
  ASSUME SessionTypeOK, SessionShape, HandCopied, SessionNext
  PROVE  HandCopied'
<1>1. \A m \in Message : deadLetters[m] \in Nat /\ deadLetters'[m] \in Nat
                          /\ deadLetters'[m] >= deadLetters[m]
  BY SessionSettles, SessionTypes DEF SessionTypeOK, Counts
<1>2. receiving \in {"put", "publish", "ack"} => hand[1].msg \in Message
  BY HeldMessage DEF SessionTypeOK, SessionShape
<1>3. ASSUME NEW m \in Message, Receive(m) PROVE HandCopied'
  BY <1>3 DEF Receive, Delivered, HandCopied
<1>4. CASE PublishMalformed
  BY <1>2, <1>4, DeadLetterCounts DEF PublishMalformed, HandCopied, SessionTypeOK
<1>5. CASE ChannelReset
  <2>1. receiving \in {"publish", "ack"} => hand'[1].msg = hand[1].msg
    BY <1>5, InvalidatedKeepsMessages DEF ChannelReset, SessionTypeOK, SessionShape
  <2> QED
    BY <1>1, <1>2, <1>5, <2>1 DEF ChannelReset, HandCopied
<1>6. CASE UNCHANGED << receiving, hand >>
  BY <1>1, <1>2, <1>6 DEF HandCopied
<1>7. CASE receiving' \in {"idle", "stopped"}
  BY <1>7 DEF HandCopied
<1>8. \/ \E m \in Message : Receive(m)
      \/ PublishMalformed \/ ChannelReset
      \/ UNCHANGED << receiving, hand >>
      \/ receiving' \in {"idle", "stopped"}
  BY DEF SessionNext, ConsumerTask, WorkerTask, Supervisor, Failures, Publish,
         Put, AckMalformed, AckMalformedRaises, Collect, BatchTimeout,
         RequeueNext, RequeueDone, RequeueFails, CancelDone, StartDraining,
         DrainBuffer, Disconnect, Connect, Shutdown, Crash,
         PublishMalformedFails, AbortSession, EndProcessState, consumerVars
<1> QED
  BY <1>3, <1>4, <1>5, <1>6, <1>7, <1>8

(* Disposing of one message goes on with the next one or starts anew.       *)
LEMMA NextInBatchTypes ==
  ASSUME SessionTypeOK, pos \in 1 .. Len(batch), NEW step, NextInBatch(step)
  PROVE  /\ batch' \in Seq(Delivery) /\ Len(batch') <= BatchSize /\ pos' \in Nat
         /\ \/ working' = "collect" /\ batch' = << >>
            \/ /\ working' = step /\ pos' \in 1 .. Len(batch')
               /\ Len(batch') = Len(batch)
               /\ \A i \in 1 .. Len(batch) : batch'[i].msg = batch[i].msg
<1> USE DEF SessionTypeOK
<1>1. CASE pos = Len(batch)
  BY <1>1, BatchSizeAssumption DEF NextInBatch
<1>2. CASE pos # Len(batch)
  <2>1. /\ batch' = [batch EXCEPT ![pos] = AsDone(@)]
        /\ pos' = pos + 1 /\ working' = step
    BY <1>2 DEF NextInBatch
  <2>2. /\ batch' \in Seq(Delivery) /\ Len(batch') = Len(batch)
        /\ \A i \in 1 .. Len(batch) : batch'[i].msg = batch[i].msg
    BY <2>1, DoneKeepsMessages
  <2>3. pos + 1 \in 1 .. Len(batch) /\ pos + 1 \in Nat /\ Len(batch) <= BatchSize
    BY <1>2
  <2> HIDE DEF SessionTypeOK
  <2> QED
    BY <2>1, <2>2, <2>3
<1> QED
  BY <1>1, <1>2

LEMMA BatchNotEmpty ==
  ASSUME SessionTypeOK, SessionShape, working = "flush"
  PROVE  1 \in 1 .. Len(batch)
BY EmptySeq DEF SessionTypeOK, SessionShape

-----------------------------------------------------------------------------
(* Counting the local copies of deliveries: how many elements of a sequence *)
(* are in D, as the sequence is formed.                                     *)
LEMMA CountType ==
  ASSUME NEW s \in Seq(Delivery), NEW D
  PROVE  /\ IsFiniteSet({ i \in DOMAIN s : s[i] \in D })
         /\ CountIn(s, D) \in Nat
<1>1. DOMAIN s = 1 .. Len(s) /\ Len(s) \in Nat
  OBVIOUS
<1>2. IsFiniteSet(DOMAIN s)
  BY <1>1, FS_Interval
<1>3. IsFiniteSet({ i \in DOMAIN s : s[i] \in D })
  BY <1>2, FS_Subset
<1> QED
  BY <1>3, FS_CardinalityType DEF CountIn

LEMMA CountNone ==
  ASSUME NEW s \in Seq(Delivery), NEW D, \A i \in 1 .. Len(s) : s[i] \notin D
  PROVE  CountIn(s, D) = 0
<1>1. { i \in DOMAIN s : s[i] \in D } = {}
  OBVIOUS
<1> QED
  BY <1>1, FS_EmptySet DEF CountIn

LEMMA CountAll ==
  ASSUME NEW s \in Seq(Delivery), NEW D, \A i \in 1 .. Len(s) : s[i] \in D
  PROVE  CountIn(s, D) = Len(s)
<1>1. { i \in DOMAIN s : s[i] \in D } = 1 .. Len(s)
  OBVIOUS
<1>2. Cardinality(1 .. Len(s)) = Len(s)
  <2>1. ASSUME NEW n \in Nat PROVE Cardinality(1 .. n) = n
    BY FS_Interval
  <2> QED
    BY <2>1
<1> QED
  BY <1>1, <1>2 DEF CountIn

(* At most the element at p counts.                                         *)
LEMMA CountOnly ==
  ASSUME NEW s \in Seq(Delivery), NEW D, NEW p \in 1 .. Len(s),
         \A i \in 1 .. Len(s) : i # p => s[i] \notin D
  PROVE  CountIn(s, D) = IF s[p] \in D THEN 1 ELSE 0
<1>1. CASE s[p] \in D
  <2>1. { i \in DOMAIN s : s[i] \in D } = {p}
    BY <1>1
  <2> QED
    BY <1>1, <2>1, FS_Singleton DEF CountIn
<1>2. CASE s[p] \notin D
  BY <1>2, CountNone
<1> QED
  BY <1>1, <1>2

LEMMA CountAppend ==
  ASSUME NEW s \in Seq(Delivery), NEW d \in Delivery, NEW D
  PROVE  CountIn(Append(s, d), D) = CountIn(s, D) + IF d \in D THEN 1 ELSE 0
<1> DEFINE S == { i \in DOMAIN s : s[i] \in D }
           T == { i \in DOMAIN Append(s, d) : Append(s, d)[i] \in D }
<1>1. /\ DOMAIN s = 1 .. Len(s) /\ Len(s) \in Nat
      /\ DOMAIN Append(s, d) = 1 .. Len(s) + 1
      /\ \A i \in 1 .. Len(s) : Append(s, d)[i] = s[i]
      /\ Append(s, d)[Len(s) + 1] = d
  BY AppendProperties
<1>2. IsFiniteSet(S)
  BY CountType
<1>3. CASE d \in D
  <2>1. T = S \cup {Len(s) + 1} /\ Len(s) + 1 \notin S
    BY <1>1, <1>3
  <2> QED
    BY <1>2, <1>3, <2>1, FS_AddElement DEF CountIn
<1>4. CASE d \notin D
  <2>1. T = S
    BY <1>1, <1>4
  <2>2. CountIn(Append(s, d), D) = CountIn(s, D)
    BY <2>1 DEF CountIn
  <2>3. CountIn(s, D) \in Nat
    BY CountType
  <2> QED
    BY <1>4, <2>2, <2>3
<1> QED
  BY <1>3, <1>4

LEMMA CountTail ==
  ASSUME NEW s \in Seq(Delivery), s # << >>, NEW D
  PROVE  CountIn(s, D) = CountIn(Tail(s), D) + IF Head(s) \in D THEN 1 ELSE 0
<1> DEFINE S == { i \in DOMAIN s : s[i] \in D }
           T == { i \in DOMAIN Tail(s) : Tail(s)[i] \in D }
           R == { i + 1 : i \in T }
           next == [i \in T |-> i + 1]
<1>1. /\ DOMAIN s = 1 .. Len(s) /\ Len(s) \in Nat /\ 1 \in 1 .. Len(s)
      /\ Tail(s) \in Seq(Delivery) /\ DOMAIN Tail(s) = 1 .. Len(s) - 1
      /\ \A i \in 1 .. Len(s) - 1 : Tail(s)[i] = s[i + 1]
      /\ Head(s) = s[1]
  BY HeadTailProperties, EmptySeq
<1>2. IsFiniteSet(T)
  BY <1>1, CountType
<1>3. \A i \in T : i \in Nat
  BY <1>1
<1>4. next \in Bijection(T, R)
  BY <1>3 DEF Bijection, Injection, Surjection, IsInjective
<1>5. IsFiniteSet(R) /\ Cardinality(R) = Cardinality(T)
  <2>1. ExistsBijection(T, R)
    BY <1>4 DEF ExistsBijection
  <2> QED
    BY <1>2, <2>1, FS_Bijection
<1>6. R = S \ {1}
  <2>1. ASSUME NEW j \in S, j # 1 PROVE j \in R
    <3>1. j - 1 \in T /\ j = (j - 1) + 1
      BY <1>1, <2>1
    <3> QED
      BY <3>1
  <2>2. ASSUME NEW i \in T PROVE i + 1 \in S /\ i + 1 # 1
    BY <1>1
  <2> QED
    BY <2>1, <2>2
<1>7. CountIn(s, D) = Cardinality(S) /\ CountIn(Tail(s), D) = Cardinality(T)
  BY DEF CountIn
<1>8. CASE Head(s) \in D
  <2>1. S = R \cup {1} /\ 1 \notin R
    BY <1>1, <1>6, <1>8
  <2>2. Cardinality(S) = Cardinality(R) + 1
    BY <1>5, <2>1, FS_AddElement
  <2> QED
    BY <1>5, <1>7, <1>8, <2>2
<1>9. CASE Head(s) \notin D
  <2>1. S = R
    BY <1>1, <1>6, <1>9
  <2>2. CountIn(s, D) = CountIn(Tail(s), D)
    BY <1>5, <1>7, <2>1
  <2>3. CountIn(Tail(s), D) \in Nat
    BY <1>1, CountType
  <2> QED
    BY <1>9, <2>2, <2>3
<1> QED
  BY <1>8, <1>9

(* The consumer task appends the one delivery it has in hand.               *)
LEMMA PutAppends ==
  ASSUME NEW s \in Seq(Delivery), NEW t \in Seq(Delivery), Len(t) = 1
  PROVE  /\ 1 \in 1 .. Len(t) /\ t[1] \in Delivery
         /\ s \o t = Append(s, t[1])
<1>1. 1 \in 1 .. Len(t) /\ t[1] \in Delivery
  <2>1. 1 \in 1 .. Len(t)
    OBVIOUS
  <2> QED
    BY <2>1, ElementOfSeq
<1>2. s \o t = Append(s, t[1])
  <2>1. /\ s \o t \in Seq(Delivery) /\ Len(s \o t) = Len(s) + 1 /\ Len(s) \in Nat
        /\ \A i \in 1 .. Len(s) : (s \o t)[i] = s[i]
        /\ (s \o t)[Len(s) + 1] = t[1]
    <3>1. /\ s \o t \in Seq(Delivery) /\ Len(s \o t) = Len(s) + Len(t)
          /\ \A i \in 1 .. Len(s) + Len(t) :
               (s \o t)[i] = IF i <= Len(s) THEN s[i] ELSE t[i - Len(s)]
      BY ConcatProperties
    <3>2. /\ Len(s) \in Nat /\ Len(s) + Len(t) = Len(s) + 1
          /\ Len(s) + 1 \in 1 .. Len(s) + 1 /\ ~ (Len(s) + 1 <= Len(s))
          /\ (Len(s) + 1) - Len(s) = 1
      OBVIOUS
    <3> QED
      BY <3>1, <3>2
  <2>2. /\ Append(s, t[1]) \in Seq(Delivery) /\ Len(Append(s, t[1])) = Len(s) + 1
        /\ \A i \in 1 .. Len(s) : Append(s, t[1])[i] = s[i]
        /\ Append(s, t[1])[Len(s) + 1] = t[1]
    BY <1>1, AppendProperties
  <2>3. \A i \in 1 .. Len(s) + 1 : (s \o t)[i] = Append(s, t[1])[i]
    <3>1. \A i \in 1 .. Len(s) + 1 : i \in 1 .. Len(s) \/ i = Len(s) + 1
      BY <2>1
    <3> QED
      BY <2>1, <2>2, <3>1
  <2> QED
    BY <2>1, <2>2, <2>3, SeqEqual
<1> QED
  BY <1>1, <1>2

LEMMA CountPut ==
  ASSUME NEW s \in Seq(Delivery), NEW t \in Seq(Delivery), Len(t) = 1, NEW D
  PROVE  /\ CountIn(s \o t, D) = CountIn(s, D) + CountIn(t, D)
         /\ CountIn(t, D) = IF t[1] \in D THEN 1 ELSE 0
<1>1. CountIn(t, D) = IF t[1] \in D THEN 1 ELSE 0
  BY PutAppends, CountOnly
<1>2. t[1] \in Delivery /\ s \o t = Append(s, t[1])
  BY PutAppends
<1>3. CountIn(Append(s, t[1]), D) = CountIn(s, D) + IF t[1] \in D THEN 1 ELSE 0
  BY <1>2, CountAppend
<1> QED
  BY <1>1, <1>2, <1>3

(* The deliveries of the open channel, which the broker counts as unacked.  *)
LiveDelivery == { d \in Delivery : d.state = "live" }

LEMMA MarkedNotLive ==
  ASSUME NEW d \in Delivery
  PROVE  /\ AsDone(d) \notin LiveDelivery /\ AsStale(d) \notin LiveDelivery
         /\ d \in LiveDelivery <=> d = Delivered(d.msg)
BY DEF LiveDelivery, Delivery, AsDone, AsStale, Delivered

(* Settling the delivery at p, and losing the channel.                      *)
LEMMA CountDone ==
  ASSUME NEW s \in Seq(Delivery), NEW p \in 1 .. Len(s), NEW D \in SUBSET LiveDelivery
  PROVE  CountIn(s, D) = CountIn([s EXCEPT ![p] = AsDone(@)], D)
                           + IF s[p] \in D THEN 1 ELSE 0
<1> DEFINE t == [s EXCEPT ![p] = AsDone(@)]
           S == { i \in DOMAIN s : s[i] \in D }
           T == { i \in DOMAIN t : t[i] \in D }
<1>1. /\ DOMAIN s = 1 .. Len(s) /\ DOMAIN t = 1 .. Len(s)
      /\ \A i \in 1 .. Len(s) : t[i] = IF i = p THEN AsDone(s[p]) ELSE s[i]
  OBVIOUS
<1>2. t[p] \notin D
  BY <1>1, MarkedNotLive
<1>3. IsFiniteSet(S)
  BY CountType
<1>4. T = S \ {p}
  BY <1>1, <1>2
<1>5. CASE s[p] \in D
  <2>1. Cardinality(T) = Cardinality(S) - 1
    BY <1>1, <1>3, <1>4, <1>5, FS_RemoveElement
  <2> QED
    BY <1>3, <1>5, <2>1, FS_CardinalityType DEF CountIn
<1>6. CASE s[p] \notin D
  <2>1. T = S
    BY <1>1, <1>4, <1>6
  <2>2. CountIn(t, D) = CountIn(s, D)
    BY <2>1 DEF CountIn
  <2>3. CountIn(t, D) \in Nat
    BY <2>2, CountType
  <2> QED
    BY <1>6, <2>2, <2>3
<1> QED
  BY <1>5, <1>6

LEMMA CountInvalidated ==
  ASSUME NEW s \in Seq(Delivery), NEW D \in SUBSET LiveDelivery
  PROVE  CountIn(Invalidated(s), D) = 0
<1>1. Invalidated(s) \in Seq(Delivery) /\ Len(Invalidated(s)) = Len(s)
  BY InvalidatedKeepsMessages
<1>2. \A i \in 1 .. Len(s) : Invalidated(s)[i] = AsStale(s[i])
  BY DEF Invalidated
<1>3. \A i \in 1 .. Len(s) : AsStale(s[i]) \notin D
  BY MarkedNotLive
<1> QED
  BY <1>1, <1>2, <1>3, CountNone

-----------------------------------------------------------------------------
(* What the operations of the broker do to the deliveries nobody settled.   *)
LEMMA UnsettledGrows ==
  ASSUME unacked \in Counts, NEW m \in Message, Deliver(m), IsFiniteSet(Unsettled)
  PROVE  /\ IsFiniteSet(Unsettled')
         /\ Cardinality(Unsettled') = Cardinality(Unsettled) + 1
<1>1. /\ unacked[m] \in Nat /\ unacked' = [unacked EXCEPT ![m] = @ + 1]
      /\ DOMAIN unacked = Message
  BY DEF Deliver, Counts
<1>2. Unsettled' = Unsettled \cup { << m, unacked[m] + 1 >> }
  <2>1. ASSUME NEW d \in Message, NEW k
        PROVE  k \in 1 .. unacked'[d]
                 <=> k \in 1 .. unacked[d] \/ (d = m /\ k = unacked[m] + 1)
    BY <1>1
  <2>2. ASSUME NEW x
        PROVE  x \in Unsettled' <=> x \in Unsettled \/ x = << m, unacked[m] + 1 >>
    <3>1. /\ x \in Unsettled  <=> \E d \in Message : \E k \in 1 .. unacked[d]  : x = << d, k >>
          /\ x \in Unsettled' <=> \E d \in Message : \E k \in 1 .. unacked'[d] : x = << d, k >>
      BY DEF Unsettled
    <3> QED
      BY <2>1, <3>1
  <2> QED
    BY <2>2
<1>3. << m, unacked[m] + 1 >> \notin Unsettled
  BY <1>1 DEF Unsettled
<1> QED
  BY <1>2, <1>3, FS_AddElement

LEMMA UnsettledShrinks ==
  ASSUME unacked \in Counts, NEW m \in Message, unacked[m] > 0,
         unacked' = [unacked EXCEPT ![m] = @ - 1], IsFiniteSet(Unsettled)
  PROVE  /\ IsFiniteSet(Unsettled')
         /\ Cardinality(Unsettled') = Cardinality(Unsettled) - 1
<1>1. unacked[m] \in Nat \ {0} /\ DOMAIN unacked = Message
  BY DEF Counts
<1>2. Unsettled' = Unsettled \ { << m, unacked[m] >> }
  <2>1. ASSUME NEW d \in Message, NEW k
        PROVE  k \in 1 .. unacked'[d]
                 <=> k \in 1 .. unacked[d] /\ ~ (d = m /\ k = unacked[m])
    BY <1>1
  <2>2. ASSUME NEW x
        PROVE  x \in Unsettled' <=> x \in Unsettled /\ x # << m, unacked[m] >>
    <3>1. /\ x \in Unsettled  <=> \E d \in Message : \E k \in 1 .. unacked[d]  : x = << d, k >>
          /\ x \in Unsettled' <=> \E d \in Message : \E k \in 1 .. unacked'[d] : x = << d, k >>
      BY DEF Unsettled
    <3> QED
      BY <2>1, <3>1
  <2> QED
    BY <2>2
<1>3. << m, unacked[m] >> \in Unsettled
  BY <1>1 DEF Unsettled
<1> QED
  BY <1>2, <1>3, FS_RemoveElement

LEMMA UnsettledCleared ==
  ASSUME RequeueUnacked
  PROVE  IsFiniteSet(Unsettled') /\ Cardinality(Unsettled') = 0
<1>1. Unsettled' = {}
  BY DEF RequeueUnacked, Unsettled
<1> QED
  BY <1>1, FS_EmptySet

(* Whether a sequence of deliveries has one in a given state, as it is      *)
(* formed, settled and invalidated.                                         *)
Has(s, state) == \E i \in 1 .. Len(s) : s[i].state = state

LEMMA HasEmpty ==
  ASSUME NEW x PROVE ~ Has(<< >>, x)
BY DEF Has

LEMMA HasAppend ==
  ASSUME NEW s \in Seq(Delivery), NEW d \in Delivery, NEW x
  PROVE  Has(Append(s, d), x) <=> Has(s, x) \/ d.state = x
<1>1. /\ Len(Append(s, d)) = Len(s) + 1 /\ Len(s) \in Nat
      /\ \A i \in 1 .. Len(s) : Append(s, d)[i] = s[i]
      /\ Append(s, d)[Len(s) + 1] = d
  BY AppendProperties
<1>2. \A i : i \in 1 .. Len(s) + 1 <=> i \in 1 .. Len(s) \/ i = Len(s) + 1
  BY <1>1
<1> QED
  BY <1>1, <1>2 DEF Has

LEMMA HasTail ==
  ASSUME NEW s \in Seq(Delivery), s # << >>, NEW x
  PROVE  Has(s, x) <=> Has(Tail(s), x) \/ Head(s).state = x
<1>1. /\ Len(Tail(s)) = Len(s) - 1 /\ Len(s) \in Nat /\ 1 \in 1 .. Len(s)
      /\ \A i \in 1 .. Len(s) - 1 : Tail(s)[i] = s[i + 1]
      /\ Head(s) = s[1]
  BY HeadTailProperties, EmptySeq
<1>2. ASSUME Has(s, x) PROVE Has(Tail(s), x) \/ Head(s).state = x
  <2>1. PICK i \in 1 .. Len(s) : s[i].state = x
    BY <1>2 DEF Has
  <2>2. CASE i = 1
    BY <1>1, <2>1, <2>2
  <2>3. CASE i # 1
    <3>1. i - 1 \in 1 .. Len(s) - 1 /\ Tail(s)[i - 1] = s[i]
      BY <1>1, <2>3
    <3> QED
      BY <1>1, <2>1, <3>1 DEF Has
  <2> QED
    BY <2>2, <2>3
<1>3. ASSUME Has(Tail(s), x) PROVE Has(s, x)
  <2>1. PICK i \in 1 .. Len(s) - 1 : Tail(s)[i].state = x
    BY <1>1, <1>3 DEF Has
  <2>2. i + 1 \in 1 .. Len(s) /\ s[i + 1].state = x
    BY <1>1, <2>1
  <2> QED
    BY <2>2 DEF Has
<1>4. ASSUME Head(s).state = x PROVE Has(s, x)
  BY <1>1, <1>4 DEF Has
<1> QED
  BY <1>2, <1>3, <1>4

LEMMA HasPut ==
  ASSUME NEW s \in Seq(Delivery), NEW t \in Seq(Delivery), Len(t) = 1, NEW x
  PROVE  /\ Has(s \o t, x) <=> Has(s, x) \/ Has(t, x)
         /\ Has(t, x) <=> t[1].state = x
<1>1. \A i : i \in 1 .. Len(t) <=> i = 1
  OBVIOUS
<1>2. Has(t, x) <=> t[1].state = x
  BY <1>1 DEF Has
<1>3. t[1] \in Delivery /\ s \o t = Append(s, t[1])
  BY PutAppends
<1>4. Has(Append(s, t[1]), x) <=> Has(s, x) \/ t[1].state = x
  BY <1>3, HasAppend
<1> QED
  BY <1>2, <1>3, <1>4

LEMMA HasInvalidated ==
  ASSUME NEW s \in Seq(Delivery)
  PROVE  /\ ~ Has(Invalidated(s), "live")
         /\ Has(Invalidated(s), "done") => Has(s, "done")
         /\ Has(s, "stale") => Has(Invalidated(s), "stale")
<1>1. /\ Len(Invalidated(s)) = Len(s)
      /\ \A i \in 1 .. Len(s) : Invalidated(s)[i] = AsStale(s[i])
  BY InvalidatedKeepsMessages DEF Invalidated
<1>2. ASSUME NEW i \in 1 .. Len(s)
      PROVE  /\ Invalidated(s)[i].state # "live"
             /\ Invalidated(s)[i].state = "done" => s[i].state = "done"
             /\ s[i].state = "stale" => Invalidated(s)[i].state = "stale"
  <2>1. s[i] \in Delivery
    BY ElementOfSeq
  <2> QED
    BY <1>1, <2>1 DEF AsStale, Delivery
<1> QED
  BY <1>1, <1>2 DEF Has

LEMMA HasDone ==
  ASSUME NEW s \in Seq(Delivery), NEW p \in 1 .. Len(s), NEW x, x # "done"
  PROVE  /\ Has([s EXCEPT ![p] = AsDone(@)], x) => Has(s, x)
         /\ Has(s, x) => Has([s EXCEPT ![p] = AsDone(@)], x) \/ s[p].state = x
<1> DEFINE t == [s EXCEPT ![p] = AsDone(@)]
<1>1. AsDone(s[p]).state = "done"
  <2>1. s[p] \in Delivery
    BY ElementOfSeq
  <2> QED
    BY <2>1 DEF AsDone, Delivery
<1>2. /\ Len(t) = Len(s)
      /\ \A i \in 1 .. Len(s) : t[i] = IF i = p THEN AsDone(s[p]) ELSE s[i]
  OBVIOUS
<1> QED
  BY <1>1, <1>2 DEF Has

-----------------------------------------------------------------------------
(* What the tasks may rely on about each other.  The consumer task holds a  *)
(* delivery only while it handles one, in a session that is up; nothing     *)
(* settled is in its hand or in the buffer; and a stale delivery in its     *)
(* hand came before anything the other task holds could be delivered anew.  *)
ConsumerShape ==
  /\ receiving = "idle" => hand = << >>
  /\ receiving # "stopped" => session = "up"
  /\ session = "down" => hand = << >> /\ buffer = << >>
  /\ session = "draining" => working = "stopped"
  /\ ~ Has(hand, "done") /\ ~ Has(buffer, "done")
  /\ Has(hand, "stale") => ~ Has(buffer, "live") /\ ~ Has(batch, "live")

(* The worker settles its batch from the front: behind its position nothing *)
(* is live, and ahead of it nothing is settled.                             *)
SessionSteps == {"collect", "flush", "requeue", "cancelled", "stopped"}
WorkerShape ==
  /\ working \in {"collect", "flush"} => ~ Has(batch, "done")
  /\ working \notin SessionSteps =>
       /\ pos \in 1 .. Len(batch)
       /\ \A i \in 1 .. Len(batch) : /\ i < pos    => batch[i].state # "live"
                                     /\ ~(i < pos) => batch[i].state # "done"
  /\ working \in {"requeue", "cancelled"} =>
       /\ pos \in 1 .. Len(batch) + 1
       /\ \A i \in 1 .. Len(batch) : i < pos => batch[i].state # "live"

(* A delivery that goes from the buffer into the batch.                     *)
LEMMA CollectedKeeps ==
  ASSUME SessionTypeOK, buffer # << >>,
         batch' = Append(batch, Head(buffer)), buffer' = Tail(buffer)
  PROVE  /\ \A x : Has(buffer', x) => Has(buffer, x)
         /\ \A x : Has(batch', x) => Has(batch, x) \/ Has(buffer, x)
         /\ \A x : Has(batch, x) \/ Has(buffer, x) => Has(batch', x) \/ Has(buffer', x)
         /\ \A D : CountIn(buffer', D) + CountIn(batch', D)
                     = CountIn(buffer, D) + CountIn(batch, D)
<1>1. /\ Head(buffer) \in Delivery /\ buffer \in Seq(Delivery)
      /\ batch \in Seq(Delivery) /\ buffer' \in Seq(Delivery)
  BY TailType DEF SessionTypeOK
<1>2. ASSUME NEW x
      PROVE  /\ Has(batch', x) <=> Has(batch, x) \/ Head(buffer).state = x
             /\ Has(buffer, x) <=> Has(buffer', x) \/ Head(buffer).state = x
  BY <1>1, HasAppend, HasTail
<1>3. ASSUME NEW D
      PROVE  CountIn(buffer', D) + CountIn(batch', D)
               = CountIn(buffer, D) + CountIn(batch, D)
  <2>1. CountIn(batch', D) = CountIn(batch, D) + IF Head(buffer) \in D THEN 1 ELSE 0
    BY <1>1, CountAppend
  <2>2. CountIn(buffer, D) = CountIn(buffer', D) + IF Head(buffer) \in D THEN 1 ELSE 0
    BY <1>1, CountTail
  <2>3. CountIn(batch, D) \in Nat /\ CountIn(buffer', D) \in Nat
    BY <1>1, CountType
  <2> QED
    BY <2>1, <2>2, <2>3
<1> QED
  BY <1>2, <1>3

LEMMA AbortKeepsShape ==
  ASSUME SessionTypeOK, ConsumerShape, WorkerShape, AbortSession
  PROVE  ConsumerShape' /\ WorkerShape'
<1>1. session' = "failing" /\ receiving' = "stopped" /\ hand' = hand
  BY DEF AbortSession
<1>2. CASE CancelWorker
  <2>1. /\ batch' = batch /\ buffer' = buffer /\ pos' = 1
        /\ working' \in {"cancelled", "stopped"}
    BY <1>2 DEF CancelWorker
  <2>2. Len(batch) \in Nat
    BY DEF SessionTypeOK
  <2>3. WorkerShape'
    BY <2>1, <2>2 DEF WorkerShape, SessionSteps
  <2> QED
    BY <1>1, <2>1, <2>3 DEF ConsumerShape
<1>3. CASE CancelSwallowed
  <2>1. /\ buffer # << >> /\ batch' = Append(batch, Head(buffer))
        /\ buffer' = Tail(buffer) /\ working = "collect"
        /\ working' \in {"collect", "flush"}
    BY <1>3 DEF CancelSwallowed
  <2>2. /\ \A x : Has(buffer', x) => Has(buffer, x)
        /\ \A x : Has(batch', x) => Has(batch, x) \/ Has(buffer, x)
    BY <2>1, CollectedKeeps
  <2>3. WorkerShape'
    BY <2>1, <2>2 DEF WorkerShape, ConsumerShape, SessionSteps
  <2> QED
    BY <1>1, <2>2, <2>3 DEF ConsumerShape
<1> QED
  BY <1>2, <1>3 DEF AbortSession

LEMMA EndProcessKeepsShape ==
  ASSUME EndProcessState
  PROVE  ConsumerShape' /\ WorkerShape'
BY HasEmpty DEF EndProcessState, ConsumerShape, WorkerShape, SessionSteps

LEMMA ConsumerTaskKeepsShape ==
  ASSUME SessionTypeOK, SessionShape, ConsumerShape, WorkerShape, ConsumerTask
  PROVE  ConsumerShape' /\ WorkerShape'
<1> USE DEF consumerVars, workerVars, brokerVars
<1>1. ASSUME NEW m \in Message, Receive(m) PROVE ConsumerShape' /\ WorkerShape'
  <2>1. /\ hand' = << Delivered(m) >> /\ UNCHANGED << session, buffer, working, batch, pos >>
        /\ session = "up" /\ receiving' # "idle"
    BY <1>1 DEF Receive
  <2>2. Len(hand') = 1 /\ hand'[1].state = "live" /\ hand' \in Seq(Delivery)
    BY <2>1, DeliveredType DEF Delivered
  <2>3. ~ Has(hand', "done") /\ ~ Has(hand', "stale")
    BY <2>2 DEF Has
  <2> QED
    BY <2>1, <2>3 DEF ConsumerShape, WorkerShape
<1>2. CASE Put
  <2>1. /\ buffer' = buffer \o hand /\ hand' = << >> /\ receiving' = "idle"
        /\ UNCHANGED << session, working, batch, pos >> /\ Len(hand) = 1
        /\ hand \in Seq(Delivery) /\ buffer \in Seq(Delivery)
    BY <1>2 DEF Put, SessionShape, SessionTypeOK
  <2>2. \A x : Has(buffer', x) <=> Has(buffer, x) \/ Has(hand, x)
    BY <2>1, HasPut
  <2>3. WorkerShape'
    BY <2>1 DEF WorkerShape
  <2>4. session = "up"
    BY <1>2 DEF Put, ConsumerShape
  <2> QED
    BY <2>1, <2>2, <2>3, <2>4, HasEmpty DEF ConsumerShape
<1>3. CASE PublishMalformed
  BY <1>3 DEF PublishMalformed, ConsumerShape, WorkerShape
<1>4. CASE AckMalformed
  <2>1. session = "up"
    BY <1>4 DEF AckMalformed, ConsumerShape
  <2> QED
    BY <1>4, <2>1, HasEmpty DEF AckMalformed, ConsumerShape, WorkerShape
<1>5. CASE AckMalformedRaises
  BY <1>5, AbortKeepsShape DEF AckMalformedRaises
<1> QED
  BY <1>1, <1>2, <1>3, <1>4, <1>5 DEF ConsumerTask

LEMMA WorkerTaskKeepsShape ==
  ASSUME SessionTypeOK, SessionShape, ConsumerShape, WorkerShape, WorkerTask
  PROVE  ConsumerShape' /\ WorkerShape'
<1> USE DEF consumerVars, workerVars, brokerVars
<1>1. CASE Collect
  <2>1. /\ buffer # << >> /\ batch' = Append(batch, Head(buffer))
        /\ buffer' = Tail(buffer) /\ working = "collect"
        /\ working' \in {"collect", "flush"}
        /\ UNCHANGED << session, receiving, hand >>
    BY <1>1 DEF Collect
  <2>2. /\ \A x : Has(buffer', x) => Has(buffer, x)
        /\ \A x : Has(batch', x) => Has(batch, x) \/ Has(buffer, x)
    BY <2>1, CollectedKeeps
  <2>3. WorkerShape'
    BY <2>1, <2>2 DEF WorkerShape, ConsumerShape, SessionSteps
  <2>4. session # "down" /\ session # "draining"
    BY <2>1 DEF SessionShape, ConsumerShape
  <2> QED
    BY <2>1, <2>2, <2>3, <2>4 DEF ConsumerShape
<1>2. CASE BatchTimeout
  BY <1>2 DEF BatchTimeout, ConsumerShape, WorkerShape, SessionSteps
<1>3. CASE RequeueNext
  <2>1. /\ working \in {"requeue", "cancelled"} /\ working' = working
        /\ pos \in 1 .. Len(batch) /\ pos' = pos + 1 /\ batch \in Seq(Delivery)
        /\ \A i \in 1 .. Len(batch) : i < pos => batch[i].state # "live"
        /\ UNCHANGED << session, receiving, hand, buffer >>
    BY <1>3 DEF RequeueNext, SessionTypeOK, WorkerShape
  <2>2. CASE Current.state = "live"
    <3>1. batch' = [batch EXCEPT ![pos] = AsDone(@)]
      BY <1>3, <2>2 DEF RequeueNext
    <3>2. /\ Len(batch') = Len(batch)
          /\ \A i \in 1 .. Len(batch) : i # pos => batch'[i] = batch[i]
          /\ batch'[pos] = AsDone(batch[pos])
      BY <2>1, <3>1
    <3>3. batch'[pos].state # "live" /\ (Has(batch', "live") => Has(batch, "live"))
      <4>1. batch[pos] \in Delivery
        BY <2>1, ElementOfSeq
      <4>2. AsDone(batch[pos]).state # "live"
        BY <4>1 DEF AsDone, Delivery
      <4> QED
        BY <2>1, <3>1, <3>2, <4>2, HasDone
    <3>4. WorkerShape'
      BY <2>1, <3>2, <3>3 DEF WorkerShape, SessionSteps
    <3> QED
      BY <2>1, <3>3, <3>4 DEF ConsumerShape
  <2>3. CASE Current.state # "live"
    <3>1. batch' = batch
      BY <1>3, <2>3 DEF RequeueNext
    <3>2. WorkerShape'
      BY <2>1, <2>3, <3>1 DEF WorkerShape, SessionSteps, Current
    <3> QED
      BY <2>1, <3>1, <3>2 DEF ConsumerShape
  <2> QED
    BY <2>2, <2>3
<1>4. CASE RequeueDone
  BY <1>4, HasEmpty DEF RequeueDone, ConsumerShape, WorkerShape, SessionSteps
<1>5. CASE RequeueFails
  BY <1>5, HasEmpty DEF RequeueFails, WorkerStops, ConsumerShape, WorkerShape,
                        SessionSteps
<1>6. CASE CancelDone
  BY <1>6, HasEmpty DEF CancelDone, WorkerStops, ConsumerShape, WorkerShape,
                        SessionSteps
<1> QED
  BY <1>1, <1>2, <1>3, <1>4, <1>5, <1>6 DEF WorkerTask

LEMMA ChannelResetKeepsShape ==
  ASSUME SessionTypeOK, SessionShape, ConsumerShape, WorkerShape, ChannelReset
  PROVE  ConsumerShape' /\ WorkerShape'
<1>1. /\ hand \in Seq(Delivery) /\ buffer \in Seq(Delivery) /\ batch \in Seq(Delivery)
      /\ hand' = Invalidated(hand) /\ buffer' = Invalidated(buffer)
      /\ batch' = Invalidated(batch)
      /\ UNCHANGED << session, receiving, working, pos >> /\ session # "down"
  BY DEF ChannelReset, SessionTypeOK
<1>2. /\ ~ Has(hand', "done") /\ ~ Has(buffer', "done")
      /\ ~ Has(buffer', "live") /\ ~ Has(batch', "live")
      /\ Has(batch', "done") => Has(batch, "done")
  BY <1>1, HasInvalidated DEF ConsumerShape
<1>3. hand = << >> => hand' = << >>
  BY <1>1, InvalidatedKeepsMessages, EmptySeq
<1>4. /\ Len(batch') = Len(batch)
      /\ \A i \in 1 .. Len(batch) :
           /\ batch'[i].state # "live"
           /\ batch[i].state # "done" => batch'[i].state # "done"
  <2>1. /\ Len(batch') = Len(batch)
        /\ \A i \in 1 .. Len(batch) : batch'[i] = AsStale(batch[i])
    BY <1>1, InvalidatedKeepsMessages DEF Invalidated
  <2>2. ASSUME NEW d \in Delivery
        PROVE  /\ AsStale(d).state # "live"
               /\ d.state # "done" => AsStale(d).state # "done"
    BY DEF AsStale, Delivery
  <2>3. \A i \in 1 .. Len(batch) : batch[i] \in Delivery
    BY <1>1, ElementOfSeq
  <2> QED
    BY <2>1, <2>2, <2>3
<1>5. WorkerShape'
  BY <1>1, <1>2, <1>4 DEF WorkerShape
<1> QED
  BY <1>1, <1>2, <1>3, <1>5 DEF ConsumerShape

LEMMA SessionKeepsShape ==
  ASSUME SessionTypeOK, SessionShape, ConsumerShape, WorkerShape, SessionNext
  PROVE  ConsumerShape' /\ WorkerShape'
<1> USE DEF consumerVars, workerVars, brokerVars
<1>1. ASSUME NEW m \in Inbound, Publish(m) PROVE ConsumerShape' /\ WorkerShape'
  BY <1>1 DEF Publish, ConsumerShape, WorkerShape
<1>2. CASE StartDraining
  BY <1>2 DEF StartDraining, ConsumerShape, WorkerShape
<1>3. CASE DrainBuffer
  <2>1. /\ buffer' = Tail(buffer) /\ buffer # << >> /\ buffer \in Seq(Delivery)
        /\ UNCHANGED << session, receiving, hand, working, batch, pos >>
    BY <1>3 DEF DrainBuffer, SessionTypeOK
  <2>2. \A x : Has(buffer', x) => Has(buffer, x)
    BY <2>1, HasTail
  <2>3. WorkerShape'
    BY <2>1 DEF WorkerShape
  <2> QED
    BY <1>3, <2>1, <2>2, <2>3 DEF ConsumerShape, DrainBuffer
<1>4. CASE Disconnect \/ Crash
  BY <1>4, EndProcessKeepsShape DEF Disconnect, Crash
<1>5. CASE Connect
  BY <1>5, HasEmpty DEF Connect, ConsumerShape, WorkerShape, SessionShape, SessionSteps
<1>6. CASE Shutdown \/ PublishMalformedFails
  BY <1>6, AbortKeepsShape DEF Shutdown, PublishMalformedFails
<1> QED
  BY <1>1, <1>2, <1>3, <1>4, <1>5, <1>6, ConsumerTaskKeepsShape,
     WorkerTaskKeepsShape, ChannelResetKeepsShape
     DEF SessionNext, Supervisor, Failures

-----------------------------------------------------------------------------
(* How many deliveries in D the process holds.                              *)
HeldIn(D) == CountIn(hand, D) + CountIn(buffer, D) + CountIn(batch, D)

(* The books of a session: what the broker counts as delivered and what the *)
(* tasks hold live agree, message by message and in total, and the total    *)
(* stays within the prefetch window.                                        *)
SessionBooks ==
  /\ DeliveriesAccountedFor
  /\ IsFiniteSet(Unsettled)
  /\ Cardinality(Unsettled) = HeldIn(LiveDelivery)
  /\ Cardinality(Unsettled) <= PrefetchCount

LEMMA HeldType ==
  ASSUME SessionTypeOK, NEW D
  PROVE  /\ CountIn(hand, D) \in Nat /\ CountIn(buffer, D) \in Nat
         /\ CountIn(batch, D) \in Nat /\ HeldIn(D) \in Nat
<1>1. /\ CountIn(hand, D) \in Nat /\ CountIn(buffer, D) \in Nat
      /\ CountIn(batch, D) \in Nat
  BY CountType DEF SessionTypeOK
<1> QED
  BY <1>1 DEF HeldIn

LEMMA BooksByMessage ==
  ASSUME \A m \in Message : unacked[m] = HeldIn({Delivered(m)})
  PROVE  DeliveriesAccountedFor
BY DEF DeliveriesAccountedFor, HeldIn

(* What balances the books: nothing happens to the live deliveries, one is  *)
(* taken from the broker, one is given back or settled, or all are lost     *)
(* with the channel.                                                        *)
Balanced ==
  \/ /\ UNCHANGED unacked
     /\ \A D \in SUBSET LiveDelivery : HeldIn(D)' = HeldIn(D)
  \/ \E m \in Message :
       /\ Deliver(m) /\ Cardinality(Unsettled) < PrefetchCount
       /\ \A D \in SUBSET LiveDelivery :
            HeldIn(D)' = HeldIn(D) + IF Delivered(m) \in D THEN 1 ELSE 0
  \/ \E m \in Message :
       /\ unacked[m] > 0 /\ unacked' = [unacked EXCEPT ![m] = @ - 1]
       /\ \A D \in SUBSET LiveDelivery :
            HeldIn(D) = HeldIn(D)' + IF Delivered(m) \in D THEN 1 ELSE 0
  \/ /\ RequeueUnacked
     /\ \A D \in SUBSET LiveDelivery : HeldIn(D)' = 0

LEMMA DeliveredLive ==
  ASSUME NEW m \in Message
  PROVE  /\ {Delivered(m)} \in SUBSET LiveDelivery /\ Delivered(m) \in LiveDelivery
         /\ \A d \in Message : Delivered(d) \in {Delivered(m)} <=> d = m
BY DEF LiveDelivery, Delivery, Delivered

LEMMA BalancedBooks ==
  ASSUME SessionTypeOK, SessionTypeOK', SessionBooks, Balanced
  PROVE  SessionBooks'
<1>1. /\ unacked \in Counts /\ DOMAIN unacked = Message
      /\ \A m \in Message : unacked[m] \in Nat
  BY DEF SessionTypeOK, Counts
<1>2. ASSUME NEW D PROVE HeldIn(D) \in Nat /\ HeldIn(D)' \in Nat
  <2>1. /\ CountIn(hand', D) \in Nat /\ CountIn(buffer', D) \in Nat
        /\ CountIn(batch', D) \in Nat
    BY CountType DEF SessionTypeOK
  <2>2. HeldIn(D)' = CountIn(hand', D) + CountIn(buffer', D) + CountIn(batch', D)
    BY DEF HeldIn, CountIn
  <2> QED
    BY <2>1, <2>2, HeldType
<1>3. /\ \A m \in Message : unacked[m] = HeldIn({Delivered(m)})
      /\ IsFiniteSet(Unsettled)
      /\ Cardinality(Unsettled) = HeldIn(LiveDelivery)
      /\ Cardinality(Unsettled) <= PrefetchCount
      /\ PrefetchCount \in Nat
  BY BatchSizeAssumption
     DEF SessionBooks, DeliveriesAccountedFor, HeldIn, PrefetchCount
<1>4. ASSUME NEW m \in Message
      PROVE  {Delivered(m)} \in SUBSET LiveDelivery /\ Delivered(m) \in LiveDelivery
  BY DeliveredLive
<1>5. ASSUME NEW m \in Message, NEW d \in Message
      PROVE  Delivered(d) \in {Delivered(m)} <=> d = m
  BY DeliveredLive
<1> DEFINE Goal == /\ \A m \in Message : unacked'[m] = HeldIn({Delivered(m)})'
                   /\ IsFiniteSet(Unsettled')
                   /\ Cardinality(Unsettled') = HeldIn(LiveDelivery)'
                   /\ Cardinality(Unsettled') <= PrefetchCount
<1>6. ASSUME UNCHANGED unacked,
             \A D \in SUBSET LiveDelivery : HeldIn(D)' = HeldIn(D)
      PROVE  Goal
  <2>1. Unsettled' = Unsettled
    BY <1>6 DEF Unsettled
  <2> QED
    BY <1>3, <1>4, <1>6, <2>1
<1>7. ASSUME NEW m \in Message, Deliver(m), Cardinality(Unsettled) < PrefetchCount,
             \A D \in SUBSET LiveDelivery :
               HeldIn(D)' = HeldIn(D) + IF Delivered(m) \in D THEN 1 ELSE 0
      PROVE  Goal
  <2>1. IsFiniteSet(Unsettled') /\ Cardinality(Unsettled') = Cardinality(Unsettled) + 1
    BY <1>1, <1>3, <1>7, UnsettledGrows
  <2>2. HeldIn(LiveDelivery)' = HeldIn(LiveDelivery) + 1
    BY <1>4, <1>7
  <2>3. ASSUME NEW d \in Message PROVE unacked'[d] = HeldIn({Delivered(d)})'
    <3>1. unacked'[d] = unacked[d] + IF d = m THEN 1 ELSE 0
      BY <1>1, <1>7 DEF Deliver
    <3>2. HeldIn({Delivered(d)})' = HeldIn({Delivered(d)}) + IF d = m THEN 1 ELSE 0
      BY <1>4, <1>5, <1>7
    <3> QED
      BY <1>3, <3>1, <3>2
  <2>4. HeldIn(LiveDelivery) \in Nat
    BY <1>2
  <2> QED
    BY <1>3, <1>7, <2>1, <2>2, <2>3, <2>4
<1>8. ASSUME NEW m \in Message, unacked[m] > 0, unacked' = [unacked EXCEPT ![m] = @ - 1],
             \A D \in SUBSET LiveDelivery :
               HeldIn(D) = HeldIn(D)' + IF Delivered(m) \in D THEN 1 ELSE 0
      PROVE  Goal
  <2>1. IsFiniteSet(Unsettled') /\ Cardinality(Unsettled') = Cardinality(Unsettled) - 1
    BY <1>1, <1>3, <1>8, UnsettledShrinks
  <2>2. HeldIn(LiveDelivery) = HeldIn(LiveDelivery)' + 1
    BY <1>4, <1>8
  <2>3. ASSUME NEW d \in Message PROVE unacked'[d] = HeldIn({Delivered(d)})'
    <3>1. unacked'[d] = unacked[d] - IF d = m THEN 1 ELSE 0
      BY <1>1, <1>8
    <3>2. HeldIn({Delivered(d)}) = HeldIn({Delivered(d)})' + IF d = m THEN 1 ELSE 0
      BY <1>4, <1>5, <1>8
    <3>3. HeldIn({Delivered(d)})' \in Nat
      BY <1>2
    <3> QED
      BY <1>3, <3>1, <3>2, <3>3
  <2>4. HeldIn(LiveDelivery) \in Nat /\ HeldIn(LiveDelivery)' \in Nat
    BY <1>2
  <2> QED
    BY <1>3, <2>1, <2>2, <2>3, <2>4
<1>9. ASSUME RequeueUnacked, \A D \in SUBSET LiveDelivery : HeldIn(D)' = 0
      PROVE  Goal
  <2>1. IsFiniteSet(Unsettled') /\ Cardinality(Unsettled') = 0
    BY <1>9, UnsettledCleared
  <2>2. \A m \in Message : unacked'[m] = 0
    BY <1>9 DEF RequeueUnacked
  <2> QED
    BY <1>3, <1>4, <1>9, <2>1, <2>2
<1>10. Goal
  BY <1>6, <1>7, <1>8, <1>9 DEF Balanced
<1> QED
  BY <1>10 DEF SessionBooks, DeliveriesAccountedFor, HeldIn

LEMMA LiveIsDelivered ==
  ASSUME NEW d \in Delivery, d.state = "live"
  PROVE  d = Delivered(d.msg) /\ d.msg \in Message
BY DEF Delivered, Delivery

LEMMA DeadNotCounted ==
  ASSUME NEW d \in Delivery, d.state # "live", NEW D \in SUBSET LiveDelivery
  PROVE  d \notin D
BY DEF LiveDelivery

LEMMA EmptyCount ==
  ASSUME NEW D PROVE CountIn(<< >>, D) = 0
<1>1. { i \in DOMAIN << >> : << >>[i] \in D } = {}
  OBVIOUS
<1> QED
  BY <1>1, FS_EmptySet DEF CountIn

(* An acknowledgement or return of the delivery the worker is at.           *)
LEMMA SettledBalances ==
  ASSUME SessionTypeOK, pos \in 1 .. Len(batch), Current.state = "live",
         unacked[Current.msg] > 0,
         unacked' = [unacked EXCEPT ![Current.msg] = @ - 1],
         UNCHANGED << hand, buffer >>,
         \/ batch' = [batch EXCEPT ![pos] = AsDone(@)]
         \/ /\ batch' = << >>
            /\ \A i \in 1 .. Len(batch) : i # pos => batch[i].state # "live"
  PROVE  Balanced
<1>1. /\ batch \in Seq(Delivery) /\ batch[pos] \in Delivery /\ Current = batch[pos]
      /\ \A i \in 1 .. Len(batch) : batch[i] \in Delivery
  BY ElementOfSeq DEF SessionTypeOK, Current
<1>2. Current = Delivered(Current.msg) /\ Current.msg \in Message
  BY <1>1, LiveIsDelivered
<1>3. ASSUME NEW D \in SUBSET LiveDelivery
      PROVE  HeldIn(D) = HeldIn(D)' + IF Delivered(Current.msg) \in D THEN 1 ELSE 0
  <2>1. CountIn(batch, D) = CountIn(batch', D) + IF batch[pos] \in D THEN 1 ELSE 0
    <3>1. CASE batch' = [batch EXCEPT ![pos] = AsDone(@)]
      BY <1>1, <3>1, CountDone
    <3>2. CASE /\ batch' = << >>
               /\ \A i \in 1 .. Len(batch) : i # pos => batch[i].state # "live"
      <4>1. \A i \in 1 .. Len(batch) : i # pos => batch[i] \notin D
        BY <1>1, <3>2, DeadNotCounted
      <4>2. CountIn(batch, D) = IF batch[pos] \in D THEN 1 ELSE 0
        BY <1>1, <4>1, CountOnly
      <4>3. CountIn(batch', D) = 0
        BY <3>2, EmptyCount
      <4> QED
        BY <4>2, <4>3
    <3> QED
      BY <3>1, <3>2
  <2>2. /\ HeldIn(D) = CountIn(hand, D) + CountIn(buffer, D) + CountIn(batch, D)
        /\ HeldIn(D)' = CountIn(hand, D) + CountIn(buffer, D) + CountIn(batch', D)
    BY DEF HeldIn, CountIn
  <2>3. /\ CountIn(hand, D) \in Nat /\ CountIn(buffer, D) \in Nat
        /\ CountIn(batch, D) \in Nat
    BY HeldType
  <2>4. CountIn(batch', D) \in Nat
    <3>1. CASE batch' = << >>
      BY <3>1, EmptyCount
    <3>2. CASE batch' = [batch EXCEPT ![pos] = AsDone(@)]
      <4>1. batch' \in Seq(Delivery)
        BY <1>1, <3>2, DoneKeepsMessages
      <4> QED
        BY <4>1, CountType
    <3> QED
      BY <3>1, <3>2
  <2>5. Delivered(Current.msg) = batch[pos]
    BY <1>1, <1>2
  <2> QED
    BY <2>1, <2>2, <2>3, <2>4, <2>5
<1> QED
  BY <1>2, <1>3 DEF Balanced

(* The counts after a step, for the cases below.                            *)
LEMMA HeldNext ==
  ASSUME SessionTypeOK, SessionTypeOK', NEW D
  PROVE  /\ HeldIn(D)  = CountIn(hand, D)  + CountIn(buffer, D)  + CountIn(batch, D)
         /\ HeldIn(D)' = CountIn(hand', D) + CountIn(buffer', D) + CountIn(batch', D)
         /\ CountIn(hand, D) \in Nat /\ CountIn(hand', D) \in Nat
         /\ CountIn(buffer, D) \in Nat /\ CountIn(buffer', D) \in Nat
         /\ CountIn(batch, D) \in Nat /\ CountIn(batch', D) \in Nat
<1>1. HeldIn(D)' = CountIn(hand', D) + CountIn(buffer', D) + CountIn(batch', D)
  BY DEF HeldIn, CountIn
<1>2. /\ CountIn(hand', D) \in Nat /\ CountIn(buffer', D) \in Nat
      /\ CountIn(batch', D) \in Nat
  BY CountType DEF SessionTypeOK
<1> QED
  BY <1>1, <1>2, HeldType DEF HeldIn

LEMMA NotLiveCount ==
  ASSUME NEW s \in Seq(Delivery), ~ Has(s, "live"), NEW D \in SUBSET LiveDelivery
  PROVE  CountIn(s, D) = 0
<1>1. \A i \in 1 .. Len(s) : s[i] \in Delivery /\ s[i].state # "live"
  BY ElementOfSeq DEF Has
<1>2. \A i \in 1 .. Len(s) : s[i] \notin D
  BY <1>1, DeadNotCounted
<1> QED
  BY <1>2, CountNone

LEMMA AbortBalances ==
  ASSUME SessionTypeOK, SessionTypeOK', AbortSession, UNCHANGED unacked
  PROVE  Balanced
<1>1. ASSUME NEW D
      PROVE  /\ CountIn(hand', D) = CountIn(hand, D)
             /\ CountIn(buffer', D) + CountIn(batch', D)
                  = CountIn(buffer, D) + CountIn(batch, D)
  <2>1. CASE CancelWorker
    BY <2>1 DEF CancelWorker, AbortSession
  <2>2. CASE CancelSwallowed
    BY <2>2, CollectedKeeps DEF CancelSwallowed, AbortSession
  <2> QED
    BY <2>1, <2>2 DEF AbortSession
<1>2. ASSUME NEW D PROVE HeldIn(D)' = HeldIn(D)
  BY <1>1, HeldNext
<1> QED
  BY <1>2 DEF Balanced

LEMMA EndProcessBalances ==
  ASSUME SessionTypeOK, SessionTypeOK', RequeueUnacked, EndProcessState
  PROVE  Balanced
<1>1. hand' = << >> /\ buffer' = << >> /\ batch' = << >>
  BY DEF EndProcessState
<1>2. ASSUME NEW D PROVE HeldIn(D)' = 0
  BY <1>1, HeldNext, EmptyCount
<1> QED
  BY <1>2 DEF Balanced

LEMMA ConsumerTaskBalances ==
  ASSUME SessionTypeOK, SessionTypeOK', SessionShape, ConsumerShape, ConsumerTask
  PROVE  Balanced
<1> USE DEF consumerVars, workerVars, brokerVars
<1>1. ASSUME NEW m \in Message, Receive(m) PROVE Balanced
  <2>1. /\ Deliver(m) /\ Cardinality(Unsettled) < PrefetchCount
        /\ hand = << >> /\ hand' = << Delivered(m) >>
        /\ UNCHANGED << buffer, batch >>
    BY <1>1 DEF Receive, ConsumerShape
  <2>2. hand' \in Seq(Delivery) /\ Len(hand') = 1 /\ hand'[1] = Delivered(m)
    BY <2>1, DeliveredType
  <2>3. ASSUME NEW D PROVE CountIn(hand', D) = IF Delivered(m) \in D THEN 1 ELSE 0
    BY <2>2, CountPut
  <2>4. ASSUME NEW D PROVE HeldIn(D)' = HeldIn(D) + IF Delivered(m) \in D THEN 1 ELSE 0
    <3>1. CountIn(hand, D) = 0
      BY <2>1, EmptyCount
    <3>2. CountIn(buffer', D) = CountIn(buffer, D) /\ CountIn(batch', D) = CountIn(batch, D)
      BY <2>1
    <3> QED
      BY <2>3, <3>1, <3>2, HeldNext
  <2> QED
    BY <2>1, <2>4 DEF Balanced
<1>2. CASE Put
  <2>1. /\ buffer' = buffer \o hand /\ hand' = << >> /\ Len(hand) = 1
        /\ UNCHANGED << unacked, batch >>
        /\ hand \in Seq(Delivery) /\ buffer \in Seq(Delivery)
    BY <1>2 DEF Put, SessionShape, SessionTypeOK
  <2>2. ASSUME NEW D PROVE HeldIn(D)' = HeldIn(D)
    <3>1. CountIn(buffer', D) = CountIn(buffer, D) + CountIn(hand, D)
      BY <2>1, CountPut
    <3>2. CountIn(hand', D) = 0 /\ CountIn(batch', D) = CountIn(batch, D)
      BY <2>1, EmptyCount
    <3> QED
      BY <3>1, <3>2, HeldNext
  <2> QED
    BY <2>1, <2>2 DEF Balanced
<1>3. CASE PublishMalformed
  <2>1. UNCHANGED << unacked, hand, buffer, batch >>
    BY <1>3 DEF PublishMalformed
  <2> QED
    BY <2>1 DEF Balanced, HeldIn
<1>4. CASE AckMalformed
  <2>1. /\ hand \in Seq(Delivery) /\ Len(hand) = 1 /\ hand' = << >>
        /\ hand[1].state = "live" /\ Ack(hand[1].msg) /\ UNCHANGED << buffer, batch >>
    BY <1>4 DEF AckMalformed, SessionShape, SessionTypeOK
  <2>2. hand[1] \in Delivery
    BY <2>1, PutAppends
  <2>3. hand[1] = Delivered(hand[1].msg) /\ hand[1].msg \in Message
    BY <2>1, <2>2, LiveIsDelivered
  <2>4. ASSUME NEW D
        PROVE  HeldIn(D) = HeldIn(D)' + IF Delivered(hand[1].msg) \in D THEN 1 ELSE 0
    <3>1. CountIn(hand, D) = IF hand[1] \in D THEN 1 ELSE 0
      BY <2>1, CountPut
    <3>2. /\ CountIn(hand', D) = 0 /\ CountIn(batch', D) = CountIn(batch, D)
          /\ CountIn(buffer', D) = CountIn(buffer, D)
      BY <2>1, EmptyCount
    <3> QED
      BY <2>3, <3>1, <3>2, HeldNext
  <2> QED
    BY <2>1, <2>3, <2>4 DEF Balanced, Ack
<1>5. CASE AckMalformedRaises
  BY <1>5, AbortBalances DEF AckMalformedRaises
<1> QED
  BY <1>1, <1>2, <1>3, <1>4, <1>5 DEF ConsumerTask

LEMMA BatchDropBalances ==
  ASSUME SessionTypeOK, SessionTypeOK', ~ Has(batch, "live"), batch' = << >>,
         UNCHANGED << unacked, hand, buffer >>
  PROVE  Balanced
<1>1. ASSUME NEW D \in SUBSET LiveDelivery PROVE HeldIn(D)' = HeldIn(D)
  <2>1. CountIn(batch, D) = 0
    BY NotLiveCount DEF SessionTypeOK
  <2>2. CountIn(batch', D) = 0
    BY EmptyCount
  <2>3. CountIn(hand', D) = CountIn(hand, D) /\ CountIn(buffer', D) = CountIn(buffer, D)
    OBVIOUS
  <2> QED
    BY <2>1, <2>2, <2>3, HeldNext
<1> QED
  BY <1>1 DEF Balanced

LEMMA WorkerTaskBalances ==
  ASSUME SessionTypeOK, SessionTypeOK', SessionShape, WorkerShape, WorkerTask
  PROVE  Balanced
<1> USE DEF consumerVars, workerVars, brokerVars
<1>1. CASE Collect
  <2>1. /\ \A D : CountIn(buffer', D) + CountIn(batch', D)
                    = CountIn(buffer, D) + CountIn(batch, D)
        /\ UNCHANGED << unacked, hand >>
    BY <1>1, CollectedKeeps DEF Collect
  <2>2. ASSUME NEW D PROVE HeldIn(D)' = HeldIn(D)
    BY <2>1, HeldNext
  <2> QED
    BY <2>1, <2>2 DEF Balanced
<1>2. CASE BatchTimeout
  <2>1. UNCHANGED << unacked, hand, buffer, batch >>
    BY <1>2 DEF BatchTimeout
  <2> QED
    BY <2>1 DEF Balanced, HeldIn
<1>3. CASE RequeueNext
  <2>1. /\ pos \in 1 .. Len(batch) /\ UNCHANGED << hand, buffer >>
        /\ \/ /\ Current.state = "live" /\ Requeue(Current.msg)
              /\ batch' = [batch EXCEPT ![pos] = AsDone(@)]
           \/ UNCHANGED << unacked, batch >>
    BY <1>3 DEF RequeueNext, SessionTypeOK
  <2>2. CASE UNCHANGED << unacked, batch >>
    BY <2>1, <2>2 DEF Balanced, HeldIn
  <2>3. CASE /\ Current.state = "live" /\ Requeue(Current.msg)
             /\ batch' = [batch EXCEPT ![pos] = AsDone(@)]
    BY <2>1, <2>3, SettledBalances DEF Requeue
  <2> QED
    BY <2>1, <2>2, <2>3
<1>4. CASE RequeueDone
  <2>1. ~ Has(batch, "live")
    BY <1>4 DEF RequeueDone, AllReturned, SessionTypeOK, Has
  <2> QED
    BY <1>4, <2>1, BatchDropBalances DEF RequeueDone
<1>5. CASE RequeueFails \/ CancelDone
  <2>1. /\ working \in {"requeue", "cancelled"} /\ pos = Len(batch) + 1
        /\ batch' = << >> /\ UNCHANGED << unacked, hand, buffer >>
    BY <1>5 DEF RequeueFails, CancelDone, WorkerStops
  <2>2. \A i \in 1 .. Len(batch) : i < pos => batch[i].state # "live"
    BY <2>1 DEF WorkerShape
  <2>3. Len(batch) \in Nat
    BY DEF SessionTypeOK
  <2>4. ~ Has(batch, "live")
    BY <2>1, <2>2, <2>3 DEF Has
  <2> QED
    BY <2>1, <2>4, BatchDropBalances
<1> QED
  BY <1>1, <1>2, <1>3, <1>4, <1>5 DEF WorkerTask

LEMMA SupervisorBalances ==
  ASSUME SessionTypeOK, SessionTypeOK', SessionShape, Supervisor \/ Failures
  PROVE  Balanced
<1> USE DEF consumerVars, workerVars, brokerVars
<1>1. CASE StartDraining \/ Connect
  <2>1. UNCHANGED << unacked, hand, buffer, batch >>
    BY <1>1 DEF StartDraining, Connect
  <2> QED
    BY <2>1 DEF Balanced, HeldIn
<1>2. CASE DrainBuffer
  <2>1. /\ buffer \in Seq(Delivery) /\ buffer # << >> /\ buffer' = Tail(buffer)
        /\ Head(buffer) \in Delivery /\ UNCHANGED << hand, batch >>
    BY <1>2, TailType DEF DrainBuffer, SessionTypeOK
  <2>2. ASSUME NEW D
        PROVE  HeldIn(D) = HeldIn(D)' + IF Head(buffer) \in D THEN 1 ELSE 0
    <3>1. CountIn(buffer, D) = CountIn(buffer', D) + IF Head(buffer) \in D THEN 1 ELSE 0
      BY <2>1, CountTail
    <3>2. CountIn(hand', D) = CountIn(hand, D) /\ CountIn(batch', D) = CountIn(batch, D)
      BY <2>1
    <3> QED
      BY <3>1, <3>2, HeldNext
  <2>3. CASE Head(buffer).state = "live"
    <3>1. Requeue(Head(buffer).msg)
      BY <1>2, <2>3 DEF DrainBuffer
    <3>2. Head(buffer) = Delivered(Head(buffer).msg) /\ Head(buffer).msg \in Message
      BY <2>1, <2>3, LiveIsDelivered
    <3> QED
      BY <2>2, <3>1, <3>2 DEF Balanced, Requeue
  <2>4. CASE Head(buffer).state # "live"
    <3>1. UNCHANGED unacked
      BY <1>2, <2>4 DEF DrainBuffer
    <3>2. ASSUME NEW D \in SUBSET LiveDelivery PROVE HeldIn(D)' = HeldIn(D)
      <4>1. Head(buffer) \notin D
        BY <2>1, <2>4, DeadNotCounted
      <4> QED
        BY <2>2, <4>1, HeldNext
    <3> QED
      BY <3>1, <3>2 DEF Balanced
  <2> QED
    BY <2>3, <2>4
<1>3. CASE Disconnect \/ Crash
  BY <1>3, EndProcessBalances DEF Disconnect, Crash
<1>4. CASE Shutdown \/ PublishMalformedFails
  BY <1>4, AbortBalances DEF Shutdown, PublishMalformedFails
<1>5. CASE ChannelReset
  <2>1. /\ hand' = Invalidated(hand) /\ buffer' = Invalidated(buffer)
        /\ batch' = Invalidated(batch) /\ RequeueUnacked
    BY <1>5 DEF ChannelReset
  <2>2. ASSUME NEW D \in SUBSET LiveDelivery PROVE HeldIn(D)' = 0
    <3>1. /\ CountIn(hand', D) = 0 /\ CountIn(buffer', D) = 0 /\ CountIn(batch', D) = 0
      BY <2>1, CountInvalidated DEF SessionTypeOK
    <3> QED
      BY <3>1, HeldNext
  <2> QED
    BY <2>1, <2>2 DEF Balanced
<1> QED
  BY <1>1, <1>2, <1>3, <1>4, <1>5 DEF Supervisor, Failures

(* Every step of a session keeps its books.                                 *)
LEMMA SessionKeepsBooks ==
  ASSUME SessionTypeOK, SessionShape, ConsumerShape, WorkerShape, SessionBooks,
         SessionNext
  PROVE  SessionBooks'
<1>1. SessionTypeOK'
  BY SessionTypes
<1>2. ASSUME NEW m \in Inbound, Publish(m) PROVE Balanced
  <2>1. UNCHANGED << unacked, hand, buffer, batch >>
    BY <1>2 DEF Publish, consumerVars, workerVars
  <2> QED
    BY <2>1 DEF Balanced, HeldIn
<1>3. Balanced
  BY <1>1, <1>2, ConsumerTaskBalances, WorkerTaskBalances, SupervisorBalances
     DEF SessionNext
<1> QED
  BY <1>1, <1>3, BalancedBooks

LEMMA SessionBooksInit == SessionInit => SessionBooks /\ ConsumerShape /\ WorkerShape
<1> SUFFICES ASSUME SessionInit PROVE SessionBooks /\ ConsumerShape /\ WorkerShape
  OBVIOUS
<1>1. /\ hand = << >> /\ buffer = << >> /\ batch = << >> /\ session = "down"
      /\ working = "stopped" /\ receiving = "stopped"
      /\ \A m \in Message : unacked[m] = 0
  BY DEF SessionInit, BrokerInit
<1>2. \A D : HeldIn(D) = 0
  <2>1. \A D : CountIn(hand, D) = 0 /\ CountIn(buffer, D) = 0 /\ CountIn(batch, D) = 0
    BY <1>1, EmptyCount
  <2> QED
    BY <2>1 DEF HeldIn
<1>3. Unsettled = {}
  BY <1>1 DEF Unsettled
<1>4. IsFiniteSet(Unsettled) /\ Cardinality(Unsettled) = 0
  BY <1>3, FS_EmptySet
<1>5. DeliveriesAccountedFor
  BY <1>1, <1>2, BooksByMessage
<1>6. PrefetchCount \in Nat
  BY BatchSizeAssumption DEF PrefetchCount
<1>7. ConsumerShape /\ WorkerShape
  BY <1>1, HasEmpty DEF ConsumerShape, WorkerShape, SessionSteps
<1> QED
  BY <1>2, <1>4, <1>5, <1>6, <1>7 DEF SessionBooks

(* What the worker settles of its batch, and the books of a stage's step.   *)
LEMMA NextInBatchBooks ==
  ASSUME SessionTypeOK, SessionTypeOK', WorkerShape, SessionBooks,
         working \notin SessionSteps, NEW step, step \notin SessionSteps,
         SettleCurrent(step), UNCHANGED << hand, buffer >>
  PROVE  SessionBooks' /\ WorkerShape'
<1>1. /\ Current.state = "live" /\ Ack(Current.msg) /\ NextInBatch(step)
      /\ pos \in 1 .. Len(batch) /\ Len(batch) \in Nat
      /\ batch \in Seq(Delivery)
      /\ \A i \in 1 .. Len(batch) : /\ i < pos    => batch[i].state # "live"
                                    /\ ~(i < pos) => batch[i].state # "done"
  BY DEF SettleCurrent, WorkerShape, SessionTypeOK
<1>2. CASE pos = Len(batch)
  <2>1. batch' = << >> /\ working' = "collect"
    BY <1>1, <1>2 DEF NextInBatch
  <2>2. \A i \in 1 .. Len(batch) : i # pos => batch[i].state # "live"
    BY <1>1, <1>2
  <2>3. Balanced
    BY <1>1, <2>1, <2>2, SettledBalances DEF Ack
  <2>4. WorkerShape'
    BY <2>1, HasEmpty DEF WorkerShape, SessionSteps
  <2> QED
    BY <2>3, <2>4, BalancedBooks
<1>3. CASE pos # Len(batch)
  <2>1. /\ batch' = [batch EXCEPT ![pos] = AsDone(@)] /\ pos' = pos + 1
        /\ working' = step
    BY <1>1, <1>3 DEF NextInBatch
  <2>2. Balanced
    BY <1>1, <2>1, SettledBalances DEF Ack
  <2>3. WorkerShape'
    <3>1. /\ Len(batch') = Len(batch)
          /\ \A i \in 1 .. Len(batch) : i # pos => batch'[i] = batch[i]
          /\ batch'[pos] = AsDone(batch[pos])
      BY <1>1, <2>1
    <3>2. AsDone(batch[pos]).state # "live"
      <4>1. batch[pos] \in Delivery
        BY <1>1, ElementOfSeq
      <4> QED
        BY <4>1 DEF AsDone, Delivery
    <3>3. pos' \in 1 .. Len(batch')
      <4>1. \A p, n \in Nat : p \in 1 .. n /\ p # n => p + 1 \in 1 .. n
        OBVIOUS
      <4>2. pos \in Nat
        BY <1>1
      <4> QED
        BY <1>1, <1>3, <2>1, <3>1, <4>1, <4>2
    <3> QED
      BY <1>1, <2>1, <3>1, <3>2, <3>3 DEF WorkerShape, SessionSteps
  <2> QED
    BY <2>2, <2>3, BalancedBooks
<1> QED
  BY <1>2, <1>3

-----------------------------------------------------------------------------
(* Duplicates are paid for by failures.  A stage makes the effect of a      *)
(* message of M durable before its acknowledgement, in a state of A; until  *)
(* then one copy too many is owed.  A stale delivery foresees one failure   *)
(* that was counted already: its acknowledgement will raise, and what it    *)
(* stands for is done again.                                                *)
StaleHeld == Has(hand, "stale") \/ Has(buffer, "stale") \/ Has(batch, "stale")

AtAck(M, A, state) == working \in A /\ Current.state = state /\ Current.msg \in M

Owed(M, A) == IF AtAck(M, A, "live") THEN 1 ELSE 0

Foreseen(M, A) ==
  IF /\ StaleHeld /\ working \notin {"cancelled", "stopped"}
     /\ ~ AtAck(M, A, "stale")
     /\ ~ (working = "requeue" /\ Has(batch, "stale"))
    THEN 1 ELSE 0

(* Only a channel that is lost makes deliveries stale.                      *)
LEMMA StaleByReset ==
  ASSUME SessionTypeOK, SessionShape, SessionNext, ~ ChannelReset, StaleHeld'
  PROVE  StaleHeld
<1> USE DEF consumerVars, workerVars, brokerVars
<1>1. ASSUME UNCHANGED << hand, buffer, batch >> PROVE StaleHeld
  BY <1>1 DEF StaleHeld
<1>2. ASSUME hand' = << >> \/ UNCHANGED hand, buffer' = << >> \/ UNCHANGED buffer,
             batch' = << >> \/ UNCHANGED batch
      PROVE  StaleHeld
  BY <1>2, HasEmpty DEF StaleHeld
<1>3. ASSUME buffer # << >>, batch' = Append(batch, Head(buffer)),
             buffer' = Tail(buffer), UNCHANGED hand
      PROVE  StaleHeld
  BY <1>3, CollectedKeeps DEF StaleHeld
<1>4. CASE AbortSession
  BY <1>2, <1>3, <1>4 DEF AbortSession, CancelWorker, CancelSwallowed
<1>5. ASSUME NEW m \in Message, Receive(m) PROVE StaleHeld
  <2>1. hand' \in Seq(Delivery) /\ Len(hand') = 1 /\ hand'[1].state = "live"
    BY <1>5, DeliveredType DEF Receive, Delivered
  <2>2. ~ Has(hand', "stale")
    BY <2>1 DEF Has
  <2> QED
    BY <1>5, <2>2 DEF Receive, StaleHeld
<1>6. CASE Put
  <2>1. /\ hand \in Seq(Delivery) /\ buffer \in Seq(Delivery) /\ Len(hand) = 1
        /\ buffer' = buffer \o hand /\ hand' = << >> /\ batch' = batch
    BY <1>6 DEF Put, SessionShape, SessionTypeOK
  <2>2. Has(buffer', "stale") => Has(buffer, "stale") \/ Has(hand, "stale")
    BY <2>1, HasPut
  <2> QED
    BY <2>1, <2>2, HasEmpty DEF StaleHeld
<1>7. CASE RequeueNext
  <2>1. /\ pos \in 1 .. Len(batch) /\ batch \in Seq(Delivery)
        /\ UNCHANGED << hand, buffer >>
        /\ batch' = batch \/ batch' = [batch EXCEPT ![pos] = AsDone(@)]
    BY <1>7 DEF RequeueNext, SessionTypeOK
  <2>2. Has(batch', "stale") => Has(batch, "stale")
    BY <2>1, HasDone
  <2> QED
    BY <2>1, <2>2 DEF StaleHeld
<1>8. CASE DrainBuffer
  <2>1. /\ buffer \in Seq(Delivery) /\ buffer # << >> /\ buffer' = Tail(buffer)
        /\ UNCHANGED << hand, batch >>
    BY <1>8 DEF DrainBuffer, SessionTypeOK
  <2>2. Has(buffer', "stale") => Has(buffer, "stale")
    BY <2>1, HasTail
  <2> QED
    BY <2>1, <2>2 DEF StaleHeld
<1>9. CASE EndProcessState
  BY <1>2, <1>9 DEF EndProcessState
<1>10. CASE Collect
  BY <1>3, <1>10 DEF Collect
<1>11. \/ AbortSession \/ (\E m \in Message : Receive(m)) \/ Put \/ RequeueNext
       \/ DrainBuffer \/ EndProcessState \/ Collect
       \/ /\ hand' = << >> \/ UNCHANGED hand
          /\ UNCHANGED buffer
          /\ batch' = << >> \/ UNCHANGED batch
  BY DEF SessionNext, ConsumerTask, WorkerTask, Supervisor, Failures, Publish,
         PublishMalformed, AckMalformed, AckMalformedRaises, BatchTimeout,
         RequeueDone, RequeueFails, CancelDone, WorkerStops, StartDraining,
         Disconnect, Connect, Shutdown, Crash, PublishMalformedFails
<1> QED
  BY <1>2, <1>4, <1>5, <1>6, <1>7, <1>8, <1>9, <1>10, <1>11

(* The failures of a session pay for the copies it may leave: what is owed  *)
(* and not foreseen never shrinks by more than faults grows.                *)
LEMMA SessionPays ==
  ASSUME SessionTypeOK, SessionShape, ConsumerShape, WorkerShape, SessionNext,
         NEW M, NEW A, A \cap SessionSteps = {}
  PROVE  faults + Owed(M, A) + Foreseen(M, A)' <= faults' + Owed(M, A)' + Foreseen(M, A)
<1> USE DEF consumerVars, workerVars, brokerVars
<1> DEFINE Goal == faults + Owed(M, A) + Foreseen(M, A)'
                     <= faults' + Owed(M, A)' + Foreseen(M, A)
<1>1. faults \in Nat /\ (~ ChannelReset /\ StaleHeld' => StaleHeld)
  BY StaleByReset, BoundsAssumption DEF SessionTypeOK
<1>2. working \in SessionSteps => working \notin A
  OBVIOUS
<1>3. CASE ChannelReset
  <2>1. faults' = faults + 1 /\ working' = working /\ pos' = pos
        /\ batch' = Invalidated(batch) /\ batch \in Seq(Delivery)
    BY <1>3 DEF ChannelReset, Fault, SessionTypeOK
  <2>2. AtAck(M, A, "live") => AtAck(M, A, "stale")'
    <3> SUFFICES ASSUME AtAck(M, A, "live") PROVE AtAck(M, A, "stale")'
      OBVIOUS
    <3>1. pos \in 1 .. Len(batch)
      BY <1>2 DEF AtAck, WorkerShape
    <3>2. batch'[pos] = AsStale(batch[pos]) /\ batch[pos] \in Delivery
      BY <2>1, <3>1, ElementOfSeq DEF Invalidated
    <3>3. batch'[pos].state = "stale" /\ batch'[pos].msg = batch[pos].msg
      BY <3>2 DEF AtAck, Current, AsStale, Delivery
    <3> QED
      BY <2>1, <3>3 DEF AtAck, Current
  <2> QED
    BY <1>1, <2>1, <2>2 DEF Owed, Foreseen
<1>4. SUFFICES ASSUME ~ ChannelReset PROVE Goal
  BY <1>3
<1>5. ASSUME UNCHANGED << working, batch, pos, faults >> PROVE Goal
  BY <1>1, <1>4, <1>5 DEF Owed, Foreseen, AtAck, Current
<1>6. ASSUME working' \in {"cancelled", "stopped"},
             faults' = faults + 1 \/ (working \notin A /\ faults' = faults)
      PROVE  Goal
  <2>1. Foreseen(M, A)' = 0
    BY <1>6 DEF Foreseen
  <2>2. Owed(M, A) \in {0, 1} /\ Owed(M, A)' \in {0, 1} /\ Foreseen(M, A) \in {0, 1}
    BY DEF Owed, Foreseen
  <2>3. working \notin A => Owed(M, A) = 0
    BY DEF Owed, AtAck
  <2> QED
    BY <1>1, <1>6, <2>1, <2>2, <2>3
<1>7. ASSUME working \in {"collect", "flush"}, working' \in {"collect", "flush"},
             faults' \in {faults, faults + 1}
      PROVE  Goal
  <2>1. working \notin A /\ working' \notin A
    BY <1>7 DEF SessionSteps
  <2>2. Owed(M, A) = 0 /\ Owed(M, A)' = 0
    BY <2>1 DEF Owed, AtAck
  <2>3. Foreseen(M, A) \in {0, 1} /\ Foreseen(M, A)' \in {0, 1}
    BY DEF Foreseen
  <2>4. Foreseen(M, A)' = 1 => Foreseen(M, A) = 1
    BY <1>1, <1>4, <1>7, <2>1 DEF Foreseen, AtAck
  <2> QED
    BY <1>1, <1>7, <2>2, <2>3, <2>4
<1>8. ASSUME AbortSession,
             faults' = faults + 1 \/ (faults' = faults /\ Has(hand, "stale"))
      PROVE  Goal
  <2>1. CASE CancelSwallowed
    BY <1>7, <1>8, <2>1 DEF CancelSwallowed
  <2>2. CASE CancelWorker
    <3>1. working' \in {"cancelled", "stopped"}
      BY <2>2 DEF CancelWorker
    <3>2. CASE faults' = faults + 1
      BY <1>6, <3>1, <3>2
    <3>3. CASE faults' = faults /\ Has(hand, "stale")
      <4>1. ~ Has(batch, "live")
        BY <3>3 DEF ConsumerShape
      <4>2. ~ AtAck(M, A, "live")
        BY <1>2, <4>1 DEF AtAck, Current, Has, WorkerShape
      <4> QED
        BY <1>1, <1>4, <3>1, <3>3, <4>2 DEF Owed, Foreseen
    <3> QED
      BY <1>8, <3>2, <3>3
  <2> QED
    BY <1>8, <2>1, <2>2 DEF AbortSession
<1>9. CASE RequeueNext
  <2>1. /\ working \in {"requeue", "cancelled"} /\ working' = working
        /\ working \notin A /\ faults' = faults
        /\ pos \in 1 .. Len(batch) /\ batch \in Seq(Delivery)
        /\ \/ batch' = batch
           \/ batch[pos].state = "live" /\ batch' = [batch EXCEPT ![pos] = AsDone(@)]
    BY <1>9, <1>2 DEF RequeueNext, SessionTypeOK, Current, SessionSteps
  <2>2. Has(batch, "stale") => Has(batch', "stale")
    BY <2>1, HasDone
  <2> QED
    BY <1>1, <1>4, <2>1, <2>2 DEF Owed, Foreseen, AtAck
<1>10. CASE RequeueDone
  <2>1. /\ working = "requeue" /\ working \notin A /\ working' = "collect"
        /\ working' \notin A /\ faults' = faults
    BY <1>10, <1>2 DEF RequeueDone, SessionSteps
  <2>2. ~ Has(batch, "stale")
    BY <1>10 DEF RequeueDone, AllReturned, SessionTypeOK, Has
  <2> QED
    BY <1>1, <1>4, <2>1, <2>2 DEF Owed, Foreseen, AtAck
<1>11. CASE Connect
  <2>1. /\ working = "stopped" /\ working' = "collect" /\ working \notin A
        /\ working' \notin A /\ faults' = faults
        /\ hand' = << >> /\ buffer' = << >> /\ batch' = << >>
    BY <1>11, <1>2 DEF Connect, SessionShape, ConsumerShape, SessionSteps
  <2>2. ~ StaleHeld'
    BY <2>1, HasEmpty DEF StaleHeld
  <2> QED
    BY <1>1, <1>4, <2>1, <2>2 DEF Owed, Foreseen, AtAck
<1>12. \/ UNCHANGED << working, batch, pos, faults >>
       \/ /\ working' \in {"cancelled", "stopped"}
          /\ faults' = faults + 1 \/ (working \notin A /\ faults' = faults)
       \/ /\ working \in {"collect", "flush"} /\ working' \in {"collect", "flush"}
          /\ faults' \in {faults, faults + 1}
       \/ /\ AbortSession
          /\ faults' = faults + 1 \/ (faults' = faults /\ Has(hand, "stale"))
       \/ RequeueNext \/ RequeueDone \/ Connect
  <2> USE <1>2 DEF SessionSteps
  <2>1. ASSUME NEW m \in Inbound, Publish(m) PROVE UNCHANGED << working, batch, pos, faults >>
    BY <2>1 DEF Publish
  <2>2. ASSUME NEW m \in Message, Receive(m) PROVE UNCHANGED << working, batch, pos, faults >>
    BY <2>2 DEF Receive
  <2>3. CASE AckMalformedRaises
    <3>1. hand \in Seq(Delivery) /\ Len(hand) = 1 /\ hand[1].state = "stale"
      BY <2>3 DEF AckMalformedRaises, SessionShape, SessionTypeOK
    <3>2. Has(hand, "stale")
      BY <3>1 DEF Has
    <3> QED
      BY <2>3, <3>2 DEF AckMalformedRaises
  <2>4. CASE Disconnect
    BY <2>4 DEF Disconnect, ConsumerShape, EndProcessState
  <2>5. CASE Crash
    BY <2>5 DEF Crash, Fault, EndProcessState
  <2>6. CASE Shutdown \/ PublishMalformedFails
    BY <2>6 DEF Shutdown, PublishMalformedFails, Fault
  <2>7. CASE RequeueFails \/ CancelDone
    BY <2>7 DEF RequeueFails, CancelDone, WorkerStops
  <2>8. CASE Collect \/ BatchTimeout
    BY <2>8 DEF Collect, BatchTimeout
  <2>9. CASE Put \/ PublishMalformed \/ AckMalformed \/ StartDraining \/ DrainBuffer
    BY <2>9 DEF Put, PublishMalformed, AckMalformed, StartDraining, DrainBuffer
  <2> QED
    BY <2>1, <2>2, <2>3, <2>4, <2>5, <2>6, <2>7, <2>8, <2>9, <1>4
       DEF SessionNext, ConsumerTask, WorkerTask, Supervisor, Failures
<1> QED
  BY <1>5, <1>6, <1>7, <1>8, <1>9, <1>10, <1>11, <1>12

(* No step of a session makes more copies of a message than were published. *)
LEMMA SessionQueues ==
  ASSUME SessionTypeOK, SessionShape, SessionNext, NEW m \in Message
  PROVE  /\ ready[m] \in Nat /\ unacked[m] \in Nat /\ accepted[m] \in Nat
         /\ ready'[m] \in Nat /\ unacked'[m] \in Nat /\ accepted'[m] \in Nat
         /\ accepted[m] + ready'[m] + unacked'[m] <= accepted'[m] + ready[m] + unacked[m]
<1>1. /\ ready \in Counts /\ unacked \in Counts /\ accepted \in Counts
      /\ ready' \in Counts /\ unacked' \in Counts /\ accepted' \in Counts
  BY SessionTypes DEF SessionTypeOK
<1>2. /\ ready[m] \in Nat /\ unacked[m] \in Nat /\ accepted[m] \in Nat
      /\ ready'[m] \in Nat /\ unacked'[m] \in Nat /\ accepted'[m] \in Nat
  BY <1>1 DEF Counts
<1> DEFINE Goal == accepted[m] + ready'[m] + unacked'[m] <= accepted'[m] + ready[m] + unacked[m]
<1>3. ASSUME NEW d \in Inbound, Publish(d) PROVE Goal
  BY <1>1, <1>2, <1>3, InboundAssumption DEF Publish, Enqueue, Counts
<1>4. CASE UNCHANGED << brokerVars, accepted >>
  BY <1>2, <1>4 DEF brokerVars
<1>5. ASSUME UNCHANGED << deadLetters, accepted >>,
             RequeueUnacked \/ \E d \in Message : Deliver(d) \/ Requeue(d)
      PROVE  Goal
  <2>1. ASSUME RequeueUnacked PROVE Goal
    <3>1. ready'[m] = ready[m] + unacked[m] /\ unacked'[m] = 0
      BY <2>1 DEF RequeueUnacked
    <3> QED
      BY <1>2, <1>5, <3>1
  <2>2. ASSUME NEW d \in Message, Deliver(d) \/ Requeue(d) PROVE Goal
    BY <1>1, <1>2, <1>5, <2>2 DEF Deliver, Requeue, Counts
  <2> QED
    BY <1>5, <2>1, <2>2
<1>6. CASE UNCHANGED << ready, unacked, accepted >>
  BY <1>2, <1>6
<1>7. CASE Ack(hand[1].msg) /\ UNCHANGED << ready, accepted >>
  BY <1>1, <1>2, <1>7 DEF Ack, Counts
<1>8. Goal
  BY <1>3, <1>4, <1>5, <1>6, <1>7, SessionBroker
<1> QED
  BY <1>2, <1>8

(* The same account for the messages the consumer task rejects.             *)
HandAtAck(m, state) == receiving = "ack" /\ hand[1].state = state /\ hand[1].msg = m

HandOwed(m) == IF HandAtAck(m, "live") THEN 1 ELSE 0

HandForeseen(m) ==
  IF session = "up" /\ StaleHeld /\ ~ HandAtAck(m, "stale") THEN 1 ELSE 0

LEMMA SessionPaysMalformed ==
  ASSUME SessionTypeOK, SessionShape, ConsumerShape, WorkerShape, SessionNext,
         NEW m \in Message
  PROVE  deadLetters'[m] + faults + HandOwed(m) + HandForeseen(m)'
           <= deadLetters[m] + faults' + HandOwed(m)' + HandForeseen(m)
              + IF receiving = "ack" /\ receiving' = "idle" /\ hand[1].msg = m
                  THEN 1 ELSE 0
<1> USE DEF consumerVars, workerVars, brokerVars
<1> DEFINE Slack == faults + HandOwed(m) + HandForeseen(m)'
                      <= faults' + HandOwed(m)' + HandForeseen(m)
           Goal  == deadLetters'[m] + faults + HandOwed(m) + HandForeseen(m)'
                      <= deadLetters[m] + faults' + HandOwed(m)' + HandForeseen(m)
                         + IF receiving = "ack" /\ receiving' = "idle" /\ hand[1].msg = m
                             THEN 1 ELSE 0
<1>1. /\ faults \in Nat /\ deadLetters \in Counts /\ deadLetters[m] \in Nat
      /\ faults' \in Nat
      /\ HandOwed(m) \in {0, 1} /\ HandOwed(m)' \in {0, 1}
      /\ HandForeseen(m) \in {0, 1} /\ HandForeseen(m)' \in {0, 1}
  BY SessionTypes, BoundsAssumption DEF SessionTypeOK, Counts, HandOwed, HandForeseen
<1>2. StaleHeld' => StaleHeld \/ ChannelReset
  BY StaleByReset
<1>3. ASSUME deadLetters'[m] = deadLetters[m], Slack PROVE Goal
  <2> HIDE DEF Slack
  <2> DEFINE k == IF receiving = "ack" /\ receiving' = "idle" /\ hand[1].msg = m
                    THEN 1 ELSE 0
  <2>1. k \in {0, 1}
    OBVIOUS
  <2> HIDE DEF k
  <2>2. deadLetters'[m] + faults + HandOwed(m) + HandForeseen(m)'
          <= deadLetters[m] + faults' + HandOwed(m)' + HandForeseen(m) + k
    BY <1>1, <1>3, <2>1 DEF Slack
  <2> QED
    BY <2>2 DEF k
<1>4. CASE ChannelReset
  <2>1. /\ faults' = faults + 1 /\ receiving' = receiving /\ deadLetters' = deadLetters
        /\ hand' = Invalidated(hand) /\ hand \in Seq(Delivery)
    BY <1>4 DEF ChannelReset, Fault, SessionTypeOK
  <2>2. HandAtAck(m, "live") => HandAtAck(m, "stale")'
    <3> SUFFICES ASSUME HandAtAck(m, "live") PROVE HandAtAck(m, "stale")'
      OBVIOUS
    <3>1. Len(hand) = 1
      BY DEF HandAtAck, SessionShape
    <3>2. hand'[1] = AsStale(hand[1]) /\ hand[1] \in Delivery
      BY <2>1, <3>1, PutAppends DEF Invalidated
    <3>3. hand'[1].state = "stale" /\ hand'[1].msg = hand[1].msg
      BY <3>2 DEF HandAtAck, AsStale, Delivery
    <3> QED
      BY <2>1, <3>3 DEF HandAtAck
  <2>3. HandOwed(m) = 1 => HandForeseen(m)' = 0
    BY <2>2 DEF HandOwed, HandForeseen
  <2>4. Slack
    BY <1>1, <2>1, <2>3
  <2> QED
    BY <1>3, <2>1, <2>4
<1>5. SUFFICES ASSUME ~ ChannelReset PROVE Goal
  BY <1>4
<1>6. ASSUME UNCHANGED << deadLetters, faults, session, receiving, hand >> PROVE Goal
  <2>1. HandOwed(m)' = HandOwed(m) /\ (HandForeseen(m)' = 1 => HandForeseen(m) = 1)
    BY <1>2, <1>5, <1>6 DEF HandOwed, HandForeseen, HandAtAck
  <2>2. Slack
    BY <1>1, <1>6, <2>1
  <2> QED
    BY <1>3, <1>6, <2>2
<1>7. ASSUME UNCHANGED << deadLetters, faults, session >>,
             receiving # "ack", receiving' # "ack"
      PROVE  Goal
  <2>1. /\ HandOwed(m)' = 0 /\ HandOwed(m) = 0
        /\ (HandForeseen(m)' = 1 => HandForeseen(m) = 1)
    BY <1>2, <1>5, <1>7 DEF HandOwed, HandForeseen, HandAtAck
  <2>2. Slack
    BY <1>1, <1>7, <2>1
  <2> QED
    BY <1>3, <1>7, <2>2
<1>8. ASSUME UNCHANGED deadLetters, session' # "up",
             \/ faults' = faults + 1
             \/ faults' = faults /\ (~ HandAtAck(m, "live") \/ StaleHeld)
      PROVE  Goal
  <2>1. HandForeseen(m)' = 0
    BY <1>8 DEF HandForeseen
  <2>2. HandOwed(m) = 1 => faults' = faults + 1 \/ HandForeseen(m) = 1
    BY <1>8 DEF HandOwed, HandForeseen, HandAtAck, ConsumerShape
  <2>3. Slack
    BY <1>1, <1>8, <2>1, <2>2
  <2> QED
    BY <1>3, <1>8, <2>3
<1>9. CASE PublishMalformed
  <2>1. /\ receiving = "publish" /\ receiving' = "ack" /\ UNCHANGED << hand, session, faults >>
        /\ DeadLetter(hand[1].msg) /\ Len(hand) = 1 /\ hand \in Seq(Delivery)
        /\ session = "up"
    BY <1>9 DEF PublishMalformed, SessionShape, SessionTypeOK, ConsumerShape
  <2>2. 1 \in 1 .. Len(hand) /\ hand[1] \in Delivery /\ hand[1].state # "done"
    BY <2>1, PutAppends DEF ConsumerShape, Has
  <2>3. hand[1].state \in {"live", "stale"} /\ hand[1].msg \in Message
    BY <2>2 DEF Delivery
  <2>4. HandOwed(m) = 0
    BY <2>1 DEF HandOwed, HandAtAck
  <2>5. CASE hand[1].msg = m
    <3>1. deadLetters'[m] = deadLetters[m] + 1
      BY <1>1, <2>1, <2>5 DEF DeadLetter, Counts
    <3>2. CASE hand[1].state = "live"
      <4>1. HandOwed(m)' = 1
        BY <2>1, <2>5, <3>2 DEF HandOwed, HandAtAck
      <4>2. HandForeseen(m)' = 1 => HandForeseen(m) = 1
        BY <1>2, <1>5, <2>1 DEF HandForeseen, HandAtAck
      <4> QED
        BY <1>1, <2>1, <2>4, <3>1, <4>1, <4>2
    <3>3. CASE hand[1].state = "stale"
      <4>1. HandForeseen(m)' = 0
        BY <2>1, <2>5, <3>3 DEF HandForeseen, HandAtAck
      <4>2. StaleHeld
        BY <2>2, <3>3 DEF StaleHeld, Has
      <4>3. HandForeseen(m) = 1
        BY <2>1, <4>2 DEF HandForeseen, HandAtAck
      <4> QED
        BY <1>1, <2>1, <2>4, <3>1, <4>1, <4>3
    <3> QED
      BY <2>3, <3>2, <3>3
  <2>6. CASE hand[1].msg # m
    <3>1. deadLetters'[m] = deadLetters[m]
      BY <1>1, <2>1, <2>6 DEF DeadLetter, Counts
    <3>2. HandForeseen(m)' = 1 => HandForeseen(m) = 1
      BY <1>2, <1>5, <2>1, <2>6 DEF HandForeseen, HandAtAck
    <3>3. HandOwed(m)' = 0
      BY <2>1, <2>6 DEF HandOwed, HandAtAck
    <3> QED
      BY <1>1, <2>1, <2>4, <3>1, <3>2, <3>3
  <2> QED
    BY <2>5, <2>6
<1>10. CASE PublishMalformedFails
  <2>1. /\ receiving = "publish" /\ faults' = faults + 1 /\ session' # "up"
        /\ deadLetters' = deadLetters \/ DeadLetter(hand[1].msg)
        /\ receiving' # "idle"
    BY <1>10 DEF PublishMalformedFails, Fault, AbortSession
  <2>2. deadLetters'[m] \in {deadLetters[m], deadLetters[m] + 1}
    BY <1>1, <2>1 DEF DeadLetter, Counts
  <2>3. HandOwed(m) = 0 /\ HandForeseen(m)' = 0
    BY <2>1 DEF HandOwed, HandAtAck, HandForeseen
  <2> QED
    BY <1>1, <2>1, <2>2, <2>3
<1>11. CASE AckMalformed
  <2>1. /\ receiving = "ack" /\ receiving' = "idle" /\ hand[1].state = "live"
        /\ UNCHANGED << deadLetters, session, faults >> /\ session = "up"
    BY <1>11 DEF AckMalformed, ConsumerShape
  <2>2. HandForeseen(m)' = 1 => HandForeseen(m) = 1
    BY <1>2, <1>5, <2>1 DEF HandForeseen, HandAtAck
  <2>3. HandOwed(m) = IF hand[1].msg = m THEN 1 ELSE 0
    BY <2>1 DEF HandOwed, HandAtAck
  <2> QED
    BY <1>1, <2>1, <2>2, <2>3
<1>12. CASE Connect
  <2>1. /\ receiving' = "idle" /\ session = "down" /\ UNCHANGED << deadLetters, faults >>
        /\ hand' = << >> /\ buffer' = << >> /\ batch' = << >> /\ receiving = "stopped"
    BY <1>12 DEF Connect, SessionShape, ConsumerShape, SessionTypeOK
  <2>2. HandForeseen(m)' = 0 /\ HandOwed(m) = 0
    BY <2>1, HasEmpty DEF HandForeseen, HandOwed, HandAtAck, StaleHeld
  <2>3. Slack
    BY <1>1, <2>1, <2>2
  <2> QED
    BY <1>3, <2>1, <2>3
<1>13. CASE ConsumerTask
  <2>1. ASSUME NEW d \in Message, Receive(d) PROVE Goal
    BY <1>7, <2>1 DEF Receive
  <2>2. CASE Put
    BY <1>7, <2>2 DEF Put
  <2>3. CASE AckMalformedRaises
    <3>1. /\ ~ HandAtAck(m, "live") /\ UNCHANGED << deadLetters, faults >>
          /\ session' = "failing"
      BY <2>3 DEF AckMalformedRaises, HandAtAck, AbortSession
    <3> QED
      BY <1>8, <3>1
  <2> QED
    BY <1>9, <1>11, <1>13, <2>1, <2>2, <2>3 DEF ConsumerTask
<1>14. CASE WorkerTask
  <2>1. CASE RequeueFails
    <3>1. /\ working = "requeue" /\ pos = Len(batch) + 1 /\ session' = "failing"
          /\ UNCHANGED << deadLetters, faults >> /\ batch \in Seq(Delivery)
          /\ \E i \in 1 .. Len(batch) : batch[i].state # "done"
      BY <2>1 DEF RequeueFails, AllReturned, SessionTypeOK
    <3>2. PICK i \in 1 .. Len(batch) : batch[i].state # "done"
      BY <3>1
    <3>3. batch[i] \in Delivery /\ batch[i].state # "live"
      <4>1. i < pos
        BY <3>1
      <4> QED
        BY <3>1, <4>1, ElementOfSeq DEF WorkerShape
    <3>4. batch[i].state = "stale"
      BY <3>2, <3>3 DEF Delivery
    <3>5. StaleHeld
      BY <3>4 DEF StaleHeld, Has
    <3> QED
      BY <1>8, <3>1, <3>5
  <2>2. CASE Collect \/ BatchTimeout \/ RequeueNext \/ RequeueDone \/ CancelDone
    BY <1>6, <2>2 DEF Collect, BatchTimeout, RequeueNext, RequeueDone, CancelDone
  <2> QED
    BY <1>14, <2>1, <2>2 DEF WorkerTask
<1>15. CASE Supervisor \/ Failures
  <2>1. CASE StartDraining \/ DrainBuffer \/ Disconnect
    <3>1. /\ session \in {"failing", "draining"} /\ session' # "up"
          /\ UNCHANGED << deadLetters, faults >>
      BY <2>1 DEF StartDraining, DrainBuffer, Disconnect, EndProcessState
    <3>2. ~ HandAtAck(m, "live")
      BY <3>1 DEF HandAtAck, ConsumerShape
    <3> QED
      BY <1>8, <3>1, <3>2
  <2>2. CASE Shutdown \/ Crash
    BY <1>8, <2>2 DEF Shutdown, Crash, Fault, AbortSession, EndProcessState
  <2> QED
    BY <1>5, <1>10, <1>12, <1>15, <2>1, <2>2 DEF Supervisor, Failures
<1>16. ASSUME NEW d \in Inbound, Publish(d) PROVE Goal
  BY <1>6, <1>16 DEF Publish
<1> QED
  BY <1>13, <1>14, <1>15, <1>16 DEF SessionNext

-----------------------------------------------------------------------------
(* Before the first failure nothing is stale, nothing is given back and no  *)
(* session ends.                                                            *)
Calm ==
  faults = 0 => /\ session \in {"down", "up"} /\ ~ StaleHeld
                /\ working \notin {"requeue", "cancelled"}

(* The steps of a session that is calm and stays so leave the queue to its  *)
(* publishers and to the consumer task.                                     *)
LEMMA CalmSteps ==
  ASSUME SessionTypeOK, SessionShape, ConsumerShape, WorkerShape, Calm, SessionNext,
         faults' = 0
  PROVE  /\ faults = 0 /\ ~ ChannelReset
         /\ \/ \E m \in Inbound : Publish(m)
            \/ \E m \in Message : Receive(m)
            \/ Put \/ PublishMalformed \/ AckMalformed
            \/ Collect \/ BatchTimeout \/ Connect
<1> USE DEF consumerVars, workerVars, brokerVars
<1>1. /\ faults \in Nat
      /\ ~ Fault
  BY BoundsAssumption DEF SessionTypeOK, Fault
<1>2. faults = 0
  BY <1>1 DEF SessionNext, ConsumerTask, WorkerTask, Supervisor, Failures,
         Publish, Receive, Put, PublishMalformed, AckMalformed,
         AckMalformedRaises, Collect, BatchTimeout, RequeueNext, RequeueDone,
         RequeueFails, CancelDone, StartDraining, DrainBuffer, Disconnect,
         Connect, Shutdown, Crash, ChannelReset, PublishMalformedFails
<1>3. /\ session \in {"down", "up"} /\ ~ StaleHeld
      /\ working \notin {"requeue", "cancelled"}
  BY <1>2 DEF Calm
<1>4. ~ AckMalformedRaises
  <2> SUFFICES ASSUME AckMalformedRaises PROVE FALSE
    OBVIOUS
  <2>1. hand \in Seq(Delivery) /\ Len(hand) = 1 /\ hand[1].state = "stale"
    BY DEF AckMalformedRaises, SessionShape, SessionTypeOK
  <2>2. Has(hand, "stale")
    BY <2>1 DEF Has
  <2> QED
    BY <1>3, <2>2 DEF StaleHeld
<1>5. /\ ~ RequeueNext /\ ~ RequeueDone /\ ~ RequeueFails /\ ~ CancelDone
      /\ ~ StartDraining /\ ~ DrainBuffer /\ ~ Disconnect
  BY <1>3 DEF RequeueNext, RequeueDone, RequeueFails, CancelDone, StartDraining,
              DrainBuffer, Disconnect
<1>6. ~ Failures /\ ~ ChannelReset
  BY <1>1 DEF Failures, Shutdown, Crash, ChannelReset, PublishMalformedFails
<1> QED
  BY <1>2, <1>4, <1>5, <1>6 DEF SessionNext, ConsumerTask, WorkerTask, Supervisor

LEMMA SessionKeepsCalm ==
  ASSUME SessionTypeOK, SessionShape, ConsumerShape, WorkerShape, Calm, SessionNext
  PROVE  Calm'
<1> SUFFICES ASSUME faults' = 0
             PROVE  /\ session' \in {"down", "up"} /\ ~ StaleHeld'
                    /\ working' \notin {"requeue", "cancelled"}
  BY DEF Calm
<1> USE DEF consumerVars, workerVars, brokerVars
<1>1. /\ faults = 0 /\ ~ ChannelReset
      /\ \/ \E m \in Inbound : Publish(m)
         \/ \E m \in Message : Receive(m)
         \/ Put \/ PublishMalformed \/ AckMalformed
         \/ Collect \/ BatchTimeout \/ Connect
  BY CalmSteps
<1>2. /\ session \in {"down", "up"} /\ ~ StaleHeld
      /\ working \notin {"requeue", "cancelled"}
  BY <1>1 DEF Calm
<1>3. ~ StaleHeld'
  BY <1>1, <1>2, StaleByReset
<1>4. /\ session' \in {session, "up"}
      /\ working' \in {working, "collect", "flush"}
  BY <1>1 DEF Publish, Receive, Put, PublishMalformed, AckMalformed, Collect,
              BatchTimeout, Connect
<1> QED
  BY <1>2, <1>3, <1>4

(* Without a failure, only a publication adds to the queue.                 *)
LEMMA CalmKeepsQueue ==
  ASSUME SessionTypeOK, SessionShape, ConsumerShape, WorkerShape, Calm, SessionNext,
         faults' = 0, NEW m \in Message, accepted'[m] = accepted[m]
  PROVE  ready'[m] <= ready[m]
<1> USE DEF brokerVars
<1>1. ready \in Counts /\ accepted \in Counts /\ ready[m] \in Nat /\ accepted[m] \in Nat
  BY DEF SessionTypeOK, Counts
<1>2. ASSUME NEW d \in Inbound, Publish(d) PROVE ready'[m] <= ready[m]
  BY <1>1, <1>2, InboundAssumption DEF Publish, Enqueue, Counts
<1>3. ASSUME NEW d \in Message, Receive(d) PROVE ready'[m] <= ready[m]
  BY <1>1, <1>3 DEF Receive, Deliver, Counts
<1>4. CASE Put \/ PublishMalformed \/ AckMalformed \/ Collect \/ BatchTimeout \/ Connect
  BY <1>1, <1>4 DEF Put, PublishMalformed, AckMalformed, Collect, BatchTimeout, Connect
<1> QED
  BY <1>2, <1>3, <1>4, CalmSteps

-----------------------------------------------------------------------------
(* How the local copies of deliveries move: from the queue into the hand,   *)
(* into the buffer, into the batch, and away.                               *)
LEMMA SessionMoves ==
  ASSUME SessionTypeOK, SessionShape, SessionNext
  PROVE  /\ \/ hand' \in {hand, << >>, Invalidated(hand)}
            \/ \E m \in Message : Deliver(m) /\ hand' = << Delivered(m) >>
         /\ \/ buffer' \in {buffer, << >>, Invalidated(buffer), buffer \o hand}
            \/ buffer # << >> /\ buffer' = Tail(buffer)
         /\ \/ batch' \in {batch, << >>, Invalidated(batch)}
            \/ buffer # << >> /\ batch' = Append(batch, Head(buffer))
            \/ pos \in 1 .. Len(batch) /\ batch' = [batch EXCEPT ![pos] = AsDone(@)]
<1> USE DEF consumerVars, workerVars, EndProcessState
<1>1. ASSUME NEW m \in Inbound, Publish(m)
      PROVE  hand' = hand /\ buffer' = buffer /\ batch' = batch
  BY <1>1 DEF Publish
<1>2. CASE ConsumerTask
  BY <1>2 DEF ConsumerTask, Receive, Put, PublishMalformed, AckMalformed,
              AckMalformedRaises, AbortSession, CancelWorker, CancelSwallowed
<1>3. CASE WorkerTask
  <2>1. DOMAIN batch = 1 .. Len(batch)
    BY DEF SessionTypeOK
  <2> QED
    BY <1>3, <2>1
       DEF WorkerTask, Collect, BatchTimeout, RequeueNext, RequeueDone,
           RequeueFails, CancelDone, WorkerStops
<1>4. CASE Supervisor
  BY <1>4 DEF Supervisor, StartDraining, DrainBuffer, Disconnect, Connect
<1>5. CASE Failures
  BY <1>5 DEF Failures, Shutdown, Crash, ChannelReset, PublishMalformedFails,
              AbortSession, CancelWorker, CancelSwallowed
<1> QED
  BY <1>1, <1>2, <1>3, <1>4, <1>5 DEF SessionNext

(* The ways of forming a sequence of deliveries keep where they come from.  *)
LEMMA OriginsKept ==
  ASSUME NEW A, NEW s \in Seq(Delivery), NEW t \in Seq(Delivery),
         \A i \in 1 .. Len(s) : s[i].msg \in A,
         \A i \in 1 .. Len(t) : t[i].msg \in A,
         NEW u,
         \/ u \in {s, << >>, Invalidated(s), s \o t}
         \/ s # << >> /\ u = Tail(s)
         \/ t # << >> /\ u = Append(s, Head(t))
         \/ \E p \in 1 .. Len(s) : u = [s EXCEPT ![p] = AsDone(@)]
  PROVE  \A i \in 1 .. Len(u) : u[i].msg \in A
<1>1. CASE u = s \/ u = << >>
  BY <1>1
<1>2. CASE u = Invalidated(s)
  BY <1>2, InvalidatedKeepsMessages
<1>3. CASE u = s \o t
  <2>1. /\ Len(u) = Len(s) + Len(t) /\ Len(s) \in Nat /\ Len(t) \in Nat
        /\ \A i \in 1 .. Len(s) + Len(t) :
             u[i] = IF i <= Len(s) THEN s[i] ELSE t[i - Len(s)]
    BY <1>3, ConcatProperties
  <2>2. ASSUME NEW i \in 1 .. Len(s) + Len(t) PROVE u[i].msg \in A
    <3>1. CASE i <= Len(s)
      BY <2>1, <3>1
    <3>2. CASE ~ (i <= Len(s))
      <4>1. i - Len(s) \in 1 .. Len(t)
        BY <2>1, <3>2
      <4> QED
        BY <2>1, <3>2, <4>1
    <3> QED
      BY <3>1, <3>2
  <2> QED
    BY <2>1, <2>2
<1>4. CASE s # << >> /\ u = Tail(s)
  <2>1. /\ Len(u) = Len(s) - 1 /\ Len(s) \in Nat
        /\ \A i \in 1 .. Len(u) : u[i] = s[i + 1]
    BY <1>4, HeadTailProperties
  <2>2. ASSUME NEW i \in 1 .. Len(u) PROVE i + 1 \in 1 .. Len(s)
    BY <2>1
  <2> QED
    BY <2>1, <2>2
<1>5. CASE t # << >> /\ u = Append(s, Head(t))
  <2>1. Head(t) = t[1] /\ 1 \in 1 .. Len(t)
    BY <1>5, EmptySeq
  <2>2. /\ Len(u) = Len(s) + 1 /\ Len(s) \in Nat
        /\ \A i \in 1 .. Len(s) : u[i] = s[i]
        /\ u[Len(s) + 1] = Head(t)
    BY <1>5, <2>1, AppendProperties
  <2>3. ASSUME NEW i \in 1 .. Len(u) PROVE u[i].msg \in A
    <3>1. i \in 1 .. Len(s) \/ i = Len(s) + 1
      BY <2>2
    <3> QED
      BY <2>1, <2>2, <3>1
  <2> QED
    BY <2>3
<1>6. ASSUME NEW p \in 1 .. Len(s), u = [s EXCEPT ![p] = AsDone(@)]
      PROVE  \A i \in 1 .. Len(u) : u[i].msg \in A
  BY <1>6, DoneKeepsMessages
<1> QED
  BY <1>1, <1>2, <1>3, <1>4, <1>5, <1>6

-----------------------------------------------------------------------------
(* What a step of a stage does with the state of its session: it starts the *)
(* loop over a batch, gives up on it, settles the message it is at, or goes *)
(* from one state of the loop to another.                                   *)
StageMove ==
  /\ UNCHANGED << accepted, session, receiving, hand, buffer >>
  /\ \/ /\ working = "flush" /\ working' \notin SessionSteps
        /\ pos' = 1 /\ UNCHANGED << unacked, batch >>
     \/ /\ working \notin SessionSteps \ {"flush"} /\ GiveUp /\ UNCHANGED unacked
     \/ /\ working \notin SessionSteps
        /\ \E step : step \notin SessionSteps /\ SettleCurrent(step)
     \/ /\ working \notin SessionSteps /\ working' \notin SessionSteps
        /\ UNCHANGED << unacked, batch, pos >>

LEMMA StageKeepsBooks ==
  ASSUME SessionTypeOK, SessionTypeOK', SessionShape, ConsumerShape, WorkerShape,
         SessionBooks, StageMove
  PROVE  /\ ConsumerShape' /\ WorkerShape' /\ SessionBooks'
         /\ StaleHeld' => StaleHeld
         /\ Has(batch, "stale") /\ batch' # << >> => Has(batch', "stale")
<1>1. /\ UNCHANGED << session, receiving, hand, buffer >> /\ batch \in Seq(Delivery)
      /\ Len(batch) \in Nat
  BY DEF StageMove, SessionTypeOK
<1>2. session # "draining" /\ session # "down"
  BY DEF StageMove, ConsumerShape, SessionShape, SessionSteps
<1>3. CASE UNCHANGED << unacked, batch >>
  <2>1. Balanced
    BY <1>1, <1>3 DEF Balanced, HeldIn
  <2>2. SessionBooks'
    BY <2>1, BalancedBooks
  <2>3. ConsumerShape' /\ (StaleHeld' => StaleHeld)
    BY <1>1, <1>2, <1>3 DEF ConsumerShape, StaleHeld
  <2>4. WorkerShape'
    <3>1. CASE working = "flush" /\ working' \notin SessionSteps /\ pos' = 1
      <4>1. 1 \in 1 .. Len(batch) /\ ~ Has(batch, "done")
        BY <3>1, BatchNotEmpty DEF WorkerShape
      <4> QED
        BY <1>1, <1>3, <3>1, <4>1 DEF WorkerShape, SessionSteps, Has
    <3>2. CASE GiveUp
      BY <1>1, <1>3, <3>2 DEF GiveUp, StartBatchLoop, WorkerShape, SessionSteps
    <3>3. CASE /\ working \notin SessionSteps /\ working' \notin SessionSteps
               /\ pos' = pos
      BY <1>3, <3>3 DEF WorkerShape, SessionSteps
    <3>4. ASSUME NEW step, SettleCurrent(step) PROVE FALSE
      BY <1>1, <1>3, <3>4 DEF SettleCurrent, Ack, SessionTypeOK, Counts
    <3> QED
      BY <3>1, <3>2, <3>3, <3>4 DEF StageMove
  <2> QED
    BY <1>3, <2>2, <2>3, <2>4
<1>4. ASSUME working \notin SessionSteps,
             NEW step, step \notin SessionSteps, SettleCurrent(step)
      PROVE  /\ ConsumerShape' /\ WorkerShape' /\ SessionBooks'
             /\ StaleHeld' => StaleHeld
             /\ Has(batch, "stale") /\ batch' # << >> => Has(batch', "stale")
  <2>1. SessionBooks' /\ WorkerShape'
    BY <1>1, <1>4, NextInBatchBooks
  <2>2. /\ pos \in 1 .. Len(batch) /\ batch[pos].state = "live"
        /\ batch' = << >> \/ batch' = [batch EXCEPT ![pos] = AsDone(@)]
    BY <1>4 DEF WorkerShape, SettleCurrent, NextInBatch, Current
  <2>3. /\ \A x : x # "done" /\ Has(batch', x) => Has(batch, x)
        /\ Has(batch, "stale") /\ batch' # << >> => Has(batch', "stale")
    BY <1>1, <2>2, HasDone, HasEmpty
  <2>4. ConsumerShape' /\ (StaleHeld' => StaleHeld)
    BY <1>1, <1>2, <2>3 DEF ConsumerShape, StaleHeld
  <2> QED
    BY <2>1, <2>3, <2>4
<1> QED
  BY <1>3, <1>4 DEF StageMove, GiveUp, StartBatchLoop

(* How the account of the copies a stage may leave changes with its steps:  *)
(* an effect is owed until its acknowledgement, or was foreseen.            *)
LEMMA StagePays ==
  ASSUME SessionTypeOK, SessionTypeOK', SessionShape, ConsumerShape, WorkerShape,
         SessionBooks, StageMove, NEW M, NEW A, A \cap SessionSteps = {}
  PROVE  /\ Owed(M, A) \in {0, 1} /\ Owed(M, A)' \in {0, 1}
         /\ Foreseen(M, A) \in {0, 1} /\ Foreseen(M, A)' \in {0, 1}
         /\ working \notin A /\ working' \notin A =>
              Owed(M, A) = 0 /\ Owed(M, A)' = 0 /\ Foreseen(M, A)' <= Foreseen(M, A)
         /\ working \notin A /\ working' \in A /\ working # "flush"
              /\ batch' = batch /\ pos' = pos =>
              /\ Owed(M, A) = 0
              /\ Foreseen(M, A)' + (IF Current.msg \in M THEN 1 ELSE 0)
                   <= Owed(M, A)' + Foreseen(M, A)
         /\ \A step : working \in A /\ step \notin A /\ SettleCurrent(step) =>
              /\ Owed(M, A) = IF Current.msg \in M THEN 1 ELSE 0
              /\ Owed(M, A)' = 0 /\ Foreseen(M, A)' <= Foreseen(M, A)
         /\ working \in A /\ Current.state = "stale" /\ GiveUp =>
              Owed(M, A) = 0 /\ Owed(M, A)' = 0 /\ Foreseen(M, A)' = 0
<1>1. /\ Owed(M, A) \in {0, 1} /\ Owed(M, A)' \in {0, 1}
      /\ Foreseen(M, A) \in {0, 1} /\ Foreseen(M, A)' \in {0, 1}
  BY DEF Owed, Foreseen
<1>2. /\ StaleHeld' => StaleHeld
      /\ working \notin {"requeue", "cancelled", "stopped"}
  BY StageKeepsBooks DEF StageMove, SessionSteps
<1>3. ASSUME working \notin A, working' \notin A
      PROVE  Owed(M, A) = 0 /\ Owed(M, A)' = 0 /\ Foreseen(M, A)' <= Foreseen(M, A)
  <2>1. Owed(M, A) = 0 /\ Owed(M, A)' = 0
    BY <1>3 DEF Owed, AtAck
  <2>2. Foreseen(M, A)' = 1 => Foreseen(M, A) = 1
    BY <1>2, <1>3 DEF Foreseen, AtAck
  <2> QED
    BY <1>1, <2>1, <2>2
<1>4. ASSUME working \notin A, working' \in A, working # "flush",
             batch' = batch, pos' = pos
      PROVE  /\ Owed(M, A) = 0
             /\ Foreseen(M, A)' + (IF Current.msg \in M THEN 1 ELSE 0)
                  <= Owed(M, A)' + Foreseen(M, A)
  <2>1. working \notin SessionSteps /\ working' \notin SessionSteps
    BY <1>4 DEF StageMove, GiveUp, StartBatchLoop, SessionSteps, SettleCurrent,
                NextInBatch
  <2>2. /\ pos \in 1 .. Len(batch) /\ batch[pos] \in Delivery
        /\ batch[pos].state # "done"
    <3>1. /\ batch \in Seq(Delivery) /\ pos \in 1 .. Len(batch)
          /\ \A i \in pos .. Len(batch) : batch[i].state # "done"
      BY <2>1 DEF WorkerShape, SessionTypeOK
    <3>2. pos \in pos .. Len(batch)
      BY <3>1
    <3> QED
      BY <3>1, <3>2, ElementOfSeq
  <2>3. Current.state \in {"live", "stale"} /\ Current' = Current
    BY <1>4, <2>2 DEF Delivery, Current
  <2>4. Owed(M, A) = 0 /\ ~ AtAck(M, A, "stale")
    BY <1>4 DEF Owed, AtAck
  <2>5. CASE Current.msg \in M /\ Current.state = "live"
    <3>1. Owed(M, A)' = 1
      BY <1>4, <2>3, <2>5 DEF Owed, AtAck
    <3>2. Foreseen(M, A)' = 1 => Foreseen(M, A) = 1
      BY <1>2, <2>4 DEF Foreseen
    <3> QED
      BY <1>1, <2>4, <2>5, <3>1, <3>2
  <2>6. CASE Current.msg \in M /\ Current.state = "stale"
    <3>1. Foreseen(M, A)' = 0
      BY <1>4, <2>3, <2>6 DEF Foreseen, AtAck
    <3>2. StaleHeld
      BY <2>2, <2>6 DEF StaleHeld, Has, Current
    <3>3. Foreseen(M, A) = 1
      BY <1>2, <2>4, <3>2 DEF Foreseen
    <3> QED
      BY <1>1, <2>4, <2>6, <3>1, <3>3
  <2>7. CASE Current.msg \notin M
    <3>1. Foreseen(M, A)' = 1 => Foreseen(M, A) = 1
      BY <1>2, <2>4 DEF Foreseen
    <3> QED
      BY <1>1, <2>4, <2>7, <3>1
  <2> QED
    BY <2>3, <2>5, <2>6, <2>7
<1>5. ASSUME NEW step, working \in A, step \notin A, SettleCurrent(step)
      PROVE  /\ Owed(M, A) = IF Current.msg \in M THEN 1 ELSE 0
             /\ Owed(M, A)' = 0 /\ Foreseen(M, A)' <= Foreseen(M, A)
  <2>1. Current.state = "live" /\ working' \notin A
    BY <1>5 DEF SettleCurrent, NextInBatch, SessionSteps
  <2>2. Owed(M, A) = (IF Current.msg \in M THEN 1 ELSE 0) /\ Owed(M, A)' = 0
    BY <1>5, <2>1 DEF Owed, AtAck
  <2>3. Foreseen(M, A)' = 1 => Foreseen(M, A) = 1
    BY <1>2, <2>1 DEF Foreseen, AtAck
  <2> QED
    BY <1>1, <2>2, <2>3
<1>6. ASSUME working \in A, Current.state = "stale", GiveUp
      PROVE  Owed(M, A) = 0 /\ Owed(M, A)' = 0 /\ Foreseen(M, A)' = 0
  <2>1. working' = "requeue" /\ batch' = batch /\ pos \in 1 .. Len(batch)
    BY <1>6 DEF GiveUp, StartBatchLoop, WorkerShape
  <2>2. Has(batch', "stale")
    BY <1>6, <2>1 DEF Has, Current
  <2> QED
    BY <1>6, <2>1, <2>2 DEF Owed, Foreseen, AtAck, SessionSteps
<1> QED
  BY <1>1, <1>3, <1>4, <1>5, <1>6

(* A stage that gives up after a failure, or because of a stale delivery,   *)
(* does not disturb a calm session.                                         *)
LEMMA StageKeepsCalm ==
  ASSUME SessionTypeOK, SessionTypeOK', SessionShape, ConsumerShape, WorkerShape,
         SessionBooks, StageMove, Calm,
         faults' = 0 => faults = 0 /\ (working' = "requeue" => StaleHeld)
  PROVE  Calm'
<1>1. (StaleHeld' => StaleHeld) /\ session' = session
  BY StageKeepsBooks DEF StageMove
<1>2. working' \notin {"cancelled", "stopped"}
  BY DEF StageMove, GiveUp, StartBatchLoop, SettleCurrent, NextInBatch, SessionSteps
<1> QED
  BY <1>1, <1>2 DEF Calm

(* A delivery the process holds live is one the broker waits for.           *)
LEMMA LiveIsUnacked ==
  ASSUME SessionTypeOK, DeliveriesAccountedFor
  PROVE  /\ \A i \in 1 .. Len(hand) : hand[i].state = "live" => unacked[hand[i].msg] >= 1
         /\ \A i \in 1 .. Len(batch) : batch[i].state = "live" => unacked[batch[i].msg] >= 1
<1>1. hand \in Seq(Delivery) /\ buffer \in Seq(Delivery) /\ batch \in Seq(Delivery)
  BY DEF SessionTypeOK
<1>2. ASSUME NEW s \in Seq(Delivery), NEW i \in 1 .. Len(s), s[i].state = "live"
      PROVE  s[i].msg \in Message /\ CountIn(s, {Delivered(s[i].msg)}) >= 1
  <2>1. s[i] \in Delivery
    BY ElementOfSeq
  <2>2. s[i] = Delivered(s[i].msg) /\ s[i].msg \in Message
    BY <1>2, <2>1, LiveIsDelivered
  <2> DEFINE S == { j \in DOMAIN s : s[j] \in {Delivered(s[i].msg)} }
  <2>3. IsFiniteSet(S)
    BY CountType
  <2>4. S # {}
    BY <2>2
  <2>5. Cardinality(S) \in Nat /\ Cardinality(S) # 0
    BY <2>3, <2>4, FS_CardinalityType, FS_EmptySet
  <2> QED
    BY <2>2, <2>5 DEF CountIn
<1>3. ASSUME NEW m \in Message
      PROVE  /\ unacked[m] = CountIn(hand, {Delivered(m)}) + CountIn(buffer, {Delivered(m)})
                               + CountIn(batch, {Delivered(m)})
             /\ CountIn(hand, {Delivered(m)}) \in Nat
             /\ CountIn(buffer, {Delivered(m)}) \in Nat
             /\ CountIn(batch, {Delivered(m)}) \in Nat
  BY <1>1, CountType DEF DeliveriesAccountedFor
<1>4. ASSUME NEW i \in 1 .. Len(hand), hand[i].state = "live"
      PROVE  unacked[hand[i].msg] >= 1
  <2>1. hand[i].msg \in Message /\ CountIn(hand, {Delivered(hand[i].msg)}) >= 1
    BY <1>1, <1>2, <1>4
  <2> QED
    BY <1>3, <2>1
<1>5. ASSUME NEW i \in 1 .. Len(batch), batch[i].state = "live"
      PROVE  unacked[batch[i].msg] >= 1
  <2> DEFINE m == batch[i].msg
  <2>1. m \in Message /\ CountIn(batch, {Delivered(m)}) >= 1
    BY <1>1, <1>2, <1>5
  <2> HIDE DEF m
  <2>2. /\ unacked[m] = CountIn(hand, {Delivered(m)}) + CountIn(buffer, {Delivered(m)})
                           + CountIn(batch, {Delivered(m)})
        /\ CountIn(hand, {Delivered(m)}) \in Nat
        /\ CountIn(buffer, {Delivered(m)}) \in Nat
        /\ CountIn(batch, {Delivered(m)}) \in Nat
    BY <1>3, <2>1
  <2>3. unacked[m] >= 1
    BY <2>1, <2>2
  <2> QED
    BY <2>3 DEF m
<1> QED
  BY <1>4, <1>5

(* While every local copy is live, the prefetch window leaves room in the   *)
(* buffer for the delivery in hand.                                         *)
LEMMA RoomForHand ==
  ASSUME SessionTypeOK, SessionShape, ConsumerShape, SessionBooks,
         receiving = "put", Len(buffer) >= BufferSize
  PROVE  \E i \in DOMAIN (hand \o buffer) : (hand \o buffer)[i].state = "stale"
<1> DEFINE held == hand \o buffer
<1>1. /\ hand \in Seq(Delivery) /\ buffer \in Seq(Delivery) /\ batch \in Seq(Delivery)
      /\ Len(hand) = 1 /\ Len(buffer) = BufferSize /\ BatchSize \in Nat
  BY BatchSizeAssumption DEF SessionTypeOK, SessionShape, BufferSize
<1>2. /\ held \in Seq(Delivery) /\ DOMAIN held = 1 .. Len(held)
      /\ Len(held) = 1 + Len(buffer)
      /\ held[1] = hand[1]
      /\ \A i \in 1 .. Len(buffer) : held[i + 1] = buffer[i]
  <2>1. /\ held \in Seq(Delivery) /\ Len(held) = Len(hand) + Len(buffer)
        /\ \A i \in 1 .. Len(hand) + Len(buffer) :
             held[i] = IF i <= Len(hand) THEN hand[i] ELSE buffer[i - Len(hand)]
    BY <1>1, ConcatProperties
  <2> HIDE DEF held
  <2>2. 1 \in 1 .. Len(held) /\ held[1] = hand[1] /\ Len(held) = 1 + Len(buffer)
    BY <1>1, <2>1
  <2>3. ASSUME NEW i \in 1 .. Len(buffer) PROVE held[i + 1] = buffer[i]
    <3>1. i + 1 \in 1 .. Len(held) /\ ~ (i + 1 <= Len(hand)) /\ (i + 1) - Len(hand) = i
      BY <1>1, <2>1
    <3> QED
      BY <2>1, <3>1
  <2>4. DOMAIN held = 1 .. Len(held)
    BY <2>1
  <2> QED
    BY <2>1, <2>2, <2>3, <2>4
<1>3. SUFFICES ASSUME \A i \in 1 .. Len(held) : held[i].state # "stale" PROVE FALSE
  BY <1>2
<1>4. /\ \A i \in 1 .. Len(hand) : hand[i] \in LiveDelivery
      /\ \A i \in 1 .. Len(buffer) : buffer[i] \in LiveDelivery
  <2>1. ASSUME NEW d \in Delivery, d.state # "stale", d.state # "done"
        PROVE  d \in LiveDelivery
    BY <2>1 DEF Delivery, LiveDelivery
  <2>2. \A i \in 1 .. Len(hand) : hand[i] \in Delivery /\ hand[i].state \notin {"stale", "done"}
    <3>1. 1 \in 1 .. Len(held)
      BY <1>1, <1>2
    <3>2. \A i \in 1 .. Len(hand) : i = 1
      BY <1>1
    <3>3. hand[1] \in Delivery /\ ~ Has(hand, "done") /\ 1 \in 1 .. Len(hand)
      BY <1>1, PutAppends DEF ConsumerShape
    <3> QED
      BY <1>2, <1>3, <3>1, <3>2, <3>3 DEF Has
  <2>3. \A i \in 1 .. Len(buffer) :
          buffer[i] \in Delivery /\ buffer[i].state \notin {"stale", "done"}
    <3>1. \A i \in 1 .. Len(buffer) : i + 1 \in 1 .. Len(held)
      BY <1>1, <1>2
    <3>2. ~ Has(buffer, "done")
      BY DEF ConsumerShape
    <3> QED
      BY <1>1, <1>2, <1>3, <3>1, <3>2, ElementOfSeq DEF Has
  <2> QED
    BY <2>1, <2>2, <2>3
<1>5. /\ CountIn(hand, LiveDelivery) = 1
      /\ CountIn(buffer, LiveDelivery) = Len(buffer)
      /\ CountIn(batch, LiveDelivery) \in Nat
  BY <1>1, <1>4, CountAll, CountType
<1>6. /\ HeldIn(LiveDelivery) <= PrefetchCount
      /\ HeldIn(LiveDelivery) = 1 + BufferSize + CountIn(batch, LiveDelivery)
  BY <1>1, <1>5 DEF SessionBooks, HeldIn
<1> QED
  BY <1>1, <1>5, <1>6 DEF PrefetchCount, BufferSize

(* Copies of a malformed message beyond its publications are paid for.      *)
MalformedPaid ==
  \A m \in Malformed :
    deadLetters[m] + ready[m] + unacked[m] + HandForeseen(m)
      <= accepted[m] + faults + HandOwed(m)

LEMMA SessionKeepsMalformedPaid ==
  ASSUME SessionTypeOK, SessionShape, ConsumerShape, WorkerShape, MalformedPaid,
         SessionNext
  PROVE  MalformedPaid'
<1> SUFFICES ASSUME NEW m \in Malformed
             PROVE  deadLetters'[m] + ready'[m] + unacked'[m] + HandForeseen(m)'
                      <= accepted'[m] + faults' + HandOwed(m)'
  BY DEF MalformedPaid
<1>1. m \in Message
  BY InboundAssumption, MalformedAssumption
<1>2. /\ ready[m] \in Nat /\ unacked[m] \in Nat /\ accepted[m] \in Nat
      /\ ready'[m] \in Nat /\ unacked'[m] \in Nat /\ accepted'[m] \in Nat
      /\ accepted[m] + ready'[m] + unacked'[m] <= accepted'[m] + ready[m] + unacked[m]
  BY <1>1, SessionQueues
<1>3. /\ faults \in Nat /\ deadLetters[m] \in Nat /\ faults' \in Nat
      /\ deadLetters'[m] \in Nat
      /\ HandOwed(m) \in {0, 1} /\ HandOwed(m)' \in {0, 1}
      /\ HandForeseen(m) \in {0, 1} /\ HandForeseen(m)' \in {0, 1}
  BY <1>1, SessionTypes, BoundsAssumption DEF SessionTypeOK, Counts, HandOwed, HandForeseen
<1> DEFINE acked == receiving = "ack" /\ receiving' = "idle" /\ hand[1].msg = m
<1>4. deadLetters'[m] + faults + HandOwed(m) + HandForeseen(m)'
        <= deadLetters[m] + faults' + HandOwed(m)' + HandForeseen(m)
           + IF acked THEN 1 ELSE 0
  BY <1>1, SessionPaysMalformed
<1>5. deadLetters[m] + ready[m] + unacked[m] + HandForeseen(m)
        <= accepted[m] + faults + HandOwed(m)
  BY DEF MalformedPaid
<1>6. CASE acked
  <2>1. AckMalformed
    BY <1>6 DEF SessionNext, ConsumerTask, WorkerTask, Supervisor, Failures,
         Publish, Receive, Put, PublishMalformed, AckMalformedRaises, Collect,
         BatchTimeout, RequeueNext, RequeueDone, RequeueFails, CancelDone,
         StartDraining, DrainBuffer, Disconnect, Connect, EndProcessState,
         Shutdown, Crash, ChannelReset, PublishMalformedFails, AbortSession,
         ConsumerShape, consumerVars
  <2>2. ready' = ready /\ accepted' = accepted /\ unacked'[m] = unacked[m] - 1
    BY <1>1, <1>6, <2>1 DEF AckMalformed, Ack, SessionTypeOK, Counts
  <2>3. deadLetters'[m] + faults + HandOwed(m) + HandForeseen(m)'
          <= deadLetters[m] + faults' + HandOwed(m)' + HandForeseen(m) + 1
    BY <1>4, <1>6
  <2> HIDE DEF acked
  <2> QED
    BY <1>2, <1>3, <1>5, <2>2, <2>3
<1>7. CASE ~ acked
  <2>1. deadLetters'[m] + faults + HandOwed(m) + HandForeseen(m)'
          <= deadLetters[m] + faults' + HandOwed(m)' + HandForeseen(m)
    <3> HIDE DEF acked
    <3> QED
      BY <1>3, <1>4, <1>7
  <2> HIDE DEF acked
  <2> QED
    BY <1>2, <1>3, <1>5, <2>1
<1> QED
  BY <1>6, <1>7

LEMMA StageKeepsMalformedPaid ==
  ASSUME SessionTypeOK, SessionTypeOK', SessionShape, ConsumerShape, WorkerShape,
         SessionBooks, StageMove, MalformedPaid, UNCHANGED ready, faults <= faults',
         \A m \in Malformed : /\ deadLetters'[m] = deadLetters[m]
                              /\ unacked'[m] <= unacked[m]
  PROVE  MalformedPaid'
<1>1. /\ StaleHeld' => StaleHeld
      /\ UNCHANGED << accepted, session, receiving, hand >>
  BY StageKeepsBooks DEF StageMove
<1> SUFFICES ASSUME NEW m \in Malformed
             PROVE  deadLetters'[m] + ready'[m] + unacked'[m] + HandForeseen(m)'
                      <= accepted'[m] + faults' + HandOwed(m)'
  BY DEF MalformedPaid
<1>2. /\ ready[m] \in Nat /\ unacked[m] \in Nat /\ accepted[m] \in Nat
      /\ unacked'[m] \in Nat /\ faults \in Nat /\ faults' \in Nat
      /\ deadLetters[m] \in Nat
  BY InboundAssumption, MalformedAssumption, BoundsAssumption DEF SessionTypeOK, Counts
<1>3. HandOwed(m)' = HandOwed(m) /\ HandOwed(m) \in {0, 1}
  BY <1>1 DEF HandOwed, HandAtAck
<1>4. HandForeseen(m)' <= HandForeseen(m) /\ HandForeseen(m) \in {0, 1}
      /\ HandForeseen(m)' \in {0, 1}
  BY <1>1 DEF HandForeseen, HandAtAck
<1>5. deadLetters[m] + ready[m] + unacked[m] + HandForeseen(m)
        <= accepted[m] + faults + HandOwed(m)
  BY DEF MalformedPaid
<1>6. deadLetters'[m] = deadLetters[m] /\ unacked'[m] <= unacked[m] /\ ready'[m] = ready[m]
      /\ accepted'[m] = accepted[m]
  BY <1>1
<1> QED
  BY <1>2, <1>3, <1>4, <1>5, <1>6

-----------------------------------------------------------------------------
(* A publication counts up, and nothing else adds a message to what the     *)
(* broker owes.                                                             *)
LEMMA SessionOpens ==
  ASSUME SessionTypeOK, SessionShape, SessionNext, NEW m \in Message
  PROVE  /\ accepted[m] > 0 => accepted'[m] > 0
         /\ Outstanding(m)' => Outstanding(m) \/ (m \in Inbound /\ accepted'[m] > 0)
         /\ m \notin Inbound => accepted'[m] = accepted[m]
<1>1. /\ ready \in Counts /\ unacked \in Counts /\ accepted \in Counts
  BY DEF SessionTypeOK
<1> DEFINE Goal == /\ accepted[m] > 0 => accepted'[m] > 0
                   /\ Outstanding(m)' => Outstanding(m) \/ (m \in Inbound /\ accepted'[m] > 0)
                   /\ m \notin Inbound => accepted'[m] = accepted[m]
<1>2. ASSUME NEW d \in Inbound, Publish(d) PROVE Goal
  BY <1>1, <1>2, InboundAssumption DEF Publish, Enqueue, Counts, Outstanding
<1>3. CASE UNCHANGED << brokerVars, accepted >>
  BY <1>1, <1>3 DEF brokerVars, Outstanding
<1>4. CASE /\ UNCHANGED << deadLetters, accepted >>
           /\ RequeueUnacked \/ \E d \in Message : Deliver(d) \/ Requeue(d)
  BY <1>1, <1>4 DEF RequeueUnacked, Deliver, Requeue, Counts, Outstanding
<1>5. CASE UNCHANGED << ready, unacked, accepted >>
  BY <1>1, <1>5 DEF Outstanding
<1>6. CASE receiving = "ack" /\ Ack(hand[1].msg) /\ UNCHANGED << ready, accepted >>
  BY <1>1, <1>6 DEF Ack, Counts, Outstanding
<1> QED
  BY <1>2, <1>3, <1>4, <1>5, <1>6, SessionBroker

(* What the tasks hold comes from what the broker owed.                     *)
AllFrom(A, s) == \A i \in 1 .. Len(s) : s[i].msg \in A

HeldFrom(A) == AllFrom(A, hand) /\ AllFrom(A, buffer) /\ AllFrom(A, batch)

LEMMA SessionKeepsOrigins ==
  ASSUME SessionTypeOK, SessionShape, SessionNext, NEW A, HeldFrom(A),
         \A m \in Message : Outstanding(m) => m \in A
  PROVE  AllFrom(A, hand') /\ AllFrom(A, buffer') /\ AllFrom(A, batch')
<1>1. /\ hand \in Seq(Delivery) /\ buffer \in Seq(Delivery)
      /\ batch \in Seq(Delivery)
  BY DEF SessionTypeOK
<1>2. /\ \A i \in 1 .. Len(hand) : hand[i].msg \in A
      /\ \A i \in 1 .. Len(buffer) : buffer[i].msg \in A
      /\ \A i \in 1 .. Len(batch) : batch[i].msg \in A
  BY DEF HeldFrom, AllFrom
<1>3. \A i \in 1 .. Len(hand') : hand'[i].msg \in A
  <2>1. CASE hand' \in {hand, << >>, Invalidated(hand)}
    BY <1>1, <1>2, <2>1, OriginsKept
  <2>2. ASSUME NEW m \in Message, Deliver(m), hand' = << Delivered(m) >>
        PROVE  \A i \in 1 .. Len(hand') : hand'[i].msg \in A
    <3>1. Outstanding(m)
      BY <2>2 DEF Deliver, Outstanding
    <3>2. m \in A
      BY <3>1
    <3> QED
      BY <2>2, <3>2 DEF Delivered
  <2> QED
    BY <2>1, <2>2, SessionMoves
<1>4. \A i \in 1 .. Len(buffer') : buffer'[i].msg \in A
  <2>1. \/ buffer' \in {buffer, << >>, Invalidated(buffer), buffer \o hand}
        \/ buffer # << >> /\ buffer' = Tail(buffer)
    BY SessionMoves
  <2> QED
    BY <1>1, <1>2, <2>1, OriginsKept
<1>5. \A i \in 1 .. Len(batch') : batch'[i].msg \in A
  <2>1. \/ batch' \in {batch, << >>, Invalidated(batch)}
        \/ buffer # << >> /\ batch' = Append(batch, Head(buffer))
        \/ pos \in 1 .. Len(batch) /\ batch' = [batch EXCEPT ![pos] = AsDone(@)]
    BY SessionMoves
  <2> QED
    BY <1>1, <1>2, <2>1, OriginsKept
<1> QED
  BY <1>3, <1>4, <1>5 DEF AllFrom

LEMMA StageKeepsOrigins ==
  ASSUME SessionTypeOK, WorkerShape, StageMove, NEW A, HeldFrom(A)
  PROVE  AllFrom(A, hand') /\ AllFrom(A, buffer') /\ AllFrom(A, batch')
<1>1. /\ UNCHANGED << hand, buffer >> /\ batch \in Seq(Delivery)
      /\ \A i \in 1 .. Len(batch) : batch[i].msg \in A
  BY DEF StageMove, SessionTypeOK, HeldFrom, AllFrom
<1>2. \/ batch' \in {batch, << >>}
      \/ pos \in 1 .. Len(batch) /\ batch' = [batch EXCEPT ![pos] = AsDone(@)]
  BY DEF StageMove, GiveUp, StartBatchLoop, SettleCurrent, NextInBatch, WorkerShape
<1>3. \A i \in 1 .. Len(batch') : batch'[i].msg \in A
  BY <1>1, <1>2, OriginsKept
<1> QED
  BY <1>1, <1>3 DEF HeldFrom, AllFrom
=============================================================================
