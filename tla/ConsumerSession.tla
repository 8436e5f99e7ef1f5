--------------------------- MODULE ConsumerSession ---------------------------
(***************************************************************************)
(* One RabbitMQ session of a batching stage.  storage-service and          *)
(* sentiment-service share this skeleton: a consumer task validates        *)
(* deliveries and buffers them, a worker task collects a batch and hands   *)
(* it to the stage, a supervisor ends the session when either task stops,  *)
(* returns what is buffered and lets main() reconnect.  What a stage does  *)
(* with a full batch is left to the module that extends this one; it       *)
(* starts when working = "flush" and uses Settle, GiveUp and the           *)
(* dead-letter actions below.                                              *)
(*                                                                         *)
(* A delivery held by the process is "live" while the channel it came on   *)
(* is open, "stale" once that channel is gone (every disposition of it     *)
(* raises) and "done" when it was settled (message.processed).             *)
(***************************************************************************)
EXTENDS Broker, Sequences, FiniteSets, Functions

CONSTANTS
  Inbound,        (* what the previous stage may publish                    *)
  Malformed,      (* inbound messages that fail schema validation           *)
  BatchSize,      (* BATCH_SIZE                                             *)
  MaxAccepted,    (* bound: copies published to the input queue             *)
  MaxFaults       (* bound: failures, channel resets, shutdowns and crashes *)

ASSUME InboundAssumption   == Inbound \subseteq Message
ASSUME MalformedAssumption == Malformed \subseteq Inbound
ASSUME BatchSizeAssumption == BatchSize \in Nat \ {0}
ASSUME BoundsAssumption    == MaxAccepted \in Nat /\ MaxFaults \in Nat

VARIABLES
  accepted,   (* copies the previous stage published, per message           *)
  session,    (* "down", "up", "failing": tasks are being cancelled,        *)
              (* "draining": the buffer is being given back                 *)
  receiving,  (* consumer task                                              *)
  hand,       (* the delivery the consumer task works on, if any            *)
  buffer,     (* asyncio.Queue between the two tasks                        *)
  working,    (* worker task                                                *)
  batch,      (* batch_messages                                             *)
  pos,        (* index of the loop over batch the worker is in, 0 outside   *)
  faults

sessionVars == << brokerVars, accepted, session, receiving, hand, buffer,
                  working, batch, pos, faults >>
consumerVars == << receiving, hand >>
workerVars   == << working, batch, pos >>

(* Mutant: prefetch beyond what the local buffer holds.                     *)
PrefetchTooHigh == BatchSize * 4

PrefetchCount == BatchSize * 2
BufferSize    == BatchSize * 2

Delivery    == [msg : Message, state : {"live", "stale", "done"}]
Delivered(m) == [msg |-> m, state |-> "live"]
AsDone(d)   == [d EXCEPT !.state = "done"]
AsStale(d)  == IF d.state = "live" THEN [d EXCEPT !.state = "stale"] ELSE d

(* What asyncio objects survive of the deliveries of a closed channel.      *)
Invalidated(deliveries) ==
  [i \in 1 .. Len(deliveries) |-> AsStale(deliveries[i])]

Fault == faults < MaxFaults /\ faults' = faults + 1

SessionInit ==
  /\ BrokerInit
  /\ accepted  = [m \in Message |-> 0]
  /\ session   = "down"
  /\ receiving = "stopped"
  /\ hand      = << >>
  /\ buffer    = << >>
  /\ working   = "stopped"
  /\ batch     = << >>
  /\ pos       = 0
  /\ faults    = 0

(* The previous stage, or a producer, puts a copy in the input queue.       *)
Publish(m) ==
  /\ accepted' = [accepted EXCEPT ![m] = @ + 1]
  /\ SumFunction(accepted) < MaxAccepted
  /\ Enqueue(m)
  /\ UNCHANGED << unacked, deadLetters, session, consumerVars, buffer,
                  workerVars, faults >>

(***************************************************************************)
(* Supervisor: what happens when a task ends or shutdown is requested.     *)
(***************************************************************************)

(* CancelledError reaches the worker, whose handler requeues its batch.  In *)
(* the error handler of sentiment's worker it does not: a clause of the same *)
(* the try statement catches nothing, and the batch stays unacknowledged.   *)
CancelWorker ==
  /\ working' \in CASE working = "stopped" -> {"stopped"}
                    [] working = "requeue" -> {"cancelled", "stopped"}
                    [] OTHER               -> {"cancelled"}
  /\ pos'     = 1
  /\ UNCHANGED << batch, buffer >>

(* asyncio.wait_for of Python 3.11 returns the item and drops the           *)
(* cancellation when queue.get() has just completed.                        *)
CancelSwallowed ==
  /\ working = "collect" /\ batch # << >> /\ buffer # << >>
  /\ batch'   = Append(batch, Head(buffer))
  /\ buffer'  = Tail(buffer)
  /\ working' = IF Len(batch') >= BatchSize THEN "flush" ELSE "collect"
  /\ pos'     = 0

(* The TaskGroup cancels every sibling; the delivery in hand stays unacked. *)
AbortSession ==
  /\ session'   = "failing"
  /\ receiving' = "stopped"
  /\ UNCHANGED hand
  /\ CancelWorker \/ CancelSwallowed

(* SIGTERM cancels main() and with it the session.                          *)
Shutdown ==
  /\ session = "up"
  /\ Fault
  /\ AbortSession
  /\ UNCHANGED << brokerVars, accepted >>

(* Both tasks are gone: run_consumer_session empties the buffer.            *)
StartDraining ==
  /\ session = "failing" /\ working = "stopped"
  /\ session' = "draining"
  /\ UNCHANGED << brokerVars, accepted, consumerVars, buffer, workerVars,
                  faults >>

DrainBuffer ==
  /\ session = "draining" /\ buffer # << >>
  /\ buffer' = Tail(buffer)
  /\ IF Head(buffer).state = "live"
       THEN Requeue(Head(buffer).msg)
       ELSE UNCHANGED << ready, unacked >>
  /\ UNCHANGED << deadLetters, accepted, session, consumerVars, workerVars,
                  faults >>

EndProcessState ==
  /\ session'   = "down"
  /\ receiving' = "stopped"
  /\ hand'      = << >>
  /\ buffer'    = << >>
  /\ working'   = "stopped"
  /\ batch'     = << >>
  /\ pos'       = 0

(* Leaving `async with connection` closes the channel.                      *)
Disconnect ==
  /\ session = "draining" /\ buffer = << >>
  /\ RequeueUnacked
  /\ EndProcessState
  /\ UNCHANGED << deadLetters, accepted, faults >>

(* main() connects again after its pause, with a fresh buffer.              *)
Connect ==
  /\ session = "down"
  /\ session'   = "up"
  /\ receiving' = "idle"
  /\ working'   = "collect"
  /\ UNCHANGED << brokerVars, accepted, hand, buffer, batch, pos, faults >>

(* The process is killed: the broker takes back what was not acknowledged.  *)
Crash ==
  /\ session # "down"
  /\ Fault
  /\ RequeueUnacked
  /\ EndProcessState
  /\ UNCHANGED << deadLetters, accepted >>

(* The robust connection reconnects by itself: the tasks go on with         *)
(* deliveries that can no longer be settled.                                *)
ChannelReset ==
  /\ session # "down"
  /\ Fault
  /\ RequeueUnacked
  /\ hand'   = Invalidated(hand)
  /\ buffer' = Invalidated(buffer)
  /\ batch'  = Invalidated(batch)
  /\ UNCHANGED << deadLetters, accepted, session, receiving, working, pos >>

(***************************************************************************)
(* Consumer task: consume_input_messages.                                  *)
(***************************************************************************)
(* Mutant: a malformed message is acknowledged without a dead-letter copy.  *)
ReceiveDropsMalformed(m) ==
  /\ session = "up" /\ receiving = "idle"
  /\ Cardinality(Unsettled) < PrefetchCount
  /\ Deliver(m)
  /\ hand'      = << Delivered(m) >>
  /\ receiving' = IF m \in Malformed THEN "ack" ELSE "put"
  /\ UNCHANGED << deadLetters, accepted, session, buffer, workerVars, faults >>

Receive(m) ==
  /\ session = "up" /\ receiving = "idle"
  /\ Cardinality(Unsettled) < PrefetchCount
  /\ Deliver(m)
  /\ hand'      = << Delivered(m) >>
  /\ receiving' = IF m \in Malformed THEN "publish" ELSE "put"
  /\ UNCHANGED << deadLetters, accepted, session, buffer, workerVars, faults >>

(* queue.put blocks while the buffer is full.                               *)
Put ==
  /\ receiving = "put"
  /\ Len(buffer) < BufferSize
  /\ buffer'    = buffer \o hand
  /\ hand'      = << >>
  /\ receiving' = "idle"
  /\ UNCHANGED << brokerVars, accepted, session, workerVars, faults >>

(* dead_letter_message publishes the copy before it acknowledges.           *)
PublishMalformed ==
  /\ receiving = "publish"
  /\ DeadLetter(hand[1].msg)
  /\ receiving' = "ack"
  /\ UNCHANGED << ready, unacked, accepted, session, hand, buffer, workerVars,
                  faults >>

(* No confirmation came; the dead-letter queue may have the copy anyway.    *)
PublishMalformedFails ==
  /\ receiving = "publish"
  /\ Fault
  /\ UNCHANGED deadLetters \/ DeadLetter(hand[1].msg)
  /\ AbortSession
  /\ UNCHANGED << ready, unacked, accepted >>

AckMalformed ==
  /\ receiving = "ack"
  /\ hand[1].state = "live"
  /\ Ack(hand[1].msg)
  /\ hand'      = << >>
  /\ receiving' = "idle"
  /\ UNCHANGED << ready, deadLetters, accepted, session, buffer, workerVars,
                  faults >>

AckMalformedRaises ==
  /\ receiving = "ack"
  /\ hand[1].state = "stale"
  /\ AbortSession
  /\ UNCHANGED << brokerVars, accepted, faults >>

ConsumerTask ==
  \/ \E m \in Message : Receive(m)
  \/ Put \/ PublishMalformed \/ AckMalformed \/ AckMalformedRaises

(***************************************************************************)
(* Worker task: collecting a batch, and the dispositions of its messages   *)
(* (the worker's own state only; the stage adds what is left unchanged).   *)
(***************************************************************************)
(* Mutant: the flush test lets one message too many into the batch.         *)
CollectOneTooMany ==
  /\ working = "collect" /\ buffer # << >>
  /\ batch'   = Append(batch, Head(buffer))
  /\ buffer'  = Tail(buffer)
  /\ working' = IF Len(batch') > BatchSize THEN "flush" ELSE "collect"
  /\ UNCHANGED << brokerVars, accepted, session, consumerVars, pos, faults >>

Collect ==
  /\ working = "collect" /\ buffer # << >>
  /\ batch'   = Append(batch, Head(buffer))
  /\ buffer'  = Tail(buffer)
  /\ working' = IF Len(batch') >= BatchSize THEN "flush" ELSE "collect"
  /\ UNCHANGED << brokerVars, accepted, session, consumerVars, pos, faults >>

(* Mutant: only a full batch is ever flushed.                               *)
NoBatchTimeout ==
  /\ working = "collect" /\ Len(batch) >= BatchSize
  /\ working' = "flush"
  /\ UNCHANGED << brokerVars, accepted, session, consumerVars, buffer, batch,
                  pos, faults >>

(* BATCH_TIMEOUT seconds passed since the batch was started.                *)
BatchTimeout ==
  /\ working = "collect" /\ batch # << >>
  /\ working' = "flush"
  /\ UNCHANGED << brokerVars, accepted, session, consumerVars, buffer, batch,
                  pos, faults >>

Current == batch[pos]

StartBatchLoop(step) ==
  /\ working' = step
  /\ pos'     = 1
  /\ UNCHANGED batch

(* One more message of the batch is disposed of: go on with the next one    *)
(* at `step`, or start a new batch.                                         *)
NextInBatch(step) ==
  IF pos = Len(batch)
    THEN /\ batch'   = << >>
         /\ pos'     = 0
         /\ working' = "collect"
    ELSE /\ batch'   = [batch EXCEPT ![pos] = AsDone(@)]
         /\ pos'     = pos + 1
         /\ working' = step

(* message.ack() in the loop over the batch; a stale delivery raises and    *)
(* the worker requeues what it has not settled.                             *)
SettleCurrent(step) ==
  /\ Current.state = "live"
  /\ Ack(Current.msg)
  /\ NextInBatch(step)

(* Mutant: the error handler starts a new batch without requeueing.         *)
GiveUpForgets ==
  /\ working' = "collect"
  /\ batch'   = << >>
  /\ pos'     = 0

GiveUp == StartBatchLoop("requeue")

(* requeue_unprocessed_messages: skip what is settled, go on after a        *)
(* delivery that cannot be returned.                                        *)
RequeueNext ==
  /\ working \in {"requeue", "cancelled"} /\ pos \in DOMAIN batch
  /\ IF Current.state = "live"
       THEN /\ Requeue(Current.msg)
            /\ batch' = [batch EXCEPT ![pos] = AsDone(@)]
       ELSE UNCHANGED << ready, unacked, batch >>
  /\ pos' = pos + 1
  /\ UNCHANGED << deadLetters, accepted, session, consumerVars, buffer,
                  working, faults >>

AllReturned == \A i \in DOMAIN batch : batch[i].state = "done"

RequeueDone ==
  /\ working = "requeue" /\ pos = Len(batch) + 1
  /\ AllReturned
  /\ working' = "collect"
  /\ batch'   = << >>
  /\ pos'     = 0
  /\ UNCHANGED << brokerVars, accepted, session, consumerVars, buffer, faults >>

WorkerStops ==
  /\ working' = "stopped"
  /\ batch'   = << >>
  /\ pos'     = 0

(* RequeueError ends the worker and with it the session.                    *)
RequeueFails ==
  /\ working = "requeue" /\ pos = Len(batch) + 1
  /\ ~ AllReturned
  /\ WorkerStops
  /\ session'   = "failing"
  /\ receiving' = "stopped"
  /\ UNCHANGED << brokerVars, accepted, hand, buffer, faults >>

(* The cancellation handler is done, failures or not.                       *)
CancelDone ==
  /\ working = "cancelled" /\ pos = Len(batch) + 1
  /\ WorkerStops
  /\ UNCHANGED << brokerVars, accepted, session, consumerVars, buffer, faults >>

WorkerTask ==
  \/ Collect \/ BatchTimeout
  \/ RequeueNext \/ RequeueDone \/ RequeueFails \/ CancelDone

Supervisor == StartDraining \/ DrainBuffer \/ Disconnect \/ Connect

Failures == Shutdown \/ Crash \/ ChannelReset \/ PublishMalformedFails

SessionNext ==
  \/ \E m \in Inbound : Publish(m)
  \/ ConsumerTask \/ WorkerTask \/ Supervisor \/ Failures

(* The variables keep their types; buffer, batch and the message in the     *)
(* consumer's hand stay within their bounds.                                *)
SessionTypeOK ==
  /\ ready \in Counts /\ unacked \in Counts /\ deadLetters \in Counts
  /\ accepted \in Counts
  /\ session \in {"down", "up", "failing", "draining"}
  /\ receiving \in {"idle", "put", "publish", "ack", "stopped"}
  /\ hand \in Seq(Delivery) /\ Len(hand) <= 1
  /\ buffer \in Seq(Delivery) /\ Len(buffer) <= BufferSize
  /\ batch \in Seq(Delivery) /\ Len(batch) <= BatchSize
  /\ pos \in Nat /\ faults \in 0 .. MaxFaults

(* How many of the local copies of a sequence are in D.                     *)
CountIn(s, D) == Cardinality({ i \in DOMAIN s : s[i] \in D })

(* Every unacknowledged delivery is held exactly once, live, by the tasks   *)
(* of the process: none is forgotten until the channel closes, none is      *)
(* settled twice.                                                           *)
DeliveriesAccountedFor ==
  \A m \in Message :
    unacked[m] = CountIn(hand,   {Delivered(m)}) + CountIn(buffer, {Delivered(m)})
                   + CountIn(batch, {Delivered(m)})

(* The worker swallowed its cancellation and waits for a buffer nobody      *)
(* fills any more: only a kill of the process ends this session.            *)
Wedged ==
  /\ session = "failing"
  /\ working = "collect" /\ batch = << >> /\ buffer = << >>
=============================================================================
