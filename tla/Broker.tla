------------------------------- MODULE Broker -------------------------------
(***************************************************************************)
(* The durable RabbitMQ input queue of one pipeline stage, as its consumer *)
(* uses it through aio_pika: external to the repository.  Copies of the    *)
(* same message are counted, never ordered: redelivery, requeueing and     *)
(* several publishers make the order of a queue of no use to a consumer,   *)
(* and no consumer of this system relies on it.                            *)
(***************************************************************************)
EXTENDS Naturals

CONSTANT Message

VARIABLES
  ready,        (* copies waiting in the input queue, per message           *)
  unacked,      (* copies delivered on the open channel and not settled     *)
  deadLetters   (* copies in the ".dead-letter" queue                       *)

brokerVars == << ready, unacked, deadLetters >>

Counts == [Message -> Nat]

BrokerInit ==
  /\ ready       = [m \in Message |-> 0]
  /\ unacked     = [m \in Message |-> 0]
  /\ deadLetters = [m \in Message |-> 0]

(* The deliveries nobody settled yet, numbered per message: prefetch_count  *)
(* limits how many there are.                                               *)
Unsettled == UNION { {m} \X (1 .. unacked[m]) : m \in Message }

(* A copy of m the broker still owes to a consumer.                         *)
Outstanding(m) == ready[m] > 0 \/ unacked[m] > 0

Enqueue(m) == ready' = [ready EXCEPT ![m] = @ + 1]

DeadLetter(m) == deadLetters' = [deadLetters EXCEPT ![m] = @ + 1]

(* The broker hands a waiting copy to the consumer.                         *)
Deliver(m) ==
  /\ ready[m] > 0
  /\ ready'   = [ready   EXCEPT ![m] = @ - 1]
  /\ unacked' = [unacked EXCEPT ![m] = @ + 1]

(* basic.ack of a delivery of the open channel.                             *)
Ack(m) ==
  /\ unacked[m] > 0
  /\ unacked' = [unacked EXCEPT ![m] = @ - 1]

(* basic.nack(requeue=True) of a delivery of the open channel.              *)
Requeue(m) ==
  /\ unacked[m] > 0
  /\ unacked' = [unacked EXCEPT ![m] = @ - 1]
  /\ ready'   = [ready   EXCEPT ![m] = @ + 1]

(* A channel that closes gives back every delivery nobody settled.          *)
RequeueUnacked ==
  /\ ready'   = [m \in Message |-> ready[m] + unacked[m]]
  /\ unacked' = [m \in Message |-> 0]
=============================================================================
