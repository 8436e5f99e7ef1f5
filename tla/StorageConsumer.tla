--------------------------- MODULE StorageConsumer ---------------------------
(***************************************************************************)
(* storage-service: scored posts from the queue into the posts table.  A   *)
(* message stands for the row it inserts: the unique key (platform, id,    *)
(* symbol) with ON CONFLICT DO NOTHING makes the table a set of messages.  *)
(***************************************************************************)
EXTENDS ConsumerSession

CONSTANT Poison   (* well-formed posts PostgreSQL refuses for good          *)

ASSUME PoisonAssumption == Poison \subseteq Inbound \ Malformed

VARIABLE posts    (* keys the posts table took; retention deletes expired   *)
                  (* rows later, see Retention                              *)

vars == << sessionVars, posts >>

Init == SessionInit /\ posts = {}

BatchMessages == { batch[i].msg : i \in DOMAIN batch }

(* insert_scored_batch_async commits the whole batch in one transaction.    *)
InsertBatch ==
  /\ working = "flush"
  /\ BatchMessages \cap Poison = {}
  /\ posts' = posts \cup BatchMessages
  /\ StartBatchLoop("ack")
  /\ UNCHANGED << brokerVars, accepted, session, consumerVars, buffer, faults >>

(* Mutant: a refused batch is requeued as a whole.                          *)
InsertBatchRefusedRequeues ==
  /\ working = "flush"
  /\ BatchMessages \cap Poison # {}
  /\ GiveUp
  /\ UNCHANGED << brokerVars, accepted, session, consumerVars, buffer, faults,
                  posts >>

(* DataError or IntegrityError: the transaction rolled back, one post at a  *)
(* time from here (_persist_scored_individually).                           *)
InsertBatchRefused ==
  /\ working = "flush"
  /\ BatchMessages \cap Poison # {}
  /\ StartBatchLoop("isolate")
  /\ UNCHANGED << brokerVars, accepted, session, consumerVars, buffer, faults,
                  posts >>

(* Mutant: the error is logged and the batch acknowledged all the same.     *)
InsertBatchFailsAcks ==
  /\ working = "flush"
  /\ Fault
  /\ UNCHANGED posts
  /\ StartBatchLoop("ack")
  /\ UNCHANGED << brokerVars, accepted, session, consumerVars, buffer >>

(* Any other error, such as a lost connection: rolled back, or committed    *)
(* with the confirmation lost.                                              *)
InsertBatchFails ==
  /\ working = "flush"
  /\ Fault
  /\ \/ UNCHANGED posts
     \/ BatchMessages \cap Poison = {} /\ posts' = posts \cup BatchMessages
  /\ GiveUp
  /\ UNCHANGED << brokerVars, accepted, session, consumerVars, buffer >>

AckInserted ==
  /\ working = "ack"
  /\ SettleCurrent("ack")
  /\ UNCHANGED << ready, deadLetters, accepted, session, consumerVars, buffer,
                  faults, posts >>

InsertOne ==
  /\ working = "isolate" /\ Current.msg \notin Poison
  /\ posts'   = posts \cup {Current.msg}
  /\ working' = "ackOne"
  /\ UNCHANGED << brokerVars, accepted, session, consumerVars, buffer, batch,
                  pos, faults >>

(* Mutant: every post of a refused batch is dead-lettered.                  *)
DeadLetterWholeBatch ==
  /\ working = "isolate"
  /\ DeadLetter(Current.msg)
  /\ working' = "ackOne"
  /\ UNCHANGED << ready, unacked, accepted, session, consumerVars, buffer,
                  batch, pos, faults, posts >>

(* Mutant: the original is returned instead of acknowledged after its copy. *)
DeadLetterPoisonRequeues ==
  /\ working = "isolate" /\ Current.msg \in Poison
  /\ DeadLetter(Current.msg)
  /\ GiveUp
  /\ UNCHANGED << ready, unacked, accepted, session, consumerVars, buffer,
                  faults, posts >>

(* The post alone is refused, and its dead-letter copy confirmed.           *)
DeadLetterPoison ==
  /\ working = "isolate" /\ Current.msg \in Poison
  /\ DeadLetter(Current.msg)
  /\ working' = "ackOne"
  /\ UNCHANGED << ready, unacked, accepted, session, consumerVars, buffer,
                  batch, pos, faults, posts >>

(* A connection error on the single insert, or an unconfirmed dead-letter   *)
(* copy: either may have taken effect.                                      *)
IsolateFails ==
  /\ working = "isolate"
  /\ Fault
  /\ \/ UNCHANGED << posts, deadLetters >>
     \/ Current.msg \notin Poison /\ posts' = posts \cup {Current.msg}
                                  /\ UNCHANGED deadLetters
     \/ Current.msg \in Poison /\ DeadLetter(Current.msg) /\ UNCHANGED posts
  /\ GiveUp
  /\ UNCHANGED << ready, unacked, accepted, session, consumerVars, buffer >>

AckIsolated ==
  /\ working = "ackOne"
  /\ SettleCurrent("isolate")
  /\ UNCHANGED << ready, deadLetters, accepted, session, consumerVars, buffer,
                  faults, posts >>

AckRaises ==
  /\ working \in {"ack", "ackOne"}
  /\ Current.state = "stale"
  /\ GiveUp
  /\ UNCHANGED << brokerVars, accepted, session, consumerVars, buffer, faults,
                  posts >>

Persist ==
  \/ InsertBatch \/ InsertBatchRefused
  \/ AckInserted \/ InsertOne \/ DeadLetterPoison \/ AckIsolated \/ AckRaises

Next ==
  \/ SessionNext /\ UNCHANGED posts
  \/ Persist \/ InsertBatchFails \/ IsolateFails

(* asyncio runs a task that can run; main() reconnects after every failure. *)
(* Nothing obliges the producers to publish, or anything to fail.           *)
Fairness ==
  /\ WF_vars(ConsumerTask /\ UNCHANGED posts)
  /\ WF_vars((WorkerTask /\ UNCHANGED posts) \/ Persist)
  /\ WF_vars(Supervisor /\ UNCHANGED posts)

SafetySpec == Init /\ [][Next]_vars
Spec == SafetySpec /\ Fairness

-----------------------------------------------------------------------------
(* The variables keep their types, those of the session included.           *)
TypeOK ==
  /\ SessionTypeOK
  /\ working \in {"collect", "flush", "ack", "isolate", "ackOne", "requeue",
                  "cancelled", "stopped"}
  /\ posts \subseteq Message

Settled(m) == m \in posts \/ deadLetters[m] > 0

(* No post is lost: every message the sentiment stage ever published is     *)
(* still owed by the broker, or in the posts table, or in the dead-letter   *)
(* queue, across failed inserts, channel resets, shutdowns and crashes.     *)
NoMessageLost == \A m \in Message : accepted[m] > 0 => Outstanding(m) \/ Settled(m)

(* Only a malformed message or one PostgreSQL refuses for good is ever      *)
(* dead-lettered; a database outage or a poison neighbour never sends a     *)
(* valid post there.                                                        *)
OnlyUnstorableDeadLettered ==
  \A m \in Message : deadLetters[m] > 0 => m \in Malformed \cup Poison

(* A message goes back to the queue only after an infrastructure failure: a *)
(* poison or malformed message never makes its neighbours be redelivered.   *)
RequeuedOnlyAfterFailure ==
  [][ (\E m \in Message : ready'[m] > ready[m] /\ accepted'[m] = accepted[m])
        => faults' > 0 ]_vars

(* A message has more dead-letter copies than it was published only as      *)
(* often as a failure struck between the copy and the acknowledgement.      *)
DeadLetterCopiesBounded ==
  \A m \in Message : deadLetters[m] <= accepted[m] + faults

(* With prefetch at the capacity of the buffer, queue.put never blocks the  *)
(* consumer task while the channel is the one that delivered the messages.  *)
PutNeverBlocks ==
  receiving = "put" /\ Len(buffer) >= BufferSize
    => \E i \in DOMAIN (hand \o buffer) : (hand \o buffer)[i].state = "stale"

(* The stage keeps books: deliveries are where the broker believes them to  *)
(* be, surplus dead-letter copies are paid for by failures, and the prefetch *)
(* window keeps the consumer task from blocking on its buffer.              *)
DeliveriesBounded ==
  /\ DeliveriesAccountedFor
  /\ DeadLetterCopiesBounded
  /\ PutNeverBlocks

(* When failures stop, the input queue is emptied for good, unless a        *)
(* swallowed cancellation left the session wedged.                          *)
QueueDrained ==
  <>[]((\A m \in Message : ~ Outstanding(m)) \/ Wedged)

(* runtime.py says a stopped task fails the session and every sibling is    *)
(* awaited: a failing session comes to its end.                             *)
FailingSessionEnds == session = "failing" ~> session # "failing"

(* The stage implements the settlement promise.                             *)
Promise == INSTANCE Settlement WITH
  Rejectable <- Malformed \cup Poison,
  accepted   <- { m \in Message : accepted[m] > 0 },
  open       <- { m \in Message : Outstanding(m) },
  stored     <- posts,
  rejected   <- { m \in Message : deadLetters[m] > 0 }

ImplementsSettlement == Promise!Spec
=============================================================================
