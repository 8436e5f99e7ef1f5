-------------------------- MODULE SentimentConsumer --------------------------
(***************************************************************************)
(* sentiment-service: clean posts in, scored posts out.  A message is a    *)
(* post with the value of its x-processing-attempt header, which only the  *)
(* retry policy of shared/messaging.py ever sets.                          *)
(***************************************************************************)
EXTENDS ConsumerSession

CONSTANTS
  Post,
  Unscorable,     (* posts the model raises on, with the batch they are in  *)
  InvalidResult   (* posts whose result fails the ScoredPost schema         *)

First(p)   == << p, 0 >>
Retried(p) == << p, 1 >>
PostOf(m)  == m[1]
Attempt(m) == m[2]

ASSUME MessageAssumption ==
  /\ Message = Post \X {0, 1}
  /\ Inbound = Post \X {0}
ASSUME PostAssumption ==
  Unscorable \subseteq Post /\ InvalidResult \subseteq Post \ Unscorable

VARIABLES
  scored,   (* copies in the scored-posts queue, per post                   *)
  failed    (* history: failed processing attempts, per post                *)

vars == << sessionVars, scored, failed >>
stageVars == << scored, failed >>

Init ==
  /\ SessionInit
  /\ scored = [p \in Post |-> 0]
  /\ failed = [p \in Post |-> 0]

(* A failed attempt of the messages of the batch at the indices I.          *)
CountFailures(I) ==
  failed' = [p \in Post |->
    failed[p] + Cardinality({ j \in I : PostOf(batch[j].msg) = p })]

Infer ==
  /\ working = "flush"
  /\ \A i \in DOMAIN batch : PostOf(batch[i].msg) \notin Unscorable
  /\ StartBatchLoop("score")
  /\ UNCHANGED << brokerVars, accepted, session, consumerVars, buffer, faults,
                  stageVars >>

(* The model raises or returns the wrong number of results: every message   *)
(* of the batch has failed.                                                 *)
InferFails ==
  /\ working = "flush"
  /\ CountFailures(DOMAIN batch)
  /\ StartBatchLoop("retryAll")
  /\ UNCHANGED << brokerVars, accepted, session, consumerVars, buffer, scored >>

(* Mutant: a batch the model raises on is returned to the queue every time. *)
InferRefusedRequeues ==
  /\ working = "flush"
  /\ \E i \in DOMAIN batch : PostOf(batch[i].msg) \in Unscorable
  /\ GiveUp
  /\ UNCHANGED << brokerVars, accepted, session, consumerVars, buffer, faults,
                  stageVars >>

InferRefused ==
  /\ \E i \in DOMAIN batch : PostOf(batch[i].msg) \in Unscorable
  /\ InferFails
  /\ UNCHANGED faults

InferBreaks == Fault /\ InferFails

(* Mutant: the input of a published post is requeued, not acknowledged.     *)
PublishScoredRequeues ==
  /\ working = "score" /\ PostOf(Current.msg) \notin InvalidResult
  /\ scored' = [scored EXCEPT ![PostOf(Current.msg)] = @ + 1]
  /\ GiveUp
  /\ UNCHANGED << brokerVars, accepted, session, consumerVars, buffer, faults,
                  failed >>

(* The scored post is confirmed by the broker.                             *)
PublishScored ==
  /\ working = "score" /\ PostOf(Current.msg) \notin InvalidResult
  /\ scored'  = [scored EXCEPT ![PostOf(Current.msg)] = @ + 1]
  /\ working' = "ackScore"
  /\ UNCHANGED << brokerVars, accepted, session, consumerVars, buffer, batch,
                  pos, faults, failed >>

(* The publish raises; the broker may have taken the scored post all the    *)
(* same, and the input is retried.                                          *)
PublishScoredFails ==
  /\ working = "score" /\ PostOf(Current.msg) \notin InvalidResult
  /\ Fault
  /\ \/ UNCHANGED scored
     \/ scored' = [scored EXCEPT ![PostOf(Current.msg)] = @ + 1]
  /\ CountFailures({pos})
  /\ working' = "retryOne"
  /\ UNCHANGED << brokerVars, accepted, session, consumerVars, buffer, batch,
                  pos >>

DeadLetterInvalid ==
  /\ working = "score" /\ PostOf(Current.msg) \in InvalidResult
  /\ DeadLetter(Current.msg)
  /\ working' = "ackScore"
  /\ UNCHANGED << ready, unacked, accepted, session, consumerVars, buffer,
                  batch, pos, faults, stageVars >>

(* Mutant: the first failure already dead-letters.                          *)
PublishNoRetry(m) ==
  IF Attempt(m) >= 0
    THEN DeadLetter(m) /\ UNCHANGED ready
    ELSE Enqueue(Retried(PostOf(m))) /\ UNCHANGED deadLetters

(* retry_or_dead_letter publishes the copy first, a first failure back to   *)
(* the input queue and a second one to the dead-letter queue.               *)
PublishRetryCopy(m) ==
  IF Attempt(m) >= 1
    THEN DeadLetter(m) /\ UNCHANGED ready
    ELSE Enqueue(Retried(PostOf(m))) /\ UNCHANGED deadLetters

(* Mutant: the original is acknowledged before its copy is confirmed, and a *)
(* failed confirmation is ignored.                                          *)
RetryCopyIgnored ==
  /\ working \in {"retryAll", "retryOne"}
  /\ UNCHANGED << ready, deadLetters >>
  /\ working' = IF working = "retryAll" THEN "ackRetry" ELSE "ackScore"
  /\ UNCHANGED << unacked, accepted, session, consumerVars, buffer, batch, pos,
                  faults, stageVars >>

RetryOrDeadLetter ==
  /\ working \in {"retryAll", "retryOne"}
  /\ PublishRetryCopy(Current.msg)
  /\ working' = IF working = "retryAll" THEN "ackRetry" ELSE "ackScore"
  /\ UNCHANGED << unacked, accepted, session, consumerVars, buffer, batch, pos,
                  faults, stageVars >>

(* Mutant: an exception of the copy is swallowed before the acknowledgement.*)
CopyFailsAcks ==
  /\ working \in {"retryAll", "retryOne"}
  /\ Fault
  /\ working' = IF working = "retryAll" THEN "ackRetry" ELSE "ackScore"
  /\ UNCHANGED << brokerVars, accepted, session, consumerVars, buffer, batch,
                  pos, stageVars >>

(* An unconfirmed copy, for retry or dead letter, ends process_batch: the   *)
(* worker returns what it has not settled.                                  *)
CopyFails ==
  /\ working \in {"retryAll", "retryOne", "score"}
  /\ working = "score" => PostOf(Current.msg) \in InvalidResult
  /\ Fault
  /\ \/ UNCHANGED << ready, deadLetters >>
     \/ working # "score" /\ PublishRetryCopy(Current.msg)
     \/ working = "score" /\ DeadLetter(Current.msg) /\ UNCHANGED ready
  /\ GiveUp
  /\ UNCHANGED << unacked, accepted, session, consumerVars, buffer, stageVars >>

AckScored ==
  /\ working = "ackScore"
  /\ SettleCurrent("score")
  /\ UNCHANGED << ready, deadLetters, accepted, session, consumerVars, buffer,
                  faults, stageVars >>

(* Mutant: the loop over a failed batch forgets the acknowledgement.        *)
AckRetriedForgotten ==
  /\ working = "ackRetry"
  /\ NextInBatch("retryAll")
  /\ UNCHANGED << brokerVars, accepted, session, consumerVars, buffer, faults,
                  stageVars >>

AckRetried ==
  /\ working = "ackRetry"
  /\ SettleCurrent("retryAll")
  /\ UNCHANGED << ready, deadLetters, accepted, session, consumerVars, buffer,
                  faults, stageVars >>

AckRaises ==
  /\ working \in {"ackScore", "ackRetry"}
  /\ Current.state = "stale"
  /\ GiveUp
  /\ UNCHANGED << brokerVars, accepted, session, consumerVars, buffer, faults,
                  stageVars >>

ProcessBatch ==
  \/ Infer \/ InferRefused \/ PublishScored \/ DeadLetterInvalid
  \/ RetryOrDeadLetter \/ AckScored \/ AckRetried \/ AckRaises

Next ==
  \/ SessionNext /\ UNCHANGED stageVars
  \/ ProcessBatch
  \/ InferBreaks \/ PublishScoredFails \/ CopyFails

(* As for storage-service: the event loop runs what can run.                *)
Fairness ==
  /\ WF_vars(ConsumerTask /\ UNCHANGED stageVars)
  /\ WF_vars((WorkerTask /\ UNCHANGED stageVars) \/ ProcessBatch)
  /\ WF_vars(Supervisor /\ UNCHANGED stageVars)

SafetySpec == Init /\ [][Next]_vars
Spec == SafetySpec /\ Fairness

-----------------------------------------------------------------------------
(* The variables keep their types, those of the session included.           *)
TypeOK ==
  /\ SessionTypeOK
  /\ working \in {"collect", "flush", "score", "ackScore", "retryAll",
                  "retryOne", "ackRetry", "requeue", "cancelled", "stopped"}
  /\ scored \in [Post -> Nat] /\ failed \in [Post -> Nat]

Accepted(p)     == accepted[First(p)] > 0
Open(p)         == Outstanding(First(p)) \/ Outstanding(Retried(p))
DeadLettered(p) == deadLetters[First(p)] + deadLetters[Retried(p)] > 0

(* No post is lost between the queues: it is owed by the broker, scored, or *)
(* dead-lettered, also while its retry copy replaces the original.          *)
NoPostLost ==
  \A p \in Post : Accepted(p) => Open(p) \/ scored[p] > 0 \/ DeadLettered(p)

(* A well-formed post with a valid result is dead-lettered only after two   *)
(* failed attempts: shutdowns, crashes and channel resets return a delivery *)
(* without counting against it.                                             *)
DeadLetterNeedsTwoFailures ==
  \A p \in Post :
    DeadLettered(p) => \/ First(p) \in Malformed \/ p \in InvalidResult
                       \/ failed[p] >= 2

(* Every surplus copy of a scored post is paid for by a failure between its *)
(* publication and the acknowledgement of its input.                        *)
DuplicatesBounded == \A p \in Post : scored[p] <= accepted[First(p)] + faults

(* Dead letters and duplicates both have a cause, and what the broker       *)
(* counts as delivered is held by the stage.                                *)
FailuresPaidFor ==
  /\ DeadLetterNeedsTwoFailures
  /\ DuplicatesBounded
  /\ DeliveriesAccountedFor

(* When failures stop, every post leaves the queue, the unscorable ones by  *)
(* way of the dead-letter queue, unless the session is wedged.              *)
QueueDrained == <>[]((\A m \in Message : ~ Outstanding(m)) \/ Wedged)

(* The stage implements the settlement promise, post by post.               *)
Promise == INSTANCE Settlement WITH
  Message    <- Post,
  Rejectable <- Post,
  accepted   <- { p \in Post : Accepted(p) },
  open       <- { p \in Post : Open(p) },
  stored     <- { p \in Post : scored[p] > 0 },
  rejected   <- { p \in Post : DeadLettered(p) }

ImplementsSettlement == Promise!Spec
=============================================================================
