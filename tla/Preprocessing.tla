--------------------------- MODULE Preprocessing ---------------------------
(***************************************************************************)
(* preprocessing-service: raw posts in, clean posts out, one at a time.  A *)
(* message is a post with its x-processing-attempt header; the consumer    *)
(* holds up to PrePrefetch deliveries and works on the oldest, whose       *)
(* disposition raises once the channel it came on is gone.                 *)
(***************************************************************************)
EXTENDS Broker, Sequences, FiniteSets, Functions

CONSTANTS
  Raw,            (* posts the producers publish                            *)
  Illformed,      (* posts that fail the RawPost schema                     *)
  TooShort,       (* posts of fewer than MIN_LENGTH characters once clean   *)
  Unpredictable,  (* posts the topic model raises on                        *)
  PrePrefetch,    (* prefetch_count                                         *)
  MaxRaw,         (* bound: copies the producers publish                    *)
  MaxPreFaults    (* bound: failed calls, channel resets, shutdowns, crashes *)

ASSUME RawAssumption ==
  /\ Message = Raw \X {0, 1}
  /\ Illformed \subseteq Raw
  /\ TooShort \subseteq Raw \ Illformed
  /\ Unpredictable \subseteq Raw \ (Illformed \cup TooShort)
ASSUME PreBoundsAssumption ==
  PrePrefetch \in Nat \ {0} /\ MaxRaw \in Nat /\ MaxPreFaults \in Nat

VARIABLES
  taken,      (* copies the producers put in the input queue, per post      *)
  listening,  (* a session with the broker is open                          *)
  held,       (* deliveries of the queue iterator, the current one first    *)
  doing,      (* where process_message is with the current one              *)
  clean,      (* copies in the clean-posts queue, per post                  *)
  dropped,    (* posts found too short                                      *)
  failures,   (* history: failed processing attempts, per post              *)
  preFaults

preVars == << brokerVars, taken, listening, held, doing, clean, dropped,
              failures, preFaults >>

PreFault == preFaults < MaxPreFaults /\ preFaults' = preFaults + 1

PreInit ==
  /\ BrokerInit
  /\ taken = [p \in Raw |-> 0]
  /\ listening = FALSE /\ held = << >> /\ doing = "idle"
  /\ clean = [p \in Raw |-> 0]
  /\ dropped = {}
  /\ failures = [p \in Raw |-> 0]
  /\ preFaults = 0

Held     == Head(held).msg
HeldPost == Held[1]
HeldLive == Head(held).live

Produce(p) ==
  /\ SumFunction(taken) < MaxRaw
  /\ taken' = [taken EXCEPT ![p] = @ + 1]
  /\ Enqueue(<< p, 0 >>)
  /\ UNCHANGED << unacked, deadLetters, listening, held, doing, clean, dropped,
                  failures, preFaults >>

Listen ==
  /\ ~ listening
  /\ listening' = TRUE
  /\ UNCHANGED << brokerVars, taken, held, doing, clean, dropped, failures,
                  preFaults >>

TakeDelivery(m) ==
  /\ listening /\ Cardinality(Unsettled) < PrePrefetch
  /\ Deliver(m)
  /\ held' = Append(held, [msg |-> m, live |-> TRUE])
  /\ UNCHANGED << deadLetters, taken, listening, doing, clean, dropped,
                  failures, preFaults >>

(* Schema and length decide what happens to the next delivery.              *)
StartPost ==
  /\ doing = "idle" /\ held # << >>
  /\ doing' = CASE HeldPost \in Illformed -> "deadLetter"
                [] HeldPost \in TooShort  -> "ackShort"
                [] OTHER                  -> "predict"
  /\ dropped' = dropped \cup ({HeldPost} \cap TooShort)
  /\ UNCHANGED << brokerVars, taken, listening, held, clean, failures,
                  preFaults >>

CountFailure == failures' = [failures EXCEPT ![HeldPost] = @ + 1]

Predict ==
  /\ doing = "predict" /\ HeldPost \notin Unpredictable
  /\ doing' = "publish"
  /\ UNCHANGED << brokerVars, taken, listening, held, clean, dropped, failures,
                  preFaults >>

PredictRaises ==
  /\ doing = "predict"
  /\ IF HeldPost \in Unpredictable THEN UNCHANGED preFaults ELSE PreFault
  /\ CountFailure
  /\ doing' = "retry"
  /\ UNCHANGED << brokerVars, taken, listening, held, clean, dropped >>

PublishClean ==
  /\ doing = "publish"
  /\ clean' = [clean EXCEPT ![HeldPost] = @ + 1]
  /\ doing' = "ack"
  /\ UNCHANGED << brokerVars, taken, listening, held, dropped, failures,
                  preFaults >>

(* No confirmation: the clean post may be in its queue all the same.        *)
PublishCleanFails ==
  /\ doing = "publish" /\ PreFault
  /\ \/ UNCHANGED clean
     \/ clean' = [clean EXCEPT ![HeldPost] = @ + 1]
  /\ CountFailure
  /\ doing' = "retry"
  /\ UNCHANGED << brokerVars, taken, listening, held, dropped >>

(* Mutant: the first failed attempt already dead-letters.                   *)
CopyNever(m) == DeadLetter(m) /\ UNCHANGED ready

(* retry_or_dead_letter: back to the input queue the first time, to the     *)
(* dead-letter queue the second.                                            *)
PublishCopy(m) ==
  IF m[2] >= 1
    THEN DeadLetter(m) /\ UNCHANGED ready
    ELSE Enqueue(<< m[1], 1 >>) /\ UNCHANGED deadLetters

(* The copy an illformed post gets is always a dead letter.                 *)
CopyPost ==
  \/ doing = "deadLetter" /\ DeadLetter(Held) /\ UNCHANGED ready
  \/ doing = "retry" /\ PublishCopy(Held)

PublishCopyDone ==
  /\ CopyPost
  /\ doing' = "ack"
  /\ UNCHANGED << unacked, taken, listening, held, clean, dropped, failures,
                  preFaults >>

(* Mutant: the exception of an unconfirmed copy is caught and logged.       *)
CopyUnconfirmedLogged ==
  /\ doing \in {"deadLetter", "retry"} /\ PreFault
  /\ doing' = "ack"
  /\ UNCHANGED << brokerVars, taken, listening, held, clean, dropped, failures >>

(* The exception of an unconfirmed copy leaves process_message.             *)
CopyUnconfirmed ==
  /\ doing \in {"deadLetter", "retry"} /\ PreFault
  /\ CopyPost \/ UNCHANGED << ready, deadLetters >>
  /\ doing' = "raised"
  /\ UNCHANGED << unacked, taken, listening, held, clean, dropped, failures >>

(* What was passed on, buried, or dropped as too short is acknowledged.     *)
AckPost ==
  /\ doing \in {"ack", "ackShort"} /\ HeldLive
  /\ Ack(Held)
  /\ held'  = Tail(held)
  /\ doing' = "idle"
  /\ UNCHANGED << ready, deadLetters, taken, listening, clean, dropped,
                  failures, preFaults >>

(* Mutant: a post whose acknowledgement raises is left to the next session  *)
(* without ending this one.                                                 *)
AckRaisesSkipped ==
  /\ doing \in {"ack", "ackShort"} /\ ~ HeldLive
  /\ held' = Tail(held)
  /\ doing' = "idle"
  /\ UNCHANGED << brokerVars, taken, listening, clean, dropped, failures,
                  preFaults >>

(* The acknowledgement of a stale delivery raises: inside the try block it  *)
(* counts as a failed attempt, outside it ends the consumer loop.           *)
AckRaises ==
  /\ doing \in {"ack", "ackShort"} /\ ~ HeldLive
  /\ \/ doing = "ackShort" /\ CountFailure /\ doing' = "retry"
     \/ doing = "ack" /\ UNCHANGED failures /\ doing' = "raised"
  /\ UNCHANGED << brokerVars, taken, listening, held, clean, dropped,
                  preFaults >>

InTry == doing \in {"ackShort", "predict", "publish"}

(* Shutdown cancels the task; inside the try block the post goes back first *)
(* (and a stale one raises instead, which main() takes for a failure).      *)
CancelTask ==
  /\ listening /\ doing # "raised" /\ PreFault
  /\ doing' = "raised"
  /\ IF InTry /\ HeldLive
       THEN Requeue(Held) /\ held' = Tail(held)
       ELSE UNCHANGED << ready, unacked, held >>
  /\ UNCHANGED << deadLetters, taken, listening, clean, dropped, failures >>

(* The robust connection comes back without the process: what it holds can  *)
(* no longer be settled and is delivered again.                             *)
ResetChannel ==
  /\ listening /\ PreFault
  /\ RequeueUnacked
  /\ held' = [i \in DOMAIN held |-> [held[i] EXCEPT !.live = FALSE]]
  /\ UNCHANGED << deadLetters, taken, listening, doing, clean, dropped,
                  failures >>

(* Mutant: the deliveries that are held outlive their connection.           *)
CloseSessionHolding ==
  /\ RequeueUnacked
  /\ listening' = FALSE /\ doing' = "idle"
  /\ UNCHANGED << deadLetters, taken, held, clean, dropped, failures >>

(* Leaving `async with connection` gives back what was not acknowledged, as *)
(* the broker does when the process dies.                                   *)
CloseSession ==
  /\ RequeueUnacked
  /\ listening' = FALSE /\ held' = << >> /\ doing' = "idle"
  /\ UNCHANGED << deadLetters, taken, clean, dropped, failures >>

(* Mutant: the exception is logged and the loop takes the next delivery.    *)
EndSessionLogged ==
  /\ doing = "raised" /\ held # << >>
  /\ held' = Tail(held) /\ doing' = "idle"
  /\ UNCHANGED << brokerVars, taken, listening, clean, dropped, failures,
                  preFaults >>

EndSession == doing = "raised" /\ CloseSession /\ UNCHANGED preFaults

KillProcess == listening /\ PreFault /\ CloseSession

ConsumerStep ==
  \/ StartPost \/ Predict \/ PredictRaises \/ PublishClean
  \/ PublishCopyDone \/ AckPost \/ AckRaises
  \/ EndSession \/ Listen
  \/ \E m \in Message : TakeDelivery(m)

PreNext ==
  \/ \E p \in Raw : Produce(p)
  \/ ConsumerStep
  \/ PublishCleanFails \/ CopyUnconfirmed
  \/ CancelTask \/ ResetChannel \/ KillProcess

(* One asyncio task that runs whatever it can; main() starts it again.      *)
PreFairness == WF_preVars(ConsumerStep)

PreSafetySpec == PreInit /\ [][PreNext]_preVars
PreSpec == PreSafetySpec /\ PreFairness

-----------------------------------------------------------------------------
(* The variables keep their types; the broker waits for exactly what the    *)
(* consumer holds of the live channel.                                      *)
PreTypeOK ==
  /\ ready \in Counts /\ unacked \in Counts /\ deadLetters \in Counts
  /\ taken \in [Raw -> Nat]
  /\ listening \in BOOLEAN
  /\ held \in Seq([msg : Message, live : BOOLEAN])
  /\ \A m \in Message :
       unacked[m] = Cardinality({ i \in DOMAIN held : held[i] = [msg |-> m, live |-> TRUE] })
  /\ doing \in {"idle", "deadLetter", "ackShort", "predict", "publish", "retry",
                "ack", "raised"}
  /\ clean \in [Raw -> Nat] /\ dropped \subseteq TooShort
  /\ failures \in [Raw -> Nat] /\ preFaults \in 0 .. MaxPreFaults

Pending(p) == \E a \in {0, 1} : Outstanding(<< p, a >>)
Buried(p)  == \E a \in {0, 1} : deadLetters[<< p, a >>] > 0

(* No raw post is lost between the queues, whatever call fails: it is owed  *)
(* by the broker until it is passed on, dropped as too short, or in the     *)
(* dead-letter queue (the settlement promise of the stage).                 *)
Passing == INSTANCE Settlement WITH
  Message    <- Raw,
  Rejectable <- Raw,
  accepted   <- { p \in Raw : taken[p] > 0 },
  open       <- { p \in Raw : Pending(p) },
  stored     <- { p \in Raw : clean[p] > 0 } \cup dropped,
  rejected   <- { p \in Raw : Buried(p) }

RawPostsSettled == Passing!Spec

(* A well-formed post is dead-lettered only after two failed attempts, and  *)
(* a delivery that comes back after a shutdown is no failed attempt.        *)
BuriedAfterTwoFailures ==
  \A p \in Raw \ Illformed : Buried(p) => failures[p] >= 2

(* Each surplus clean copy of a post is paid for by a fault between its     *)
(* publication and the acknowledgement of its input.                        *)
CleanCopiesBounded == \A p \in Raw : clean[p] <= taken[p] + preFaults

(* Once failures stop, every raw post leaves the input queue.               *)
RawQueueDrained == <>[](\A p \in Raw : ~ Pending(p))
(* What goes wrong around a post, the model or the broker, is paid for      *)
(* once: no early burial and no free copy.                                  *)
AttemptsPaidFor ==
  /\ BuriedAfterTwoFailures
  /\ CleanCopiesBounded
=============================================================================
