------------------------------ MODULE Pipeline ------------------------------
(***************************************************************************)
(* The path of a post from raw-posts to the posts table: preprocessing-    *)
(* service, sentiment-service and storage-service, each behind its queue.  *)
(* What one stage publishes is what the next one's queue accepts, in the   *)
(* same step; a stage is otherwise on its own, and so are its failures.    *)
(* CleanPost and ScoredPost are written and read with one schema class, so *)
(* that no inner queue holds a malformed message.                          *)
(***************************************************************************)
EXTENDS Preprocessing

CONSTANTS
  Unscorable,       (* posts the sentiment model raises on                  *)
  InvalidResult,    (* posts whose result fails the ScoredPost schema       *)
  Poison,           (* posts PostgreSQL refuses for good                    *)
  ScorerBatch,      (* BATCH_SIZE of sentiment-service                      *)
  WriterBatch,      (* BATCH_SIZE of storage-service                        *)
  MaxScorerFaults,  (* bound: failures of sentiment-service                 *)
  MaxWriterFaults   (* bound: failures of storage-service                   *)

ASSUME LateAssumption ==
  /\ Unscorable \subseteq Raw
  /\ InvalidResult \subseteq Raw \ Unscorable
  /\ Poison \subseteq Raw
ASSUME PipelineBoundsAssumption ==
  /\ ScorerBatch \in Nat \ {0} /\ WriterBatch \in Nat \ {0}
  /\ MaxScorerFaults \in Nat /\ MaxWriterFaults \in Nat

VARIABLES
  cleanReady, cleanUnacked, cleanDead,      (* clean-posts and dead letters *)
  scorerSession, scorerReceiving, scorerHand, scorerBuffer,
  scorerWorking, scorerBatch, scorerPos, scorerFaults,
  scored, failed,
  scoredReady, scoredUnacked, scoredDead,   (* scored-posts and dead letters *)
  writerSession, writerReceiving, writerHand, writerBuffer,
  writerWorking, writerBatch, writerPos, writerFaults,
  posts                                     (* the posts table              *)

scorerVars == << cleanReady, cleanUnacked, cleanDead,
                 scorerSession, scorerReceiving, scorerHand, scorerBuffer,
                 scorerWorking, scorerBatch, scorerPos, scorerFaults,
                 scored, failed >>
writerVars == << scoredReady, scoredUnacked, scoredDead,
                 writerSession, writerReceiving, writerHand, writerBuffer,
                 writerWorking, writerBatch, writerPos, writerFaults, posts >>
pipelineVars == << preVars, scorerVars, writerVars >>

(* A post enters clean-posts without the header the retry policy sets.      *)
CleanTaken == [m \in Message |-> IF m[2] = 0 THEN clean[m[1]] ELSE 0]

(* As many copies as the stages before can publish: no bound of its own.    *)
(* The instances are of the modules with the theorems on each stage, which  *)
(* add no state, so that these theorems hold of the stage in the pipeline.  *)
Sentiment == INSTANCE SentimentConsumerProofs WITH
  Post        <- Raw,
  Inbound     <- Raw \X {0},
  Malformed   <- {},
  BatchSize   <- ScorerBatch,
  MaxAccepted <- MaxRaw + MaxPreFaults,
  MaxFaults   <- MaxScorerFaults,
  ready       <- cleanReady,
  unacked     <- cleanUnacked,
  deadLetters <- cleanDead,
  accepted    <- CleanTaken,
  session     <- scorerSession,
  receiving   <- scorerReceiving,
  hand        <- scorerHand,
  buffer      <- scorerBuffer,
  working     <- scorerWorking,
  batch       <- scorerBatch,
  pos         <- scorerPos,
  faults      <- scorerFaults

Storage == INSTANCE StorageConsumerProofs WITH
  Message     <- Raw,
  Inbound     <- Raw,
  Malformed   <- {},
  BatchSize   <- WriterBatch,
  MaxAccepted <- MaxRaw + MaxPreFaults + MaxScorerFaults,
  MaxFaults   <- MaxWriterFaults,
  ready       <- scoredReady,
  unacked     <- scoredUnacked,
  deadLetters <- scoredDead,
  accepted    <- scored,
  session     <- writerSession,
  receiving   <- writerReceiving,
  hand        <- writerHand,
  buffer      <- writerBuffer,
  working     <- writerWorking,
  batch       <- writerBatch,
  pos         <- writerPos,
  faults      <- writerFaults

PipelineInit == PreInit /\ Sentiment!Init /\ Storage!Init

(* Mutant: without on_return_raises an unrouted clean post is confirmed.     *)
CleanUnrouted == UNCHANGED << scorerVars, writerVars >>

(* A clean post is in clean-posts once it is published.                     *)
CleanArrives ==
  /\ UNCHANGED writerVars
  /\ \/ clean' = clean /\ UNCHANGED scorerVars
     \/ /\ \E p \in Raw : Sentiment!Publish(<< p, 0 >>)
        /\ UNCHANGED << scored, failed >>

PreprocessingStep == PreNext /\ CleanArrives

(* A scored post is in scored-posts once it is published.                   *)
ScoredArrives ==
  \/ scored' = scored /\ UNCHANGED writerVars
  \/ \E p \in Raw : Storage!Publish(p) /\ UNCHANGED posts

SentimentStep == UNCHANGED preVars /\ Sentiment!Next /\ ScoredArrives

StorageStep == UNCHANGED << preVars, scorerVars >> /\ Storage!Next

PipelineNext == PreprocessingStep \/ SentimentStep \/ StorageStep

PipelineSpec == PipelineInit /\ [][PipelineNext]_pipelineVars

-----------------------------------------------------------------------------
(* The pipeline as a whole keeps the promise of its stages: a post that was *)
(* published stays open in some queue until it has a row or was dropped as  *)
(* too short, or is in one of the three dead-letter queues.                 *)
EndToEnd == INSTANCE Settlement WITH
  Message    <- Raw,
  Rejectable <- Raw,
  accepted   <- { p \in Raw : taken[p] > 0 },
  open       <- { p \in Raw : Pending(p) \/ Sentiment!Open(p) \/ Storage!Outstanding(p) },
  stored     <- posts \cup dropped,
  rejected   <- { p \in Raw : Buried(p) \/ Sentiment!DeadLettered(p) \/ scoredDead[p] > 0 }

PostsSettled == RawPostsSettled /\ EndToEnd!Spec

Unfit == Illformed \cup TooShort \cup Unpredictable
           \cup Unscorable \cup InvalidResult \cup Poison

(* Only a post that was published, and that no stage has a reason to refuse, *)
(* has a row.                                                               *)
RowsOfFitPosts == \A p \in posts : taken[p] > 0 /\ p \notin Unfit

(* A post no stage has a reason to refuse is in a dead-letter queue only    *)
(* after two failed attempts of one stage, and never in that of storage.    *)
FitPostsDeadLetteredForFailures ==
  \A p \in Raw \ Unfit :
    /\ Buried(p) => failures[p] >= 2
    /\ Sentiment!DeadLettered(p) => failed[p] >= 2
    /\ scoredDead[p] = 0

(* Surplus copies do not multiply from stage to stage: each is paid for by  *)
(* one fault of one stage.                                                  *)
ScoredCopiesBounded ==
  \A p \in Raw : scored[p] <= taken[p] + preFaults + scorerFaults

PostsAccountedFor ==
  /\ AttemptsPaidFor
  /\ RowsOfFitPosts
  /\ FitPostsDeadLetteredForFailures
  /\ ScoredCopiesBounded
=============================================================================
