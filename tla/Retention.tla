------------------------------ MODULE Retention ------------------------------
(***************************************************************************)
(* Retention of posts: runners (the scheduler of storage-service and the   *)
(* rollup.py command) roll expired rows of the posts table up into hourly  *)
(* facts and delete them, in one PostgreSQL statement, while the storage   *)
(* stage goes on inserting.  A statement runs in a server backend: when    *)
(* the runner loses its connection the backend may die, or carry on        *)
(* unseen while the runner has already reconnected and tried again.        *)
(*                                                                         *)
(* A fact is a sum over rows; what matters about it is which rows it       *)
(* counts and how often, so the hourly facts are modelled by a counter per *)
(* row.  Time is in hours, and `now` is the clock less the retention       *)
(* period, aligned to the hour as both runners compute their cutoff.       *)
(***************************************************************************)
EXTENDS Naturals, FiniteSetsExt

CONSTANTS
  Key,          (* (platform, id, symbol) of a post                         *)
  HourOf,       (* the hour of the timestamp of a post                      *)
  Sampled,      (* posts the sampling policy sends to the archive           *)
  Scheduler,    (* the runner that storage-service repeats                  *)
  Command,      (* runners of the rollup.py command                         *)
  LastHour,     (* bound: of the clock                                      *)
  MaxInserts,   (* bound: times one key is inserted again after a deletion  *)
  MaxFaults     (* bound: lost connections                                  *)

Hour    == 0 .. LastHour
Row     == Key \X (1 .. MaxInserts)
Runner  == {Scheduler} \cup Command
Backend == Runner \X {1, 2}

ASSUME HourAssumption    == HourOf \in [Key -> Hour]
ASSUME SampledAssumption == Sampled \subseteq Key
ASSUME RunnerAssumption  == Scheduler \notin Command
ASSUME BoundsAssumption ==
  LastHour \in Nat /\ MaxInserts \in Nat /\ MaxFaults \in Nat

VARIABLES
  posts,        (* rows of the posts table; a row that is inserted again is *)
                (* a new row with a new post_pk                             *)
  inserts,      (* rows inserted so far, per key                            *)
  facts,        (* how often each row is counted in the hourly facts        *)
  staged,       (* keys in raw_post_archive_staging                         *)
  partitions,   (* hours a partition of the facts exists for                *)
  now,
  running,      (* is a call of rollup_and_prune_posts going on?            *)
  attempt,      (* the first try of that call, or its one retry             *)
  cutoff,       (* cutoff_ts of the call                                    *)
  stage,        (* what a backend executes: "none", "ensure" the partitions *)
                (* or "prune", waiting for the lock, or "pruning" with it   *)
  snapshot,     (* the rows the statement of a backend can see              *)
  lock,         (* backends holding the advisory lock                       *)
  faults

runnerVars == << running, attempt, cutoff >>
vars == << posts, inserts, facts, staged, partitions, now, runnerVars, stage,
           snapshot, lock, faults >>

Init ==
  /\ posts = {} /\ staged = {}
  /\ inserts    = [k \in Key |-> 0]
  /\ facts      = [r \in Row |-> 0]
  /\ partitions = { h \in Hour : h > 0 }
  /\ now        = 0
  /\ running    = [r \in Runner |-> FALSE]
  /\ attempt    = [r \in Runner |-> 1]
  /\ cutoff     = [r \in Runner |-> 0]
  /\ stage      = [b \in Backend |-> "none"]
  /\ snapshot   = [b \in Backend |-> {}]
  /\ lock       = {}
  /\ faults     = 0

Fault == faults < MaxFaults /\ faults' = faults + 1

KeyOf(row)     == row[1]
Expired(S, c)  == { row \in S : HourOf[KeyOf(row)] < c }
Stored(k)      == \E row \in posts : KeyOf(row) = k

(* INSERT ... ON CONFLICT (platform, id, symbol) DO NOTHING of a new key.   *)
InsertPost(k) ==
  /\ ~ Stored(k) /\ inserts[k] < MaxInserts
  /\ inserts' = [inserts EXCEPT ![k] = @ + 1]
  /\ posts'   = posts \cup { << k, inserts[k] + 1 >> }
  /\ UNCHANGED << facts, staged, partitions, now, runnerVars, stage, snapshot,
                  lock, faults >>

Tick ==
  /\ now < LastHour
  /\ now' = now + 1
  /\ UNCHANGED << posts, inserts, facts, staged, partitions, runnerVars, stage,
                  snapshot, lock, faults >>

(* Sending a statement fixes what it sees, before it waits for the lock.    *)
Send(b, statement) ==
  /\ stage'    = [stage    EXCEPT ![b] = statement]
  /\ snapshot' = [snapshot EXCEPT ![b] = posts]

EndStatement(b) ==
  /\ stage'    = [stage    EXCEPT ![b] = "none"]
  /\ snapshot' = [snapshot EXCEPT ![b] = {}]

(* Mutant: the cutoff is rounded up to the next hour.                       *)
StartRunRoundedUp(r) ==
  /\ ~ running[r]
  /\ \A a \in {1, 2} : stage[<< r, a >>] = "none"
  /\ running' = [running EXCEPT ![r] = TRUE]
  /\ attempt' = [attempt EXCEPT ![r] = 1]
  /\ cutoff'  = [cutoff  EXCEPT ![r] = now + 1]
  /\ Send(<< r, 1 >>, "ensure")
  /\ UNCHANGED << posts, inserts, facts, staged, partitions, now, lock, faults >>

StartRun(r) ==
  /\ ~ running[r]
  /\ \A a \in {1, 2} : stage[<< r, a >>] = "none"
  /\ running' = [running EXCEPT ![r] = TRUE]
  /\ attempt' = [attempt EXCEPT ![r] = 1]
  /\ cutoff'  = [cutoff  EXCEPT ![r] = now]
  /\ Send(<< r, 1 >>, "ensure")
  /\ UNCHANGED << posts, inserts, facts, staged, partitions, now, lock, faults >>

(* The runner still waits for the answer of this backend.                   *)
Attached(b) == running[b[1]] /\ attempt[b[1]] = b[2]

(* The result of a statement reaches the runner, if it still listens.       *)
EndRun(b) == running' = IF Attached(b) THEN [running EXCEPT ![b[1]] = FALSE]
                                       ELSE running

(* Mutant: partitions only for what comes after the cutoff.                 *)
EnsureFromCutoff(b) ==
  /\ stage[b] = "ensure" /\ lock = {}
  /\ partitions' = partitions \cup { h \in Hour : h >= cutoff[b[1]] }
  /\ IF Attached(b) THEN Send(b, "prune") ELSE EndStatement(b)
  /\ UNCHANGED << posts, inserts, facts, staged, now, runnerVars, lock, faults >>

(* The preflight: partitions from the oldest expired post on.               *)
EnsurePartitions(b) ==
  /\ stage[b] = "ensure" /\ lock = {}
  /\ LET c      == cutoff[b[1]]
         oldest == { HourOf[KeyOf(row)] : row \in Expired(snapshot[b], c) }
     IN  partitions' = partitions \cup
           { h \in Hour : h >= IF oldest = {} THEN c ELSE Min(oldest) }
  /\ IF Attached(b) THEN Send(b, "prune") ELSE EndStatement(b)
  /\ UNCHANGED << posts, inserts, facts, staged, now, runnerVars, lock, faults >>

AcquireLock(b) ==
  /\ stage[b] = "prune" /\ lock = {}
  /\ lock'  = {b}
  /\ stage' = [stage EXCEPT ![b] = "pruning"]
  /\ UNCHANGED << posts, inserts, facts, staged, partitions, now, runnerVars,
                  snapshot, faults >>

Candidates(b) == Expired(snapshot[b], cutoff[b[1]])

(* DELETE skips a row that another statement has deleted meanwhile.         *)
Deleted(b) == Candidates(b) \cap posts

(* Mutant: the aggregate is built from the candidates, not from the rows    *)
(* DELETE returned.                                                         *)
CountedFromCandidates(b) == Candidates(b)

Counted(b) == Deleted(b)

(* Mutant: the statement deletes without staging its samples.               *)
CommitPruneUnstaged(b) ==
  /\ stage[b] = "pruning"
  /\ \A row \in Counted(b) : HourOf[KeyOf(row)] \in partitions
  /\ posts' = posts \ Deleted(b)
  /\ facts' = [row \in Row |-> IF row \in Counted(b) THEN facts[row] + 1
                                                     ELSE facts[row]]
  /\ lock'  = lock \ {b}
  /\ EndStatement(b)
  /\ EndRun(b)
  /\ UNCHANGED << inserts, staged, partitions, now, attempt, cutoff, faults >>

(* ROLLUP_AND_PRUNE_POSTS_SQL: archive samples, delete, aggregate.          *)
CommitPrune(b) ==
  /\ stage[b] = "pruning"
  /\ \A row \in Counted(b) : HourOf[KeyOf(row)] \in partitions
  /\ posts'  = posts \ Deleted(b)
  /\ facts'  = [row \in Row |-> IF row \in Counted(b) THEN facts[row] + 1
                                                      ELSE facts[row]]
  /\ staged' = staged \cup ({ KeyOf(row) : row \in Candidates(b) } \cap Sampled)
  /\ lock'   = lock \ {b}
  /\ EndStatement(b)
  /\ EndRun(b)
  /\ UNCHANGED << inserts, partitions, now, attempt, cutoff, faults >>

(* A row older than every partition was inserted after the preflight: the   *)
(* statement fails, not as an OperationalError, so there is no retry.       *)
RefusePrune(b) ==
  /\ stage[b] = "pruning"
  /\ \E row \in Counted(b) : HourOf[KeyOf(row)] \notin partitions
  /\ lock' = lock \ {b}
  /\ EndStatement(b)
  /\ EndRun(b)
  /\ UNCHANGED << posts, inserts, facts, staged, partitions, now, attempt,
                  cutoff, faults >>

(* The server rolls the transaction back and releases its lock.             *)
BackendDies(b) ==
  /\ stage[b] # "none"
  /\ ~ Attached(b)
  /\ lock' = lock \ {b}
  /\ EndStatement(b)
  /\ UNCHANGED << posts, inserts, facts, staged, partitions, now, runnerVars,
                  faults >>

(* OperationalError: reconnect and retry once, with the same cutoff.        *)
ConnectionLost(r) ==
  /\ running[r] /\ attempt[r] = 1
  /\ Fault
  /\ attempt' = [attempt EXCEPT ![r] = 2]
  /\ Send(<< r, 2 >>, "ensure")
  /\ UNCHANGED << posts, inserts, facts, staged, partitions, now, running,
                  cutoff, lock >>

(* The retry is lost as well, or the runner is killed: nobody listens.      *)
RunAbandoned(r) ==
  /\ running[r]
  /\ Fault
  /\ running' = [running EXCEPT ![r] = FALSE]
  /\ UNCHANGED << posts, inserts, facts, staged, partitions, now, attempt,
                  cutoff, stage, snapshot, lock >>

BackendStep(b) ==
  EnsurePartitions(b) \/ AcquireLock(b) \/ CommitPrune(b) \/ RefusePrune(b)

Next ==
  \/ \E k \in Key : InsertPost(k)
  \/ Tick
  \/ \E r \in Runner : StartRun(r) \/ ConnectionLost(r) \/ RunAbandoned(r)
  \/ \E b \in Backend : BackendStep(b) \/ BackendDies(b)

(* The scheduler runs every day, and PostgreSQL executes what it was sent;  *)
(* a lock that is released again and again is granted in the end.           *)
Fairness ==
  /\ WF_vars(StartRun(Scheduler))
  /\ \A b \in Backend : SF_vars(BackendStep(b))

SafetySpec == Init /\ [][Next]_vars
Spec == SafetySpec /\ Fairness

-----------------------------------------------------------------------------
Inserted(row) == row[2] <= inserts[KeyOf(row)]

(* The variables keep their types.                                          *)
TypeOK ==
  /\ posts \subseteq Row
  /\ inserts \in [Key -> 0 .. MaxInserts]
  /\ facts \in [Row -> Nat]
  /\ staged \subseteq Sampled
  /\ partitions \subseteq Hour
  /\ now \in Hour
  /\ running \in [Runner -> BOOLEAN]
  /\ attempt \in [Runner -> {1, 2}]
  /\ cutoff \in [Runner -> Hour]
  /\ stage \in [Backend -> {"none", "ensure", "prune", "pruning"}]
  /\ snapshot \in [Backend -> SUBSET Row]
  /\ lock \subseteq Backend
  /\ faults \in 0 .. MaxFaults

(* Every row ever inserted is in the table or counted in the facts, exactly *)
(* once: not lost by a rollback, not counted again by a retry after an      *)
(* unknown commit, an unseen backend or a concurrent runner.                *)
CountedExactlyOnce ==
  \A row \in Row :
    facts[row] = IF Inserted(row) /\ row \notin posts THEN 1 ELSE 0

(* A post the sampling policy selects is staged for the archive in the      *)
(* transaction that deletes it.                                             *)
SampledBeforePruned ==
  \A row \in Row : facts[row] > 0 /\ KeyOf(row) \in Sampled => KeyOf(row) \in staged

(* Once no more posts come in and nothing fails any more, every expired row *)
(* is counted and deleted, although a late, older post can make a whole     *)
(* statement fail.                                                          *)
ExpiredRowsPruned == <>[](Expired(posts, now) = {})

(* process_batch says a published duplicate is safe because storage is      *)
(* idempotent within (platform, id, symbol): no key is counted twice.       *)
KeyCountedOnce ==
  \A k \in Key :
    ~ \E r1, r2 \in Row : /\ r1 # r2 /\ KeyOf(r1) = k /\ KeyOf(r2) = k
                          /\ facts[r1] > 0 /\ facts[r2] > 0
=============================================================================
