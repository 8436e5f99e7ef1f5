-------------------------- MODULE SchemaMigrations --------------------------
(***************************************************************************)
(* The one-shot migration command (storage-service/schema_migrations.py),  *)
(* started by several containers, possibly of different releases.  A       *)
(* session advisory lock admits one of them; it reads which versions are   *)
(* applied, checks their checksums, and applies every other version in a   *)
(* transaction that also records it.  Lock contention ends the attempt     *)
(* and is retried on a new connection, any other error ends the command.   *)
(***************************************************************************)
EXTENDS Integers, SequencesExt, Functions, TLC

CONSTANTS
  Migrators,       (* runs of the command                                   *)
  Versions,        (* sequence of all versions, in their order              *)
  Files,           (* migrator -> version -> checksum, for the versions of  *)
                   (* its release, a prefix of Versions                     *)
  ApplyRetries,    (* SCHEMA_APPLY_RETRIES                                  *)
  MaxMigrationFaults  (* bound: lock timeouts, lost connections             *)

ASSUME MigrationAssumption ==
  /\ Versions \in Seq(Range(Versions)) /\ IsInjective(Versions)
  /\ \A m \in Migrators : \E n \in 0 .. Len(Versions) :
       DOMAIN Files[m] = Range(SubSeq(Versions, 1, n))
  /\ ApplyRetries \in Nat \ {0} /\ MaxMigrationFaults \in Nat

VARIABLES
  applied,       (* schema_migrations: version -> checksum                  *)
  schema,        (* << version, checksum >> of the SQL executed, in order   *)
  lock,          (* the sessions (migrators) that hold the advisory lock    *)
  migrator,      (* migrator -> what it is at                               *)
  known,         (* migrator -> the versions it has read                    *)
  position,      (* migrator -> index of the version it looks at            *)
  attempt,       (* migrator -> attempts begun                              *)
  migrationFaults

migrationVars == << applied, schema, lock, migrator, known, position, attempt,
                    migrationFaults >>

MigrationInit ==
  /\ applied = << >> /\ schema = << >> /\ lock = {}
  /\ migrator = [m \in Migrators |-> "new"]
  /\ known    = [m \in Migrators |-> << >>]
  /\ position = [m \in Migrators |-> 1]
  /\ attempt  = [m \in Migrators |-> 0]
  /\ migrationFaults = 0

Goes(m, stage) == migrator' = [migrator EXCEPT ![m] = stage]
MigrationFault == migrationFaults < MaxMigrationFaults /\ migrationFaults' = migrationFaults + 1

Connect(m) ==
  /\ migrator[m] = "new" /\ Goes(m, "locking")
  /\ attempt' = [attempt EXCEPT ![m] = @ + 1]
  /\ UNCHANGED << applied, schema, lock, known, position, migrationFaults >>

(* Mutant: nobody waits for the lock.                                       *)
LockFreeAlways == TRUE

LockFree == lock = {}

(* pg_advisory_lock waits without a timeout: that is set afterwards.        *)
TakeLock(m) ==
  /\ migrator[m] = "locking" /\ LockFree
  /\ lock' = lock \cup {m}
  /\ Goes(m, "locked")
  /\ UNCHANGED << applied, schema, known, position, attempt, migrationFaults >>

ReadApplied(m) ==
  /\ migrator[m] = "locked" /\ Goes(m, "applying")
  /\ known' = [known EXCEPT ![m] = applied]
  /\ position' = [position EXCEPT ![m] = 1]
  /\ UNCHANGED << applied, schema, lock, attempt, migrationFaults >>

AtVersion(m) ==
  /\ migrator[m] = "applying"
  /\ position[m] <= Len(Versions) /\ Versions[position[m]] \in DOMAIN Files[m]
Version(m) == Versions[position[m]]

(* Mutant: an applied version is skipped whatever its checksum.             *)
MismatchNever(m) == FALSE

Mismatch(m) == known[m][Version(m)] # Files[m][Version(m)]

SkipVersion(m) ==
  /\ AtVersion(m) /\ Version(m) \in DOMAIN known[m] /\ ~ Mismatch(m)
  /\ position' = [position EXCEPT ![m] = @ + 1]
  /\ UNCHANGED << applied, schema, lock, migrator, known, attempt, migrationFaults >>

FindMismatch(m) ==
  /\ AtVersion(m) /\ Version(m) \in DOMAIN known[m] /\ Mismatch(m)
  /\ Goes(m, "failing")
  /\ UNCHANGED << applied, schema, lock, known, position, attempt, migrationFaults >>

(* Mutant: the SQL commits before its version is recorded.                  *)
RecordedLater(m) ==
  /\ schema' = Append(schema, << Version(m), Files[m][Version(m)] >>)
  /\ UNCHANGED applied

Recorded(m) ==
  /\ schema' = Append(schema, << Version(m), Files[m][Version(m)] >>)
  /\ applied' = [ v \in DOMAIN applied \cup {Version(m)} |->
                    IF v = Version(m) THEN Files[m][v] ELSE applied[v] ]

(* One transaction.  A version that someone else has recorded violates the  *)
(* primary key, and the SQL is rolled back.                                 *)
ApplyVersion(m) ==
  /\ AtVersion(m) /\ Version(m) \notin DOMAIN known[m]
  /\ IF Version(m) \in DOMAIN applied
     THEN Goes(m, "failing") /\ UNCHANGED << applied, schema, position >>
     ELSE /\ Recorded(m)
          /\ position' = [position EXCEPT ![m] = @ + 1]
          /\ UNCHANGED migrator
  /\ UNCHANGED << lock, known, attempt, migrationFaults >>

AllApplied(m) ==
  /\ migrator[m] = "applying" /\ ~ AtVersion(m)
  /\ Goes(m, "finished")
  /\ UNCHANGED << applied, schema, lock, known, position, attempt, migrationFaults >>

(* LockNotAvailable or DeadlockDetected, in any statement under the lock.   *)
Blocked(m) ==
  /\ migrator[m] \in {"locked", "applying"} /\ MigrationFault
  /\ Goes(m, IF attempt[m] < ApplyRetries THEN "retrying" ELSE "failing")
  /\ UNCHANGED << applied, schema, lock, known, position, attempt >>

(* The connection is lost or the process is killed: PostgreSQL ends the     *)
(* session, and the container does not run the command again by itself.     *)
SessionLost(m) ==
  /\ migrator[m] \notin {"new", "done", "failed"} /\ MigrationFault
  /\ Goes(m, "failed") /\ lock' = lock \ {m}
  /\ UNCHANGED << applied, schema, known, position, attempt >>

(* Mutant: the connection is left open when the unlock did not succeed.     *)
LockAfterCloseKept(m, unlocked) == IF unlocked THEN lock \ {m} ELSE lock

(* The unlock is best effort, closing the session releases the lock anyway. *)
LockAfterClose(m, unlocked) == lock \ {m}

CloseMigrator(m) ==
  /\ migrator[m] \in {"finished", "retrying", "failing"}
  /\ \E unlocked \in BOOLEAN : lock' = LockAfterClose(m, unlocked)
  /\ Goes(m, CASE migrator[m] = "finished" -> "done"
               [] migrator[m] = "retrying" -> "new"
               [] migrator[m] = "failing"  -> "failed")
  /\ UNCHANGED << applied, schema, known, position, attempt, migrationFaults >>

MigratorStep(m) ==
  \/ Connect(m) \/ TakeLock(m) \/ ReadApplied(m) \/ SkipVersion(m)
  \/ FindMismatch(m) \/ ApplyVersion(m) \/ AllApplied(m) \/ CloseMigrator(m)

MigrationNext ==
  \E m \in Migrators : MigratorStep(m) \/ Blocked(m) \/ SessionLost(m)

(* A session that waits for the lock is served when it is released.         *)
MigrationFairness == \A m \in Migrators : WF_migrationVars(MigratorStep(m))
MigrationSpec == MigrationInit /\ [][MigrationNext]_migrationVars /\ MigrationFairness

-----------------------------------------------------------------------------
(* The variables keep their types; one session at most holds the advisory   *)
(* lock.                                                                    *)
MigrationTypeOK ==
  /\ lock \subseteq Migrators /\ Cardinality(lock) <= 1
  /\ DOMAIN applied \subseteq Range(Versions)
  /\ migrator \in [Migrators -> { "new", "locking", "locked", "applying", "retrying",
                                  "finished", "failing", "done", "failed" }]
  /\ \A m \in Migrators : DOMAIN known[m] \subseteq Range(Versions)
  /\ position \in [Migrators -> 1 .. Len(Versions) + 1]
  /\ attempt \in [Migrators -> 0 .. ApplyRetries]
  /\ migrationFaults \in 0 .. MaxMigrationFaults

(* The SQL of every version is executed exactly once, in the order of the   *)
(* versions, and recorded with it, also when commands overlap, are killed,  *)
(* or meet lock timeouts.                                                   *)
AppliedOnceInOrder ==
  /\ \A i \in 1 .. Len(schema) : schema[i][1] = Versions[i]
  /\ DOMAIN applied = { schema[i][1] : i \in 1 .. Len(schema) }
  /\ \A i \in 1 .. Len(schema) : applied[schema[i][1]] = schema[i][2]

(* What is applied are the files of one release: a release whose files      *)
(* differ from what another one applied adds nothing to it.                 *)
SchemaOfOneRelease ==
  \/ applied = << >>
  \/ \E m \in Migrators : \A v \in DOMAIN applied :
       v \in DOMAIN Files[m] /\ applied[v] = Files[m][v]

(* A command only fails for a reason of its own: commands of the same       *)
(* release that overlap do not make each other fail.                        *)
NobodyFailsNeedlessly ==
  migrationFaults = 0 =>
    \A m \in Migrators :
      migrator[m] \in {"failing", "failed"} =>
        \E v \in DOMAIN applied \cap DOMAIN Files[m] : applied[v] # Files[m][v]

(* A command whose session ended, in whatever way, keeps nobody waiting:    *)
(* every command ends.                                                      *)
MigratorsEnd == <>(\A m \in Migrators : migrator[m] \in {"done", "failed"})

(* Overlapping commands migrate as one command would: each version once and *)
(* in order, of one release, and none fails because of the others.          *)
MigrationsSafe ==
  /\ AppliedOnceInOrder
  /\ SchemaOfOneRelease
  /\ NobodyFailsNeedlessly
=============================================================================
