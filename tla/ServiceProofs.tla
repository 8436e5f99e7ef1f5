--------------------------- MODULE ServiceProofs ---------------------------
(***************************************************************************)
(* What stands behind the dashboard, for every value of the constants: the *)
(* migration command, the admin requests that replace the rows of a        *)
(* symbol, the live updates of a dashboard, the sentiment history that is  *)
(* read while retention moves the posts, the price history while it rolls  *)
(* up the quotes, and the export of the archive.                           *)
(*                                                                         *)
(* In each of them several actors read something and act on it later, and  *)
(* nothing in the code compares what was read with what is there by then.  *)
(* The inductive invariants say why they agree: the advisory lock of the   *)
(* migrations, the row locks and the unique key of the replacements, the   *)
(* order of the notifications, the order of the statements of a request,   *)
(* the check of an object before its rows are marked.                      *)
(***************************************************************************)
EXTENDS SchemaMigrations, AdminReplace, LiveUpdates, SentimentReads, QuoteTiers,
        ArchiveExport, FiniteSetTheorems, SequenceTheorems, WellFoundedInduction, TLAPS

-----------------------------------------------------------------------------
(* The migration command, for every number of concurrent runs, every list   *)
(* of versions, every release and any number of lost sessions and lock      *)
(* timeouts.  Nothing compares what a run has read with what is applied     *)
(* when it applies a version: the advisory lock makes them the same.        *)

(* What may be in schema: versions, each with the text some release has.    *)
Statement == Range(Versions) \X { Files[m][v] : m \in Migrators, v \in Range(Versions) }

(* The stages of a session that was granted the lock and is still open.     *)
Holding == { "locked", "applying", "finished", "retrying", "failing" }

MigrationTyped ==
  /\ migrator \in [Migrators -> { "new", "locking", "locked", "applying", "retrying",
                                  "finished", "failing", "done", "failed" }]
  /\ DOMAIN known = Migrators
  /\ \A m \in Migrators : DOMAIN known[m] \subseteq Range(Versions)
  /\ position \in [Migrators -> 1 .. Len(Versions) + 1]
  /\ attempt \in [Migrators -> 0 .. ApplyRetries]
  /\ \A m \in Migrators : migrator[m] \in { "new", "retrying" } => attempt[m] < ApplyRetries
  /\ migrationFaults \in 0 .. MaxMigrationFaults
  /\ schema \in Seq(Statement)

(* One session at a time works under the lock.                              *)
OneHolder ==
  /\ lock \subseteq Migrators
  /\ \A m \in Migrators : migrator[m] \in Holding => m \in lock
  /\ \A m, n \in lock : m = n

(* The versions executed so far are the first ones, and what is recorded.   *)
AppliedInOrder ==
  /\ Len(schema) <= Len(Versions)
  /\ \A i \in 1 .. Len(schema) : schema[i][1] = Versions[i]
  /\ DOMAIN applied = { Versions[i] : i \in 1 .. Len(schema) }
  /\ \A i \in 1 .. Len(schema) : applied[Versions[i]] = schema[i][2]

(* A run that applies versions has read what was applied when it began, and *)
(* only added the versions it has passed since, all with its own files.     *)
ViewIsCurrent(m) ==
  /\ \A v \in DOMAIN known[m] : v \in DOMAIN applied /\ applied[v] = known[m][v]
  /\ \A i \in 1 .. position[m] - 1 :
       /\ Versions[i] \in DOMAIN applied /\ Versions[i] \in DOMAIN Files[m]
       /\ applied[Versions[i]] = Files[m][Versions[i]]
  /\ \A v \in DOMAIN applied :
       v \in DOMAIN known[m] \/ \E i \in 1 .. position[m] - 1 : v = Versions[i]

ViewsAreCurrent == \A m \in Migrators : migrator[m] = "applying" => ViewIsCurrent(m)

MigrationInductive ==
  /\ MigrationTyped /\ OneHolder /\ AppliedInOrder /\ ViewsAreCurrent
  /\ SchemaOfOneRelease /\ NobodyFailsNeedlessly

LEMMA VersionsProperties ==
  /\ Len(Versions) \in Nat
  /\ DOMAIN Versions = 1 .. Len(Versions)
  /\ \A i \in 1 .. Len(Versions) : Versions[i] \in Range(Versions)
  /\ \A i, j \in 1 .. Len(Versions) : Versions[i] = Versions[j] => i = j
<1>1. Versions \in Seq(Range(Versions))
  BY MigrationAssumption
<1>2. Len(Versions) \in Nat /\ DOMAIN Versions = 1 .. Len(Versions)
  BY <1>1
<1> QED
  BY <1>2, MigrationAssumption DEF IsInjective, Range

LEMMA MigrationInductiveInit == MigrationInit => MigrationInductive
<1> SUFFICES ASSUME MigrationInit PROVE MigrationInductive
  OBVIOUS
<1> USE MigrationAssumption DEF MigrationInit
<1>1. MigrationTyped
  BY VersionsProperties DEF MigrationTyped
<1>2. OneHolder
  BY DEF OneHolder, Holding
<1>3. AppliedInOrder
  BY VersionsProperties DEF AppliedInOrder
<1>4. ViewsAreCurrent
  BY DEF ViewsAreCurrent
<1>5. SchemaOfOneRelease /\ NobodyFailsNeedlessly
  BY DEF SchemaOfOneRelease, NobodyFailsNeedlessly
<1> QED
  BY <1>1, <1>2, <1>3, <1>4, <1>5 DEF MigrationInductive

-----------------------------------------------------------------------------
(* A step that adds no version keeps what is said of the schema.            *)
LEMMA SchemaStands ==
  ASSUME AppliedInOrder, SchemaOfOneRelease, UNCHANGED << applied, schema >>
  PROVE  AppliedInOrder' /\ SchemaOfOneRelease'
BY DEF AppliedInOrder, SchemaOfOneRelease

(* Nor does it touch the view of a run that does not move itself.           *)
LEMMA ViewStands ==
  ASSUME NEW m \in Migrators, ViewIsCurrent(m),
         applied' = applied, known'[m] = known[m], position'[m] = position[m]
  PROVE  ViewIsCurrent(m)'
BY DEF ViewIsCurrent

(* A step of the lock: m changes its stage, to the lock it takes or leaves. *)
LEMMA OneHolderKept ==
  ASSUME MigrationTyped, OneHolder, NEW m \in Migrators, NEW stage, Goes(m, stage),
         \/ lock' = lock /\ (stage \in Holding => migrator[m] \in Holding)
         \/ lock' = lock \ {m} /\ stage \notin Holding
         \/ lock = {} /\ lock' = lock \cup {m}
  PROVE  OneHolder'
BY DEF MigrationTyped, OneHolder, Goes

(* A run that does not begin to apply keeps the views of the others.        *)
LEMMA ViewsKept ==
  ASSUME MigrationTyped, ViewsAreCurrent, NEW m \in Migrators, NEW stage, Goes(m, stage),
         stage # "applying", UNCHANGED << applied, known, position >>
  PROVE  ViewsAreCurrent'
<1> SUFFICES ASSUME NEW n \in Migrators, migrator'[n] = "applying"
             PROVE  ViewIsCurrent(n)'
  BY DEF ViewsAreCurrent
<1>1. migrator[n] = "applying"
  BY DEF Goes, MigrationTyped
<1> QED
  BY <1>1, ViewStands DEF ViewsAreCurrent

LEMMA FailuresKept ==
  ASSUME MigrationTyped, NobodyFailsNeedlessly, NEW m \in Migrators, NEW stage,
         Goes(m, stage), UNCHANGED << applied, migrationFaults >>,
         stage \in {"failing", "failed"} => migrator[m] = "failing"
  PROVE  NobodyFailsNeedlessly'
BY DEF MigrationTyped, NobodyFailsNeedlessly, Goes

LEMMA ConnectKeeps ==
  ASSUME MigrationInductive, NEW m \in Migrators, Connect(m) PROVE MigrationInductive'
<1> USE DEF MigrationInductive
<1>1. MigrationTyped'
  BY MigrationAssumption DEF MigrationTyped, Connect, Goes
<1>2. OneHolder'
  BY OneHolderKept DEF Connect, Holding
<1>3. ViewsAreCurrent' /\ NobodyFailsNeedlessly'
  BY ViewsKept, FailuresKept DEF Connect
<1> QED
  BY <1>1, <1>2, <1>3, SchemaStands DEF Connect

LEMMA TakeLockKeeps ==
  ASSUME MigrationInductive, NEW m \in Migrators, TakeLock(m) PROVE MigrationInductive'
<1> USE DEF MigrationInductive
<1>1. MigrationTyped'
  BY DEF MigrationTyped, TakeLock, Goes
<1>2. OneHolder'
  BY OneHolderKept DEF TakeLock, LockFree
<1>3. ViewsAreCurrent' /\ NobodyFailsNeedlessly'
  BY ViewsKept, FailuresKept DEF TakeLock
<1> QED
  BY <1>1, <1>2, <1>3, SchemaStands DEF TakeLock

(* The run reads what is applied: its view is current.                      *)
LEMMA ReadAppliedKeeps ==
  ASSUME MigrationInductive, NEW m \in Migrators, ReadApplied(m) PROVE MigrationInductive'
<1> USE DEF MigrationInductive
<1>1. Len(schema) \in Nat /\ DOMAIN applied \subseteq Range(Versions)
  BY VersionsProperties DEF MigrationTyped, AppliedInOrder
<1>2. MigrationTyped'
  BY <1>1, VersionsProperties DEF MigrationTyped, ReadApplied, Goes
<1>3. OneHolder'
  BY OneHolderKept DEF ReadApplied, Holding
<1>4. ViewsAreCurrent'
  <2> SUFFICES ASSUME NEW n \in Migrators, migrator'[n] = "applying"
               PROVE  ViewIsCurrent(n)'
    BY DEF ViewsAreCurrent
  <2>1. CASE n = m
    <3>1. known'[n] = applied /\ position'[n] = 1 /\ applied' = applied
      BY <2>1 DEF ReadApplied, MigrationTyped
    <3> QED
      BY <3>1 DEF ViewIsCurrent
  <2>2. CASE n # m
    <3>1. /\ migrator[n] = "applying" /\ applied' = applied
          /\ known'[n] = known[n] /\ position'[n] = position[n]
      BY <2>2 DEF ReadApplied, Goes, MigrationTyped
    <3> QED
      BY <3>1, ViewStands DEF ViewsAreCurrent
  <2> QED
    BY <2>1, <2>2
<1>5. NobodyFailsNeedlessly'
  BY FailuresKept DEF ReadApplied
<1> QED
  BY <1>2, <1>3, <1>4, <1>5, SchemaStands DEF ReadApplied

(* The version it looks at is applied with the checksum of its own file.    *)
LEMMA SkipVersionKeeps ==
  ASSUME MigrationInductive, NEW m \in Migrators, SkipVersion(m) PROVE MigrationInductive'
<1> USE DEF MigrationInductive
<1>1. /\ migrator[m] = "applying" /\ ViewIsCurrent(m)
      /\ position[m] \in 1 .. Len(Versions) /\ Len(Versions) \in Nat
      /\ Version(m) \in DOMAIN Files[m] /\ Version(m) \in DOMAIN applied
      /\ applied[Version(m)] = Files[m][Version(m)]
      /\ position' = [position EXCEPT ![m] = @ + 1]
      /\ UNCHANGED << applied, schema, lock, migrator, known, attempt, migrationFaults >>
  BY VersionsProperties
     DEF SkipVersion, AtVersion, Mismatch, ViewsAreCurrent, ViewIsCurrent, MigrationTyped, Version
<1>2. MigrationTyped'
  BY <1>1 DEF MigrationTyped
<1>3. OneHolder' /\ NobodyFailsNeedlessly'
  BY <1>1 DEF OneHolder, NobodyFailsNeedlessly
<1>4. ViewsAreCurrent'
  <2> SUFFICES ASSUME NEW n \in Migrators, migrator'[n] = "applying"
               PROVE  ViewIsCurrent(n)'
    BY DEF ViewsAreCurrent
  <2>1. CASE n = m
    <3>1. /\ known'[n] = known[n] /\ applied' = applied
          /\ position'[n] = position[n] + 1 /\ position[n] \in Nat
      BY <1>1, <2>1 DEF MigrationTyped
    <3>2. \A i \in 1 .. position'[n] - 1 : i \in 1 .. position[n] - 1 \/ i = position[n]
      BY <3>1
    <3>3. \A i \in 1 .. position[n] - 1 : i \in 1 .. position'[n] - 1
      BY <3>1
    <3>4. ASSUME NEW i \in 1 .. position'[n] - 1
          PROVE  /\ Versions[i] \in DOMAIN applied /\ Versions[i] \in DOMAIN Files[n]
                 /\ applied[Versions[i]] = Files[n][Versions[i]]
      <4>1. CASE i \in 1 .. position[n] - 1
        BY <1>1, <2>1, <4>1 DEF ViewIsCurrent
      <4>2. CASE i = position[n]
        BY <1>1, <2>1, <4>2 DEF Version
      <4> QED
        BY <3>2, <4>1, <4>2
    <3>5. \A v \in DOMAIN applied :
            v \in DOMAIN known[n] \/ \E i \in 1 .. position'[n] - 1 : v = Versions[i]
      BY <1>1, <2>1, <3>3 DEF ViewIsCurrent
    <3>6. \A v \in DOMAIN known[n] : v \in DOMAIN applied /\ applied[v] = known[n][v]
      BY <1>1, <2>1 DEF ViewIsCurrent
    <3> QED
      BY <3>1, <3>4, <3>5, <3>6 DEF ViewIsCurrent
  <2>2. CASE n # m
    BY <1>1, <2>2, ViewStands DEF ViewsAreCurrent, MigrationTyped
  <2> QED
    BY <2>1, <2>2
<1> QED
  BY <1>1, <1>2, <1>3, <1>4, SchemaStands

LEMMA FindMismatchKeeps ==
  ASSUME MigrationInductive, NEW m \in Migrators, FindMismatch(m) PROVE MigrationInductive'
<1> USE DEF MigrationInductive
<1>1. MigrationTyped'
  BY DEF MigrationTyped, FindMismatch, Goes
<1>2. OneHolder'
  BY OneHolderKept DEF FindMismatch, AtVersion, Holding
<1>3. ViewsAreCurrent'
  BY ViewsKept DEF FindMismatch
<1>4. NobodyFailsNeedlessly'
  <2>1. /\ Version(m) \in DOMAIN applied \cap DOMAIN Files[m]
        /\ applied[Version(m)] # Files[m][Version(m)]
    BY DEF FindMismatch, AtVersion, Mismatch, ViewsAreCurrent, ViewIsCurrent, Version
  <2> QED
    BY <2>1 DEF NobodyFailsNeedlessly, FindMismatch, Goes, MigrationTyped
<1> QED
  BY <1>1, <1>2, <1>3, <1>4, SchemaStands DEF FindMismatch

(* The version a run is about to apply is the first one that is not         *)
(* applied: everything before it is, and nothing else was when it read.     *)
LEMMA NextVersion ==
  ASSUME MigrationInductive, NEW m \in Migrators, AtVersion(m),
         Version(m) \notin DOMAIN known[m]
  PROVE  /\ Version(m) \notin DOMAIN applied
         /\ position[m] = Len(schema) + 1
         /\ position[m] \in 1 .. Len(Versions)
<1> USE DEF MigrationInductive
<1>1. ViewIsCurrent(m)
  BY DEF AtVersion, ViewsAreCurrent
<1>2. /\ position[m] \in 1 .. Len(Versions) /\ Len(Versions) \in Nat
      /\ Len(schema) \in Nat /\ Len(schema) <= Len(Versions)
      /\ DOMAIN applied = { Versions[i] : i \in 1 .. Len(schema) }
  BY VersionsProperties DEF AtVersion, MigrationTyped, AppliedInOrder
<1>3. Version(m) \notin DOMAIN applied
  <2> SUFFICES ASSUME Version(m) \in DOMAIN applied PROVE FALSE
    OBVIOUS
  <2>1. PICK i \in 1 .. position[m] - 1 : Versions[position[m]] = Versions[i]
    BY <1>1 DEF ViewIsCurrent, Version
  <2> QED
    BY <1>2, <2>1, VersionsProperties
<1>4. ~ (position[m] <= Len(schema))
  BY <1>2, <1>3 DEF Version
<1>5. ~ (position[m] > Len(schema) + 1)
  <2> SUFFICES ASSUME position[m] > Len(schema) + 1 PROVE FALSE
    OBVIOUS
  <2>1. Versions[Len(schema) + 1] \in DOMAIN applied
    BY <1>1, <1>2 DEF ViewIsCurrent
  <2>2. PICK i \in 1 .. Len(schema) : Versions[Len(schema) + 1] = Versions[i]
    BY <1>2, <2>1
  <2> QED
    BY <1>2, <2>2, VersionsProperties
<1> QED
  BY <1>2, <1>3, <1>4, <1>5

LEMMA ApplyVersionKeeps ==
  ASSUME MigrationInductive, NEW m \in Migrators, ApplyVersion(m) PROVE MigrationInductive'
<1> USE DEF MigrationInductive
<1> DEFINE v    == Version(m)
           text == Files[m][v]
<1>1. /\ migrator[m] = "applying" /\ ViewIsCurrent(m) /\ v \in DOMAIN Files[m]
      /\ v \notin DOMAIN applied /\ position[m] = Len(schema) + 1
      /\ position[m] \in 1 .. Len(Versions) /\ v = Versions[position[m]]
  BY NextVersion DEF ApplyVersion, AtVersion, ViewsAreCurrent, Version
<1>2. /\ schema' = Append(schema, << v, text >>)
      /\ applied' = [ w \in DOMAIN applied \cup {v} |->
                        IF w = v THEN Files[m][w] ELSE applied[w] ]
      /\ position' = [position EXCEPT ![m] = @ + 1]
      /\ UNCHANGED << migrator, lock, known, attempt, migrationFaults >>
  BY <1>1 DEF ApplyVersion, Recorded
<1>3. /\ schema \in Seq(Statement) /\ Len(schema) \in Nat
      /\ Len(Versions) \in Nat /\ << v, text >> \in Statement
  BY <1>1, VersionsProperties DEF MigrationTyped, Statement
<1>4. /\ schema' \in Seq(Statement) /\ Len(schema') = Len(schema) + 1
      /\ schema'[Len(schema) + 1] = << v, text >>
      /\ \A i \in 1 .. Len(schema) : schema'[i] = schema[i]
  BY <1>2, <1>3, AppendProperties
<1>5. /\ DOMAIN applied' = DOMAIN applied \cup {v} /\ applied'[v] = text
      /\ \A w \in DOMAIN applied : applied'[w] = applied[w]
  BY <1>1, <1>2
<1>6. MigrationTyped'
  BY <1>1, <1>2, <1>3, <1>4 DEF MigrationTyped
<1>7. OneHolder'
  BY <1>2 DEF OneHolder
<1>8. AppliedInOrder'
  <2>1. Len(schema') <= Len(Versions)
    BY <1>1, <1>3, <1>4
  <2>2. \A i \in 1 .. Len(schema') : i \in 1 .. Len(schema) \/ i = Len(schema) + 1
    BY <1>3, <1>4
  <2>3. \A i \in 1 .. Len(schema) : i \in 1 .. Len(schema')
    BY <1>3, <1>4
  <2>4. Len(schema) + 1 \in 1 .. Len(schema')
    BY <1>3, <1>4
  <2>5. \A i \in 1 .. Len(schema') : schema'[i][1] = Versions[i]
    BY <1>1, <1>4, <2>2 DEF AppliedInOrder
  <2>6. DOMAIN applied' = { Versions[i] : i \in 1 .. Len(schema') }
    BY <1>1, <1>5, <2>2, <2>3, <2>4 DEF AppliedInOrder
  <2>7. \A i \in 1 .. Len(schema') : applied'[Versions[i]] = schema'[i][2]
    <3> SUFFICES ASSUME NEW i \in 1 .. Len(schema')
                 PROVE  applied'[Versions[i]] = schema'[i][2]
      OBVIOUS
    <3>1. CASE i = Len(schema) + 1
      BY <1>1, <1>4, <1>5, <3>1
    <3>2. CASE i \in 1 .. Len(schema)
      <4>1. Versions[i] \in DOMAIN applied /\ applied[Versions[i]] = schema[i][2]
        BY <3>2 DEF AppliedInOrder
      <4> QED
        BY <1>4, <1>5, <3>2, <4>1
    <3> QED
      BY <2>2, <3>1, <3>2
  <2> QED
    BY <2>1, <2>5, <2>6, <2>7 DEF AppliedInOrder
<1>9. \A i \in 1 .. position[m] - 1 :
        /\ Versions[i] \in DOMAIN applied /\ Versions[i] \in DOMAIN Files[m]
        /\ applied'[Versions[i]] = Files[m][Versions[i]]
  BY <1>1, <1>5 DEF ViewIsCurrent
<1>10. ViewsAreCurrent'
  <2> SUFFICES ASSUME NEW n \in Migrators, migrator'[n] = "applying"
               PROVE  ViewIsCurrent(n)'
    BY DEF ViewsAreCurrent
  <2>1. n = m
    BY <1>1, <1>2 DEF OneHolder, Holding
  <2>2. /\ known'[m] = known[m] /\ position'[m] = position[m] + 1
        /\ position[m] \in Nat
    BY <1>1, <1>2 DEF MigrationTyped
  <2>3. \A i \in 1 .. position'[m] - 1 : i \in 1 .. position[m] - 1 \/ i = position[m]
    BY <2>2
  <2>4. /\ \A i \in 1 .. position[m] - 1 : i \in 1 .. position'[m] - 1
        /\ position[m] \in 1 .. position'[m] - 1
    BY <1>1, <2>2
  <2>5. \A w \in DOMAIN known'[m] : w \in DOMAIN applied' /\ applied'[w] = known'[m][w]
    BY <1>1, <1>5, <2>2 DEF ViewIsCurrent
  <2>6. \A i \in 1 .. position'[m] - 1 :
          /\ Versions[i] \in DOMAIN applied' /\ Versions[i] \in DOMAIN Files[m]
          /\ applied'[Versions[i]] = Files[m][Versions[i]]
    BY <1>1, <1>5, <1>9, <2>3
  <2>7. \A w \in DOMAIN applied' :
          w \in DOMAIN known'[m] \/ \E i \in 1 .. position'[m] - 1 : w = Versions[i]
    BY <1>1, <1>5, <2>2, <2>4 DEF ViewIsCurrent
  <2> QED
    BY <2>1, <2>5, <2>6, <2>7 DEF ViewIsCurrent
<1>11. SchemaOfOneRelease'
  <2> SUFFICES \A w \in DOMAIN applied' :
                 w \in DOMAIN Files[m] /\ applied'[w] = Files[m][w]
    BY DEF SchemaOfOneRelease
  <2>1. \A w \in DOMAIN applied : \E i \in 1 .. position[m] - 1 : w = Versions[i]
    BY <1>1, <1>3 DEF AppliedInOrder
  <2> QED
    BY <1>1, <1>5, <1>9, <2>1
<1>12. NobodyFailsNeedlessly'
  BY <1>2, <1>5 DEF NobodyFailsNeedlessly
<1> QED
  BY <1>6, <1>7, <1>8, <1>10, <1>11, <1>12

LEMMA AllAppliedKeeps ==
  ASSUME MigrationInductive, NEW m \in Migrators, AllApplied(m) PROVE MigrationInductive'
<1> USE DEF MigrationInductive
<1>1. MigrationTyped'
  BY DEF MigrationTyped, AllApplied, Goes
<1>2. OneHolder'
  BY OneHolderKept DEF AllApplied, Holding
<1>3. ViewsAreCurrent' /\ NobodyFailsNeedlessly'
  BY ViewsKept, FailuresKept DEF AllApplied
<1> QED
  BY <1>1, <1>2, <1>3, SchemaStands DEF AllApplied

(* A failure is a cause of its own for the run it strikes.                  *)
LEMMA FaultExplains ==
  ASSUME MigrationTyped, MigrationFault PROVE NobodyFailsNeedlessly'
BY MigrationAssumption DEF MigrationTyped, MigrationFault, NobodyFailsNeedlessly

LEMMA BlockedKeeps ==
  ASSUME MigrationInductive, NEW m \in Migrators, Blocked(m) PROVE MigrationInductive'
<1> USE DEF MigrationInductive
<1> DEFINE stage == IF attempt[m] < ApplyRetries THEN "retrying" ELSE "failing"
<1>1. MigrationTyped'
  BY MigrationAssumption DEF MigrationTyped, Blocked, Goes, MigrationFault
<1>2. Goes(m, stage) /\ stage \in Holding /\ stage # "applying"
  BY DEF Blocked, Holding
<1> HIDE DEF stage
<1>3. OneHolder'
  BY <1>2, OneHolderKept DEF Blocked, Holding
<1>4. ViewsAreCurrent'
  BY <1>2, ViewsKept DEF Blocked
<1>5. NobodyFailsNeedlessly'
  BY FaultExplains DEF Blocked
<1> QED
  BY <1>1, <1>3, <1>4, <1>5, SchemaStands DEF Blocked

LEMMA SessionLostKeeps ==
  ASSUME MigrationInductive, NEW m \in Migrators, SessionLost(m) PROVE MigrationInductive'
<1> USE DEF MigrationInductive
<1>1. MigrationTyped'
  BY MigrationAssumption DEF MigrationTyped, SessionLost, Goes, MigrationFault
<1>2. OneHolder'
  BY OneHolderKept DEF SessionLost, Holding
<1>3. ViewsAreCurrent'
  BY ViewsKept DEF SessionLost
<1>4. NobodyFailsNeedlessly'
  BY FaultExplains DEF SessionLost
<1> QED
  BY <1>1, <1>2, <1>3, <1>4, SchemaStands DEF SessionLost

LEMMA CloseMigratorKeeps ==
  ASSUME MigrationInductive, NEW m \in Migrators, CloseMigrator(m) PROVE MigrationInductive'
<1> USE DEF MigrationInductive
<1>1. PICK stage \in {"done", "new", "failed"} :
        /\ Goes(m, stage)
        /\ stage = "new" => migrator[m] = "retrying"
        /\ stage = "failed" => migrator[m] = "failing"
  BY DEF CloseMigrator
<1>2. lock' = lock \ {m}
  BY DEF CloseMigrator, LockAfterClose
<1>3. UNCHANGED << applied, schema, known, position, attempt, migrationFaults >>
  BY DEF CloseMigrator
<1>4. MigrationTyped'
  BY <1>1, <1>3 DEF MigrationTyped, Goes
<1>5. OneHolder'
  BY <1>1, <1>2, OneHolderKept DEF Holding
<1>6. ViewsAreCurrent' /\ NobodyFailsNeedlessly'
  BY <1>1, <1>3, ViewsKept, FailuresKept
<1> QED
  BY <1>3, <1>4, <1>5, <1>6, SchemaStands

LEMMA MigrationInductiveStep == MigrationInductive /\ [MigrationNext]_migrationVars => MigrationInductive'
<1> SUFFICES ASSUME MigrationInductive, [MigrationNext]_migrationVars PROVE MigrationInductive'
  OBVIOUS
<1>1. CASE UNCHANGED migrationVars
  <2> USE <1>1 DEF migrationVars, MigrationInductive
  <2>1. MigrationTyped' /\ OneHolder' /\ NobodyFailsNeedlessly'
    BY DEF MigrationTyped, OneHolder, NobodyFailsNeedlessly
  <2>2. ViewsAreCurrent'
    BY ViewStands DEF ViewsAreCurrent
  <2> QED
    BY <2>1, <2>2, SchemaStands
<1> QED
  BY <1>1, ConnectKeeps, TakeLockKeeps, ReadAppliedKeeps, SkipVersionKeeps,
     FindMismatchKeeps, ApplyVersionKeeps, AllAppliedKeeps, BlockedKeeps,
     SessionLostKeeps, CloseMigratorKeeps
     DEF MigrationNext, MigratorStep

LEMMA MigrationInductiveInvariant == MigrationSpec => []MigrationInductive
BY MigrationInductiveInit, MigrationInductiveStep, PTL DEF MigrationSpec

-----------------------------------------------------------------------------
(* The variables of the migration command keep their types, and one session *)
(* at most holds the advisory lock, however many runs there are.            *)
THEOREM MigrationTypeCorrect == MigrationSpec => []MigrationTypeOK
<1>1. MigrationInductive => MigrationTypeOK
  <2> SUFFICES ASSUME MigrationInductive PROVE MigrationTypeOK
    OBVIOUS
  <2> USE DEF MigrationInductive
  <2>1. Cardinality(lock) <= 1
    <3>1. CASE lock = {}
      BY <3>1, FS_EmptySet
    <3>2. CASE lock # {}
      <4>1. PICK m \in lock : lock = {m}
        BY <3>2 DEF OneHolder
      <4> QED
        BY <4>1, FS_Singleton
    <3> QED
      BY <3>1, <3>2
  <2>2. DOMAIN applied \subseteq Range(Versions)
    BY VersionsProperties DEF AppliedInOrder, MigrationTyped
  <2> QED
    BY <2>1, <2>2 DEF MigrationTypeOK, MigrationTyped, OneHolder
<1> QED
  BY <1>1, MigrationInductiveInvariant, PTL

(* Commands of any releases, started together, killed or blocked at any     *)
(* point: the schema is the versions of one release, each executed once and *)
(* in order, and no command fails because of the others.                    *)
THEOREM MigrationsAreSafe == MigrationSpec => []MigrationsSafe
<1>1. MigrationInductive => MigrationsSafe
  <2> SUFFICES ASSUME MigrationInductive PROVE MigrationsSafe
    OBVIOUS
  <2>1. AppliedOnceInOrder
    <3>1. /\ \A i \in 1 .. Len(schema) : schema[i][1] = Versions[i]
          /\ DOMAIN applied = { Versions[i] : i \in 1 .. Len(schema) }
          /\ \A i \in 1 .. Len(schema) : applied[Versions[i]] = schema[i][2]
      BY DEF MigrationInductive, AppliedInOrder
    <3>2. DOMAIN applied = { schema[i][1] : i \in 1 .. Len(schema) }
      BY <3>1
    <3> QED
      BY <3>1, <3>2 DEF AppliedOnceInOrder
  <2> QED
    BY <2>1 DEF MigrationInductive, MigrationsSafe
<1> QED
  BY <1>1, MigrationInductiveInvariant, PTL

-----------------------------------------------------------------------------
(* Replacements: all rows of a request, and sets that hold of each request  *)
(* all of them or none.                                                     *)
SubmittedRows(r) == { [key |-> k, from |-> r] : k \in Range(Submitted[r]) }
AllOrNone(S) == \A q \in Replacement : \A x, y \in SubmittedRows(q) : x \in S => y \in S

ReplaceTyped ==
  /\ replacing \in [Replacement -> {"new", "deleting", "inserting", "done", "refused"}]
  /\ DOMAIN sighted = Replacement /\ DOMAIN removed = Replacement
  /\ DOMAIN added = Replacement /\ ahead \in [Replacement -> SUBSET Replacement]
  /\ \A x \in tableRows : x.from \in Done /\ x \in SubmittedRows(x.from)

(* What is in the table, was seen or is deleted comes in whole submissions. *)
Submissions ==
  /\ AllOrNone(tableRows)
  /\ \A r \in Replacement : AllOrNone(sighted[r]) /\ AllOrNone(removed[r])

(* A request inserts its keys in order, and keeps nothing uncommitted       *)
(* outside its INSERTs.                                                     *)
InsertedInOrder ==
  \A r \in Replacement :
    /\ replacing[r] # "inserting" => added[r] = {} /\ removed[r] = {}
    /\ IsFiniteSet(added[r]) /\ Cardinality(added[r]) <= Len(Submitted[r])
    /\ added[r] = { [key |-> Submitted[r][i], from |-> r] : i \in 1 .. Cardinality(added[r]) }

(* The unique index: keys that are inserted are free, here and in all       *)
(* transactions.                                                            *)
KeysFree ==
  /\ \A x, y \in tableRows : x.key = y.key => x = y
  /\ \A r \in Replacement : \A x \in added[r] :
       /\ \A y \in tableRows \ removed[r] : x.key # y.key
       /\ \A q \in Replacement \ {r} : \A y \in added[q] : x.key # y.key

(* What a request has seen and deleted of those that were done before it.   *)
OlderAreSeen ==
  \A r \in Replacement :
    /\ ahead[r] \subseteq Done
    /\ \A q \in ahead[r] :
         /\ replacing[r] = "deleting" => RowsOf(q) \subseteq sighted[r]
         /\ replacing[r] = "inserting" => RowsOf(q) \subseteq removed[r]

ReplaceInductive ==
  /\ ReplaceTyped /\ Submissions /\ InsertedInOrder /\ KeysFree /\ OlderAreSeen
  /\ NothingOlderSurvives /\ SomeReplacementStands

LEMMA ReplaceInductiveInit == ReplaceInit => ReplaceInductive
<1> SUFFICES ASSUME ReplaceInit PROVE ReplaceInductive
  OBVIOUS
<1> USE DEF ReplaceInit
<1>1. Done = {}
  BY DEF Done
<1>2. ReplaceTyped
  BY DEF ReplaceTyped
<1>3. Submissions
  BY DEF Submissions, AllOrNone
<1>4. InsertedInOrder
  <2> SUFFICES ASSUME NEW r \in Replacement
               PROVE  /\ IsFiniteSet({}) /\ Cardinality({}) <= Len(Submitted[r])
                      /\ {} = { [key |-> Submitted[r][i], from |-> r] : i \in 1 .. Cardinality({}) }
    BY DEF InsertedInOrder
  <2>1. IsFiniteSet({}) /\ Cardinality({}) = 0 /\ Len(Submitted[r]) \in Nat
    BY FS_EmptySet, ReplaceAssumption
  <2> QED
    BY <2>1
<1>5. KeysFree /\ OlderAreSeen
  BY DEF KeysFree, OlderAreSeen
<1>6. NothingOlderSurvives /\ SomeReplacementStands
  BY <1>1 DEF NothingOlderSurvives, SomeReplacementStands
<1> QED
  BY <1>2, <1>3, <1>4, <1>5, <1>6 DEF ReplaceInductive

(* A step that neither commits nor loses a commit leaves the committed      *)
(* state of the requests alone.                                             *)
LEMMA UncommittedStep ==
  ASSUME ReplaceInductive, tableRows' = tableRows, Done' = Done,
         \A r \in Done : ahead'[r] = ahead[r]
  PROVE  /\ AllOrNone(tableRows)' /\ NothingOlderSurvives' /\ SomeReplacementStands'
         /\ \A x \in tableRows' : x.from \in Done' /\ x \in SubmittedRows(x.from)
         /\ \A q \in Replacement : RowsOf(q)' = RowsOf(q)
<1>1. \A q : RowsOf(q)' = RowsOf(q)
  BY DEF RowsOf
<1>2. NothingOlderSurvives'
  BY <1>1 DEF ReplaceInductive, NothingOlderSurvives
<1>3. SomeReplacementStands'
  BY <1>1 DEF ReplaceInductive, SomeReplacementStands
<1> QED
  BY <1>1, <1>2, <1>3
     DEF ReplaceInductive, ReplaceTyped, Submissions, AllOrNone, SubmittedRows

LEMMA StartDeleteKeeps ==
  ASSUME ReplaceInductive, NEW r \in Replacement, StartDelete(r)
  PROVE  ReplaceInductive'
<1> USE DEF ReplaceInductive
<1>1. /\ replacing[r] = "new" /\ replacing' = [replacing EXCEPT ![r] = "deleting"]
      /\ sighted' = [sighted EXCEPT ![r] = tableRows] /\ ahead' = [ahead EXCEPT ![r] = Done]
      /\ UNCHANGED << tableRows, removed, added, replaceFaults >>
  BY DEF StartDelete
<1>2. Done' = Done /\ r \notin Done /\ Done \subseteq Replacement
  BY <1>1 DEF Done, ReplaceTyped
<1>3. \A q \in Done : ahead'[q] = ahead[q]
  BY <1>1, <1>2 DEF ReplaceTyped
<1>4. /\ AllOrNone(tableRows)' /\ NothingOlderSurvives' /\ SomeReplacementStands'
      /\ \A x \in tableRows' : x.from \in Done' /\ x \in SubmittedRows(x.from)
      /\ \A q \in Replacement : RowsOf(q)' = RowsOf(q)
  BY <1>1, <1>2, <1>3, UncommittedStep
<1>5. ReplaceTyped'
  BY <1>1, <1>2, <1>4 DEF ReplaceTyped, SubmittedRows
<1>6. Submissions'
  BY <1>1, <1>4 DEF Submissions, AllOrNone, SubmittedRows, ReplaceTyped
<1>7. InsertedInOrder'
  BY <1>1 DEF InsertedInOrder, ReplaceTyped
<1>8. KeysFree'
  BY <1>1 DEF KeysFree
<1>9. OlderAreSeen'
  <2> SUFFICES ASSUME NEW s \in Replacement
               PROVE  /\ ahead'[s] \subseteq Done'
                      /\ \A q \in ahead'[s] :
                           /\ replacing'[s] = "deleting" => RowsOf(q)' \subseteq sighted'[s]
                           /\ replacing'[s] = "inserting" => RowsOf(q)' \subseteq removed'[s]
    BY DEF OlderAreSeen
  <2>1. CASE s = r
    <3>1. ahead'[s] = Done /\ replacing'[s] = "deleting" /\ sighted'[s] = tableRows
      BY <1>1, <2>1 DEF ReplaceTyped
    <3> QED
      BY <1>2, <1>4, <3>1 DEF RowsOf
  <2>2. CASE s # r
    <3>1. /\ ahead'[s] = ahead[s] /\ replacing'[s] = replacing[s] /\ sighted'[s] = sighted[s]
          /\ removed'[s] = removed[s]
      BY <1>1, <2>2 DEF ReplaceTyped
    <3> QED
      BY <1>2, <1>4, <3>1 DEF OlderAreSeen
  <2> QED
    BY <2>1, <2>2
<1> QED
  BY <1>4, <1>5, <1>6, <1>7, <1>8, <1>9

LEMMA DeleteRowsKeeps ==
  ASSUME ReplaceInductive, NEW r \in Replacement, DeleteRows(r)
  PROVE  ReplaceInductive'
<1> USE DEF ReplaceInductive
<1>1. /\ replacing[r] = "deleting" /\ replacing' = [replacing EXCEPT ![r] = "inserting"]
      /\ removed' = [removed EXCEPT ![r] = sighted[r] \cap tableRows]
      /\ UNCHANGED << tableRows, sighted, added, ahead, replaceFaults >>
  BY DEF DeleteRows
<1>2. Done' = Done /\ Done \subseteq Replacement
  BY <1>1 DEF Done, ReplaceTyped
<1>3. /\ AllOrNone(tableRows)' /\ NothingOlderSurvives' /\ SomeReplacementStands'
      /\ \A x \in tableRows' : x.from \in Done' /\ x \in SubmittedRows(x.from)
      /\ \A q \in Replacement : RowsOf(q)' = RowsOf(q)
  BY <1>1, <1>2, UncommittedStep
<1>4. ReplaceTyped'
  BY <1>1, <1>2, <1>3 DEF ReplaceTyped, SubmittedRows
<1>5. Submissions'
  <2>1. AllOrNone(sighted[r] \cap tableRows)
    BY DEF Submissions, AllOrNone
  <2>2. \A s \in Replacement : AllOrNone(removed'[s])
    BY <1>1, <2>1 DEF Submissions, ReplaceTyped
  <2> QED
    BY <1>1, <1>3, <2>2 DEF Submissions, AllOrNone, SubmittedRows
<1>6. added[r] = {}
  BY <1>1 DEF InsertedInOrder
<1>7. InsertedInOrder'
  BY <1>1 DEF InsertedInOrder, ReplaceTyped
<1>8. KeysFree'
  <2> SUFFICES ASSUME NEW s \in Replacement, NEW x \in added'[s]
               PROVE  /\ \A y \in tableRows' \ removed'[s] : x.key # y.key
                      /\ \A q \in Replacement \ {s} : \A y \in added'[q] : x.key # y.key
    BY <1>1 DEF KeysFree
  <2>1. s # r
    BY <1>1, <1>6
  <2>2. removed'[s] = removed[s]
    BY <1>1, <2>1 DEF ReplaceTyped
  <2> QED
    BY <1>1, <2>2 DEF KeysFree
<1>9. OlderAreSeen'
  <2> SUFFICES ASSUME NEW s \in Replacement, NEW q \in ahead[s]
               PROVE  /\ replacing'[s] = "deleting" => RowsOf(q)' \subseteq sighted[s]
                      /\ replacing'[s] = "inserting" => RowsOf(q)' \subseteq removed'[s]
    BY <1>1, <1>2 DEF OlderAreSeen
  <2>0. q \in Replacement /\ RowsOf(q)' = RowsOf(q)
    BY <1>3 DEF ReplaceTyped
  <2>1. CASE s = r
    <3>1. replacing'[s] = "inserting" /\ removed'[s] = sighted[s] \cap tableRows
      BY <1>1, <2>1 DEF ReplaceTyped
    <3>2. RowsOf(q) \subseteq sighted[s] /\ RowsOf(q) \subseteq tableRows
      BY <1>1, <2>1 DEF OlderAreSeen, RowsOf
    <3> QED
      BY <2>0, <3>1, <3>2
  <2>2. CASE s # r
    <3>1. replacing'[s] = replacing[s] /\ removed'[s] = removed[s]
      BY <1>1, <2>2 DEF ReplaceTyped
    <3> QED
      BY <2>0, <3>1 DEF OlderAreSeen
  <2> QED
    BY <2>1, <2>2
<1> QED
  BY <1>3, <1>4, <1>5, <1>7, <1>8, <1>9

LEMMA AddRowKeeps ==
  ASSUME ReplaceInductive, NEW r \in Replacement, AddRow(r)
  PROVE  ReplaceInductive'
<1> USE DEF ReplaceInductive
<1> DEFINE row == [key |-> NextKey(r), from |-> r]
           n   == Cardinality(added[r])
<1>1. /\ replacing[r] = "inserting" /\ n # Len(Submitted[r])
      /\ \A q \in Replacement \ {r} : \A y \in added[q] : y.key # row.key
      /\ \A y \in (tableRows \ removed[r]) \cup added[r] : y.key # row.key
      /\ added' = [added EXCEPT ![r] = added[r] \cup {row}]
      /\ UNCHANGED << tableRows, replacing, sighted, removed, ahead, replaceFaults >>
  BY DEF AddRow, Adding, AllAdded, InsertWaitsFor, Refused, OfKey
<1>2. Done' = Done /\ \A q \in Done : ahead'[q] = ahead[q]
  BY <1>1 DEF Done
<1>3. /\ AllOrNone(tableRows)' /\ NothingOlderSurvives' /\ SomeReplacementStands'
      /\ \A x \in tableRows' : x.from \in Done' /\ x \in SubmittedRows(x.from)
      /\ \A q \in Replacement : RowsOf(q)' = RowsOf(q)
  BY <1>1, <1>2, UncommittedStep
<1>4. ReplaceTyped'
  BY <1>1, <1>2, <1>3 DEF ReplaceTyped, SubmittedRows
<1>5. Submissions'
  BY <1>1, <1>3 DEF Submissions, AllOrNone, SubmittedRows
<1>6. added'[r] = added[r] \cup {row} /\ \A s \in Replacement \ {r} : added'[s] = added[s]
  BY <1>1 DEF ReplaceTyped
<1>7. InsertedInOrder'
  <2>1. /\ IsFiniteSet(added[r]) /\ n \in Nat /\ n <= Len(Submitted[r])
        /\ Len(Submitted[r]) \in Nat
        /\ added[r] = { [key |-> Submitted[r][i], from |-> r] : i \in 1 .. n }
    BY FS_CardinalityType, ReplaceAssumption DEF InsertedInOrder
  <2>2. row \notin added[r]
    BY <1>1
  <2>3. IsFiniteSet(added[r] \cup {row}) /\ Cardinality(added[r] \cup {row}) = n + 1
    <3> HIDE DEF row
    <3> QED
      BY <2>1, <2>2, FS_AddElement
  <2>4. row = [key |-> Submitted[r][n + 1], from |-> r]
    BY DEF NextKey
  <2> HIDE DEF row, n
  <2>5. added'[r] = { [key |-> Submitted[r][i], from |-> r] : i \in 1 .. n + 1 }
    <3>1. 1 .. n + 1 = (1 .. n) \cup {n + 1}
      BY <2>1
    <3> QED
      BY <1>6, <2>1, <2>4, <3>1
  <2>6. /\ IsFiniteSet(added'[r]) /\ Cardinality(added'[r]) = n + 1
        /\ n + 1 <= Len(Submitted[r])
    BY <1>1, <1>6, <2>1, <2>3
  <2>7. ASSUME NEW s \in Replacement
        PROVE  /\ replacing'[s] # "inserting" => added'[s] = {} /\ removed'[s] = {}
               /\ IsFiniteSet(added'[s]) /\ Cardinality(added'[s]) <= Len(Submitted[s])
               /\ added'[s] = { [key |-> Submitted[s][i], from |-> s] : i \in 1 .. Cardinality(added'[s]) }
    <3>1. CASE s = r
      BY <1>1, <2>5, <2>6, <3>1
    <3>2. CASE s # r
      BY <1>1, <1>6, <3>2 DEF InsertedInOrder
    <3> QED
      BY <3>1, <3>2
  <2> QED
    BY <2>7 DEF InsertedInOrder
<1>8. KeysFree'
  <2> HIDE DEF row
  <2> SUFFICES ASSUME NEW s \in Replacement, NEW x \in added'[s]
               PROVE  /\ \A y \in tableRows \ removed[s] : x.key # y.key
                      /\ \A q \in Replacement \ {s} : \A y \in added'[q] : x.key # y.key
    BY <1>1 DEF KeysFree
  <2>1. CASE x \in added[s]
    <3>1. \A y \in tableRows \ removed[s] : x.key # y.key
      BY <2>1 DEF KeysFree
    <3>2. ASSUME NEW q \in Replacement \ {s}, NEW y \in added'[q] PROVE x.key # y.key
      <4>1. CASE y \in added[q]
        BY <2>1, <4>1 DEF KeysFree
      <4>2. CASE y \notin added[q]
        <5>1. q = r /\ y = row
          BY <1>6, <4>2
        <5> QED
          BY <1>1, <2>1, <5>1
      <4> QED
        BY <4>1, <4>2
    <3> QED
      BY <3>1, <3>2
  <2>2. CASE x \notin added[s]
    <3>1. s = r /\ x = row
      BY <1>6, <2>2
    <3> QED
      BY <1>1, <1>6, <3>1
  <2> QED
    BY <2>1, <2>2
<1>9. OlderAreSeen'
  BY <1>1, <1>2, <1>3 DEF OlderAreSeen, ReplaceTyped
<1> QED
  BY <1>3, <1>4, <1>5, <1>7, <1>8, <1>9

LEMMA RollBackKeeps ==
  ASSUME ReplaceInductive, NEW r \in Replacement, RollBack(r),
         replacing[r] \in {"deleting", "inserting"}
  PROVE  ReplaceInductive'
<1> USE DEF ReplaceInductive
<1>1. /\ replacing' = [replacing EXCEPT ![r] = "refused"]
      /\ removed' = [removed EXCEPT ![r] = {}] /\ added' = [added EXCEPT ![r] = {}]
      /\ UNCHANGED << tableRows, sighted, ahead >>
  BY DEF RollBack
<1>2. Done' = Done /\ \A q \in Done : ahead'[q] = ahead[q]
  BY <1>1 DEF Done, ReplaceTyped
<1>3. /\ AllOrNone(tableRows)' /\ NothingOlderSurvives' /\ SomeReplacementStands'
      /\ \A x \in tableRows' : x.from \in Done' /\ x \in SubmittedRows(x.from)
      /\ \A q \in Replacement : RowsOf(q)' = RowsOf(q)
  BY <1>1, <1>2, UncommittedStep
<1>4. ReplaceTyped'
  BY <1>1, <1>2, <1>3 DEF ReplaceTyped, SubmittedRows
<1>5. /\ removed'[r] = {} /\ added'[r] = {} /\ replacing'[r] = "refused"
      /\ \A s \in Replacement \ {r} : /\ removed'[s] = removed[s] /\ added'[s] = added[s]
                                      /\ replacing'[s] = replacing[s]
  BY <1>1 DEF ReplaceTyped
<1>6. Submissions'
  <2>1. \A s \in Replacement : AllOrNone(removed'[s])
    BY <1>5 DEF Submissions, AllOrNone
  <2> QED
    BY <1>1, <1>3, <2>1 DEF Submissions, AllOrNone, SubmittedRows
<1>7. InsertedInOrder'
  <2>1. /\ IsFiniteSet({}) /\ Cardinality({}) = 0 /\ Len(Submitted[r]) \in Nat
        /\ {} = { [key |-> Submitted[r][i], from |-> r] : i \in 1 .. 0 }
    BY FS_EmptySet, ReplaceAssumption
  <2> SUFFICES ASSUME NEW s \in Replacement
        PROVE  /\ replacing'[s] # "inserting" => added'[s] = {} /\ removed'[s] = {}
               /\ IsFiniteSet(added'[s]) /\ Cardinality(added'[s]) <= Len(Submitted[s])
               /\ added'[s] = { [key |-> Submitted[s][i], from |-> s] : i \in 1 .. Cardinality(added'[s]) }
    BY DEF InsertedInOrder
  <2>2. CASE s = r
    <3>1. added'[s] = {} /\ removed'[s] = {}
      BY <1>5, <2>2
    <3>2. Cardinality(added'[s]) = 0 /\ 1 .. Cardinality(added'[s]) = {}
      BY <2>1, <3>1
    <3>3. Cardinality(added'[s]) <= Len(Submitted[s]) /\ IsFiniteSet(added'[s])
      BY <2>1, <2>2, <3>1, <3>2
    <3> QED
      BY <3>1, <3>2, <3>3
  <2>3. CASE s # r
    BY <1>5, <2>3 DEF InsertedInOrder
  <2> QED
    BY <2>2, <2>3
<1>8. KeysFree'
  <2> SUFFICES ASSUME NEW s \in Replacement, NEW x \in added'[s]
               PROVE  /\ \A y \in tableRows \ removed'[s] : x.key # y.key
                      /\ \A q \in Replacement \ {s} : \A y \in added'[q] : x.key # y.key
    BY <1>1 DEF KeysFree
  <2>1. s # r /\ x \in added[s] /\ removed'[s] = removed[s]
    BY <1>5
  <2>2. \A q \in Replacement : added'[q] \subseteq added[q]
    BY <1>5
  <2> QED
    BY <2>1, <2>2 DEF KeysFree
<1>9. OlderAreSeen'
  <2> SUFFICES ASSUME NEW s \in Replacement, NEW q \in ahead[s]
               PROVE  /\ replacing'[s] = "deleting" => RowsOf(q)' \subseteq sighted[s]
                      /\ replacing'[s] = "inserting" => RowsOf(q)' \subseteq removed'[s]
    BY <1>1, <1>2 DEF OlderAreSeen
  <2>1. q \in Replacement /\ RowsOf(q)' = RowsOf(q)
    BY <1>3 DEF ReplaceTyped
  <2> QED
    BY <1>5, <2>1 DEF OlderAreSeen
<1> QED
  BY <1>3, <1>4, <1>6, <1>7, <1>8, <1>9

(* The keys of all rows of a request are those it submitted.                *)
LEMMA SubmittedKeys ==
  ASSUME NEW r
  PROVE  { x.key : x \in SubmittedRows(r) } = Range(Submitted[r])
<1>1. \A x \in SubmittedRows(r) : x.key \in Range(Submitted[r])
  BY DEF SubmittedRows
<1>2. ASSUME NEW k \in Range(Submitted[r])
      PROVE  \E x \in SubmittedRows(r) : x.key = k
  <2>1. [key |-> k, from |-> r] \in SubmittedRows(r)
    BY <1>2 DEF SubmittedRows
  <2>2. [key |-> k, from |-> r].key = k
    OBVIOUS
  <2> QED
    BY <2>1, <2>2
<1> QED
  BY <1>1, <1>2

(* What a request commits is all it submitted: it inserted as many rows as  *)
(* it has keys, in order.                                                   *)
LEMMA AllInserted ==
  ASSUME ReplaceInductive, NEW r \in Replacement, AllAdded(r)
  PROVE  added[r] = SubmittedRows(r)
<1>1. Submitted[r] \in Seq(RowKey) /\ Len(Submitted[r]) \in Nat
  BY ReplaceAssumption
<1>2. Range(Submitted[r]) = { Submitted[r][i] : i \in 1 .. Len(Submitted[r]) }
  BY <1>1 DEF Range
<1>3. added[r] = { [key |-> Submitted[r][i], from |-> r] : i \in 1 .. Len(Submitted[r]) }
  BY DEF ReplaceInductive, InsertedInOrder, AllAdded
<1> QED
  BY <1>2, <1>3 DEF SubmittedRows

LEMMA CommitKeeps ==
  ASSUME ReplaceInductive, NEW r \in Replacement, CommitReplacement(r)
  PROVE  ReplaceInductive'
<1> USE DEF ReplaceInductive
<1>1. /\ replacing[r] = "inserting" /\ AllAdded(r)
      /\ tableRows' = (tableRows \ removed[r]) \cup added[r]
      /\ replacing' = [replacing EXCEPT ![r] = "done"]
      /\ removed' = [removed EXCEPT ![r] = {}] /\ added' = [added EXCEPT ![r] = {}]
      /\ UNCHANGED << sighted, ahead, replaceFaults >>
  BY DEF CommitReplacement
<1>2. /\ added[r] = SubmittedRows(r)
      /\ \A x \in added[r] : x.from = r
  BY <1>1, AllInserted DEF SubmittedRows
<1>3. Done' = Done \cup {r} /\ r \notin Done /\ Done \subseteq Replacement
  BY <1>1 DEF Done, ReplaceTyped
<1>4. /\ removed'[r] = {} /\ added'[r] = {} /\ replacing'[r] = "done"
      /\ \A s \in Replacement \ {r} : /\ removed'[s] = removed[s] /\ added'[s] = added[s]
                                      /\ replacing'[s] = replacing[s]
  BY <1>1 DEF ReplaceTyped
<1>5. /\ RowsOf(r)' = SubmittedRows(r)
      /\ \A q \in Replacement \ {r} : RowsOf(q)' = RowsOf(q) \ removed[r]
  <2>1. \A x \in tableRows : x.from # r
    BY <1>3 DEF ReplaceTyped
  <2>2. RowsOf(r)' = added[r]
    BY <1>1, <1>2, <2>1 DEF RowsOf
  <2> QED
    BY <1>1, <1>2, <2>2 DEF RowsOf
<1>6. ReplaceTyped'
  <2>1. \A x \in tableRows' : x.from \in Done' /\ x \in SubmittedRows(x.from)
    BY <1>1, <1>2, <1>3 DEF ReplaceTyped
  <2> QED
    BY <1>1, <2>1 DEF ReplaceTyped, SubmittedRows
<1>7. Submissions'
  <2>1. AllOrNone((tableRows \ removed[r]) \cup SubmittedRows(r))
    <3> SUFFICES ASSUME NEW q \in Replacement, NEW x \in SubmittedRows(q), NEW y \in SubmittedRows(q),
                        x \in (tableRows \ removed[r]) \cup SubmittedRows(r)
                 PROVE  y \in (tableRows \ removed[r]) \cup SubmittedRows(r)
      BY DEF AllOrNone
    <3>1. x.from = q /\ y.from = q
      BY DEF SubmittedRows
    <3>2. CASE q = r
      BY <3>2
    <3>3. CASE q # r
      <4>1. x \in tableRows /\ x \notin removed[r]
        BY <1>2, <3>1, <3>3
      <4>2. y \in tableRows
        BY <4>1 DEF Submissions, AllOrNone
      <4>3. y \notin removed[r]
        BY <4>1 DEF Submissions, AllOrNone
      <4> QED
        BY <4>2, <4>3
    <3> QED
      BY <3>2, <3>3
  <2>2. \A s \in Replacement : AllOrNone(removed'[s]) /\ AllOrNone(sighted'[s])
    BY <1>1, <1>4 DEF Submissions, AllOrNone
  <2> QED
    BY <1>1, <1>2, <2>1, <2>2 DEF Submissions, AllOrNone, SubmittedRows
<1>8. InsertedInOrder'
  <2>1. /\ IsFiniteSet({}) /\ Cardinality({}) = 0
    BY FS_EmptySet
  <2> SUFFICES ASSUME NEW s \in Replacement
        PROVE  /\ replacing'[s] # "inserting" => added'[s] = {} /\ removed'[s] = {}
               /\ IsFiniteSet(added'[s]) /\ Cardinality(added'[s]) <= Len(Submitted[s])
               /\ added'[s] = { [key |-> Submitted[s][i], from |-> s] : i \in 1 .. Cardinality(added'[s]) }
    BY DEF InsertedInOrder
  <2>2. CASE s = r
    <3>1. added'[s] = {} /\ removed'[s] = {}
      BY <1>4, <2>2
    <3>2. Cardinality(added'[s]) = 0 /\ 1 .. Cardinality(added'[s]) = {}
      BY <2>1, <3>1
    <3>3. Len(Submitted[s]) \in Nat
      BY ReplaceAssumption
    <3>4. Cardinality(added'[s]) <= Len(Submitted[s]) /\ IsFiniteSet(added'[s])
      BY <2>1, <3>1, <3>2, <3>3
    <3> QED
      BY <3>1, <3>2, <3>4
  <2>3. CASE s # r
    BY <1>4, <2>3 DEF InsertedInOrder
  <2> QED
    BY <2>2, <2>3
<1>9. KeysFree'
  <2>1. ASSUME NEW x \in tableRows', NEW y \in tableRows', x.key = y.key
        PROVE  x = y
    <3>1. CASE x \in added[r] /\ y \in added[r]
      BY <1>2, <2>1, <3>1 DEF SubmittedRows
    <3>2. CASE x \notin added[r] /\ y \notin added[r]
      BY <1>1, <2>1, <3>2 DEF KeysFree
    <3>3. CASE x \in added[r] /\ y \notin added[r]
      BY <1>1, <2>1, <3>3 DEF KeysFree
    <3>4. CASE x \notin added[r] /\ y \in added[r]
      BY <1>1, <2>1, <3>4 DEF KeysFree
    <3> QED
      BY <3>1, <3>2, <3>3, <3>4
  <2>2. ASSUME NEW s \in Replacement, NEW x \in added'[s]
        PROVE  /\ \A y \in tableRows' \ removed'[s] : x.key # y.key
               /\ \A q \in Replacement \ {s} : \A y \in added'[q] : x.key # y.key
    <3>1. s # r /\ x \in added[s] /\ removed'[s] = removed[s]
      BY <1>4, <2>2
    <3>2. \A q \in Replacement : added'[q] \subseteq added[q]
      BY <1>4
    <3>3. \A y \in tableRows \ removed[s] : x.key # y.key
      BY <3>1 DEF KeysFree
    <3>4. \A q \in Replacement \ {s} : \A y \in added[q] : x.key # y.key
      BY <3>1 DEF KeysFree
    <3> QED
      BY <1>1, <3>1, <3>2, <3>3, <3>4
  <2> QED
    BY <2>1, <2>2 DEF KeysFree
<1>10. OlderAreSeen'
  <2> SUFFICES ASSUME NEW s \in Replacement
               PROVE  /\ ahead[s] \subseteq Done'
                      /\ \A q \in ahead[s] :
                           /\ replacing'[s] = "deleting" => RowsOf(q)' \subseteq sighted[s]
                           /\ replacing'[s] = "inserting" => RowsOf(q)' \subseteq removed'[s]
    BY <1>1 DEF OlderAreSeen
  <2>1. ahead[s] \subseteq Done /\ r \notin ahead[s] /\ ahead[s] \subseteq Replacement
    BY <1>3 DEF OlderAreSeen
  <2>2. \A q \in ahead[s] : RowsOf(q)' \subseteq RowsOf(q)
    BY <1>5, <2>1
  <2> QED
    BY <1>3, <1>4, <2>1, <2>2 DEF OlderAreSeen
<1>11. NothingOlderSurvives'
  <2> SUFFICES ASSUME NEW s \in Done', NEW q \in ahead[s] PROVE RowsOf(q)' = {}
    BY <1>1 DEF NothingOlderSurvives
  <2>1. s \in Replacement /\ q \in Done /\ q \in Replacement \ {r}
    BY <1>3 DEF OlderAreSeen
  <2>2. RowsOf(q)' = RowsOf(q) \ removed[r]
    BY <1>5, <2>1
  <2>3. CASE s = r
    BY <1>1, <2>2, <2>3 DEF OlderAreSeen
  <2>4. CASE s \in Done
    BY <2>2, <2>4 DEF NothingOlderSurvives
  <2> QED
    BY <1>3, <2>3, <2>4
<1>12. SomeReplacementStands'
  <2>1. { row.key : row \in SubmittedRows(r) } = Range(Submitted[r])
    BY SubmittedKeys
  <2>2. r \in Done'
    BY <1>3
  <2> QED
    BY <1>5, <2>1, <2>2 DEF SomeReplacementStands
<1> QED
  BY <1>6, <1>7, <1>8, <1>9, <1>10, <1>11, <1>12

(* Who waits is in the middle of its transaction.                           *)
LEMMA DeadlockedIsBusy ==
  ASSUME NEW r \in Replacement, Deadlocked(r)
  PROVE  replacing[r] \in {"deleting", "inserting"}
<1>1. WaitsFor(r) # {}
  BY DEF Deadlocked
<1> QED
  BY <1>1 DEF WaitsFor, Adding

LEMMA ReplaceStepKeeps ==
  ASSUME ReplaceInductive, [ReplaceNext]_replaceVars
  PROVE  ReplaceInductive'
<1>1. CASE UNCHANGED replaceVars
  BY <1>1 DEF replaceVars, ReplaceInductive, ReplaceTyped, Submissions, AllOrNone,
              SubmittedRows, InsertedInOrder, KeysFree, OlderAreSeen, RowsOf, Done,
              NothingOlderSurvives, SomeReplacementStands
<1>2. ASSUME NEW r \in Replacement, ReplacementStep(r) \/ ConnectionLost(r)
      PROVE  ReplaceInductive'
  <2>1. CASE StartDelete(r)
    BY <2>1, StartDeleteKeeps
  <2>2. CASE DeleteRows(r)
    BY <2>2, DeleteRowsKeeps
  <2>3. CASE AddRow(r)
    BY <2>3, AddRowKeeps
  <2>4. CASE RefuseRow(r)
    <3>1. RollBack(r) /\ replacing[r] \in {"deleting", "inserting"}
      BY <2>4 DEF RefuseRow, Adding
    <3> QED
      BY <3>1, RollBackKeeps
  <2>5. CASE AbortDeadlocked(r)
    <3>1. RollBack(r) /\ replacing[r] \in {"deleting", "inserting"}
      BY <2>5, DeadlockedIsBusy DEF AbortDeadlocked
    <3> QED
      BY <3>1, RollBackKeeps
  <2>6. CASE CommitReplacement(r)
    BY <2>6, CommitKeeps
  <2>7. CASE ConnectionLost(r)
    <3>1. RollBack(r) /\ replacing[r] \in {"deleting", "inserting"}
      BY <2>7 DEF ConnectionLost
    <3> QED
      BY <3>1, RollBackKeeps
  <2> QED
    BY <1>2, <2>1, <2>2, <2>3, <2>4, <2>5, <2>6, <2>7 DEF ReplacementStep
<1> QED
  BY <1>1, <1>2 DEF ReplaceNext

LEMMA ReplaceInductiveSound == ReplaceInductive => ReplacementsSound
<1> SUFFICES ASSUME ReplaceInductive PROVE WholeReplacements
  BY DEF ReplacementsSound, ReplaceInductive
<1>1. ASSUME NEW r \in Replacement, RowsOf(r) # {}
      PROVE  { row.key : row \in RowsOf(r) } = Range(Submitted[r])
  <2>1. PICK x \in tableRows : x.from = r
    BY <1>1 DEF RowsOf
  <2>2. x \in SubmittedRows(r)
    BY <2>1 DEF ReplaceInductive, ReplaceTyped
  <2>3. SubmittedRows(r) \subseteq tableRows
    BY <2>1, <2>2 DEF ReplaceInductive, Submissions, AllOrNone
  <2>4. RowsOf(r) \subseteq SubmittedRows(r)
    BY DEF RowsOf, ReplaceInductive, ReplaceTyped
  <2>5. RowsOf(r) = SubmittedRows(r)
    BY <2>3, <2>4 DEF RowsOf, SubmittedRows
  <2> QED
    BY <2>5, SubmittedKeys
<1> QED
  BY <1>1 DEF WholeReplacements, ReplaceInductive, KeysFree

(* PUT .../exposures and .../event-rules: whatever the requests submit, and *)
(* however their transactions interleave, wait for each other, are refused, *)
(* aborted or cut off, the table has whole submissions under unique keys,   *)
(* nothing older than a request that is done, and never goes empty after    *)
(* the first.                                                               *)
THEOREM ReplacementsAreSound == ReplaceSpec => []ReplacementsSound
<1>1. ReplaceInductive /\ [ReplaceNext]_replaceVars => ReplaceInductive'
  BY ReplaceStepKeeps
<1> QED
  BY ReplaceInductiveInit, <1>1, ReplaceInductiveSound, PTL DEF ReplaceSpec

-----------------------------------------------------------------------------
(* Live updates: the posts of notifications that have still to be handled.  *)
Comes(p) ==
  \/ \E j \in DOMAIN notes : notes[j] = p
  \/ message = p /\ socket \in awaited
  \/ \E i \in DOMAIN inbox : inbox[i] = p

LiveTyped ==
  /\ inserted \in 0 .. Len(SymbolOf) /\ hearing \in BOOLEAN /\ message \in 0 .. inserted
  /\ notes \in Seq(Nat) /\ \A j \in DOMAIN notes : notes[j] \in 1 .. inserted
  /\ inbox \in Seq(Nat) /\ \A i \in DOMAIN inbox : inbox[i] \in 1 .. inserted
  /\ opened \in 0 .. MaxSockets /\ socket \in 0 .. opened
  /\ awaited \cup undelivered \cup active \cup served \cup stalled \subseteq 1 .. opened
  /\ awaited # {} => message # 0
  /\ selected \in Selectable /\ shownFor \in Selectable \cup {"none"}
  /\ DOMAIN view \subseteq 1 .. inserted
  /\ poll \in {"due", "sent", "answered"} /\ answer \subseteq 1 .. inserted

(* Notifications come in the order of the inserts, each one once: what the  *)
(* dashboard has received is older than what is sent, and that older than   *)
(* what the listener has queued.                                            *)
NotesInOrder ==
  /\ \A i, j \in DOMAIN notes : i < j => notes[i] < notes[j]
  /\ \A i, j \in DOMAIN inbox : i < j => inbox[i] < inbox[j]
  /\ \A i \in DOMAIN inbox, j \in DOMAIN notes : inbox[i] < notes[j]
  /\ message # 0 => \A j \in DOMAIN notes : message < notes[j]
  /\ message # 0 /\ socket \in awaited => \A i \in DOMAIN inbox : inbox[i] < message

(* A post that is still to come is shown once at most.                      *)
ShownOnceBefore ==
  \A p \in DOMAIN view : view[p] \in {1, 2} /\ (Comes(p) => view[p] = 1)

(* Once answered, what is in view is of the selection; an answer on its way *)
(* that is not aborted is, too.                                             *)
OfSelection ==
  /\ ShownOfSelection
  /\ poll = "answered" => \A p \in answer : SymbolOf[p] = selected

LiveInductive == LiveTyped /\ NotesInOrder /\ ShownOnceBefore /\ OfSelection

LEMMA LiveInductiveInit == LiveInit => LiveInductive
<1> SUFFICES ASSUME LiveInit PROVE LiveInductive
  OBVIOUS
<1> USE LiveAssumption DEF LiveInit
<1>1. << >> \in Seq(Nat) /\ DOMAIN << >> = {} /\ DOMAIN EmptyBag = {}
  BY DEF EmptyBag, SetToBag
<1>2. Len(SymbolOf) \in Nat /\ 1 \in DOMAIN SymbolOf /\ SymbolOf[1] \in Selectable
  BY DEF Selectable, Range
<1>3. LiveTyped
  <2>1. /\ 0 \in 0 .. Len(SymbolOf) /\ 0 \in 0 .. MaxSockets /\ 0 \in 0 .. 0
        /\ {} \cup {} \cup {} \cup {} \cup {} \subseteq 1 .. 0
    BY <1>2
  <2>2. inserted = 0 /\ message = 0 /\ opened = 0 /\ socket = 0
    OBVIOUS
  <2>3. /\ notes \in Seq(Nat) /\ DOMAIN notes = {} /\ inbox \in Seq(Nat) /\ DOMAIN inbox = {}
        /\ DOMAIN view = {}
    BY <1>1
  <2> QED
    BY <1>2, <2>1, <2>2, <2>3 DEF LiveTyped
<1>4. NotesInOrder /\ ShownOnceBefore /\ OfSelection
  BY <1>1 DEF NotesInOrder, ShownOnceBefore, OfSelection, ShownOfSelection, BagToSet
<1> QED
  BY <1>3, <1>4 DEF LiveInductive

(* Steps that add nothing to what comes and to what is shown.               *)
LEMMA NothingNewComes ==
  ASSUME LiveInductive, view' = view,
         notes' \in {notes, << >>}, inbox' \in {inbox, << >>}, message' \in {message, 0},
         message' # 0 /\ socket' \in awaited' => socket \in awaited
  PROVE  NotesInOrder' /\ ShownOnceBefore'
<1>1. DOMAIN << >> = {}
  OBVIOUS
<1>2. NotesInOrder'
  BY <1>1 DEF LiveInductive, NotesInOrder
<1>3. \A p \in DOMAIN view : Comes(p)' => Comes(p)
  <2>1. \A p \in DOMAIN view : p # 0
    BY DEF LiveInductive, LiveTyped
  <2> QED
    BY <1>1, <2>1 DEF Comes
<1>4. ShownOnceBefore'
  BY <1>3 DEF LiveInductive, ShownOnceBefore
<1> QED
  BY <1>2, <1>4

LEMMA InsertPostKeeps ==
  ASSUME LiveInductive, InsertPost
  PROVE  LiveInductive'
<1> USE LiveAssumption DEF LiveInductive, InsertPost, serverVars, pageVars
<1>1. notes \in Seq(Nat) /\ inserted \in Nat /\ inserted' = inserted + 1
  BY DEF LiveTyped
<1>2. /\ notes' \in Seq(Nat)
      /\ \A j \in DOMAIN notes' :
           \/ j \in DOMAIN notes /\ notes'[j] = notes[j]
           \/ notes'[j] = inserted + 1 /\ \A i \in DOMAIN notes' : i <= j
  BY <1>1
<1>3. LiveTyped'
  BY DEF LiveTyped
<1>4. NotesInOrder'
  <2>1. \A i, j \in DOMAIN notes' : i < j => notes'[i] < notes'[j]
    <3> SUFFICES ASSUME NEW i \in DOMAIN notes', NEW j \in DOMAIN notes', i < j
                 PROVE  notes'[i] < notes'[j]
      OBVIOUS
    <3>1. i \in Int /\ j \in Int
      BY <1>2
    <3>2. i \in DOMAIN notes /\ notes'[i] = notes[i]
      BY <1>2, <3>1
    <3>3. notes[i] \in 1 .. inserted
      BY <3>2 DEF LiveTyped
    <3> QED
      BY <1>1, <1>2, <3>2, <3>3 DEF NotesInOrder
  <2>2. \A x \in 0 .. inserted :
          (\A j \in DOMAIN notes : x < notes[j]) => \A j \in DOMAIN notes' : x < notes'[j]
    BY <1>1, <1>2
  <2>3. \A i \in DOMAIN inbox : \A j \in DOMAIN notes' : inbox[i] < notes'[j]
    <3> SUFFICES ASSUME NEW i \in DOMAIN inbox
                 PROVE  \A j \in DOMAIN notes' : inbox[i] < notes'[j]
      OBVIOUS
    <3>1. inbox[i] \in 0 .. inserted
      BY <1>1 DEF LiveTyped
    <3>2. \A j \in DOMAIN notes : inbox[i] < notes[j]
      BY DEF NotesInOrder
    <3> QED
      BY <2>2, <3>1, <3>2
  <2>4. message # 0 => \A j \in DOMAIN notes' : message < notes'[j]
    BY <2>2 DEF LiveTyped, NotesInOrder
  <2> QED
    BY <2>1, <2>3, <2>4 DEF NotesInOrder
<1>5. ShownOnceBefore'
  BY DEF LiveTyped, ShownOnceBefore, Comes
<1>6. OfSelection'
  BY DEF OfSelection, ShownOfSelection, BagToSet
<1> QED
  BY <1>3, <1>4, <1>5, <1>6

LEMMA BeginBroadcastKeeps ==
  ASSUME LiveInductive, BeginBroadcast
  PROVE  LiveInductive'
<1> USE LiveAssumption DEF LiveInductive, BeginBroadcast, pageVars
<1>1. /\ notes \in Seq(Nat) /\ notes # << >>
      /\ \A j \in DOMAIN notes : notes[j] \in 1 .. inserted
  BY DEF LiveTyped
<1>2. /\ notes' \in Seq(Nat) /\ Head(notes) = notes[1] /\ 1 \in DOMAIN notes
      /\ \A j \in DOMAIN notes' : /\ j + 1 \in DOMAIN notes /\ notes'[j] = notes[j + 1]
                                 /\ j \in Nat \ {0}
  BY <1>1
<1>3. LiveTyped'
  <2>1. \A j \in DOMAIN notes' : notes'[j] \in 1 .. inserted
    BY <1>1, <1>2
  <2>2. message' \in 0 .. inserted /\ (awaited' # {} => message' # 0)
    BY <1>1, <1>2 DEF LiveTyped
  <2> QED
    BY <1>2, <2>1, <2>2 DEF LiveTyped
<1>4. NotesInOrder'
  <2>1. \A i, j \in DOMAIN notes' : i < j => notes'[i] < notes'[j]
    BY <1>2 DEF NotesInOrder
  <2>2. \A i \in DOMAIN inbox, j \in DOMAIN notes' : inbox[i] < notes'[j]
    BY <1>2 DEF NotesInOrder
  <2>3. \A j \in DOMAIN notes' : notes[1] < notes'[j]
    BY <1>2 DEF NotesInOrder
  <2>4. \A i \in DOMAIN inbox : inbox[i] < notes[1]
    BY <1>2 DEF NotesInOrder
  <2> QED
    BY <1>2, <2>1, <2>2, <2>3, <2>4 DEF NotesInOrder
<1>5. ShownOnceBefore'
  <2>1. \A p \in DOMAIN view : Comes(p)' => Comes(p)
    BY <1>2 DEF LiveTyped, Comes
  <2> QED
    BY <2>1 DEF ShownOnceBefore
<1>6. OfSelection'
  BY DEF OfSelection, ShownOfSelection, BagToSet
<1> QED
  BY <1>3, <1>4, <1>5, <1>6

LEMMA SendEndsKeeps ==
  ASSUME LiveInductive, NEW c \in Socket, SendEnds(c)
  PROVE  LiveInductive'
<1> USE LiveAssumption DEF LiveInductive
<1>1. /\ c \in awaited /\ awaited' = awaited \ {c} /\ view' = view
      /\ UNCHANGED << inserted, hearing, notes, message, active, served, stalled,
                      socket, opened, selected, shownFor, poll, answer >>
  BY DEF SendEnds
<1>2. CASE c # socket
  <2>1. inbox' = inbox /\ undelivered' = undelivered \cup {c}
    BY <1>2 DEF SendEnds
  <2>2. LiveTyped'
    BY <1>1, <2>1 DEF LiveTyped
  <2>3. NotesInOrder' /\ ShownOnceBefore'
    BY <1>1, <1>2, <2>1, <2>2, NothingNewComes
  <2> QED
    BY <1>1, <2>2, <2>3 DEF OfSelection, ShownOfSelection, BagToSet
<1>3. CASE c = socket
  <2>1. inbox' = Append(inbox, message) /\ undelivered' = undelivered
    BY <1>3 DEF SendEnds
  <2>2. inbox \in Seq(Nat) /\ message \in 1 .. inserted /\ inserted \in Nat
    BY <1>1 DEF LiveTyped
  <2>3. /\ inbox' \in Seq(Nat)
        /\ \A i \in DOMAIN inbox' :
             \/ i \in DOMAIN inbox /\ inbox'[i] = inbox[i]
             \/ inbox'[i] = message /\ \A k \in DOMAIN inbox' : k <= i
    BY <2>1, <2>2
  <2>4. LiveTyped'
    BY <1>1, <2>1, <2>2, <2>3 DEF LiveTyped
  <2>5. NotesInOrder'
    <3>1. \A i, j \in DOMAIN inbox' : i < j => inbox'[i] < inbox'[j]
      <4> SUFFICES ASSUME NEW i \in DOMAIN inbox', NEW j \in DOMAIN inbox', i < j
                   PROVE  inbox'[i] < inbox'[j]
        OBVIOUS
      <4>1. i \in Int /\ j \in Int
        BY <2>3
      <4>2. i \in DOMAIN inbox /\ inbox'[i] = inbox[i]
        BY <2>3, <4>1
      <4>3. inbox[i] < message
        BY <1>1, <1>3, <2>2, <4>2 DEF NotesInOrder
      <4> QED
        BY <2>3, <4>2, <4>3 DEF NotesInOrder
    <3>2. ASSUME NEW i \in DOMAIN inbox', NEW j \in DOMAIN notes PROVE inbox'[i] < notes[j]
      <4>1. message # 0 /\ message < notes[j]
        BY <2>2 DEF NotesInOrder
      <4>2. CASE i \in DOMAIN inbox /\ inbox'[i] = inbox[i]
        BY <4>2 DEF NotesInOrder
      <4>3. CASE inbox'[i] = message
        BY <4>1, <4>3
      <4> QED
        BY <2>3, <4>2, <4>3
    <3> QED
      BY <1>1, <1>3, <3>1, <3>2 DEF NotesInOrder
  <2>6. \A p \in DOMAIN view : Comes(p)' => Comes(p)
    BY <1>1, <1>3, <2>3 DEF Comes
  <2>7. ShownOnceBefore'
    BY <1>1, <2>6 DEF ShownOnceBefore
  <2> QED
    BY <1>1, <2>4, <2>5, <2>7 DEF OfSelection, ShownOfSelection, BagToSet
<1> QED
  BY <1>2, <1>3

LEMMA HandleMessageKeeps ==
  ASSUME LiveInductive, HandleMessage
  PROVE  LiveInductive'
<1> USE LiveAssumption DEF LiveInductive
<1> DEFINE post == Head(inbox)
<1>1. /\ inbox # << >> /\ inbox' = Tail(inbox)
      /\ view' = IF SymbolOf[post] = selected THEN view (+) SetToBag({post}) ELSE view
      /\ UNCHANGED << inserted, hearing, notes, stalled, serverVars, socket, opened,
                      selected, shownFor, poll, answer >>
  BY DEF HandleMessage
<1>2. inbox \in Seq(Nat) /\ \A i \in DOMAIN inbox : inbox[i] \in 1 .. inserted
  BY DEF LiveTyped
<1>3. /\ inbox' \in Seq(Nat) /\ post = inbox[1] /\ 1 \in DOMAIN inbox
      /\ \A j \in DOMAIN inbox' : /\ j + 1 \in DOMAIN inbox /\ inbox'[j] = inbox[j + 1]
                                 /\ j \in Nat \ {0}
  BY <1>1, <1>2
<1>4. /\ DOMAIN view' \subseteq DOMAIN view \cup {post}
      /\ \A p \in DOMAIN view' \ {post} : view'[p] = view[p]
      /\ post \in DOMAIN view' \ DOMAIN view => view'[post] = 1
      /\ post \in DOMAIN view => view'[post] \in {view[post], view[post] + 1}
  <2> HIDE DEF post
  <2>1. \A p \in DOMAIN view : view[p] \in Nat
    BY DEF ShownOnceBefore
  <2>2. CASE view' = view
    BY <2>2
  <2>3. CASE view' = view (+) SetToBag({post})
    <3>1. /\ DOMAIN view' = DOMAIN view \cup {post}
          /\ \A p \in DOMAIN view' :
               view'[p] = (IF p \in DOMAIN view THEN view[p] ELSE 0) + (IF p = post THEN 1 ELSE 0)
      BY <2>3 DEF (+), SetToBag
    <3> QED
      BY <2>1, <3>1
  <2> QED
    BY <1>1, <2>2, <2>3
<1>5. LiveTyped'
  <2>1. post \in 1 .. inserted /\ \A j \in DOMAIN inbox' : inbox'[j] \in 1 .. inserted
    BY <1>2, <1>3
  <2> HIDE DEF post
  <2> QED
    BY <1>1, <1>3, <1>4, <2>1 DEF LiveTyped, serverVars
<1>6. NotesInOrder'
  <2>1. \A i, j \in DOMAIN inbox' : i < j => inbox'[i] < inbox'[j]
    BY <1>3 DEF NotesInOrder
  <2>2. \A i \in DOMAIN inbox', j \in DOMAIN notes : inbox'[i] < notes[j]
    BY <1>3 DEF NotesInOrder
  <2>3. message # 0 /\ socket \in awaited => \A i \in DOMAIN inbox' : inbox'[i] < message
    BY <1>3 DEF NotesInOrder
  <2> QED
    BY <1>1, <2>1, <2>2, <2>3 DEF NotesInOrder, serverVars
<1>7. ShownOnceBefore'
  <2>1. \A p : Comes(p)' => Comes(p)
    BY <1>1, <1>3 DEF Comes, serverVars
  <2>2. ASSUME NEW p, p = post PROVE ~ Comes(p)'
    <3>1. \A j \in DOMAIN notes : notes[j] # post
      BY <1>3 DEF NotesInOrder, LiveTyped
    <3>2. message = post => socket \notin awaited
      BY <1>2, <1>3 DEF NotesInOrder, LiveTyped
    <3>3. \A j \in DOMAIN inbox' : inbox'[j] # post
      BY <1>2, <1>3 DEF NotesInOrder
    <3> HIDE DEF post
    <3> QED
      BY <1>1, <2>2, <3>1, <3>2, <3>3 DEF Comes, serverVars
  <2>3. Comes(post)
    BY <1>3 DEF Comes
  <2>4. post \in DOMAIN view' => view'[post] \in {1, 2}
    BY <1>4, <2>3 DEF ShownOnceBefore
  <2> HIDE DEF post
  <2>5. ASSUME NEW p \in DOMAIN view' \ {post}
        PROVE  view'[p] \in {1, 2} /\ (Comes(p)' => view'[p] = 1)
    <3>1. p \in DOMAIN view /\ view'[p] = view[p]
      BY <1>4
    <3> QED
      BY <2>1, <3>1 DEF ShownOnceBefore
  <2> QED
    BY <2>2, <2>4, <2>5 DEF ShownOnceBefore
<1>8. OfSelection'
  <2>1. shownFor # "none" => \A p \in DOMAIN view : SymbolOf[p] = selected
    BY DEF OfSelection, ShownOfSelection, BagToSet
  <2>2. ASSUME NEW p \in DOMAIN view', shownFor # "none" PROVE SymbolOf[p] = selected
    <3>1. CASE SymbolOf[post] = selected
      BY <1>4, <2>1, <2>2, <3>1
    <3>2. CASE SymbolOf[post] # selected
      BY <1>1, <2>1, <2>2, <3>2
    <3> QED
      BY <3>1, <3>2
  <2> HIDE DEF post
  <2> QED
    BY <1>1, <2>2 DEF OfSelection, ShownOfSelection, BagToSet
<1> QED
  BY <1>5, <1>6, <1>7, <1>8

LEMMA ApplyAnswerKeeps ==
  ASSUME LiveInductive, ApplyAnswer
  PROVE  LiveInductive'
<1> USE LiveAssumption DEF LiveInductive, ApplyAnswer, serverVars
<1>1. DOMAIN view' = answer /\ \A p \in answer : view'[p] = 1
  BY DEF Shown, SetToBag
<1>2. LiveTyped'
  BY <1>1 DEF LiveTyped
<1>3. NotesInOrder' /\ OfSelection'
  BY <1>1 DEF NotesInOrder, OfSelection, ShownOfSelection, BagToSet
<1>4. ShownOnceBefore'
  BY <1>1 DEF ShownOnceBefore
<1> QED
  BY <1>2, <1>3, <1>4

LEMMA LiveStepKeeps ==
  ASSUME LiveInductive, [LiveNext]_liveVars
  PROVE  LiveInductive'
<1> USE LiveAssumption DEF serverVars, pageVars, LiveFault
<1>0. << >> \in Seq(Nat) /\ DOMAIN << >> = {}
  OBVIOUS
<1>1. CASE ListenerConnects
  <2>1. LiveTyped'
    BY <1>0, <1>1 DEF ListenerConnects, LiveInductive, LiveTyped
  <2>2. NotesInOrder' /\ ShownOnceBefore'
    BY <1>1, NothingNewComes DEF ListenerConnects, LiveInductive, LiveTyped
  <2> QED
    BY <1>1, <2>1, <2>2 DEF ListenerConnects, LiveInductive, OfSelection, ShownOfSelection, BagToSet
<1>2. CASE ListenerFails
  <2>1. LiveTyped'
    BY <1>0, <1>2 DEF ListenerFails, LiveInductive, LiveTyped
  <2>2. NotesInOrder' /\ ShownOnceBefore'
    BY <1>2, NothingNewComes DEF ListenerFails, LiveInductive, LiveTyped
  <2> QED
    BY <1>2, <2>1, <2>2 DEF ListenerFails, LiveInductive, OfSelection, ShownOfSelection, BagToSet
<1>3. CASE EndBroadcast
  <2>1. LiveTyped'
    BY <1>0, <1>3 DEF EndBroadcast, LiveInductive, LiveTyped
  <2>2. NotesInOrder' /\ ShownOnceBefore'
    BY <1>3, NothingNewComes DEF EndBroadcast, LiveInductive, LiveTyped
  <2> QED
    BY <1>3, <2>1, <2>2 DEF EndBroadcast, LiveInductive, OfSelection, ShownOfSelection, BagToSet
<1>4. CASE ClientStalls
  <2>1. LiveTyped'
    BY <1>0, <1>4 DEF ClientStalls, LiveInductive, LiveTyped
  <2>2. NotesInOrder' /\ ShownOnceBefore'
    BY <1>4, NothingNewComes DEF ClientStalls, LiveInductive, LiveTyped
  <2> QED
    BY <1>4, <2>1, <2>2 DEF ClientStalls, LiveInductive, OfSelection, ShownOfSelection, BagToSet
<1>5. CASE OpenSocket
  <2>1. LiveTyped'
    BY <1>0, <1>5 DEF OpenSocket, LiveInductive, LiveTyped
  <2>2. NotesInOrder' /\ ShownOnceBefore'
    BY <1>5, NothingNewComes DEF OpenSocket, LiveInductive, LiveTyped
  <2> QED
    BY <1>5, <2>1, <2>2 DEF OpenSocket, LiveInductive, OfSelection, ShownOfSelection, BagToSet
<1>6. CASE Select
  <2>1. LiveTyped'
    BY <1>0, <1>6 DEF Select, LiveInductive, LiveTyped
  <2>2. NotesInOrder' /\ ShownOnceBefore'
    BY <1>6, NothingNewComes DEF Select, LiveInductive, LiveTyped
  <2> QED
    BY <1>6, <2>1, <2>2 DEF Select, LiveInductive, OfSelection, ShownOfSelection, BagToSet
<1>7. CASE SocketLost
  <2>1. LiveTyped'
    BY <1>0, <1>7 DEF SocketLost, LiveInductive, LiveTyped
  <2>2. NotesInOrder' /\ ShownOnceBefore'
    BY <1>7, NothingNewComes DEF SocketLost, LiveInductive, LiveTyped
  <2> QED
    BY <1>7, <2>1, <2>2 DEF SocketLost, LiveInductive, OfSelection, ShownOfSelection, BagToSet
<1>8. CASE BeginRequest
  <2>1. LiveTyped'
    BY <1>0, <1>8 DEF BeginRequest, LiveInductive, LiveTyped
  <2>2. NotesInOrder' /\ ShownOnceBefore'
    BY <1>8, NothingNewComes DEF BeginRequest, LiveInductive, LiveTyped
  <2> QED
    BY <1>8, <2>1, <2>2 DEF BeginRequest, LiveInductive, OfSelection, ShownOfSelection, BagToSet
<1>9. CASE ServeRequest
  <2>1. LiveTyped'
    BY <1>0, <1>9 DEF ServeRequest, LiveInductive, LiveTyped, PostsOf
  <2>2. NotesInOrder' /\ ShownOnceBefore'
    BY <1>9, NothingNewComes DEF ServeRequest, LiveInductive, LiveTyped
  <2> QED
    BY <1>9, <2>1, <2>2 DEF ServeRequest, LiveInductive, OfSelection, ShownOfSelection, BagToSet,
                                      PostsOf
<1>10. CASE RequestBreaks
  <2>1. LiveTyped'
    BY <1>0, <1>10 DEF RequestBreaks, LiveInductive, LiveTyped, AfterFailure
  <2>2. NotesInOrder' /\ ShownOnceBefore'
    BY <1>10, NothingNewComes DEF RequestBreaks, LiveInductive, LiveTyped
  <2> QED
    BY <1>10, <2>1, <2>2 DEF RequestBreaks, LiveInductive, OfSelection, ShownOfSelection, BagToSet
<1>11. CASE AbortedAnswerArrives
  <2>1. LiveTyped'
    BY <1>0, <1>11 DEF AbortedAnswerArrives, LiveInductive, LiveTyped, AppliedWhenAborted
  <2>2. NotesInOrder' /\ ShownOnceBefore'
    BY <1>11, NothingNewComes DEF AbortedAnswerArrives, LiveInductive, LiveTyped, AppliedWhenAborted
  <2> QED
    BY <1>11, <2>1, <2>2 DEF AbortedAnswerArrives, LiveInductive, OfSelection, ShownOfSelection,
                                              BagToSet, AppliedWhenAborted
<1>12. ASSUME NEW c \in Socket, SendTimesOut(c) PROVE LiveInductive'
  <2>1. LiveTyped'
    BY <1>12 DEF SendTimesOut, LiveInductive, LiveTyped
  <2>2. NotesInOrder' /\ ShownOnceBefore'
    BY <1>12, NothingNewComes DEF SendTimesOut, LiveInductive, LiveTyped
  <2> QED
    BY <1>12, <2>1, <2>2 DEF SendTimesOut, LiveInductive, OfSelection, ShownOfSelection, BagToSet
<1>13. ASSUME NEW c \in Socket, EndpointEnds(c) PROVE LiveInductive'
  <2>1. LiveTyped'
    BY <1>13 DEF EndpointEnds, LiveInductive, LiveTyped, ActiveWithout
  <2>2. NotesInOrder' /\ ShownOnceBefore'
    BY <1>13, NothingNewComes DEF EndpointEnds, LiveInductive, LiveTyped
  <2> QED
    BY <1>13, <2>1, <2>2 DEF EndpointEnds, LiveInductive, OfSelection, ShownOfSelection, BagToSet
<1>14. CASE UNCHANGED liveVars
  BY <1>14 DEF liveVars, LiveInductive, LiveTyped, NotesInOrder, ShownOnceBefore, Comes,
               OfSelection, ShownOfSelection, BagToSet
<1> QED
  BY <1>1, <1>2, <1>3, <1>4, <1>5, <1>6, <1>7, <1>8, <1>9, <1>10, <1>11, <1>12, <1>13, <1>14,
     InsertPostKeeps, BeginBroadcastKeeps, SendEndsKeeps, HandleMessageKeeps, ApplyAnswerKeeps
     DEF LiveNext, ServerStep, RequestStep

(* What is shown was stored, whichever way it came.                         *)
THEOREM LiveTypeCorrect == LiveSpec => []LiveTypeOK
<1>1. LiveInductive => LiveTypeOK
  <2> SUFFICES ASSUME LiveInductive PROVE LiveTypeOK
    OBVIOUS
  <2>1. opened \in 0 .. MaxSockets /\ MaxSockets \in Nat /\ 1 .. opened \subseteq Socket
    BY LiveAssumption DEF LiveInductive, LiveTyped, Socket
  <2> QED
    BY <2>1 DEF LiveTypeOK, LiveInductive, LiveTyped, Range, BagToSet
<1>2. LiveInductive /\ [LiveNext]_liveVars => LiveInductive'
  BY LiveStepKeeps
<1> QED
  BY LiveInductiveInit, <1>1, <1>2, PTL DEF LiveSpec

(* The dashboard: whatever is inserted, lost, late or aborted, from the     *)
(* first answer to a selection on it shows posts of that selection only     *)
(* (until then those of earlier ones stay in view), and at all times a post *)
(* that an answer and a notification brought twice, none more often.        *)
THEOREM ViewsAreBounded == LiveSpec => []ViewBounded
<1>1. LiveInductive => ViewBounded
  BY DEF ViewBounded, LiveInductive, OfSelection, ShownOnceBefore, ShownAtMostTwice, BagToSet
<1>2. LiveInductive /\ [LiveNext]_liveVars => LiveInductive'
  BY LiveStepKeeps
<1> QED
  BY LiveInductiveInit, <1>1, <1>2, PTL DEF LiveSpec

-----------------------------------------------------------------------------
(* Sentiment reads: the posts a response of the current request may count.  *)
Countable ==
  Matching(hot \cup canonical) \cup (IF request = Unfiltered THEN aggregated ELSE {})

ReadTyped ==
  /\ hot \subseteq ReadPost /\ horizon \in ReadHour
  /\ request \in Filter \cup {"none"} /\ statement \in 0 .. 3
  /\ counted \in [ReadPost -> {0, 1}] /\ coverage \in 1 .. ReadHours + 1
  /\ slipped \subseteq ReadPost /\ tooLate \subseteq ReadPost

(* Every post is in one tier; the older table knows what the facts know,    *)
(* and what it knew before there were any.                                  *)
OneTier ==
  /\ aggregated = canonical \cup Ancient
  /\ aggregated \subseteq ReadPost
  /\ hot \cap aggregated = {} /\ canonical \cap Ancient = {}
  /\ \A p \in canonical : HourOfPost[p] < horizon

(* What each statement leaves to the next: the aggregates have counted no   *)
(* post that is still in the hot tier.                                      *)
CountedSoFar ==
  /\ request = "none" => statement = 0
  /\ statement = 0 => counted = Nothing
  /\ statement = 1 => \A p \in ReadPost : counted[p] = 1 => p \in aggregated
  /\ \A p \in ReadPost : counted[p] = 1 => p \in Countable
  /\ statement = 3 => \A p \in ReadPost : counted[p] = 1 => coverage <= HourOfPost[p]

(* What is a fact once the aggregates have been read was counted, or there  *)
(* is a reason; so was what is still raw once the posts have been read.     *)
Missed(p) ==
  /\ counted[p] = 0
  /\ p \notin slipped \cup tooLate
  /\ p \in Ancient => In(canonical, HourOfPost[p]) = {}

NoneMissed ==
  /\ statement > 0 => \A p \in Matching(canonical) : ~ Missed(p)
  /\ statement > 0 /\ request = Unfiltered => \A p \in Ancient : ~ Missed(p)
  /\ statement > 1 => \A p \in Matching(hot) : ~ Missed(p)

ReadInductive == ReadTyped /\ OneTier /\ CountedSoFar /\ NoneMissed

(* The earliest of a set of hours.                                          *)
LEMMA EarliestHour ==
  ASSUME NEW S \in SUBSET Nat, S # {}
  PROVE  Min(S) \in S /\ \A h \in S : Min(S) <= h
<1>1. PICK x \in S : \A y \in S : ~ (<< y, x >> \in OpToRel(<, Nat))
  BY WFMin, NatLessThanWellFounded, Zenon
<1>2. \A y \in S : ~ (y < x)
  BY <1>1 DEF OpToRel
<1>3. \A y \in S : x <= y
  BY <1>2
<1> QED
  BY <1>3 DEF Min

LEMMA ReadInductiveInit == ReadInit => ReadInductive
<1> USE ReadAssumption DEF ReadInit, Nothing
<1>1. ReadInit => ReadTyped /\ OneTier
  BY DEF ReadTyped, OneTier, ReadHour
<1>2. ReadInit => CountedSoFar
  BY DEF CountedSoFar
<1>3. ReadInit => NoneMissed
  BY DEF NoneMissed
<1> QED
  BY <1>1, <1>2, <1>3 DEF ReadInductive

(* Posts that move to the facts stay countable.                             *)
LEMMA StorePostKeeps ==
  ASSUME ReadInductive, NEW p \in ReadPost, StorePost(p)
  PROVE  ReadInductive'
<1> USE ReadAssumption DEF ReadInductive, StorePost, responseVars
<1>1. ReadTyped' /\ OneTier'
  BY DEF ReadTyped, OneTier
<1>2. CountedSoFar'
  BY DEF CountedSoFar, Countable, Matching, Nothing, In
<1>3. NoneMissed'
  <2>1. \A q \in Matching(hot)' : q \in Matching(hot) \/ statement < 2 \/ q \in tooLate'
    BY DEF Matching, ReadTyped
  <2>2. \A q : Missed(q)' => Missed(q)
    BY DEF Missed, In
  <2>3. \A q : Missed(q)' => q \notin tooLate'
    BY DEF Missed
  <2> QED
    BY <2>1, <2>2, <2>3 DEF NoneMissed, Matching, ReadTyped
<1> QED
  BY <1>1, <1>2, <1>3

LEMMA MoveExpiredKeeps ==
  ASSUME ReadInductive, NEW h \in ReadHour, MoveExpired(h)
  PROVE  ReadInductive'
<1> USE ReadAssumption DEF ReadInductive
<1> DEFINE expired == { p \in hot : HourOfPost[p] < h }
<1>1. /\ h >= horizon /\ horizon' = h
      /\ hot' = hot \ expired /\ canonical' = canonical \cup expired
      /\ aggregated' = aggregated \cup expired
      /\ slipped' = IF statement = 1 THEN slipped \cup expired ELSE slipped
      /\ UNCHANGED << request, statement, counted, coverage, tooLate >>
  BY DEF MoveExpired, Slip, responseVars
<1>2. ReadTyped'
  BY <1>1 DEF ReadTyped
<1>3. OneTier'
  <2>1. \A p \in canonical : HourOfPost[p] < h
    BY <1>1 DEF OneTier, ReadTyped, ReadHour
  <2> QED
    BY <1>1, <2>1 DEF OneTier, ReadTyped
<1>4. CountedSoFar'
  <2>1. /\ hot' \cup canonical' = hot \cup canonical /\ aggregated \subseteq aggregated'
        /\ canonical \subseteq canonical'
    BY <1>1
  <2> HIDE DEF expired
  <2> QED
    BY <1>1, <2>1 DEF CountedSoFar, Countable, Matching, Nothing, In
<1>5. NoneMissed'
  <2>1. \A p : Missed(p)' => Missed(p)
    BY <1>1 DEF Missed, In
  <2>2. ASSUME NEW p \in Matching(canonical)', statement > 0 PROVE ~ Missed(p)'
    <3>1. CASE p \in expired
      <4>1. statement = 1 => p \in slipped'
        BY <1>1, <3>1
      <4>2. statement > 1 => ~ Missed(p)
        BY <1>1, <2>2, <3>1 DEF NoneMissed, Matching
      <4> QED
        BY <2>1, <2>2, <4>1, <4>2 DEF Missed, ReadTyped
    <3>2. CASE p \in canonical
      BY <1>1, <2>1, <2>2, <3>2 DEF NoneMissed, Matching
    <3> QED
      BY <1>1, <2>2, <3>1, <3>2 DEF Matching
  <2>3. Matching(hot)' \subseteq Matching(hot)
    BY <1>1 DEF Matching
  <2> HIDE DEF expired
  <2> QED
    BY <1>1, <2>1, <2>2, <2>3 DEF NoneMissed
<1> QED
  BY <1>2, <1>3, <1>4, <1>5

LEMMA AskKeeps ==
  ASSUME ReadInductive, NEW f \in Filter, Ask(f)
  PROVE  ReadInductive'
<1> USE ReadAssumption DEF ReadInductive, Ask, tierVars, Nothing
<1>1. ReadTyped' /\ OneTier'
  BY DEF ReadTyped, OneTier
<1>2. CountedSoFar' /\ NoneMissed'
  BY DEF CountedSoFar, NoneMissed
<1> QED
  BY <1>1, <1>2

LEMMA RespondKeeps ==
  ASSUME ReadInductive, Respond
  PROVE  ReadInductive'
<1> USE ReadAssumption DEF ReadInductive, Respond, tierVars, Nothing
<1>1. ReadTyped' /\ OneTier'
  BY DEF ReadTyped, OneTier
<1>2. CountedSoFar' /\ NoneMissed'
  BY DEF CountedSoFar, NoneMissed
<1> QED
  BY <1>1, <1>2

LEMMA StatementOrder ==
  ASSUME ReadInductive, NEW name, Running(name)
  PROVE  /\ request # "none" /\ statement' = statement + 1
         /\ UNCHANGED << hot, canonical, aggregated, horizon, request, slipped, tooLate >>
         /\ name = "aggregates" => statement = 0
         /\ name = "posts"      => statement = 1
         /\ name = "coverage"   => statement = 2
  BY DEF Running, tierVars, ReadInductive, ReadTyped, Statements

LEMMA ReadAggregatesKeeps ==
  ASSUME ReadInductive, ReadAggregates
  PROVE  ReadInductive'
<1> USE ReadAssumption DEF ReadInductive
<1>1. /\ statement = 0 /\ statement' = 1 /\ request # "none"
      /\ UNCHANGED << hot, canonical, aggregated, horizon, request, coverage, slipped,
                      tooLate >>
  BY StatementOrder DEF ReadAggregates
<1>2. counted = Nothing
  BY <1>1 DEF CountedSoFar
<1>3. Matching(canonical) \cap Legacy = {}
  BY DEF Legacy, In, Matching
<1>4. counted' = [p \in ReadPost |-> IF p \in Matching(canonical) \cup Legacy THEN 1 ELSE 0]
  BY <1>2, <1>3 DEF ReadAggregates, CountAll, Nothing
<1>5. ReadTyped' /\ OneTier'
  BY <1>1, <1>4 DEF ReadTyped, OneTier
<1>6. CountedSoFar'
  <2>1. Matching(canonical) \cup Legacy \subseteq aggregated \cap Countable
    BY DEF OneTier, Matching, Legacy, Countable
  <2> QED
    BY <1>1, <1>4, <2>1 DEF CountedSoFar, Countable, Matching, In
<1>7. NoneMissed'
  <2>1. request = Unfiltered =>
          \A p \in Ancient : p \notin Legacy => In(canonical, HourOfPost[p]) # {}
    BY DEF OneTier, Legacy
  <2>2. \A p \in Matching(canonical) \cup Legacy : p \in ReadPost => ~ Missed(p)'
    BY <1>1, <1>4 DEF Missed
  <2>3. \A p \in Ancient : In(canonical, HourOfPost[p]) # {} => ~ Missed(p)'
    BY <1>1 DEF Missed, In
  <2>4. Matching(canonical)' = Matching(canonical) /\ Matching(canonical) \subseteq ReadPost
    BY <1>1 DEF Matching, OneTier
  <2> QED
    BY <1>1, <2>1, <2>2, <2>3, <2>4 DEF NoneMissed
<1> QED
  BY <1>5, <1>6, <1>7

LEMMA ReadPostsKeeps ==
  ASSUME ReadInductive, ReadPosts
  PROVE  ReadInductive'
<1> USE ReadAssumption DEF ReadInductive
<1>1. /\ statement = 1 /\ statement' = 2 /\ request # "none"
      /\ UNCHANGED << hot, canonical, aggregated, horizon, request, coverage, slipped,
                      tooLate >>
  BY StatementOrder DEF ReadPosts
<1>2. \A p \in Matching(hot) : counted[p] = 0
  BY <1>1 DEF CountedSoFar, OneTier, ReadTyped, Matching
<1>3. counted' = [p \in ReadPost |-> IF p \in Matching(hot) THEN 1 ELSE counted[p]]
  BY <1>2 DEF ReadPosts, CountAll, ReadTyped
<1>4. ReadTyped' /\ OneTier'
  BY <1>1, <1>3 DEF ReadTyped, OneTier
<1>5. CountedSoFar'
  <2>1. Matching(hot) \subseteq Countable /\ Matching(hot) \cap Ancient = {}
    BY DEF OneTier, Matching, Countable
  <2> QED
    BY <1>1, <1>3, <2>1 DEF CountedSoFar, Countable, Matching, In
<1>6. NoneMissed'
  <2>1. \A p \in ReadPost : Missed(p)' => Missed(p) /\ p \notin Matching(hot)
    BY <1>1, <1>3 DEF Missed, In
  <2> QED
    BY <1>1, <2>1 DEF NoneMissed, Matching, OneTier, ReadTyped
<1> QED
  BY <1>4, <1>5, <1>6

LEMMA ReadCoverageKeeps ==
  ASSUME ReadInductive, ReadCoverage
  PROVE  ReadInductive'
<1> USE ReadAssumption DEF ReadInductive
<1> DEFINE hours == { HourOfPost[p] : p \in Covered } \cup {ReadHours + 1}
<1>1. /\ statement = 2 /\ statement' = 3 /\ request # "none"
      /\ UNCHANGED << hot, canonical, aggregated, horizon, request, counted, slipped,
                      tooLate >>
      /\ coverage' = Min(hours)
  BY StatementOrder DEF ReadCoverage
<1>2. Covered = Countable /\ Countable \subseteq ReadPost
  BY DEF Covered, Countable, Matching, OneTier, ReadTyped
<1>3. hours \subseteq 1 .. ReadHours + 1
  BY <1>2 DEF ReadHour
<1>4. Min(hours) \in hours /\ \A h \in hours : Min(hours) <= h
  <2>1. hours \in SUBSET Nat /\ hours # {}
    BY <1>3
  <2> QED
    BY <2>1, EarliestHour
<1>5. coverage' \in 1 .. ReadHours + 1
  BY <1>1, <1>3, <1>4
<1>6. \A p \in Countable : coverage' <= HourOfPost[p]
  BY <1>1, <1>2, <1>4
<1> HIDE DEF hours
<1>7. ReadTyped' /\ OneTier'
  BY <1>1, <1>5 DEF ReadTyped, OneTier
<1>8. CountedSoFar'
  BY <1>1, <1>6 DEF CountedSoFar, Countable, Matching, In
<1>9. NoneMissed'
  BY <1>1 DEF NoneMissed, Missed, Matching, In
<1> QED
  BY <1>7, <1>8, <1>9

LEMMA ReadStepKeeps ==
  ASSUME ReadInductive, [ReadNext]_readVars
  PROVE  ReadInductive'
<1>1. CASE UNCHANGED readVars
  BY <1>1 DEF readVars, tierVars, responseVars, ReadInductive, ReadTyped, OneTier,
              CountedSoFar, NoneMissed, Missed, Countable, Matching, In
<1> QED
  BY <1>1, StorePostKeeps, MoveExpiredKeeps, AskKeeps, RespondKeeps, ReadAggregatesKeeps,
     ReadPostsKeeps, ReadCoverageKeeps DEF ReadNext

LEMMA ReadInductiveSound == ReadInductive => ReadsAccountedFor
<1> SUFFICES ASSUME ReadInductive PROVE ReadsAccountedFor
  OBVIOUS
<1> USE ReadAssumption DEF ReadInductive
<1>1. CountedOnce
  <2>1. Countable \subseteq Matching(ReadPost)
    BY DEF Countable, Matching, OneTier, ReadTyped
  <2> QED
    BY <2>1 DEF CountedOnce, CountedSoFar, ReadTyped
<1>2. MissedAreMovedOrHidden
  BY DEF MissedAreMovedOrHidden, NoneMissed, Missed, Matching, ReadTyped
<1>3. CoverageReachesCounts
  BY DEF CoverageReachesCounts, CountedSoFar, ReadTyped
<1>4. BuzzMissesOnlyLate
  <2> SUFFICES ASSUME NEW h \in ReadHour, NEW startsInside \in BOOLEAN,
                      NEW inside \in SUBSET ReadPost,
                      ~ (/\ h < horizon \/ In(Ancient, h) # {}
                         /\ \/ In(hot, h) # {} \/ ~ startsInside
                            \/ ~ (In(hot \cup aggregated, h) \subseteq inside))
               PROVE  Buzz(h, startsInside, inside) =
                        Cardinality(In(hot \cup aggregated, h) \cap inside)
    BY DEF BuzzMissesOnlyLate
  <2>1. CASE In(aggregated, h) = {}
    <3>1. In(hot \cup aggregated, h) = In(hot, h)
      BY <2>1 DEF In
    <3> QED
      BY <2>1, <3>1 DEF Buzz
  <2>2. CASE In(aggregated, h) # {}
    <3>1. h < horizon \/ In(Ancient, h) # {}
      BY <2>2 DEF In, OneTier
    <3>2. /\ In(hot, h) = {} /\ startsInside
          /\ In(hot \cup aggregated, h) \subseteq inside
      BY <3>1
    <3>3. In(hot \cup aggregated, h) \cap inside = In(aggregated, h)
      BY <3>2 DEF In
    <3> QED
      BY <2>2, <3>2, <3>3 DEF Buzz
  <2> QED
    BY <2>1, <2>2
<1> QED
  BY <1>1, <1>2, <1>3, <1>4 DEF ReadsAccountedFor

(* The reads keep their types, for every split of the posts over the tiers. *)
THEOREM ReadTypeCorrect == ReadSpec => []ReadTypeOK
<1>1. ReadInductive => ReadTypeOK
  BY DEF ReadInductive, ReadTyped, OneTier, ReadTypeOK
<1>2. ReadInductive /\ [ReadNext]_readVars => ReadInductive'
  BY ReadStepKeeps
<1> QED
  BY ReadInductiveInit, <1>1, <1>2, PTL DEF ReadSpec

(* The sentiment history: wherever retention moves posts between the three  *)
(* statements of a request, no post is counted twice, none of another       *)
(* platform, none before the start that is reported; what is missing was    *)
(* moved between two statements, stored after them or hidden by a late post.*)
THEOREM ReadsAreAccountedFor == ReadSpec => []ReadsAccountedFor
<1>1. ReadInductive /\ [ReadNext]_readVars => ReadInductive'
  BY ReadStepKeeps
<1> QED
  BY ReadInductiveInit, <1>1, ReadInductiveSound, PTL DEF ReadSpec

-----------------------------------------------------------------------------
(* Quote tiers: facts about least and greatest elements.                    *)

(* The latest of a set that has a bound.                                    *)
LEMMA LatestTick ==
  ASSUME NEW S \in SUBSET Nat, S # {}, NEW B \in Nat, \A x \in S : x <= B
  PROVE  Max(S) \in S /\ \A x \in S : x <= Max(S)
<1> DEFINE T == { n \in Nat : \A x \in S : x <= n }
           m == Min(T)
<1>1. T \in SUBSET Nat /\ T # {}
  OBVIOUS
<1>2. m \in T /\ \A n \in T : m <= n
  BY <1>1, EarliestHour
<1>3. m \in S
  <2> SUFFICES ASSUME m \notin S
               PROVE  FALSE
    OBVIOUS
  <2> HIDE DEF m
  <2>1. \A x \in S : x <= m /\ x # m /\ m \in Nat /\ x \in Nat
    BY <1>2
  <2>2. m - 1 \in Nat /\ \A x \in S : x <= m - 1
    <3>1. PICK x \in S : x \in Nat
      OBVIOUS
    <3>2. x <= m /\ x # m /\ m \in Nat
      BY <2>1
    <3> QED
      BY <2>1, <3>1, <3>2
  <2>3. m - 1 \in T
    BY <2>2
  <2> QED
    BY <1>2, <2>1, <2>3
<1>4. \A x \in S : m >= x
  BY <1>2
<1> HIDE DEF T, m
<1>5. Max(S) \in S /\ \A x \in S : Max(S) >= x
  BY <1>3, <1>4 DEF Max
<1> QED
  BY <1>5

(* There are finitely many quotes, so that their prices have a bound.       *)
LEMMA PricesBounded ==
  \E B \in Nat : \A t \in QuoteTick : PriceAt[t] <= B
<1> DEFINE Low(n) == { t \in QuoteTick : t < n }
           Bad == { n \in Nat : \A B \in Nat : \E t \in Low(n) : PriceAt[t] > B }
<1> USE TierAssumption
<1>1. SUFFICES Bad = {}
  <2>1. QuoteTicks \in Nat /\ QuoteTicks \notin Bad
    BY <1>1
  <2>2. PICK B \in Nat : \A t \in Low(QuoteTicks) : ~ (PriceAt[t] > B)
    BY <2>1
  <2>3. \A t \in QuoteTick : t \in Low(QuoteTicks) /\ PriceAt[t] \in Nat
    BY DEF QuoteTick
  <2> QED
    BY <2>2, <2>3
<1>2. SUFFICES ASSUME Bad # {}
               PROVE  FALSE
  OBVIOUS
<1> DEFINE n == Min(Bad)
<1>3. n \in Bad /\ \A k \in Bad : n <= k
  BY <1>2, EarliestHour
<1> HIDE DEF n
<1>4. PICK t \in Low(n) : PriceAt[t] > 0
  BY <1>3
<1>5. n - 1 \in Nat /\ n \in Nat
  BY <1>3, <1>4 DEF QuoteTick
<1>6. n - 1 \notin Bad
  BY <1>3, <1>5
<1>7. PICK B \in Nat : \A u \in Low(n - 1) : ~ (PriceAt[u] > B)
  BY <1>5, <1>6
<1>8. n - 1 \in QuoteTick => PriceAt[n - 1] \in Nat
  OBVIOUS
<1>9. PICK C \in Nat : C >= B /\ (n - 1 \in QuoteTick => C >= PriceAt[n - 1])
  <2>1. CASE n - 1 \in QuoteTick /\ PriceAt[n - 1] > B
    BY <1>8, <2>1
  <2>2. CASE ~ (n - 1 \in QuoteTick /\ PriceAt[n - 1] > B)
    BY <1>8, <2>2
  <2> QED
    BY <2>1, <2>2
<1>10. PICK u \in Low(n) : PriceAt[u] > C
  BY <1>3, <1>9
<1>11. u \in Low(n - 1) \/ u = n - 1
  BY <1>5, <1>10 DEF QuoteTick
<1>12. u \in QuoteTick /\ PriceAt[u] \in Nat
  BY <1>10
<1> QED
  BY <1>7, <1>9, <1>10, <1>11, <1>12

-----------------------------------------------------------------------------
PricesOf(S) == { PriceAt[t] : t \in S }

(* First and last, lowest and highest of the quotes of a set.               *)
LEMMA Extremes ==
  ASSUME NEW S \in SUBSET QuoteTick, S # {}
  PROVE  /\ Min(S) \in S /\ \A t \in S : Min(S) <= t
         /\ Max(S) \in S /\ \A t \in S : t <= Max(S)
         /\ PricesOf(S) \in SUBSET Nat /\ PricesOf(S) # {}
         /\ Min(PricesOf(S)) \in PricesOf(S)
         /\ \A p \in PricesOf(S) : Min(PricesOf(S)) <= p
         /\ Max(PricesOf(S)) \in PricesOf(S)
         /\ \A p \in PricesOf(S) : p <= Max(PricesOf(S))
<1> USE TierAssumption
<1>1. S \in SUBSET Nat /\ \A t \in S : t <= QuoteTicks
  BY DEF QuoteTick
<1>2. Min(S) \in S /\ \A t \in S : Min(S) <= t
  BY <1>1, EarliestHour
<1>3. Max(S) \in S /\ \A t \in S : t <= Max(S)
  BY <1>1, LatestTick
<1>4. PricesOf(S) \in SUBSET Nat /\ PricesOf(S) # {}
  BY DEF PricesOf
<1>5. PICK B \in Nat : \A t \in QuoteTick : PriceAt[t] <= B
  BY PricesBounded
<1>6. \A p \in PricesOf(S) : p <= B
  BY <1>5 DEF PricesOf
<1>7. /\ Min(PricesOf(S)) \in PricesOf(S)
      /\ \A p \in PricesOf(S) : Min(PricesOf(S)) <= p
  BY <1>4, EarliestHour
<1>8. /\ Max(PricesOf(S)) \in PricesOf(S)
      /\ \A p \in PricesOf(S) : p <= Max(PricesOf(S))
  BY <1>4, <1>6, LatestTick
<1> QED
  BY <1>2, <1>3, <1>4, <1>7, <1>8

(* The least of two sets is the lesser of their least, the greatest so too. *)
LEMMA LeastOfBoth ==
  ASSUME NEW X \in SUBSET Nat, NEW Y \in SUBSET Nat, X # {}, Y # {}
  PROVE  /\ Min(X \cup Y) = IF Min(Y) < Min(X) THEN Min(Y) ELSE Min(X)
         /\ Min({Min(X), Min(Y)}) = Min(X \cup Y)
<1>1. Min(X) \in X /\ \A x \in X : Min(X) <= x
  BY EarliestHour
<1>2. Min(Y) \in Y /\ \A y \in Y : Min(Y) <= y
  BY EarliestHour
<1>3. Min(X \cup Y) \in X \cup Y /\ \A x \in X \cup Y : Min(X \cup Y) <= x
  BY EarliestHour
<1>4. {Min(X), Min(Y)} \in SUBSET Nat /\ {Min(X), Min(Y)} # {}
  BY <1>1, <1>2
<1>5. /\ Min({Min(X), Min(Y)}) \in {Min(X), Min(Y)}
      /\ \A x \in {Min(X), Min(Y)} : Min({Min(X), Min(Y)}) <= x
  BY <1>4, EarliestHour
<1> DEFINE a == Min(X)
           b == Min(Y)
           m == Min(X \cup Y)
           n == Min({a, b})
<1> HIDE DEF a, b, m, n
<1>6. a \in Nat /\ b \in Nat /\ m \in Nat /\ m <= a /\ m <= b /\ (m >= a \/ m >= b)
  BY <1>1, <1>2, <1>3 DEF a, b, m
<1>7. m = IF b < a THEN b ELSE a
  BY <1>6
<1>8. n \in {a, b} /\ n <= a /\ n <= b
  BY <1>5 DEF a, b, n
<1>9. n = m
  BY <1>6, <1>7, <1>8
<1> QED
  BY <1>7, <1>9 DEF a, b, m, n

LEMMA GreatestOfBoth ==
  ASSUME NEW X \in SUBSET Nat, NEW Y \in SUBSET Nat, X # {}, Y # {},
         NEW B \in Nat, \A x \in X \cup Y : x <= B
  PROVE  /\ Max(X \cup Y) = IF Max(Y) >= Max(X) THEN Max(Y) ELSE Max(X)
         /\ Max({Max(X), Max(Y)}) = Max(X \cup Y)
<1>1. Max(X) \in X /\ \A x \in X : x <= Max(X)
  BY LatestTick
<1>2. Max(Y) \in Y /\ \A y \in Y : y <= Max(Y)
  BY LatestTick
<1>3. Max(X \cup Y) \in X \cup Y /\ \A x \in X \cup Y : x <= Max(X \cup Y)
  BY LatestTick
<1>4. {Max(X), Max(Y)} \in SUBSET Nat /\ {Max(X), Max(Y)} # {}
      /\ \A x \in {Max(X), Max(Y)} : x <= B
  BY <1>1, <1>2
<1>5. /\ Max({Max(X), Max(Y)}) \in {Max(X), Max(Y)}
      /\ \A x \in {Max(X), Max(Y)} : x <= Max({Max(X), Max(Y)})
  BY <1>4, LatestTick
<1> DEFINE a == Max(X)
           b == Max(Y)
           m == Max(X \cup Y)
           n == Max({a, b})
<1> HIDE DEF a, b, m, n
<1>6. a \in Nat /\ b \in Nat /\ m \in Nat /\ a <= m /\ b <= m /\ (m <= a \/ m <= b)
  BY <1>1, <1>2, <1>3 DEF a, b, m
<1>7. m = IF b >= a THEN b ELSE a
  BY <1>6
<1>8. n \in {a, b} /\ a <= n /\ b <= n
  BY <1>5 DEF a, b, n
<1>9. n = m
  BY <1>6, <1>7, <1>8
<1> QED
  BY <1>7, <1>9 DEF a, b, m, n
-----------------------------------------------------------------------------
(* The bar of the quotes S when n observations of them were counted.        *)
BarWith(S, n) ==
  [count |-> n, first |-> Min(S), last |-> Max(S),
   open |-> PriceAt[Min(S)], close |-> PriceAt[Max(S)],
   high |-> Max(PricesOf(S)), low |-> Min(PricesOf(S))]

IsBar(bar, S) ==
  IF S = {} THEN bar = NoBar ELSE \E n \in Nat \ {0} : bar = BarWith(S, n)

LEMMA BarOfIsBar ==
  ASSUME NEW S \in SUBSET QuoteTick
  PROVE  /\ IsBar(BarOf(S), S)
         /\ BarOf(S).count = Cardinality(S) /\ IsFiniteSet(S)
         /\ S # {} => BarOf(S) = BarWith(S, Cardinality(S))
<1>1. IsFiniteSet(QuoteTick)
  BY TierAssumption, FS_Interval DEF QuoteTick
<1>2. IsFiniteSet(S)
  BY <1>1, FS_Subset
<1>3. Cardinality(S) \in Nat /\ (Cardinality(S) = 0 <=> S = {})
  BY <1>2, FS_CardinalityType, FS_EmptySet
<1>4. CASE S = {}
  BY <1>2, <1>3, <1>4 DEF IsBar, BarOf, NoBar
<1>5. CASE S # {}
  <2>1. BarOf(S) = BarWith(S, Cardinality(S))
    BY <1>5 DEF BarOf, BarWith, PricesOf
  <2> QED
    BY <1>2, <1>3, <1>5, <2>1 DEF IsBar, BarWith
<1> QED
  BY <1>4, <1>5

(* The upsert of a bar is the bar of both sets of quotes, which may overlap *)
(* and come in any order.                                                   *)
LEMMA FoldedIsBar ==
  ASSUME NEW X \in SUBSET QuoteTick, NEW Y \in SUBSET QuoteTick,
         NEW old, NEW new, IsBar(old, X), IsBar(new, Y)
  PROVE  IsBar(Folded(old, new), X \cup Y)
<1>1. CASE Y = {}
  <2>1. new.count = 0 /\ X \cup Y = X /\ old.count \in Nat
    BY <1>1 DEF IsBar, NoBar, BarWith
  <2>2. Folded(old, new) = old
    BY <2>1 DEF Folded
  <2>3. IsBar(old, X \cup Y)
    BY <2>1
  <2> QED
    BY <2>2, <2>3
<1>2. CASE X = {} /\ Y # {}
  <2>1. old.count = 0 /\ X \cup Y = Y /\ new.count \in Nat \ {0}
    BY <1>2 DEF IsBar, NoBar, BarWith
  <2>2. Folded(old, new) = new
    BY <2>1 DEF Folded
  <2>3. IsBar(new, X \cup Y)
    BY <2>1
  <2> QED
    BY <2>2, <2>3
<1>3. CASE X # {} /\ Y # {}
  <2>1. PICK m \in Nat \ {0} : old = BarWith(X, m)
    BY <1>3 DEF IsBar
  <2>2. PICK n \in Nat \ {0} : new = BarWith(Y, n)
    BY <1>3 DEF IsBar
  <2>3. /\ X \in SUBSET Nat /\ Y \in SUBSET Nat /\ QuoteTicks \in Nat
        /\ \A t \in X \cup Y : t <= QuoteTicks
    BY TierAssumption DEF QuoteTick
  <2>4. PICK B \in Nat : \A t \in QuoteTick : PriceAt[t] <= B
    BY PricesBounded
  <2>5. /\ PricesOf(X) \in SUBSET Nat /\ PricesOf(X) # {}
        /\ PricesOf(Y) \in SUBSET Nat /\ PricesOf(Y) # {}
    BY <1>3, Extremes
  <2>6. \A p \in PricesOf(X) \cup PricesOf(Y) : p <= B
    BY <2>4 DEF PricesOf
  <2>7. PricesOf(X \cup Y) = PricesOf(X) \cup PricesOf(Y)
    BY DEF PricesOf
  <2>8. /\ Min(X \cup Y) = IF Min(Y) < Min(X) THEN Min(Y) ELSE Min(X)
        /\ Min({Min(X), Min(Y)}) = Min(X \cup Y)
    BY <1>3, <2>3, LeastOfBoth
  <2>9. /\ Max(X \cup Y) = IF Max(Y) >= Max(X) THEN Max(Y) ELSE Max(X)
        /\ Max({Max(X), Max(Y)}) = Max(X \cup Y)
    BY <1>3, <2>3, GreatestOfBoth
  <2>10. Min({Min(PricesOf(X)), Min(PricesOf(Y))}) = Min(PricesOf(X \cup Y))
    <3>1. Min({Min(PricesOf(X)), Min(PricesOf(Y))}) = Min(PricesOf(X) \cup PricesOf(Y))
      BY <2>5, LeastOfBoth
    <3> QED
      BY <2>7, <3>1
  <2>11. Max({Max(PricesOf(X)), Max(PricesOf(Y))}) = Max(PricesOf(X \cup Y))
    <3>1. Max({Max(PricesOf(X)), Max(PricesOf(Y))}) = Max(PricesOf(X) \cup PricesOf(Y))
      BY <2>5, <2>6, GreatestOfBoth
    <3> QED
      BY <2>7, <3>1
  <2>12. /\ old.count = m /\ old.first = Min(X) /\ old.last = Max(X)
         /\ old.open = PriceAt[Min(X)] /\ old.close = PriceAt[Max(X)]
         /\ old.high = Max(PricesOf(X)) /\ old.low = Min(PricesOf(X))
    BY <2>1 DEF BarWith
  <2>13. /\ new.count = n /\ new.first = Min(Y) /\ new.last = Max(Y)
         /\ new.open = PriceAt[Min(Y)] /\ new.close = PriceAt[Max(Y)]
         /\ new.high = Max(PricesOf(Y)) /\ new.low = Min(PricesOf(Y))
    BY <2>2 DEF BarWith
  <2>14. Folded(old, new) =
           [count |-> m + n,
            first |-> Min({Min(X), Min(Y)}),
            last  |-> Max({Max(X), Max(Y)}),
            open  |-> IF Min(Y) < Min(X) THEN PriceAt[Min(Y)] ELSE PriceAt[Min(X)],
            close |-> IF Max(Y) >= Max(X) THEN PriceAt[Max(Y)] ELSE PriceAt[Max(X)],
            high  |-> Max({Max(PricesOf(X)), Max(PricesOf(Y))}),
            low   |-> Min({Min(PricesOf(X)), Min(PricesOf(Y))})]
    BY <2>12, <2>13 DEF Folded
  <2>15. /\ PriceAt[Min(X \cup Y)] =
              IF Min(Y) < Min(X) THEN PriceAt[Min(Y)] ELSE PriceAt[Min(X)]
         /\ PriceAt[Max(X \cup Y)] =
              IF Max(Y) >= Max(X) THEN PriceAt[Max(Y)] ELSE PriceAt[Max(X)]
    BY <2>8, <2>9
  <2>16. Folded(old, new) = BarWith(X \cup Y, m + n)
    BY <2>8, <2>9, <2>10, <2>11, <2>14, <2>15 DEF BarWith
  <2>17. m + n \in Nat \ {0} /\ X \cup Y # {}
    BY <1>3
  <2> QED
    BY <2>16, <2>17 DEF IsBar
<1> QED
  BY <1>1, <1>2, <1>3
-----------------------------------------------------------------------------
Buckets(w) == 0 .. Bucket(QuoteTicks - 1, w)

TierTyped ==
  /\ rowsAt \subseteq everAt /\ everAt \subseteq QuoteTick
  /\ bars = [w \in Widths |-> [b \in Buckets(w) |-> bars[w][b]]]
  /\ visible = [r \in Rollup |-> visible[r]]
  /\ expiry \in 0 .. QuoteTicks
  /\ rewrites \in Seq(QuoteTick) /\ Len(rewrites) <= MaxRewrites

(* Some set of quotes was folded, which with the rows that are left is all  *)
(* there ever were; a quote may be in both.                                 *)
BarsOf(X) ==
  /\ X \cup rowsAt = everAt
  /\ \A w \in Widths : \A b \in Buckets(w) : IsBar(bars[w][b], InBucket(X, w, b))

FoldedOnce == \E X \in SUBSET everAt : BarsOf(X)

TierInductive == TierTyped /\ FoldedOnce /\ ObservationsCounted

LEMMA TierInductiveInit == QuoteInit => TierInductive
<1> SUFFICES ASSUME QuoteInit
             PROVE  TierInductive
  OBVIOUS
<1> USE TierAssumption DEF QuoteInit
<1>1. TierTyped
  BY DEF TierTyped, QuoteTick, Buckets
<1>2. \A w \in Widths : \A b \in Buckets(w) : bars[w][b] = NoBar
  BY DEF Buckets
<1>3. \A w, b : InBucket({}, w, b) = {}
  BY DEF InBucket
<1>4. FoldedOnce
  <2>1. BarsOf({})
    BY <1>2, <1>3 DEF BarsOf, IsBar
  <2> QED
    BY <2>1 DEF FoldedOnce
<1>5. ObservationsCounted
  <2>1. \A w, b : Again(rewrites, w, b) = {}
    BY DEF Again
  <2>2. Cardinality({}) = 0
    BY FS_EmptySet
  <2>3. \A w \in Widths : DOMAIN bars[w] = Buckets(w)
    BY DEF Buckets
  <2> QED
    BY <1>2, <1>3, <2>1, <2>2, <2>3 DEF ObservationsCounted, NoBar
<1> QED
  BY <1>1, <1>4, <1>5 DEF TierInductive

LEMMA BucketProperties ==
  ASSUME NEW S \in SUBSET QuoteTick, NEW T \in SUBSET QuoteTick, NEW w, NEW b
  PROVE  /\ InBucket(S, w, b) \in SUBSET QuoteTick
         /\ IsFiniteSet(InBucket(S, w, b)) /\ Cardinality(InBucket(S, w, b)) \in Nat
         /\ InBucket(S \cup T, w, b) = InBucket(S, w, b) \cup InBucket(T, w, b)
         /\ InBucket(S \ T, w, b) = InBucket(S, w, b) \ InBucket(T, w, b)
<1>1. InBucket(S, w, b) \in SUBSET QuoteTick
  BY DEF InBucket
<1>2. IsFiniteSet(InBucket(S, w, b)) /\ Cardinality(InBucket(S, w, b)) \in Nat
  BY <1>1, BarOfIsBar, FS_CardinalityType
<1>3. /\ InBucket(S \cup T, w, b) = InBucket(S, w, b) \cup InBucket(T, w, b)
      /\ InBucket(S \ T, w, b) = InBucket(S, w, b) \ InBucket(T, w, b)
  BY DEF InBucket
<1> QED
  BY <1>1, <1>2, <1>3

(* A new quote is one more of its bucket.                                   *)
LEMMA OneMoreInBucket ==
  ASSUME NEW S \in SUBSET QuoteTick, NEW t \in QuoteTick, t \notin S, NEW w, NEW b
  PROVE  Cardinality(InBucket(S \cup {t}, w, b)) =
           Cardinality(InBucket(S, w, b)) + (IF Bucket(t, w) = b THEN 1 ELSE 0)
<1>1. IsFiniteSet(InBucket(S, w, b)) /\ Cardinality(InBucket(S, w, b)) \in Nat
  BY BucketProperties
<1>2. CASE Bucket(t, w) = b
  <2>1. InBucket(S \cup {t}, w, b) = InBucket(S, w, b) \cup {t} /\ t \notin InBucket(S, w, b)
    BY <1>2 DEF InBucket
  <2> QED
    BY <1>1, <1>2, <2>1, FS_AddElement
<1>3. CASE Bucket(t, w) # b
  <2>1. InBucket(S \cup {t}, w, b) = InBucket(S, w, b)
    BY <1>3 DEF InBucket
  <2> QED
    BY <1>1, <1>3, <2>1
<1> QED
  BY <1>2, <1>3

LEMMA AgainFinite ==
  ASSUME NEW q \in Seq(QuoteTick), NEW w, NEW b
  PROVE  IsFiniteSet(Again(q, w, b)) /\ Cardinality(Again(q, w, b)) \in Nat
<1>1. IsFiniteSet(1 .. Len(q))
  BY FS_Interval
<1>2. Again(q, w, b) \subseteq 1 .. Len(q)
  BY DEF Again
<1> QED
  BY <1>1, <1>2, FS_Subset, FS_CardinalityType

LEMMA OneMoreAgain ==
  ASSUME NEW q \in Seq(QuoteTick), NEW t \in QuoteTick, NEW w, NEW b
  PROVE  Cardinality(Again(Append(q, t), w, b)) =
           Cardinality(Again(q, w, b)) + (IF Bucket(t, w) = b THEN 1 ELSE 0)
<1> DEFINE r == Append(q, t)
           n == Len(q) + 1
<1>1. /\ DOMAIN q = 1 .. Len(q) /\ DOMAIN r = 1 .. n /\ Len(q) \in Nat
      /\ r[n] = t /\ \A i \in 1 .. Len(q) : r[i] = q[i]
  OBVIOUS
<1>2. IsFiniteSet(Again(q, w, b)) /\ Cardinality(Again(q, w, b)) \in Nat
  BY AgainFinite
<1>3. CASE Bucket(t, w) = b
  <2>1. Again(r, w, b) = Again(q, w, b) \cup {n} /\ n \notin Again(q, w, b)
    BY <1>1, <1>3 DEF Again
  <2> HIDE DEF r, n
  <2>2. Cardinality(Again(q, w, b) \cup {n}) = Cardinality(Again(q, w, b)) + 1
    BY <1>2, <2>1, FS_AddElement
  <2> QED
    BY <1>3, <2>1, <2>2 DEF r
<1>4. CASE Bucket(t, w) # b
  <2>1. Again(r, w, b) = Again(q, w, b)
    BY <1>1, <1>4 DEF Again
  <2> QED
    BY <1>2, <1>4, <2>1
<1> QED
  BY <1>3, <1>4

LEMMA BarCounts ==
  ASSUME TierInductive, NEW w \in Widths, NEW b \in DOMAIN bars[w]
  PROVE  b \in Buckets(w) /\ bars[w][b].count \in Nat
<1>1. PICK X \in SUBSET everAt : BarsOf(X)
  BY DEF TierInductive, FoldedOnce
<1>2. b \in Buckets(w)
  BY DEF TierInductive, TierTyped
<1>3. IsBar(bars[w][b], InBucket(X, w, b))
  BY <1>1, <1>2 DEF BarsOf
<1>4. CASE InBucket(X, w, b) = {}
  BY <1>2, <1>3, <1>4 DEF IsBar, NoBar
<1>5. CASE InBucket(X, w, b) # {}
  <2>1. PICK n \in Nat \ {0} : bars[w][b] = BarWith(InBucket(X, w, b), n)
    BY <1>3, <1>5 DEF IsBar
  <2>2. bars[w][b].count = n
    BY <2>1 DEF BarWith
  <2> QED
    BY <1>2, <2>2
<1> QED
  BY <1>4, <1>5

LEMMA OneOnBothSides ==
  ASSUME NEW c \in Int, NEW r \in Int, NEW e \in Int, NEW a \in Int, NEW o \in Int,
         c + r = e + a
  PROVE  c + (r + o) = e + (a + o)
OBVIOUS

LEMMA KeepQuoteKeeps ==
  ASSUME TierInductive, NEW t \in QuoteTick, KeepQuote(t)
  PROVE  TierInductive'
<1> USE TierAssumption DEF KeepQuote
<1>1. TierTyped
  BY DEF TierInductive
<1>2. TierTyped'
  <2>1. rewrites' \in Seq(QuoteTick) /\ Len(rewrites') <= MaxRewrites
    <3>1. rewrites \in Seq(QuoteTick) /\ Len(rewrites) <= MaxRewrites
      BY <1>1 DEF TierTyped
    <3>2. CASE t \in everAt
      <4>1. rewrites' = Append(rewrites, t) /\ Len(rewrites) < MaxRewrites
        BY <3>2
      <4>2. Append(rewrites, t) \in Seq(QuoteTick) /\ Len(rewrites) \in Nat
            /\ Len(Append(rewrites, t)) = Len(rewrites) + 1
        BY <3>1
      <4> QED
        BY <4>1, <4>2
    <3>3. CASE t \notin everAt
      BY <3>1, <3>3
    <3> QED
      BY <3>2, <3>3
  <2>2. /\ rowsAt' \subseteq everAt' /\ everAt' \subseteq QuoteTick
        /\ bars' = [w \in Widths |-> [b \in Buckets(w) |-> bars'[w][b]]]
        /\ visible' = [r \in Rollup |-> visible'[r]]
        /\ expiry' \in 0 .. QuoteTicks
    BY <1>1 DEF TierTyped
  <2> QED
    BY <2>1, <2>2 DEF TierTyped
<1>3. FoldedOnce'
  <2>1. PICK X \in SUBSET everAt : BarsOf(X)
    BY DEF TierInductive, FoldedOnce
  <2>2. X \cup rowsAt' = everAt' /\ X \in SUBSET everAt'
    BY <2>1 DEF BarsOf
  <2>3. BarsOf(X)'
    BY <2>1, <2>2 DEF BarsOf
  <2> QED
    BY <2>2, <2>3 DEF FoldedOnce
<1>4. ObservationsCounted'
  <2> SUFFICES ASSUME NEW w \in Widths, NEW b \in DOMAIN bars[w]
               PROVE  bars[w][b].count + Cardinality(InBucket(rowsAt', w, b)) =
                        Cardinality(InBucket(everAt', w, b))
                          + Cardinality(Again(rewrites', w, b))
    BY DEF ObservationsCounted
  <2> DEFINE one == IF Bucket(t, w) = b THEN 1 ELSE 0
             again == Cardinality(Again(rewrites, w, b))
             inRows == Cardinality(InBucket(rowsAt, w, b))
             inEver == Cardinality(InBucket(everAt, w, b))
             count == bars[w][b].count
  <2>1. count + inRows = inEver + again
    BY DEF TierInductive, ObservationsCounted
  <2>2. /\ rowsAt \in SUBSET QuoteTick /\ everAt \in SUBSET QuoteTick
        /\ rewrites \in Seq(QuoteTick)
    BY <1>1 DEF TierTyped
  <2>3. inRows \in Nat /\ inEver \in Nat /\ again \in Nat /\ one \in {0, 1}
    BY <2>2, BucketProperties, AgainFinite
  <2>4. count \in Int
    BY BarCounts
  <2>5. Cardinality(InBucket(rowsAt \cup {t}, w, b)) = inRows + one
    <3>1. t \notin rowsAt
      OBVIOUS
    <3> HIDE DEF KeepQuote
    <3> QED
      BY <2>2, <3>1, OneMoreInBucket
  <2>6. CASE t \in everAt
    <3>1. Cardinality(Again(Append(rewrites, t), w, b)) = again + one
      BY <2>2, OneMoreAgain
    <3> HIDE DEF one, again, inRows, inEver, count
    <3>2. count + (inRows + one) = inEver + (again + one)
      <4>1. count \in Int /\ inRows \in Int /\ inEver \in Int /\ again \in Int /\ one \in Int
        BY <2>3, <2>4
      <4>2. count + inRows = inEver + again
        BY <2>1
      <4> QED
        BY <4>1, <4>2, OneOnBothSides
    <3>3. everAt' = everAt
      BY <2>6
    <3> QED
      BY <2>5, <2>6, <3>1, <3>2, <3>3 DEF inEver, count
  <2>7. CASE t \notin everAt
    <3>1. Cardinality(InBucket(everAt \cup {t}, w, b)) = inEver + one
      BY <2>2, <2>7, OneMoreInBucket
    <3> HIDE DEF one, again, inRows, inEver, count
    <3>2. count + (inRows + one) = (inEver + one) + again
      <4>1. count + (inRows + one) = inEver + (again + one)
        <5>1. count \in Int /\ inRows \in Int /\ inEver \in Int /\ again \in Int /\ one \in Int
          BY <2>3, <2>4
        <5>2. count + inRows = inEver + again
          BY <2>1
        <5> QED
          BY <5>1, <5>2, OneOnBothSides
      <4>2. inEver + (again + one) = (inEver + one) + again
        BY <2>3
      <4> QED
        BY <4>1, <4>2
    <3> QED
      BY <2>5, <2>7, <3>1, <3>2 DEF again, count
  <2> QED
    BY <2>6, <2>7
<1> QED
  BY <1>2, <1>3, <1>4 DEF TierInductive
LEMMA StartRollupKeeps ==
  ASSUME TierInductive, NEW r \in Rollup, NEW until \in 1 .. QuoteTicks,
         StartRollup(r, until)
  PROVE  TierInductive'
<1> USE DEF StartRollup
<1>1. TierTyped' /\ FoldedOnce' /\ ObservationsCounted'
  <2>1. TierTyped'
    <3>1. visible' = [q \in Rollup |-> visible'[q]]
      BY DEF TierInductive, TierTyped
    <3>2. expiry' \in 0 .. QuoteTicks
      BY TierAssumption
    <3> QED
      BY <3>1, <3>2 DEF TierInductive, TierTyped
  <2>2. FoldedOnce'
    BY DEF TierInductive, FoldedOnce, BarsOf
  <2>3. ObservationsCounted'
    BY DEF TierInductive, ObservationsCounted
  <2> QED
    BY <2>1, <2>2, <2>3
<1> QED
  BY <1>1 DEF TierInductive

LEMMA RollupLostKeeps ==
  ASSUME TierInductive, NEW r \in Rollup, RollupLost(r)
  PROVE  TierInductive'
<1> USE DEF RollupLost
<1>1. TierTyped'
  BY DEF TierInductive, TierTyped
<1>2. FoldedOnce'
  BY DEF TierInductive, FoldedOnce, BarsOf
<1>3. ObservationsCounted'
  BY DEF TierInductive, ObservationsCounted
<1> QED
  BY <1>1, <1>2, <1>3 DEF TierInductive

(* Exactly the rows that are deleted are folded, and counted once more.     *)
LEMMA CommitRollupKeeps ==
  ASSUME TierInductive, NEW r \in Rollup, CommitRollup(r)
  PROVE  TierInductive'
<1> USE DEF CommitRollup
<1>1. TierTyped /\ ObservationsCounted
  BY DEF TierInductive
<1>0. PICK gone : gone = Pruned(r)
  OBVIOUS
<1>2. /\ gone \subseteq rowsAt /\ rowsAt' = rowsAt \ gone
      /\ rowsAt \in SUBSET QuoteTick /\ gone \in SUBSET QuoteTick
      /\ everAt' = everAt /\ rewrites' = rewrites /\ everAt \in SUBSET QuoteTick
  BY <1>0, <1>1 DEF TierTyped, Pruned
<1>3. \A w \in Widths : DOMAIN bars[w] = Buckets(w)
  BY <1>1 DEF TierTyped
<1>4. /\ bars' = [w \in Widths |-> [b \in Buckets(w) |-> bars'[w][b]]]
      /\ \A w \in Widths : DOMAIN bars'[w] = Buckets(w)
      /\ \A w \in Widths : \A b \in Buckets(w) :
           bars'[w][b] = Folded(bars[w][b], BarOf(InBucket(gone, w, b)))
  BY <1>0, <1>3
<1>5. PICK X \in SUBSET QuoteTick : BarsOf(X) /\ X \subseteq everAt
  BY <1>2 DEF TierInductive, FoldedOnce
<1>6. ASSUME NEW w \in Widths, NEW b \in Buckets(w)
      PROVE  /\ IsBar(bars'[w][b], InBucket(X \cup gone, w, b))
             /\ bars'[w][b].count =
                  bars[w][b].count + Cardinality(InBucket(gone, w, b))
  <2>1. InBucket(X, w, b) \in SUBSET QuoteTick /\ InBucket(gone, w, b) \in SUBSET QuoteTick
    BY <1>2, <1>5 DEF InBucket
  <2>2. InBucket(X \cup gone, w, b) = InBucket(X, w, b) \cup InBucket(gone, w, b)
    BY DEF InBucket
  <2>3. IsBar(bars[w][b], InBucket(X, w, b))
    BY <1>5 DEF BarsOf
  <2> DEFINE old == bars[w][b]
             new == BarOf(InBucket(gone, w, b))
             S == InBucket(X, w, b)
             T == InBucket(gone, w, b)
  <2>4. IsBar(new, T) /\ new.count = Cardinality(T)
    BY <2>1, BarOfIsBar
  <2>5. IsBar(old, S) /\ S \in SUBSET QuoteTick /\ T \in SUBSET QuoteTick
    BY <2>1, <2>3
  <2> HIDE DEF old, new, S, T
  <2>6. IsBar(Folded(old, new), S \cup T) /\ Folded(old, new).count = old.count + new.count
    <3>1. IsBar(Folded(old, new), S \cup T)
      BY <2>4, <2>5, FoldedIsBar, Zenon
    <3>2. old.count \in Nat /\ new.count \in Nat
      <4>1. old.count \in Nat
        BY <1>3, BarCounts DEF old
      <4>2. Cardinality(T) \in Nat
        BY <2>5, BarOfIsBar, FS_CardinalityType
      <4> QED
        BY <2>4, <4>1, <4>2
    <3>3. Folded(old, new).count = old.count + new.count
      BY <3>2 DEF Folded
    <3> QED
      BY <3>1, <3>3
  <2>7. bars'[w][b] = Folded(old, new)
    BY <1>4 DEF old, new
  <2> QED
    BY <2>2, <2>4, <2>6, <2>7 DEF old, S, T
<1>7. TierTyped'
  <2>1. rowsAt' \subseteq everAt' /\ everAt' \subseteq QuoteTick
    BY <1>1, <1>2 DEF TierTyped
  <2> QED
    BY <1>1, <1>4, <2>1 DEF TierTyped
<1>8. FoldedOnce'
  <2>1. X \cup gone \in SUBSET everAt' /\ (X \cup gone) \cup rowsAt' = everAt'
    BY <1>1, <1>2, <1>5 DEF BarsOf, TierTyped
  <2>2. BarsOf(X \cup gone)'
    BY <1>6, <2>1 DEF BarsOf
  <2> QED
    BY <2>1, <2>2 DEF FoldedOnce
<1>9. ObservationsCounted'
  <2> SUFFICES ASSUME NEW w \in Widths, NEW b \in Buckets(w)
               PROVE  bars'[w][b].count + Cardinality(InBucket(rowsAt', w, b)) =
                        Cardinality(InBucket(everAt, w, b))
                          + Cardinality(Again(rewrites, w, b))
    BY <1>2, <1>4 DEF ObservationsCounted
  <2> DEFINE inRows == Cardinality(InBucket(rowsAt, w, b))
             pruned == Cardinality(InBucket(gone, w, b))
             total == Cardinality(InBucket(everAt, w, b))
                        + Cardinality(Again(rewrites, w, b))
  <2>1. bars[w][b].count + inRows = total
    BY <1>1, <1>3 DEF ObservationsCounted
  <2>2. bars[w][b].count \in Nat
    BY <1>3, BarCounts
  <2>3. /\ inRows \in Nat /\ pruned \in Nat
        /\ IsFiniteSet(InBucket(rowsAt, w, b))
    BY <1>2, BucketProperties
  <2>8. InBucket(rowsAt \ gone, w, b) = InBucket(rowsAt, w, b) \ InBucket(gone, w, b)
    BY DEF InBucket
  <2>4. InBucket(rowsAt, w, b) \cap InBucket(gone, w, b) = InBucket(gone, w, b)
    BY <1>2 DEF InBucket
  <2>5. Cardinality(InBucket(rowsAt \ gone, w, b)) = inRows - pruned
    <3>1. Cardinality(InBucket(rowsAt, w, b) \ InBucket(gone, w, b)) =
            inRows - Cardinality(InBucket(rowsAt, w, b) \cap InBucket(gone, w, b))
      BY <2>3, FS_Difference
    <3> QED
      BY <2>4, <2>8, <3>1
  <2>6. bars'[w][b].count = bars[w][b].count + pruned
    BY <1>6
  <2> HIDE DEF inRows, pruned, total
  <2>7. (bars[w][b].count + pruned) + (inRows - pruned) = total
    BY <2>1, <2>2, <2>3
  <2> QED
    BY <1>2, <2>5, <2>6, <2>7 DEF total
<1> QED
  BY <1>7, <1>8, <1>9 DEF TierInductive

THEOREM TierInductiveInvariant == QuoteSpec => []TierInductive
<1>1. TierInductive /\ [QuoteNext]_quoteVars => TierInductive'
  <2> SUFFICES ASSUME TierInductive, [QuoteNext]_quoteVars
               PROVE  TierInductive'
    OBVIOUS
  <2>1. ASSUME NEW t \in QuoteTick, KeepQuote(t)
        PROVE  TierInductive'
    BY <2>1, KeepQuoteKeeps
  <2>2. ASSUME NEW r \in Rollup, NEW until \in 1 .. QuoteTicks, StartRollup(r, until)
        PROVE  TierInductive'
    BY <2>2, StartRollupKeeps
  <2>3. ASSUME NEW r \in Rollup, CommitRollup(r)
        PROVE  TierInductive'
    BY <2>3, CommitRollupKeeps
  <2>4. ASSUME NEW r \in Rollup, RollupLost(r)
        PROVE  TierInductive'
    BY <2>4, RollupLostKeeps
  <2>5. CASE UNCHANGED quoteVars
    BY <2>5 DEF quoteVars, TierInductive, TierTyped, FoldedOnce, BarsOf, ObservationsCounted
  <2> QED
    BY <2>1, <2>2, <2>3, <2>4, <2>5 DEF QuoteNext
<1> QED
  BY <1>1, TierInductiveInit, PTL DEF QuoteSpec

-----------------------------------------------------------------------------
(* Two bars that are folded, of sets of quotes that may overlap, have the   *)
(* prices of the bar of all of them.                                        *)
LEMMA FoldedIsBarOfAll ==
  ASSUME NEW X \in SUBSET QuoteTick, NEW Y \in SUBSET QuoteTick,
         NEW old, IsBar(old, X)
  PROVE  LET all    == BarOf(X \cup Y)
             merged == Folded(old, BarOf(Y))
         IN  /\ merged.count = 0 <=> all.count = 0
             /\ all.count # 0 => Prices(merged) = Prices(all)
<1> DEFINE all == BarOf(X \cup Y)
           merged == Folded(old, BarOf(Y))
<1>1. IsBar(BarOf(Y), Y)
  BY BarOfIsBar
<1>2. IsBar(merged, X \cup Y)
  BY <1>1, FoldedIsBar, Zenon
<1>3. X \cup Y # {} => all = BarWith(X \cup Y, Cardinality(X \cup Y))
  BY BarOfIsBar
<1> HIDE DEF merged
<1>4. CASE X \cup Y = {}
  <2>1. merged = NoBar /\ all = NoBar
    BY <1>2, <1>4 DEF IsBar, BarOf
  <2> QED
    BY <2>1 DEF NoBar, merged
<1>5. CASE X \cup Y # {}
  <2>1. PICK n \in Nat \ {0} : merged = BarWith(X \cup Y, n)
    BY <1>2, <1>5 DEF IsBar
  <2>2. merged.count = n /\ Prices(merged) = Prices(BarWith(X \cup Y, n))
    BY <2>1 DEF BarWith
  <2>3. Prices(all) = Prices(BarWith(X \cup Y, n))
    BY <1>3, <1>5 DEF BarWith, Prices
  <2>4. all.count # 0
    <3>1. IsBar(all, X \cup Y)
      BY BarOfIsBar
    <3>2. PICK k \in Nat \ {0} : all = BarWith(X \cup Y, k)
      BY <1>5, <3>1 DEF IsBar
    <3>3. all.count = k
      BY <3>2 DEF BarWith
    <3> QED
      BY <3>3
  <2> QED
    BY <2>2, <2>3, <2>4 DEF merged
<1> QED
  BY <1>4, <1>5 DEF merged

LEMMA BarsAreOfAllQuotes == TierInductive => BarsOfAllQuotes
<1> SUFFICES ASSUME TierInductive, NEW w \in Widths, NEW b \in DOMAIN bars[w]
             PROVE  LET all    == BarOf(InBucket(everAt, w, b))
                        merged == Folded(bars[w][b], BarOf(InBucket(rowsAt, w, b)))
                    IN  /\ merged.count = 0 <=> all.count = 0
                        /\ all.count # 0 => Prices(merged) = Prices(all)
  BY DEF BarsOfAllQuotes
<1>1. PICK X \in SUBSET everAt : BarsOf(X)
  BY DEF TierInductive, FoldedOnce
<1>2. b \in Buckets(w)
  BY BarCounts
<1> DEFINE S == InBucket(X, w, b)
           T == InBucket(rowsAt, w, b)
<1>3. IsBar(bars[w][b], S)
  BY <1>1, <1>2 DEF BarsOf
<1>4. S \in SUBSET QuoteTick /\ T \in SUBSET QuoteTick
  BY <1>1 DEF TierInductive, TierTyped, InBucket
<1>5. InBucket(everAt, w, b) = S \cup T
  BY <1>1 DEF BarsOf, InBucket
<1> HIDE DEF S, T
<1>6. LET all    == BarOf(S \cup T)
          merged == Folded(bars[w][b], BarOf(T))
      IN  /\ merged.count = 0 <=> all.count = 0
          /\ all.count # 0 => Prices(merged) = Prices(all)
  BY <1>3, <1>4, FoldedIsBarOfAll
<1> QED
  BY <1>5, <1>6 DEF T

(* An hour is closed by the latest quote of both tiers.                     *)
LEMMA HourReads ==
  ASSUME TierInductive, NEW h \in Hours
  PROVE  /\ HourSources(h) # {} <=> InBucket(everAt, HourTicks, h) # {}
         /\ InBucket(everAt, HourTicks, h) # {} =>
              HourClose(h) = PriceAt[Max(InBucket(everAt, HourTicks, h))]
<1>1. PICK X \in SUBSET everAt : BarsOf(X)
  BY DEF TierInductive, FoldedOnce
<1> DEFINE w == HourTicks
           S == InBucket(X, w, h)
           T == InBucket(rowsAt, w, h)
           A == InBucket(everAt, w, h)
           old == bars[w][h]
           new == BarOf(T)
<1>2. w \in Widths /\ h \in Buckets(w)
  <2>1. w \in Widths
    BY DEF Widths
  <2> QED
    BY <2>1, BarCounts DEF Hours
<1>3. IsBar(old, S)
  BY <1>1, <1>2 DEF BarsOf
<1>4. S \in SUBSET QuoteTick /\ T \in SUBSET QuoteTick /\ A = S \cup T
  BY <1>1 DEF TierInductive, TierTyped, InBucket, BarsOf
<1>5. IsBar(new, T)
  BY <1>4, BarOfIsBar
<1>6. HourSources(h) = { b \in {old, new} : b.count > 0 }
  BY DEF HourSources
<1> HIDE DEF S, T, A, old, new
<1>7. /\ old.count \in Nat /\ (old.count > 0 <=> S # {})
      /\ S # {} => old.last = Max(S) /\ old.close = PriceAt[Max(S)]
  BY <1>3 DEF IsBar, NoBar, BarWith
<1>8. /\ new.count \in Nat /\ (new.count > 0 <=> T # {})
      /\ T # {} => new.last = Max(T) /\ new.close = PriceAt[Max(T)]
  BY <1>5 DEF IsBar, NoBar, BarWith
<1>9. HourSources(h) # {} <=> A # {}
  BY <1>4, <1>6, <1>7, <1>8
<1>10. ASSUME A # {}
       PROVE  HourClose(h) = PriceAt[Max(A)]
  <2>1. \A U \in SUBSET QuoteTick : U # {} =>
          /\ Max(U) \in U /\ Max(U) \in Nat
          /\ \A t \in U : t <= Max(U)
    <3> TAKE U \in SUBSET QuoteTick
    <3> HAVE U # {}
    <3>1. Max(U) \in U /\ \A t \in U : t <= Max(U)
      BY Extremes
    <3>2. QuoteTick \subseteq Nat
      BY DEF QuoteTick
    <3> QED
      BY <3>1, <3>2
  <2>2. \A b \in HourSources(h) :
          /\ b.last \in A /\ b.close = PriceAt[b.last]
    BY <1>4, <1>6, <1>7, <1>8, <2>1
  <2>3. \E b \in HourSources(h) : b.last = Max(A)
    <3>1. CASE Max(A) \in S
      <4>1. Max(S) = Max(A) /\ old.count > 0
        BY <1>4, <1>7, <1>10, <2>1, <3>1
      <4> QED
        BY <1>6, <1>7, <4>1
    <3>2. CASE Max(A) \in T
      <4>1. Max(T) = Max(A) /\ new.count > 0
        BY <1>4, <1>8, <1>10, <2>1, <3>2
      <4> QED
        BY <1>6, <1>8, <4>1
    <3> QED
      BY <1>4, <1>10, <2>1, <3>1, <3>2
  <2> DEFINE P(b) == b \in HourSources(h) /\ \A c \in HourSources(h) : c.last <= b.last
             best == CHOOSE b \in HourSources(h) : \A c \in HourSources(h) : c.last <= b.last
  <2>4. \E b \in HourSources(h) : \A c \in HourSources(h) : c.last <= b.last
    BY <1>4, <1>10, <2>1, <2>2, <2>3
  <2>5. best \in HourSources(h) /\ \A c \in HourSources(h) : c.last <= best.last
    BY <2>4
  <2>6. HourClose(h) = best.close
    BY DEF HourClose
  <2> HIDE DEF best
  <2>7. best.last = Max(A)
    <3>1. best.last \in A /\ best.last \in Nat /\ Max(A) \in Nat
      <4>1. A \in SUBSET QuoteTick /\ A \in SUBSET Nat
        BY <1>4 DEF QuoteTick
      <4>2. Max(A) \in Nat
        BY <1>10, <2>1, <4>1
      <4>3. best.last \in A
        BY <2>2, <2>5
      <4> QED
        BY <4>1, <4>2, <4>3
    <3>2. best.last <= Max(A) /\ Max(A) <= best.last
      BY <1>4, <1>10, <2>1, <2>3, <2>5, <3>1
    <3> QED
      BY <3>1, <3>2
  <2> QED
    BY <2>2, <2>5, <2>6, <2>7
<1> QED
  BY <1>9, <1>10 DEF A

LEMMA HistoryIsOfAllQuotes == TierInductive => HistoryAcrossTiers
<1> SUFFICES ASSUME TierInductive
             PROVE  HistoryAcrossTiers
  OBVIOUS
<1> DEFINE AllOf(h) == InBucket(everAt, HourTicks, h)
           Close(h) == PriceAt[Max(AllOf(h))]
           Before(h) == { g \in Hours : g + 1 = h /\ HourSources(g) # {} }
           AllBefore(h) == { g \in Hours : g + 1 = h /\ AllOf(g) # {} }
           Row(h) == [hour |-> h, price |-> HourClose(h),
                      since |-> { HourClose(g) : g \in Before(h) }]
           AllRow(h) == [hour |-> h, price |-> Close(h),
                         since |-> { Close(g) : g \in AllBefore(h) }]
           H == { h \in Hours : HourSources(h) # {} }
           G == { h \in Hours : AllOf(h) # {} }
<1>1. \A h \in Hours :
        /\ HourSources(h) # {} <=> AllOf(h) # {}
        /\ AllOf(h) # {} => HourClose(h) = Close(h)
  <2> TAKE h \in Hours
  <2> QED
    BY HourReads
<1> HIDE DEF AllOf, Close
<1>2. H = G
  BY <1>1
<1>3. ASSUME NEW h \in H
      PROVE  Row(h) = AllRow(h)
  <2>1. HourClose(h) = Close(h)
    BY <1>1
  <2>2. Before(h) = AllBefore(h) /\ \A g \in Before(h) : HourClose(g) = Close(g)
    BY <1>1
  <2> HIDE DEF Before, AllBefore, Close
  <2>3. { HourClose(g) : g \in Before(h) } = { Close(g) : g \in AllBefore(h) }
    BY <2>2
  <2> QED
    BY <2>1, <2>3
<1>4. HourlyRows = { Row(h) : h \in H }
  BY DEF HourlyRows
<1>5. HistoryAcrossTiers <=> HourlyRows = { AllRow(h) : h \in G }
  BY DEF HistoryAcrossTiers, AllOf, Close
<1> HIDE DEF Row, AllRow, H, G
<1>6. { Row(h) : h \in H } = { AllRow(h) : h \in G }
  BY <1>2, <1>3
<1> QED
  BY <1>4, <1>5, <1>6

(* Quotes, bars, snapshots and the cutoff keep their types, and a bar opens *)
(* and closes at prices of its own bucket.                                  *)
THEOREM TierTypeCorrect == QuoteSpec => []QuoteTypeOK
<1>1. TierInductive => QuoteTypeOK
  <2> SUFFICES ASSUME TierInductive, NEW w \in Widths, NEW b \in DOMAIN bars[w],
                      bars[w][b].count > 0
               PROVE  /\ {Bucket(bars[w][b].first, w), Bucket(bars[w][b].last, w)} = {b}
                      /\ bars[w][b].open = PriceAt[bars[w][b].first]
                      /\ bars[w][b].close = PriceAt[bars[w][b].last]
    BY DEF QuoteTypeOK, TierInductive, TierTyped
  <2>1. PICK X \in SUBSET everAt : BarsOf(X)
    BY DEF TierInductive, FoldedOnce
  <2> DEFINE S == InBucket(X, w, b)
  <2>2. S \in SUBSET QuoteTick /\ \A t \in S : Bucket(t, w) = b
    BY <2>1 DEF TierInductive, TierTyped, InBucket
  <2>3. IsBar(bars[w][b], S)
    BY <2>1, BarCounts DEF BarsOf
  <2> HIDE DEF S
  <2>4. S # {}
    BY <2>3 DEF IsBar, NoBar
  <2>5. PICK n \in Nat \ {0} : bars[w][b] = BarWith(S, n)
    BY <2>3, <2>4 DEF IsBar
  <2>6. Min(S) \in S /\ Max(S) \in S
    BY <2>2, <2>4, Extremes
  <2> QED
    BY <2>2, <2>5, <2>6 DEF BarWith
<1> QED
  BY <1>1, TierInductiveInvariant, PTL

(* Rolling quotes up loses and invents nothing: however late and often      *)
(* quotes arrive and statements run, bars and rows together are those of    *)
(* all quotes, and a history across the cutoff reads like one without it.   *)
THEOREM TiersAlwaysAgree == QuoteSpec => []TiersAgree
<1>1. TierInductive => TiersAgree
  BY BarsAreOfAllQuotes, HistoryIsOfAllQuotes DEF TierInductive, TiersAgree
<1> QED
  BY <1>1, TierInductiveInvariant, PTL

-----------------------------------------------------------------------------
(* The archive export, for every set of rows, every number of exporters and *)
(* operators, every purge period and any number of damaged uploads and      *)
(* kills: only rows that a retention transaction committed between the      *)
(* SELECT and the closing transaction of an export can be lost, and those   *)
(* whose object was altered at equal length, and the purge takes no other   *)
(* row that is not exported.                                                *)

LEMMA MonthProperties ==
  /\ \A t \in Nat : Month(t) \in Nat /\ Month(t) <= t
  /\ \A t \in Nat : Month(t) <= Month(t + 1)
BY DEF Month

(* The timer has fired only in a month with a month before it.              *)
DueHasMonth == due => Month(halfMonth) > 0

(* Rows in the table carry a time; the open transaction stages new ones.    *)
StagedRows ==
  /\ \A s \in staging : Staged(s)
  /\ retaining => \A s \in open : ~ Staged(s)

(* What passes the check: a version of the right length.                    *)
Passing == {"whole", "altered"}

(* An export checks an object that somebody has uploaded, and reaches its   *)
(* closing transaction only with a version that passed.                     *)
CheckedBeforeClosing ==
  \A e \in Exporter :
    /\ phase[e] = "uploaded" => object[file[e]] \in Content
    /\ phase[e] \in {"verified", "closed"} => checked[e] \in Passing

(* What the closing transaction of an export would mark is in its file, or  *)
(* was committed after it selected.                                         *)
PendingSelected ==
  \A e \in Exporter : Between(e) =>
    \A s \in PendingRows(month[e], cutoff[e]) : s \in file[e] \/ s \in late

Inductive ==
  /\ ArchiveTypeOK /\ DueHasMonth /\ StagedRows /\ CheckedBeforeClosing
  /\ PendingSelected /\ OnlyLateRowsLost /\ PurgedRowsExported

LEMMA InductiveInit == ArchiveInit => Inductive
<1> SUFFICES ASSUME ArchiveInit PROVE Inductive
  OBVIOUS
<1> USE EventAssumption, PurgeAssumption, ArchiveBoundsAssumption DEF ArchiveInit
<1>1. halfMonth \in Time /\ 0 \in Time /\ {} \in Object /\ archiveFaults \in 0 .. MaxArchiveFaults
  BY DEF Time, Object
<1>5. ArchiveTypeOK
  BY <1>1 DEF ArchiveTypeOK
<1>2. DueHasMonth /\ StagedRows /\ CheckedBeforeClosing
  BY DEF DueHasMonth, StagedRows, CheckedBeforeClosing
<1>3. PendingSelected
  BY DEF PendingSelected, PendingRows
<1>4. OnlyLateRowsLost /\ PurgedRowsExported
  BY DEF OnlyLateRowsLost, PurgedRowsExported, Archived, Staged
<1> QED
  BY <1>2, <1>3, <1>4, <1>5 DEF Inductive

-----------------------------------------------------------------------------
(* A row that is in an object whose version has the right length is         *)
(* exported or altered.                                                     *)
Fetched(s) == s \in manifest[s] /\ version[manifest[s]] \in Passing

LEMMA FetchedIs ==
  /\ \A s : Fetched(s) <=> Exported(s) \/ Altered(s)
  /\ \A s : Fetched(s)' <=> Exported(s)' \/ Altered(s)'
BY DEF Fetched, Exported, Altered, Passing

(* Steps that leave the tables and the manifested versions alone.           *)
LEMMA TablesStand ==
  ASSUME OnlyLateRowsLost, PurgedRowsExported, UNCHANGED << tableVars, version >>
  PROVE  OnlyLateRowsLost' /\ PurgedRowsExported'
BY DEF OnlyLateRowsLost, PurgedRowsExported, Exported, Altered, Archived,
       Staged, tableVars

(* An export stops being between its statements, or stays where it was.     *)
LEMMA PendingStands ==
  ASSUME ArchiveTypeOK, PendingSelected, NEW e \in Exporter, UNCHANGED tableVars,
         \A d \in Exporter \ {e} :
           /\ phase'[d] = phase[d] /\ month'[d] = month[d]
           /\ cutoff'[d] = cutoff[d] /\ file'[d] = file[d],
         \/ ~ Between(e)'
         \/ /\ Between(e)
            /\ month'[e] = month[e] /\ cutoff'[e] = cutoff[e] /\ file'[e] = file[e]
  PROVE  PendingSelected'
BY DEF PendingSelected, PendingRows, Between, Archived, tableVars

LEMMA EndRunEnds ==
  ASSUME ArchiveTypeOK, CheckedBeforeClosing, NEW e \in Exporter, EndExport(e),
         UNCHANGED object
  PROVE  /\ phase' \in [Exporter -> {"idle", "started", "selected", "uploaded",
                                     "verified", "closed"}]
         /\ month' \in [Exporter -> Time] /\ cutoff' \in [Exporter -> Time]
         /\ file' \in [Exporter -> Object] /\ checked' \in [Exporter -> Content \cup {"none"}]
         /\ phase'[e] = "idle"
         /\ \A d \in Exporter \ {e} :
              /\ phase'[d] = phase[d] /\ month'[d] = month[d]
              /\ cutoff'[d] = cutoff[d] /\ file'[d] = file[d]
              /\ checked'[d] = checked[d]
         /\ CheckedBeforeClosing'
BY ArchiveBoundsAssumption DEF ArchiveTypeOK, EndExport, Goto, Time, Object, CheckedBeforeClosing

LEMMA FaultCounted == ASSUME ArchiveTypeOK, ArchiveFault PROVE archiveFaults' \in 0 .. MaxArchiveFaults
BY ArchiveBoundsAssumption DEF ArchiveTypeOK, ArchiveFault

LEMMA TickKeeps == ASSUME Inductive, ArchiveTick PROVE Inductive'
<1> USE DEF Inductive, storeVars
<1>1. ArchiveTypeOK'
  BY ArchiveBoundsAssumption DEF ArchiveTypeOK, ArchiveTick, tableVars, stagingVars, exporterVars, Time
<1>2. DueHasMonth'
  <2>1. halfMonth \in Nat /\ halfMonth + 1 \in Nat
    BY DEF ArchiveTypeOK, Time
  <2>2. /\ Month(halfMonth) \in Nat /\ Month(halfMonth + 1) \in Nat
        /\ Month(halfMonth) <= Month(halfMonth + 1)
    BY <2>1, MonthProperties
  <2>3. (due' => Month(halfMonth + 1) # Month(halfMonth)) /\ halfMonth' = halfMonth + 1
    BY DEF ArchiveTick
  <2>4. due' => Month(halfMonth + 1) > 0
    BY <2>2, <2>3
  <2> QED
    BY <2>3, <2>4 DEF DueHasMonth
<1>3. StagedRows' /\ CheckedBeforeClosing'
  BY DEF ArchiveTick, StagedRows, CheckedBeforeClosing, Staged, tableVars,
         stagingVars, exporterVars
<1>4. PendingSelected'
  BY DEF ArchiveTick, PendingSelected, PendingRows, Between, Archived, tableVars, exporterVars
<1> QED
  BY <1>1, <1>2, <1>3, <1>4, TablesStand DEF ArchiveTick

LEMMA BeginRetentionKeeps ==
  ASSUME Inductive, NEW S \in SUBSET Sample, BeginRetention(S) PROVE Inductive'
<1> USE DEF Inductive, BeginRetention, storeVars
<1>1. ArchiveTypeOK'
  BY DEF ArchiveTypeOK, tableVars, exporterVars
<1>2. DueHasMonth' /\ StagedRows' /\ CheckedBeforeClosing'
  BY DEF DueHasMonth, StagedRows, CheckedBeforeClosing, Staged, tableVars,
         exporterVars
<1>3. PendingSelected'
  BY DEF PendingSelected, PendingRows, Between, Archived, tableVars, exporterVars
<1> QED
  BY <1>1, <1>2, <1>3, TablesStand

(* A row that becomes visible under the cutoff of an export that has        *)
(* selected is late.                                                        *)
LEMMA CommitRetentionKeeps == ASSUME Inductive, CommitRetention PROVE Inductive'
<1> USE DEF Inductive, storeVars
<1>1. ArchiveTypeOK'
  BY DEF ArchiveTypeOK, CommitRetention, exporterVars
<1>2. openSince # NotYet
  BY ArchiveBoundsAssumption DEF ArchiveTypeOK, Time, NotYet
<1>3. DueHasMonth' /\ StagedRows' /\ CheckedBeforeClosing'
  BY <1>2 DEF CommitRetention, DueHasMonth, StagedRows, CheckedBeforeClosing,
              Staged, exporterVars, ArchiveTypeOK
<1>4. late \subseteq late' /\ UNCHANGED << archivedAt, manifest, storeVars, exporterVars >>
  BY DEF CommitRetention
<1>5. PendingSelected'
  <2> SUFFICES ASSUME NEW e \in Exporter, Between(e)', NEW s \in Sample,
                      s \in PendingRows(month[e], cutoff[e])'
               PROVE  s \in file[e] \/ s \in late'
    BY <1>1, <1>4 DEF PendingSelected, PendingRows, ArchiveTypeOK, exporterVars
  <2>1. /\ Between(e) /\ s \in staging' /\ ~ Archived(s)
        /\ Month(EventAt[s]) = month[e] /\ stagedAt'[s] <= cutoff[e]
    BY <1>4 DEF PendingRows, Between, Archived, exporterVars
  <2>2. CASE s \in open
    <3>1. stagedAt'[s] = openSince
      BY <2>2 DEF CommitRetention
    <3> QED
      BY <2>1, <2>2, <3>1 DEF CommitRetention
  <2>3. CASE s \notin open
    <3>1. s \in staging /\ stagedAt'[s] = stagedAt[s]
      BY <2>1, <2>3 DEF CommitRetention
    <3>2. s \in PendingRows(month[e], cutoff[e])
      BY <2>1, <3>1 DEF PendingRows
    <3> QED
      BY <1>4, <2>1, <3>2 DEF PendingSelected
  <2> QED
    BY <2>2, <2>3
<1>6. OnlyLateRowsLost'
  BY <1>4 DEF OnlyLateRowsLost, Archived, Exported, Altered
<1>7. PurgedRowsExported'
  BY <1>4 DEF PurgedRowsExported, CommitRetention, Staged, Exported, Altered
<1> QED
  BY <1>1, <1>3, <1>5, <1>6, <1>7

LEMMA RollbackRetentionKeeps == ASSUME Inductive, RollbackRetention PROVE Inductive'
<1> USE DEF Inductive, storeVars
<1>1. ArchiveTypeOK'
  BY FaultCounted DEF ArchiveTypeOK, RollbackRetention, tableVars, exporterVars
<1>2. DueHasMonth' /\ StagedRows' /\ CheckedBeforeClosing'
  BY DEF RollbackRetention, DueHasMonth, StagedRows, CheckedBeforeClosing,
         Staged, tableVars, exporterVars
<1>3. PendingSelected'
  BY DEF RollbackRetention, PendingSelected, PendingRows, Between, Archived,
         tableVars, exporterVars
<1> QED
  BY <1>1, <1>2, <1>3, TablesStand DEF RollbackRetention

-----------------------------------------------------------------------------
(* One step per statement of an export.                                     *)
LEMMA StartExportKeeps ==
  ASSUME Inductive, NEW e \in Exporter, NEW m \in Time, StartExport(e, m),
         due' \in BOOLEAN, due' => due
  PROVE  Inductive'
<1> USE DEF Inductive, storeVars
<1>1. ArchiveTypeOK'
  BY DEF ArchiveTypeOK, StartExport, Goto, tableVars, stagingVars
<1>2. DueHasMonth' /\ StagedRows'
  BY DEF StartExport, DueHasMonth, StagedRows, Staged, tableVars, stagingVars
<1>3. CheckedBeforeClosing'
  BY DEF StartExport, Goto, CheckedBeforeClosing, ArchiveTypeOK
<1>4. PendingSelected'
  <2>1. /\ phase'[e] = "started"
        /\ \A d \in Exporter \ {e} :
             /\ phase'[d] = phase[d] /\ month'[d] = month[d]
             /\ cutoff'[d] = cutoff[d] /\ file'[d] = file[d]
    BY DEF StartExport, Goto, ArchiveTypeOK
  <2> QED
    BY <2>1, PendingStands DEF StartExport, Between
<1> QED
  BY <1>1, <1>2, <1>3, <1>4, TablesStand DEF StartExport

LEMMA TimerStartsKeeps ==
  ASSUME Inductive, NEW e \in Exporter, TimerStarts(e) PROVE Inductive'
<1>1. Month(halfMonth) - 1 \in Time
  <2>1. halfMonth \in Nat /\ halfMonth <= LastTime /\ Month(halfMonth) \in Nat /\ Month(halfMonth) <= halfMonth
    BY MonthProperties, ArchiveBoundsAssumption DEF Inductive, ArchiveTypeOK, Time
  <2>2. Month(halfMonth) > 0
    BY DEF Inductive, DueHasMonth, TimerStarts
  <2> QED
    BY <2>1, <2>2, ArchiveBoundsAssumption DEF Time
<1> QED
  BY <1>1, StartExportKeeps DEF TimerStarts

LEMMA SelectRowsKeeps ==
  ASSUME Inductive, NEW e \in Exporter, SelectRows(e) PROVE Inductive'
<1> USE DEF Inductive, storeVars
<1>1. PendingRows(month[e], cutoff[e]) \in Object
  BY DEF PendingRows, Object, ArchiveTypeOK
<1>2. ArchiveTypeOK'
  BY <1>1 DEF ArchiveTypeOK, SelectRows, Goto, tableVars, stagingVars
<1>3. DueHasMonth' /\ StagedRows'
  BY DEF SelectRows, DueHasMonth, StagedRows, Staged, tableVars, stagingVars
<1>4. CheckedBeforeClosing'
  BY DEF SelectRows, Goto, CheckedBeforeClosing, ArchiveTypeOK
<1>5. PendingSelected'
  BY DEF SelectRows, Goto, PendingSelected, PendingRows, Between, Archived,
         tableVars, ArchiveTypeOK
<1> QED
  BY <1>2, <1>3, <1>4, <1>5, TablesStand DEF SelectRows

LEMMA PutKeeps ==
  ASSUME Inductive, NEW e \in Exporter, NEW content \in Content, Put(e, content),
         archiveFaults' \in 0 .. MaxArchiveFaults
  PROVE  Inductive'
<1> USE DEF Inductive, storeVars
<1>1. ArchiveTypeOK'
  <2>1. /\ phase' \in [Exporter -> {"idle", "started", "selected", "uploaded",
                                    "verified", "closed"}]
        /\ object' \in [Object -> Content \cup {"none"}]
    BY DEF Put, Goto, ArchiveTypeOK
  <2> QED
    BY <2>1 DEF ArchiveTypeOK, Put, tableVars, stagingVars
<1>2. DueHasMonth' /\ StagedRows'
  BY DEF Put, DueHasMonth, StagedRows, Staged, tableVars, stagingVars
<1>3. CheckedBeforeClosing'
  <2>1. \A d \in Exporter : file[d] \in Object /\ file'[d] = file[d]
    BY DEF Put, ArchiveTypeOK
  <2>2. object'[file[e]] = content
    BY <2>1 DEF Put, ArchiveTypeOK
  <2>3. \A d \in Exporter :
          object'[file[d]] = content \/ object'[file[d]] = object[file[d]]
    BY <2>1 DEF Put, ArchiveTypeOK
  <2> QED
    BY <2>1, <2>2, <2>3 DEF Put, Goto, CheckedBeforeClosing, ArchiveTypeOK
<1>4. PendingSelected'
  <2>1. /\ Between(e) /\ UNCHANGED << tableVars, month, cutoff, file >>
        /\ \A d \in Exporter \ {e} : phase'[d] = phase[d]
    BY DEF Put, Goto, ArchiveTypeOK, Between
  <2> QED
    BY <2>1, PendingStands
<1>5. UNCHANGED << tableVars, version >>
  BY DEF Put
<1> QED
  BY <1>1, <1>2, <1>3, <1>4, <1>5, TablesStand

LEMMA UploadKeeps ==
  ASSUME Inductive, NEW e \in Exporter, Upload(e) PROVE Inductive'
<1>1. archiveFaults' \in 0 .. MaxArchiveFaults /\ "whole" \in Content
  BY DEF Upload, Inductive, ArchiveTypeOK, Content
<1> QED
  BY <1>1, PutKeeps DEF Upload

LEMMA UploadDamagedKeeps ==
  ASSUME Inductive, NEW e \in Exporter, NEW content \in Content,
         UploadDamaged(e, content)
  PROVE  Inductive'
<1>1. archiveFaults' \in 0 .. MaxArchiveFaults
  BY FaultCounted DEF UploadDamaged, Inductive
<1> QED
  BY <1>1, PutKeeps DEF UploadDamaged

LEMMA VerifyKeeps ==
  ASSUME Inductive, NEW e \in Exporter, Verify(e) PROVE Inductive'
<1> USE DEF Inductive, storeVars
<1>0. UNCHANGED << halfMonth, due, tableVars, stagingVars, object, version,
                   archiveFaults >>
  BY DEF Verify, storeVars
<1>1. CASE object[file[e]] # "cut"
  <2>1. /\ Goto(e, "verified") /\ phase[e] = "uploaded"
        /\ checked' = [checked EXCEPT ![e] = object[file[e]]]
        /\ UNCHANGED << month, cutoff, file >>
    BY <1>1 DEF Verify
  <2>2. file[e] \in Object /\ object[file[e]] \in Passing
    BY <1>1, <2>1 DEF ArchiveTypeOK, CheckedBeforeClosing, Content, Passing
  <2>3. ArchiveTypeOK'
    <3>1. object[file[e]] \in Content \cup {"none"}
      BY <2>2 DEF ArchiveTypeOK
    <3> QED
      BY <1>0, <2>1, <3>1 DEF ArchiveTypeOK, Goto, tableVars, stagingVars
  <2>4. DueHasMonth' /\ StagedRows'
    BY <1>0 DEF DueHasMonth, StagedRows, Staged, tableVars, stagingVars
  <2>5. CheckedBeforeClosing'
    BY <1>0, <2>1, <2>2 DEF Goto, CheckedBeforeClosing, ArchiveTypeOK
  <2>6. PendingSelected'
    BY <1>0, <2>1, PendingStands DEF Goto, ArchiveTypeOK, Between
  <2> QED
    BY <1>0, <2>3, <2>4, <2>5, <2>6, TablesStand
<1>2. CASE object[file[e]] = "cut"
  <2>1. EndExport(e)
    BY <1>2 DEF Verify
  <2>2. ArchiveTypeOK'
    BY <1>0, <2>1, EndRunEnds DEF ArchiveTypeOK, tableVars, stagingVars
  <2>3. DueHasMonth' /\ StagedRows'
    BY <1>0 DEF DueHasMonth, StagedRows, Staged, tableVars, stagingVars
  <2>4. CheckedBeforeClosing'
    BY <1>0, <2>1, EndRunEnds
  <2>5. PendingSelected'
    BY <1>0, <2>1, EndRunEnds, PendingStands DEF Between
  <2> QED
    BY <1>0, <2>2, <2>3, <2>4, <2>5, TablesStand
<1> QED
  BY <1>1, <1>2

(* The rows the closing transaction marks are in its object, in a version   *)
(* that passed the check, or late; what was marked before stays so.         *)
LEMMA MarkArchivedKeeps ==
  ASSUME Inductive, NEW e \in Exporter, MarkArchived(e) PROVE Inductive'
<1> USE DEF Inductive, storeVars
<1>1. /\ Between(e) /\ checked[e] \in Passing /\ file[e] \in Object
      /\ version' = [version EXCEPT ![file[e]] = checked[e]]
      /\ archivedAt' = [s \in Sample |-> IF s \in Marked(e) THEN halfMonth ELSE archivedAt[s]]
      /\ manifest' = [s \in Sample |-> IF s \in Marked(e) THEN file[e] ELSE manifest[s]]
      /\ Goto(e, "closed")
      /\ UNCHANGED << halfMonth, due, staging, stagedAt, late, stagingVars, month,
                      cutoff, file, checked, object, archiveFaults >>
  BY DEF MarkArchived, Between, CheckedBeforeClosing, ArchiveTypeOK
<1>2. halfMonth # NotYet
  BY ArchiveBoundsAssumption DEF ArchiveTypeOK, Time, NotYet
<1>3. ArchiveTypeOK'
  BY <1>1 DEF ArchiveTypeOK, Goto, stagingVars
<1>4. DueHasMonth' /\ StagedRows'
  BY <1>1 DEF DueHasMonth, StagedRows, Staged, stagingVars
<1>5. CheckedBeforeClosing'
  BY <1>1 DEF Goto, CheckedBeforeClosing, ArchiveTypeOK
<1>6. \A s \in Sample : Archived(s)' => Archived(s) \/ s \in Marked(e)
  BY <1>1 DEF Archived
<1>7. \A s \in Sample : Archived(s) => Archived(s)'
  BY <1>1, <1>2 DEF Archived
<1>8. PendingSelected'
  <2> SUFFICES ASSUME NEW d \in Exporter, Between(d)', NEW s \in Sample,
                      s \in PendingRows(month[d], cutoff[d])'
               PROVE  s \in file[d] \/ s \in late
    BY <1>1, <1>3 DEF PendingSelected, PendingRows, ArchiveTypeOK
  <2>1. Between(d)
    BY <1>1 DEF Between, Goto, ArchiveTypeOK
  <2>2. s \in PendingRows(month[d], cutoff[d])
    BY <1>1, <1>7 DEF PendingRows
  <2> QED
    BY <2>1, <2>2 DEF PendingSelected
<1>9. \A s \in Sample : s \in Marked(e) => Fetched(s)' \/ s \in late
  <2>1. version'[file[e]] \in Passing
    BY <1>1 DEF ArchiveTypeOK
  <2> QED
    BY <1>1, <2>1 DEF Marked, PendingSelected, Fetched
<1>10. \A s \in Sample : Fetched(s) /\ s \notin Marked(e) => Fetched(s)'
  <2>1. \A o \in Object : version[o] \in Passing => version'[o] \in Passing
    BY <1>1 DEF ArchiveTypeOK
  <2> QED
    BY <1>1, <2>1 DEF Fetched, ArchiveTypeOK
<1>11. OnlyLateRowsLost'
  BY <1>1, <1>6, <1>9, <1>10, FetchedIs DEF OnlyLateRowsLost
<1>12. PurgedRowsExported'
  BY <1>1, <1>9, <1>10, FetchedIs DEF PurgedRowsExported, Staged
<1> QED
  BY <1>3, <1>4, <1>5, <1>8, <1>11, <1>12

(* A row that is not archived carries a time after the bound of the clock:  *)
(* the purge passes it over, as DELETE does a NULL.                         *)
LEMMA PurgeKeeps ==
  ASSUME Inductive, NEW e \in Exporter, Purge(e) PROVE Inductive'
<1> USE DEF Inductive, storeVars
<1>1. /\ EndExport(e) /\ staging' \subseteq staging
      /\ UNCHANGED << halfMonth, due, stagedAt, archivedAt, manifest, late,
                      stagingVars, storeVars, archiveFaults >>
  BY DEF Purge
<1>2. ArchiveTypeOK'
  BY <1>1, EndRunEnds DEF ArchiveTypeOK, stagingVars
<1>3. DueHasMonth' /\ StagedRows'
  BY <1>1 DEF DueHasMonth, StagedRows, Staged, stagingVars
<1>4. CheckedBeforeClosing'
  BY <1>1, EndRunEnds
<1>5. PendingSelected'
  <2> SUFFICES ASSUME NEW d \in Exporter, Between(d)',
                      NEW s \in PendingRows(month[d], cutoff[d])'
               PROVE  s \in file'[d] \/ s \in late'
    BY DEF PendingSelected
  <2>1. d # e
    BY <1>1, EndRunEnds DEF Between
  <2>2. /\ phase'[d] = phase[d] /\ month'[d] = month[d]
        /\ cutoff'[d] = cutoff[d] /\ file'[d] = file[d]
    BY <1>1, <2>1, EndRunEnds
  <2>3. Between(d) /\ s \in PendingRows(month[d], cutoff[d])
    BY <1>1, <2>2 DEF Between, PendingRows, Archived
  <2> QED
    BY <1>1, <2>2, <2>3 DEF PendingSelected
<1>6. OnlyLateRowsLost'
  BY <1>1 DEF OnlyLateRowsLost, Archived, Exported, Altered
<1>7. ASSUME NEW s \in staging, s \notin staging' PROVE Archived(s)
  <2>1. /\ halfMonth \in Nat /\ halfMonth <= LastTime /\ PurgeAfter \in Nat
        /\ LastTime \in Nat
    BY ArchiveBoundsAssumption, PurgeAssumption DEF ArchiveTypeOK, Time
  <2>2. ~ (archivedAt[s] + PurgeAfter >= halfMonth)
    BY <1>7 DEF Purge
  <2> QED
    BY <2>1, <2>2 DEF Archived, NotYet
<1>8. PurgedRowsExported'
  BY <1>1, <1>7 DEF PurgedRowsExported, OnlyLateRowsLost, Staged, Exported,
                   Altered
<1> QED
  BY <1>2, <1>3, <1>4, <1>5, <1>6, <1>8

LEMMA ExportEndsKeeps ==
  ASSUME Inductive, NEW e \in Exporter, ExportEnds(e) PROVE Inductive'
<1> USE DEF Inductive, storeVars
<1>1. /\ EndExport(e) /\ archiveFaults' \in 0 .. MaxArchiveFaults
      /\ UNCHANGED << halfMonth, due, tableVars, stagingVars, storeVars >>
  BY FaultCounted DEF ExportEnds, ArchiveTypeOK
<1>2. ArchiveTypeOK'
  BY <1>1, EndRunEnds DEF ArchiveTypeOK, tableVars, stagingVars
<1>3. DueHasMonth' /\ StagedRows'
  BY <1>1 DEF DueHasMonth, StagedRows, Staged, tableVars, stagingVars
<1>4. CheckedBeforeClosing'
  BY <1>1, EndRunEnds
<1>5. PendingSelected'
  BY <1>1, EndRunEnds, PendingStands DEF Between
<1> QED
  BY <1>1, <1>2, <1>3, <1>4, <1>5, TablesStand

LEMMA InductiveStep == Inductive /\ [ArchiveNext]_archiveVars => Inductive'
<1> SUFFICES ASSUME Inductive, [ArchiveNext]_archiveVars PROVE Inductive'
  OBVIOUS
<1>1. CASE UNCHANGED archiveVars
  <2> USE <1>1 DEF archiveVars, storeVars, Inductive
  <2>1. ArchiveTypeOK' /\ DueHasMonth' /\ StagedRows' /\ CheckedBeforeClosing'
    BY DEF ArchiveTypeOK, DueHasMonth, StagedRows, CheckedBeforeClosing, Staged,
           tableVars, stagingVars, exporterVars
  <2>2. PendingSelected'
    BY DEF PendingSelected, PendingRows, Between, Archived, tableVars, exporterVars
  <2> QED
    BY <2>1, <2>2, TablesStand
<1>2. ASSUME NEW e \in Exporter, NEW m \in Time, OperatorStarts(e, m)
      PROVE  Inductive'
  <2>1. due \in BOOLEAN /\ due' = due /\ StartExport(e, m)
    BY <1>2 DEF OperatorStarts, Inductive, ArchiveTypeOK
  <2>2. due' \in BOOLEAN /\ (due' => due)
    BY <2>1
  <2> QED
    BY <2>1, <2>2, StartExportKeeps
<1> QED
  BY <1>1, <1>2, TickKeeps, BeginRetentionKeeps, CommitRetentionKeeps,
     RollbackRetentionKeeps, TimerStartsKeeps, SelectRowsKeeps, UploadKeeps,
     UploadDamagedKeeps,
     VerifyKeeps, MarkArchivedKeeps, PurgeKeeps, ExportEndsKeeps
     DEF ArchiveNext, ExportStep

LEMMA InductiveInvariant == ArchiveSafetySpec => []Inductive
BY InductiveInit, InductiveStep, PTL DEF ArchiveSafetySpec

-----------------------------------------------------------------------------
(* The variables of the archive export keep their types.                    *)
THEOREM TypeCorrect == ArchiveSafetySpec => []ArchiveTypeOK
<1>1. Inductive => ArchiveTypeOK
  BY DEF Inductive
<1> QED
  BY <1>1, InductiveInvariant, PTL

(* Damaged uploads, kills, reruns, overlapping exporters and months: an     *)
(* archived row can be read back, or a retention transaction committed it   *)
(* while an export was between its SELECT and its closing transaction, or   *)
(* the version its manifest names was altered without a change of length.   *)
THEOREM OnlyLateRowsAreLost == ArchiveSafetySpec => []OnlyLateRowsLost
<1>1. Inductive => OnlyLateRowsLost
  BY DEF Inductive
<1> QED
  BY <1>1, InductiveInvariant, PTL

(* However long the purge waits and whoever runs it, it takes only rows     *)
(* that can be read back, were marked late or were altered unnoticed.       *)
THEOREM PurgeTakesExported == ArchiveSafetySpec => []PurgedRowsExported
<1>1. Inductive => PurgedRowsExported
  BY DEF Inductive
<1> QED
  BY <1>1, InductiveInvariant, PTL
=============================================================================
