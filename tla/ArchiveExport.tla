---------------------------- MODULE ArchiveExport ----------------------------
(***************************************************************************)
(* archive-service: sample rows that retention staged are exported, month  *)
(* by month, to content-addressed Parquet objects, marked archived, and    *)
(* purged by a later run.  A timer starts one run a month for the previous *)
(* month; an operator may start others with --month.                       *)
(*                                                                         *)
(* The exporter works on an autocommit connection: its SELECT and its      *)
(* closing transaction are separate statements.  Rows that a retention     *)
(* transaction staged become visible when it commits, with the time it     *)
(* started (NOW()) in staged_at.                                           *)
(*                                                                         *)
(* The clock counts half months, and the retention period of 14 days is    *)
(* one tick.  An object is named by its content, so its name is the set of *)
(* rows it should hold.  The bucket keeps versions: a later upload under   *)
(* the same name leaves the version that a manifest names as it was.       *)
(***************************************************************************)
EXTENDS Naturals

CONSTANTS
  Sample,       (* keys of raw_post_archive_staging                         *)
  EventAt,      (* event_at, per row                                        *)
  Exporter,     (* processes that may run export.py                         *)
  Timer,        (* the one of the systemd unit, which runs once at a time   *)
  PurgeAfter,   (* ticks in --purge-archived-staging-days                   *)
  LastTime,     (* bound: of the clock                                      *)
  MaxArchiveFaults (* bound: damaged uploads, killed exporters, rollbacks   *)

Time   == 0 .. LastTime
Object == SUBSET Sample
NotYet == LastTime + 1      (* NULL in a timestamp column                   *)

(* What a version of an object holds: the file, the file cut short or with  *)
(* other metadata, or other bytes of the same length and metadata.          *)
Content == {"whole", "cut", "altered"}

ASSUME EventAssumption  == EventAt \in [Sample -> Time]
ASSUME ExporterAssumption == Timer \in Exporter
ASSUME PurgeAssumption  == PurgeAfter \in Nat
ASSUME ArchiveBoundsAssumption == LastTime \in Nat /\ MaxArchiveFaults \in Nat

VARIABLES
  halfMonth,    (* the clock                                                *)
  due,          (* the timer has to start the run of this month             *)
  staging,      (* committed rows of the staging table                      *)
  stagedAt,     (* staged_at, per row that was ever staged                  *)
  archivedAt,   (* archived_at, per row                                     *)
  manifest,     (* the object of manifest_id, per archived row              *)
  late,         (* history: rows committed between the SELECT and the       *)
                (* closing transaction of an exporter whose cutoff covers    *)
                (* them                                                     *)
  retaining,    (* is a retention transaction in progress?                  *)
  open,         (* the rows it stages                                       *)
  openSince,    (* its start                                                *)
  phase,        (* of an exporter                                           *)
  month,        (* the month it exports                                     *)
  cutoff,       (* stage_cutoff                                             *)
  file,         (* the rows in its Parquet file                             *)
  checked,      (* what the version head_object answered for holds          *)
  object,       (* the current version of each object, or "none"            *)
  version,      (* the version that its row in archive_manifests names      *)
  archiveFaults

tableVars     == << staging, stagedAt, archivedAt, manifest, late >>
stagingVars   == << retaining, open, openSince >>
exporterVars  == << phase, month, cutoff, file, checked >>
storeVars     == << object, version >>
archiveVars   == << halfMonth, due, tableVars, stagingVars, exporterVars,
                    storeVars, archiveFaults >>

ArchiveInit ==
  /\ halfMonth = 0 /\ due = FALSE
  /\ staging    = {}
  /\ stagedAt   = [s \in Sample |-> NotYet]
  /\ archivedAt = [s \in Sample |-> NotYet]
  /\ manifest   = [s \in Sample |-> {}]
  /\ late       = {}
  /\ retaining  = FALSE /\ open = {} /\ openSince = 0
  /\ phase      = [e \in Exporter |-> "idle"]
  /\ month      = [e \in Exporter |-> 0]
  /\ cutoff     = [e \in Exporter |-> 0]
  /\ file       = [e \in Exporter |-> {}]
  /\ checked    = [e \in Exporter |-> "none"]
  /\ object     = [o \in Object |-> "none"]
  /\ version    = [o \in Object |-> "none"]
  /\ archiveFaults = 0

ArchiveFault ==
  archiveFaults < MaxArchiveFaults /\ archiveFaults' = archiveFaults + 1

Month(t)    == t \div 2
Staged(s)   == stagedAt[s] # NotYet
Archived(s) == archivedAt[s] # NotYet

(* The timer fires on the second day of every month (Persistent=true).      *)
ArchiveTick ==
  /\ halfMonth < LastTime /\ ~ due
  /\ halfMonth' = halfMonth + 1
  /\ due' = (Month(halfMonth + 1) # Month(halfMonth))
  /\ UNCHANGED << tableVars, stagingVars, exporterVars, storeVars,
                  archiveFaults >>

(***************************************************************************)
(* The retention transaction of storage-service, one at a time because of  *)
(* its advisory lock, stages rows past the retention period.               *)
(***************************************************************************)
BeginRetention(S) ==
  /\ ~ retaining /\ S # {}
  /\ \A s \in S : ~ Staged(s) /\ EventAt[s] + 1 <= halfMonth
  /\ retaining' = TRUE
  /\ open'      = S
  /\ openSince' = halfMonth
  /\ UNCHANGED << halfMonth, due, tableVars, exporterVars, storeVars,
                  archiveFaults >>

(* The exporter has selected and not yet closed.                            *)
Between(e) == phase[e] \in {"selected", "uploaded", "verified"}

CommitRetention ==
  /\ retaining
  /\ staging'   = staging \cup open
  /\ stagedAt'  = [s \in Sample |-> IF s \in open THEN openSince
                                                  ELSE stagedAt[s]]
  /\ late'      = late \cup
       { s \in open : \E e \in Exporter :
           /\ Between(e) /\ month[e] = Month(EventAt[s])
           /\ openSince <= cutoff[e] }
  /\ retaining' = FALSE
  /\ open'      = {}
  /\ UNCHANGED << halfMonth, due, archivedAt, manifest, openSince, exporterVars,
                  storeVars, archiveFaults >>

RollbackRetention ==
  /\ retaining
  /\ ArchiveFault
  /\ retaining' = FALSE
  /\ open'      = {}
  /\ UNCHANGED << halfMonth, due, tableVars, openSince, exporterVars,
                  storeVars >>

(***************************************************************************)
(* export.py: main and, for the staging table, export_dataset              *)
(***************************************************************************)
Goto(e, next) == phase' = [phase EXCEPT ![e] = next]

EndExport(e) ==
  /\ Goto(e, "idle")
  /\ month'   = [month   EXCEPT ![e] = 0]
  /\ cutoff'  = [cutoff  EXCEPT ![e] = 0]
  /\ file'    = [file    EXCEPT ![e] = {}]
  /\ checked' = [checked EXCEPT ![e] = "none"]

(* Mutant: the cutoff is the end of the current tick, not the present.      *)
StartExportAhead(e, m) ==
  /\ phase[e] = "idle"
  /\ m < Month(halfMonth)
  /\ Goto(e, "started")
  /\ month'  = [month  EXCEPT ![e] = m]
  /\ cutoff' = [cutoff EXCEPT ![e] = halfMonth + 1]
  /\ UNCHANGED << halfMonth, tableVars, stagingVars, file, checked, storeVars,
                  archiveFaults >>

(* Only closed months may be exported.                                      *)
StartExport(e, m) ==
  /\ phase[e] = "idle"
  /\ m < Month(halfMonth)
  /\ Goto(e, "started")
  /\ month'  = [month  EXCEPT ![e] = m]
  /\ cutoff' = [cutoff EXCEPT ![e] = halfMonth]
  /\ UNCHANGED << halfMonth, tableVars, stagingVars, file, checked, storeVars,
                  archiveFaults >>

(* Without --month: the month before the current one.                       *)
TimerStarts(e) ==
  /\ e = Timer /\ due
  /\ due' = FALSE
  /\ StartExport(e, Month(halfMonth) - 1)

(* With --month, or the previous month by hand.                             *)
OperatorStarts(e, m) == e # Timer /\ StartExport(e, m) /\ UNCHANGED due

PendingRows(m, c) ==
  { s \in staging : ~ Archived(s) /\ Month(EventAt[s]) = m /\ stagedAt[s] <= c }

SelectRows(e) ==
  /\ phase[e] = "started"
  /\ file' = [file EXCEPT ![e] = PendingRows(month[e], cutoff[e])]
  /\ Goto(e, "selected")
  /\ UNCHANGED << halfMonth, due, tableVars, stagingVars, month, cutoff,
                  checked, storeVars, archiveFaults >>

(* upload_file: the new version is the current one.                         *)
Put(e, content) ==
  /\ phase[e] = "selected"
  /\ object' = [object EXCEPT ![file[e]] = content]
  /\ Goto(e, "uploaded")
  /\ UNCHANGED << halfMonth, due, tableVars, stagingVars, month, cutoff, file,
                  checked, version >>

Upload(e) == Put(e, "whole") /\ UNCHANGED archiveFaults

(* The store holds something else than what was sent.                       *)
UploadDamaged(e, content) ==
  /\ content # "whole"
  /\ Put(e, content)
  /\ ArchiveFault

(* Mutant: head_object is called but its answer is not compared.            *)
NoVerification(e) ==
  /\ phase[e] = "uploaded"
  /\ checked' = [checked EXCEPT ![e] = object[file[e]]]
  /\ Goto(e, "verified")
  /\ UNCHANGED << halfMonth, due, tableVars, stagingVars, month, cutoff, file,
                  storeVars, archiveFaults >>

(* head_object answers for the current version, which another exporter may  *)
(* have uploaded.  Its length and the checksum in its metadata, which the   *)
(* client sent itself, are compared and a mismatch ends the run; the bytes  *)
(* are not read.                                                            *)
Verify(e) ==
  /\ phase[e] = "uploaded"
  /\ IF object[file[e]] = "cut" THEN EndExport(e)
       ELSE /\ checked' = [checked EXCEPT ![e] = object[file[e]]]
            /\ Goto(e, "verified")
            /\ UNCHANGED << month, cutoff, file >>
  /\ UNCHANGED << halfMonth, due, tableVars, stagingVars, storeVars,
                  archiveFaults >>

(* Mutant: the closing transaction marks whatever is pending by now.        *)
PendingNow(e) == PendingRows(month[e], halfMonth)

(* The WHERE clause of the UPDATE repeats that of the SELECT.               *)
Marked(e) == PendingRows(month[e], cutoff[e])

(* The closing transaction: the manifest, whose row of an object that was   *)
(* exported before is updated, and the marks.                               *)
MarkArchived(e) ==
  /\ phase[e] = "verified"
  /\ version'    = [version EXCEPT ![file[e]] = checked[e]]
  /\ archivedAt' = [s \in Sample |-> IF s \in Marked(e) THEN halfMonth
                                                       ELSE archivedAt[s]]
  /\ manifest'   = [s \in Sample |-> IF s \in Marked(e) THEN file[e]
                                                       ELSE manifest[s]]
  /\ Goto(e, "closed")
  /\ UNCHANGED << halfMonth, due, staging, stagedAt, late, stagingVars, month,
                  cutoff, file, checked, object, archiveFaults >>

(* Mutant: old rows go whether they were archived or not.                   *)
PurgeUnarchived(e) ==
  /\ phase[e] = "closed"
  /\ staging' = { s \in staging : stagedAt[s] + PurgeAfter >= halfMonth }
  /\ EndExport(e)
  /\ UNCHANGED << halfMonth, due, stagedAt, archivedAt, manifest, late,
                  stagingVars, storeVars, archiveFaults >>

(* main() deletes rows that were archived long enough ago.                  *)
Purge(e) ==
  /\ phase[e] = "closed"
  /\ staging' = { s \in staging : archivedAt[s] + PurgeAfter >= halfMonth }
  /\ EndExport(e)
  /\ UNCHANGED << halfMonth, due, stagedAt, archivedAt, manifest, late,
                  stagingVars, storeVars, archiveFaults >>

(* An exception, a kill, or a run that was not told to purge.               *)
ExportEnds(e) ==
  /\ phase[e] # "idle"
  /\ \/ phase[e] = "closed" /\ UNCHANGED archiveFaults
     \/ phase[e] # "closed" /\ ArchiveFault
  /\ EndExport(e)
  /\ UNCHANGED << halfMonth, due, tableVars, stagingVars, storeVars >>

ExportStep(e) ==
  \/ TimerStarts(e) \/ SelectRows(e) \/ Upload(e) \/ Verify(e)
  \/ MarkArchived(e) \/ Purge(e)

ArchiveNext ==
  \/ ArchiveTick
  \/ \E S \in SUBSET Sample : BeginRetention(S)
  \/ CommitRetention \/ RollbackRetention
  \/ \E e \in Exporter :
       \/ ExportStep(e) \/ ExportEnds(e)
       \/ \E content \in Content : UploadDamaged(e, content)
       \/ \E m \in Time : OperatorStarts(e, m)

(* systemd starts the monthly run and a started run goes on; no operator    *)
(* has to do anything.                                                      *)
ArchiveFairness == \A e \in Exporter : WF_archiveVars(ExportStep(e))

ArchiveSafetySpec == ArchiveInit /\ [][ArchiveNext]_archiveVars
ArchiveSpec == ArchiveSafetySpec /\ ArchiveFairness

-----------------------------------------------------------------------------
(* The variables keep their types.                                          *)
ArchiveTypeOK ==
  /\ halfMonth \in Time /\ openSince \in Time
  /\ due \in BOOLEAN /\ retaining \in BOOLEAN
  /\ staging \subseteq Sample /\ open \subseteq Sample /\ late \subseteq Sample
  /\ stagedAt \in [Sample -> Time \cup {NotYet}]
  /\ archivedAt \in [Sample -> Time \cup {NotYet}]
  /\ manifest \in [Sample -> Object]
  /\ phase \in [Exporter -> {"idle", "started", "selected", "uploaded",
                             "verified", "closed"}]
  /\ month \in [Exporter -> Time] /\ cutoff \in [Exporter -> Time]
  /\ file \in [Exporter -> Object]
  /\ checked \in [Exporter -> Content \cup {"none"}]
  /\ object \in [Object -> Content \cup {"none"}]
  /\ version \in [Object -> Content \cup {"none"}]
  /\ archiveFaults \in 0 .. MaxArchiveFaults

(* The row is in the object of its manifest, and that version is the file.  *)
Exported(s) == s \in manifest[s] /\ version[manifest[s]] = "whole"

(* It is, but the bytes of that version are others, in a damage that left   *)
(* length and metadata as they were: the check of the code cannot see it.   *)
Altered(s) == s \in manifest[s] /\ version[manifest[s]] = "altered"

(* An archived row can be read back from the object of its manifest, with   *)
(* two exceptions: a retention transaction committed it while an export was *)
(* between its SELECT and its closing transaction, or a damaged upload kept *)
(* the length.  No other damage, killed run, rerun or second exporter loses *)
(* one, also when it uploads another version under the same name.           *)
OnlyLateRowsLost ==
  \A s \in Sample : Archived(s) => Exported(s) \/ s \in late \/ Altered(s)

(* A row stays in the staging table until it is exported, with the same two *)
(* exceptions: the purge of one run never takes what another has still to   *)
(* export.  What was altered unnoticed it does take, and then it is lost.   *)
PurgedRowsExported ==
  \A s \in Sample :
    Staged(s) /\ s \notin staging => Exported(s) \/ s \in late \/ Altered(s)

(* The documentation says staging rows are marked only after the uploaded   *)
(* object passed its checks: an archived row is in a checked object.        *)
ArchivedRowsExported == \A s \in Sample : Archived(s) => Exported(s)

(* The documentation says the previous closed UTC month is exported         *)
(* monthly: every row that is staged once its month is closed, or was       *)
(* before, is archived by the runs the timer starts.                        *)
StagedRowsArchived ==
  \A s \in Sample :
    Staged(s) /\ Month(EventAt[s]) < Month(halfMonth) ~> Archived(s)
=============================================================================
