---------------------------- MODULE AdminReplace ----------------------------
(***************************************************************************)
(* PUT /api/admin/global-context/{symbol}/exposures and .../event-rules:   *)
(* requests that replace all rows of one symbol, each in one transaction   *)
(* that deletes the rows and inserts the submitted ones under a unique key.*)
(* Transactions read what is committed when a statement starts, wait for   *)
(* each other's row locks, and the server aborts one of two that wait for  *)
(* each other.  Symbols are never deleted, so the check that the symbol    *)
(* exists cannot become stale.                                             *)
(***************************************************************************)
EXTENDS Naturals, Sequences, FiniteSets, Functions

CONSTANTS
  Replacement,      (* requests                                             *)
  RowKey,           (* instrument keys, or names of rules                   *)
  Submitted,        (* the keys each request submits, in order              *)
  Dangling,         (* keys that reference no instrument                    *)
  MaxReplaceFaults  (* bound: connections lost                              *)

ASSUME ReplaceAssumption ==
  /\ Submitted \in [Replacement -> Seq(RowKey)]
  /\ Dangling \subseteq RowKey /\ MaxReplaceFaults \in Nat

VARIABLES
  tableRows,    (* committed rows: a key and the request it came from       *)
  replacing,      (* "new", "deleting", "inserting", "done" or "refused"      *)
  sighted,      (* the rows a replacing's DELETE saw when it started          *)
  removed,      (* rows it has deleted and not committed                    *)
  added,        (* rows it has inserted and not committed                   *)
  ahead,        (* history: requests that were done when its DELETE started *)
  replaceFaults

replaceVars == << tableRows, replacing, sighted, removed, added, ahead, replaceFaults >>

ReplaceInit ==
  /\ tableRows = {}
  /\ replacing = [r \in Replacement |-> "new"]
  /\ sighted = [r \in Replacement |-> {}] /\ removed = [r \in Replacement |-> {}]
  /\ added   = [r \in Replacement |-> {}] /\ ahead   = [r \in Replacement |-> {}]
  /\ replaceFaults = 0

Done == { r \in Replacement : replacing[r] = "done" }

StartDelete(r) ==
  /\ replacing[r] = "new"
  /\ replacing' = [replacing EXCEPT ![r] = "deleting"]
  /\ sighted' = [sighted EXCEPT ![r] = tableRows]
  /\ ahead'   = [ahead EXCEPT ![r] = Done]
  /\ UNCHANGED << tableRows, removed, added, replaceFaults >>

(* Rows that another request has deleted are waited for; they are passed    *)
(* over when it commits, and rows it inserted are not looked at.            *)
DeleteWaitsFor(r) ==
  { q \in Replacement \ {r} : removed[q] \cap sighted[r] # {} }

(* Mutant: without a transaction the DELETE commits on its own.             *)
DeleteRowsAtOnce(r) ==
  /\ replacing[r] = "deleting" /\ DeleteWaitsFor(r) = {}
  /\ tableRows' = tableRows \ sighted[r]
  /\ replacing' = [replacing EXCEPT ![r] = "inserting"]
  /\ UNCHANGED << sighted, removed, added, ahead, replaceFaults >>

(* Mutant: only the rows that are submitted again are deleted.              *)
DeleteRowsSubmitted(r) ==
  /\ replacing[r] = "deleting" /\ DeleteWaitsFor(r) = {}
  /\ removed' = [removed EXCEPT ![r] =
                    { x \in sighted[r] \cap tableRows : x.key \in Range(Submitted[r]) }]
  /\ replacing' = [replacing EXCEPT ![r] = "inserting"]
  /\ UNCHANGED << tableRows, sighted, added, ahead, replaceFaults >>

DeleteRows(r) ==
  /\ replacing[r] = "deleting" /\ DeleteWaitsFor(r) = {}
  /\ removed' = [removed EXCEPT ![r] = sighted[r] \cap tableRows]
  /\ replacing' = [replacing EXCEPT ![r] = "inserting"]
  /\ UNCHANGED << tableRows, sighted, added, ahead, replaceFaults >>

NextKey(r)     == Submitted[r][Cardinality(added[r]) + 1]
AllAdded(r)    == Cardinality(added[r]) = Len(Submitted[r])
OfKey(S, k)    == { row \in S : row.key = k }
Adding(r)      == replacing[r] = "inserting" /\ ~ AllAdded(r)

(* The unique index waits for whoever is inserting or deleting the key.     *)
InsertWaitsFor(r) ==
  { q \in Replacement \ {r} : OfKey(added[q] \cup removed[q], NextKey(r)) # {} }

Refused(r) ==
  \/ NextKey(r) \in Dangling
  \/ OfKey((tableRows \ removed[r]) \cup added[r], NextKey(r)) # {}

AddRow(r) ==
  /\ Adding(r) /\ InsertWaitsFor(r) = {} /\ ~ Refused(r)
  /\ added' = [added EXCEPT ![r] = @ \cup {[key |-> NextKey(r), from |-> r]}]
  /\ UNCHANGED << tableRows, replacing, sighted, removed, ahead, replaceFaults >>

(* Mutant: what was done before the refusal is committed.                   *)
RollBackNothing(r) ==
  /\ replacing' = [replacing EXCEPT ![r] = "refused"]
  /\ tableRows' = (tableRows \ removed[r]) \cup added[r]
  /\ removed' = [removed EXCEPT ![r] = {}] /\ added' = [added EXCEPT ![r] = {}]
  /\ UNCHANGED << sighted, ahead >>

RollBack(r) ==
  /\ replacing' = [replacing EXCEPT ![r] = "refused"]
  /\ removed' = [removed EXCEPT ![r] = {}] /\ added' = [added EXCEPT ![r] = {}]
  /\ UNCHANGED << tableRows, sighted, ahead >>

(* An unknown instrument is answered with 400; a key that is taken raises.  *)
RefuseRow(r) ==
  /\ Adding(r) /\ InsertWaitsFor(r) = {} /\ Refused(r)
  /\ RollBack(r) /\ UNCHANGED replaceFaults

WaitsFor(r) ==
  CASE replacing[r] = "deleting" -> DeleteWaitsFor(r)
    [] Adding(r)               -> InsertWaitsFor(r)
    [] OTHER                   -> {}

(* Mutant: requests that wait for each other wait for ever.                 *)
DeadlockedNever(r) == FALSE

(* The server finds requests that wait for one another and aborts one.      *)
Deadlocked(r) ==
  \E S \in SUBSET Replacement :
    r \in S /\ \A q \in S : /\ WaitsFor(q) \cap S # {}
                           /\ \E p \in S : q \in WaitsFor(p)

AbortDeadlocked(r) ==
  /\ Deadlocked(r)
  /\ RollBack(r) /\ UNCHANGED replaceFaults

CommitReplacement(r) ==
  /\ replacing[r] = "inserting" /\ AllAdded(r)
  /\ tableRows' = (tableRows \ removed[r]) \cup added[r]
  /\ replacing' = [replacing EXCEPT ![r] = "done"]
  /\ removed' = [removed EXCEPT ![r] = {}] /\ added' = [added EXCEPT ![r] = {}]
  /\ UNCHANGED << sighted, ahead, replaceFaults >>

ConnectionLost(r) ==
  /\ replacing[r] \in {"deleting", "inserting"}
  /\ replaceFaults < MaxReplaceFaults /\ replaceFaults' = replaceFaults + 1
  /\ RollBack(r)

ReplacementStep(r) ==
  \/ StartDelete(r) \/ DeleteRows(r) \/ AddRow(r) \/ RefuseRow(r)
  \/ AbortDeadlocked(r) \/ CommitReplacement(r)

ReplaceNext == \E r \in Replacement : ReplacementStep(r) \/ ConnectionLost(r)

ReplaceFairness == \A r \in Replacement : WF_replaceVars(ReplacementStep(r))
ReplaceSpec == ReplaceInit /\ [][ReplaceNext]_replaceVars /\ ReplaceFairness

-----------------------------------------------------------------------------
RowsOf(r) == { row \in tableRows : row.from = r }

(* Of each request all rows are in the table or none, under one key each:   *)
(* a symbol never has half of what was submitted, whoever failed.           *)
WholeReplacements ==
  /\ \A r \in Replacement :
       RowsOf(r) = {} \/ { row.key : row \in RowsOf(r) } = Range(Submitted[r])
  /\ \A x, y \in tableRows : x.key = y.key => x = y

(* A replacement leaves nothing of those that were done before it started:  *)
(* what survives next to it was submitted at the same time.                 *)
NothingOlderSurvives ==
  \A r \in Done : \A q \in ahead[r] : RowsOf(q) = {}

(* Once a replacement is done, the symbol always has all rows of one that   *)
(* is: nobody reads it between a DELETE and its INSERTs.                    *)
SomeReplacementStands ==
  Done # {} => \E r \in Done : { row.key : row \in RowsOf(r) } = Range(Submitted[r])

(* Concurrent replacements of one symbol, refused, aborted or cut off,      *)
(* leave a table that was submitted.                                        *)
ReplacementsSound ==
  /\ WholeReplacements
  /\ NothingOlderSurvives
  /\ SomeReplacementStands

(* Every request is answered, those that wait for each other too: in the    *)
(* end none is in the middle of its transaction.                            *)
ReplacementsEnd ==
  <>[](\A r \in Replacement : replacing[r] \notin {"deleting", "inserting"})
=============================================================================
