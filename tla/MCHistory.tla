----------------------------- MODULE MCHistory -----------------------------
(***************************************************************************)
(* Instances of what exports and reports the past: the export of staged    *)
(* samples and the reports on a stock and on foreign factors.  They share  *)
(* no state here, so a behaviour runs one of them, chosen at the start.    *)
(* Nothing in them waits for anything, and no fairness is assumed.         *)
(***************************************************************************)
EXTENDS MCArchiveExport, Reports

VARIABLE part       (* the component that runs in this behaviour           *)

vars == << part, archiveVars, series, contextVars >>

Init ==
  /\ part \in {"export", "correlation", "context"}
  /\ ArchiveInit /\ SeriesInit /\ ContextInit

OthersStand ==
  /\ UNCHANGED part
  /\ IF part = "export"      THEN TRUE ELSE UNCHANGED archiveVars
  /\ IF part = "correlation" THEN TRUE ELSE UNCHANGED series
  /\ IF part = "context"     THEN TRUE ELSE UNCHANGED contextVars

Next ==
  \/ part = "export"      /\ ArchiveNext /\ OthersStand
  \/ part = "correlation" /\ SeriesNext  /\ OthersStand
  \/ part = "context"     /\ ContextNext /\ OthersStand

Spec == Init /\ [][Next]_vars

(* The variables of every component keep their types.                       *)
HistoryTypeOK ==
  /\ ArchiveTypeOK
  /\ ReportTypeOK
=============================================================================
