------------------------------- MODULE Reports -------------------------------
(***************************************************************************)
(* The reports of the dashboard about the past: the hours of a stock with  *)
(* its posts, and its sessions next to those of foreign factors.  Each is  *)
(* computed from what is stored when it is asked for; both kinds of data   *)
(* grow meanwhile, independently of each other.                            *)
(***************************************************************************)
EXTENDS Correlation, GlobalContext

reportVars == << series, contextVars >>

ReportInit == SeriesInit /\ ContextInit

ReportNext ==
  \/ SeriesNext /\ UNCHANGED contextVars
  \/ ContextNext /\ UNCHANGED series

ReportSpec == ReportInit /\ [][ReportNext]_reportVars

(* The variables of the reports keep their types.                           *)
ReportTypeOK == SeriesTypeOK /\ ContextTypeOK

(* What the correlation and global context endpoints compute is right:      *)
(* lines, leads and regions follow from the hours there were, and the pairs *)
(* behind a correlation have the factor first.                              *)
ReportsSound ==
  /\ AnalyticsSound
  /\ PairsSound

(* What was reported about the past is not rewritten: no settled verdict is *)
(* reversed, pairs of closes and reactions to events stay as they were.     *)
PastUnchanged ==
  /\ VerdictsSettle
  /\ PairsOnlyGrow
  /\ ReactionFixed
=============================================================================
