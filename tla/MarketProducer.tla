--------------------------- MODULE MarketProducer ---------------------------
(***************************************************************************)
(* The parts of market-producer that poll for tracked stocks and context   *)
(* instruments, in one process: the quote cycles of the polling loop, the  *)
(* metrics threads it starts, and the global market runner it calls.  They *)
(* write to tables of their own and share no variable, so any interleaving *)
(* of their steps is one of the process.                                   *)
(***************************************************************************)
EXTENDS MarketPolling, MetricsRuns, GlobalMarket

MarketSpec == PollingSpec /\ MetricsSpec /\ GlobalSpec

(* What market-producer stores: quotes of a session, the last one of the    *)
(* day included; metrics against a baseline of their own run; and the final *)
(* bar of every session that is ticked off.                                 *)
MarketRowsSound ==
  /\ QuotesOfSessions
  /\ BaselineOfSameRun
  /\ CompletedSessionsFinal
=============================================================================
