----------------------- MODULE MCMarketPollingLabels -----------------------
(* The polling of quotes over two sessions, for the labels of its rows.     *)
EXTENDS MarketPolling

MCFutureOpen == -1
=============================================================================
