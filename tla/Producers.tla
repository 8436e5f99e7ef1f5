----------------------------- MODULE Producers -----------------------------
(***************************************************************************)
(* The producers side by side.  They are containers, or tasks of one       *)
(* container, that share no state of these modules: in any step each of    *)
(* them does something or stands still.                                    *)
(***************************************************************************)
EXTENDS SyntheticNav, Pacing, SymbolRegistry, NewsPolling, CursorFeeds,
        GlobalEvents, MarketProducer

ProducersSpec ==
  /\ NavSpec /\ PacingSpec /\ RegistrySpec /\ NewsSpec /\ FeedSpec
  /\ GlobalSpec /\ EventSpec /\ PollingSpec /\ MetricsSpec

(* The variables of every component keep their types.                       *)
ProducersTypeOK ==
  /\ NavTypeOK
  /\ PacingTypeOK
  /\ NewsTypeOK
  /\ FeedTypeOK
  /\ GlobalTypeOK
  /\ EventTypeOK
  /\ PollingTypeOK
=============================================================================
