---------------------------- MODULE MCProducers ----------------------------
(***************************************************************************)
(* Instances of the producers' components.  They share no state with one   *)
(* another, so a behaviour runs one of them, chosen at the start, and the  *)
(* others stand still: the states are the sum of the components' states,   *)
(* and every property is checked in the behaviours of all of them.         *)
(***************************************************************************)
EXTENDS Producers

VARIABLE part       (* the component that runs in this behaviour           *)

vars == << part, navVars, pacingVars, registryVars, newsVars, feedVars,
           globalVars, eventVars, pollingVars, metricsVars >>

Init ==
  /\ part \in {"nav", "pacing", "registry", "news", "feeds", "global",
               "events", "quotes", "metrics"}
  /\ NavInit /\ PacingInit /\ RegistryInit /\ NewsInit /\ FeedInit
  /\ GlobalInit /\ EventInit /\ PollingInit /\ MetricsInit

OthersStand ==
  /\ UNCHANGED part
  /\ IF part = "nav"      THEN TRUE ELSE UNCHANGED navVars
  /\ IF part = "pacing"   THEN TRUE ELSE UNCHANGED pacingVars
  /\ IF part = "registry" THEN TRUE ELSE UNCHANGED registryVars
  /\ IF part = "news"     THEN TRUE ELSE UNCHANGED newsVars
  /\ IF part = "feeds"    THEN TRUE ELSE UNCHANGED feedVars
  /\ IF part = "global"   THEN TRUE ELSE UNCHANGED globalVars
  /\ IF part = "events"   THEN TRUE ELSE UNCHANGED eventVars
  /\ IF part = "quotes"   THEN TRUE ELSE UNCHANGED pollingVars
  /\ IF part = "metrics"  THEN TRUE ELSE UNCHANGED metricsVars

Next ==
  \/ part = "nav"      /\ NavNext      /\ OthersStand
  \/ part = "pacing"   /\ PacingNext   /\ OthersStand
  \/ part = "registry" /\ RegistryNext /\ OthersStand
  \/ part = "news"     /\ NewsNext     /\ OthersStand
  \/ part = "feeds"    /\ FeedNext     /\ OthersStand
  \/ part = "global"   /\ GlobalNext   /\ OthersStand
  \/ part = "events"   /\ EventNext    /\ OthersStand
  \/ part = "quotes"   /\ PollingNext  /\ OthersStand
  \/ part = "metrics"  /\ MetricsNext  /\ OthersStand

(* PacingFairness and GlobalFairness, for the behaviours of those parts.    *)
Fairness ==
  /\ WF_pacingVars(part = "pacing" /\ PacingTick)
  /\ WF_pacingVars(part = "pacing" /\ TakeSlot)
  /\ WF_pacingVars(part = "pacing" /\ (AcquireToken \/ WaitForToken))
  /\ WF_pacingVars(part = "pacing" /\ Answer)
  /\ WF_pacingVars(part = "pacing" /\ EndCycle)
  /\ WF_globalVars(part = "global" /\ GlobalTick)
  /\ WF_globalVars(part = "global" /\ CooldownEnds)
  /\ WF_globalVars(part = "global" /\ MaybeRun)
  /\ WF_globalVars(part = "global" /\ FetchBars)
  /\ WF_globalVars(part = "global" /\ StoreResult)
  /\ WF_globalVars(part = "global" /\ EndHourly)
  /\ WF_globalVars(part = "global" /\ EndDaily)

Spec == Init /\ [][Next]_vars /\ Fairness

(* SessionsStored, for the behaviours in which global_market.py polls: with *)
(* providers that answer again, every session of the calendar is stored.    *)
GlobalSessionsStored == part = "global" => SessionsStored

(* Nothing a provider or the database does stops a producer for good: a     *)
(* cycle of paced requests ends, and every session comes to be stored.      *)
ProducersGoOn ==
  /\ CyclesEnd
  /\ GlobalSessionsStored

-----------------------------------------------------------------------------
MCPolled == << "nvda", "mu", "amd" >>

MCTradingDay == {1, 2, 4, 5}
MCNav        == << 50, 51, 1, 51, 52 >>
MCWeight     == << 3, 1 >>

MCFeed  == [s \in NewsSymbols |->
             IF s = "nvda" THEN << "shared", "own" >> ELSE << "other", "shared" >>]
MCNames == [x \in Articles |->
             CASE x = "shared" -> NewsSymbols
               [] OTHER        -> {"nvda"}]

MCInstruments == << "future", "stock" >>
MCOpens       == [i \in Instrument |-> IF i = "future" THEN 0 ELSE 1]
MCCloses      == [i \in Instrument |-> 2]

MCFutureOpen == -1
MCSectorOf   == [s \in Stock |-> "soxx"]
=============================================================================
