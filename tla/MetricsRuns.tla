----------------------------- MODULE MetricsRuns -----------------------------
(***************************************************************************)
(* The financial metrics of market-producer.  The polling loop starts a    *)
(* daemon thread whenever the interval has passed, also while an earlier   *)
(* one is still at work; each has a database session and a cache of sector *)
(* baselines of its own, and upserts one row per stock.                    *)
(*                                                                         *)
(* A figure is represented by the time its prices were read, a baseline    *)
(* also by the thread that read it.                                        *)
(***************************************************************************)
EXTENDS Integers, FiniteSets, Functions, Maps

CONSTANTS
  Stock, SectorOf,     (* tracked stocks, and the ETF of each one           *)
  MetricsInterval,     (* ticks                                             *)
  LastHour,            (* bound: of the clock                               *)
  MaxMetricsFaults     (* bound                                             *)

ASSUME MetricsAssumption ==
  /\ DOMAIN SectorOf = Stock
  /\ {MetricsInterval, LastHour} \subseteq Nat \ {0} /\ MaxMetricsFaults \in Nat

VARIABLES
  hour,
  lastUpdate,    (* last_metrics_update                                     *)
  threads,       (* start of a thread -> stocks it has not handled yet      *)
  caches,        (* start of a thread -> sector -> baseline                 *)
  inHand,        (* start of a thread -> prices it has just read            *)
  metrics,       (* stock -> row of stock_metrics                           *)
  metricsFaults

metricsVars == << hour, lastUpdate, threads, caches, inHand, metrics, metricsFaults >>

MetricsInit ==
  /\ hour = 1 /\ lastUpdate = 0
  /\ threads = << >> /\ caches = << >> /\ inHand = << >> /\ metrics = << >>
  /\ metricsFaults = 0

(* Once the interval has passed; at the start of the process at once.       *)
MetricsDue == lastUpdate = 0 \/ hour - lastUpdate > MetricsInterval

StartMetrics ==
  /\ MetricsDue
  /\ lastUpdate' = hour
  /\ threads' = With(threads, hour, Stock)
  /\ caches'  = With(caches, hour, << >>)
  /\ UNCHANGED << hour, inHand, metrics, metricsFaults >>

HourPasses ==
  /\ ~ MetricsDue /\ hour < LastHour
  /\ hour' = hour + 1
  /\ UNCHANGED << lastUpdate, threads, caches, inHand, metrics, metricsFaults >>

(* Mutant: the cache outlives the thread.                                   *)
CachedShared(t) ==
  [ s \in UNION { DOMAIN caches[u] : u \in DOMAIN caches } |->
      caches[CHOOSE u \in DOMAIN caches : s \in DOMAIN caches[u]][s] ]

Cached(t) == caches[t]

(* A baseline the thread asks for, and none when neither source has prices. *)
BaselineRead(t) == [by |-> t, at |-> hour]
NoBaseline      == [by |-> 0, at |-> 0]

(* Without a baseline the relative scores are 0 and beta is 1.              *)
MetricsRow(t, read, base) == [run |-> t, read |-> read, base |-> base]

(* get_db_metrics of one stock: without prices from both sources it keeps   *)
(* its old row.                                                             *)
PricesArrive(t) ==
  /\ t \notin DOMAIN inHand
  /\ \E s \in threads[t] :
       /\ threads' = [threads EXCEPT ![t] = @ \ {s}]
       /\ \/ /\ inHand' = With(inHand, t, [stock |-> s, read |-> hour])
             /\ UNCHANGED metricsFaults
          \/ /\ metricsFaults < MaxMetricsFaults /\ metricsFaults' = metricsFaults + 1
             /\ UNCHANGED inHand
  /\ UNCHANGED << hour, lastUpdate, caches, metrics >>

(* The baseline of its sector, unless this thread has asked for it before,  *)
(* with or without success; and the upsert, which may raise.                *)
StoreMetrics(t) ==
  /\ t \in DOMAIN inHand
  /\ \E base \in {BaselineRead(t), NoBaseline}, stored \in BOOLEAN :
       LET s      == inHand[t].stock
           sector == SectorOf[s]
           known  == sector \in DOMAIN Cached(t)
           used   == IF known THEN Cached(t)[sector] ELSE base
           failures == Cardinality({ x \in {"base", "upsert"} :
                         IF x = "base" THEN ~ known /\ base = NoBaseline ELSE ~ stored })
       IN  /\ metricsFaults + failures <= MaxMetricsFaults
           /\ metricsFaults' = metricsFaults + failures
           /\ caches'  = [caches EXCEPT ![t] = With(@, sector, used)]
           /\ metrics' = IF stored
                         THEN With(metrics, s, MetricsRow(t, inHand[t].read, used))
                         ELSE metrics
  /\ inHand' = Restrict(inHand, DOMAIN inHand \ {t})
  /\ UNCHANGED << hour, lastUpdate, threads >>

(* The thread is done, dies (its session could not be opened, or any other  *)
(* exception), or the process is restarted and takes all threads with it.   *)
EndThread(t) ==
  /\ threads[t] = {} /\ t \notin DOMAIN inHand
  /\ threads' = Restrict(threads, DOMAIN threads \ {t})
  /\ caches'  = Restrict(caches, DOMAIN caches \ {t})
  /\ UNCHANGED << hour, lastUpdate, inHand, metrics, metricsFaults >>

ThreadDies(t) ==
  /\ metricsFaults < MaxMetricsFaults /\ metricsFaults' = metricsFaults + 1
  /\ threads' = Restrict(threads, DOMAIN threads \ {t})
  /\ caches'  = Restrict(caches, DOMAIN caches \ {t})
  /\ inHand'  = Restrict(inHand, DOMAIN inHand \ {t})
  /\ UNCHANGED << hour, lastUpdate, metrics >>

RestartProducer ==
  /\ metricsFaults < MaxMetricsFaults /\ metricsFaults' = metricsFaults + 1
  /\ threads' = << >> /\ caches' = << >> /\ inHand' = << >> /\ lastUpdate' = 0
  /\ hour < LastHour /\ hour' = hour + 1
  /\ UNCHANGED metrics

MetricsNext ==
  \/ StartMetrics \/ HourPasses \/ RestartProducer
  \/ \E t \in DOMAIN threads : PricesArrive(t) \/ StoreMetrics(t) \/ EndThread(t) \/ ThreadDies(t)

MetricsSpec == MetricsInit /\ [][MetricsNext]_metricsVars

-----------------------------------------------------------------------------
(* A stock is compared with prices of its sector that the thread which      *)
(* stored the row has read itself, after it was started: however many       *)
(* threads overlap, no row mixes the figures of two of them.                *)
BaselineOfSameRun ==
  \A s \in DOMAIN metrics :
    LET row == metrics[s]
    IN  row.base # NoBaseline => row.base.by = row.run /\ row.run <= row.base.at
=============================================================================
