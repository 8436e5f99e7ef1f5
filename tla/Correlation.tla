---------------------------- MODULE Correlation ----------------------------
(***************************************************************************)
(* What GET /api/stats/correlation computes from its hourly buckets: the   *)
(* momentum oscillator, the lag sweep, the closed regions, the buy signals *)
(* and the verdict on them.  The window begins at a fixed hour and grows   *)
(* by an hour at a time; its last bucket is the hour in progress, which    *)
(* changes with every quote, and the sentiment of any hour changes with    *)
(* posts that are scored late.  So what later data does to a response can  *)
(* be stated.  Prices and sentiments are integers (tenths for the          *)
(* sentiment index), and averages are compared multiplied out.             *)
(***************************************************************************)
EXTENDS FiniteSetsExt, SequencesExt, Lists

CONSTANTS
  SentimentValues,  (* tenths of the index of an hour with posts            *)
  HourPrices,       (* closes of an hour                                    *)
  Fast, Slow, Smooth,   (* periods of the oscillator                        *)
  MaxLag,           (* max_lag                                              *)
  MinSamples,       (* pairs below which a correlation is 0                 *)
  MinClosedHours,   (* between first and last bucket of a closed region     *)
  ForwardHours,     (* how far a signal looks for prices                    *)
  SeriesHours       (* bound: length of the series                          *)

ASSUME SeriesAssumption ==
  /\ Fast \in Nat \ {0} /\ Slow \in Nat \ {0} /\ Smooth \in Nat \ {0}
  /\ Fast <= Slow
  /\ MaxLag \in Nat /\ MinSamples \in Nat /\ SeriesHours \in Nat
  /\ MinClosedHours \in Nat /\ ForwardHours \in Nat
  /\ SentimentValues \subseteq Int /\ HourPrices \subseteq Nat

(* Only an hour with a close can have had a regular session.                *)
HourBucket ==
  { b \in [posts : BOOLEAN, sent : SentimentValues \cup {0},
           priced : BOOLEAN, price : HourPrices, open : BOOLEAN] :
      /\ ~ b.posts => b.sent = 0
      /\ b.posts => b.sent \in SentimentValues
      /\ ~ b.priced => ~ b.open /\ \A p \in HourPrices : b.price <= p }

VARIABLE series   (* sorted_data; its last bucket is the hour in progress  *)

SeriesInit == series = << >>

NextHour ==
  /\ Len(series) < SeriesHours
  /\ \E b \in HourBucket : series' = Append(series, b)

(* Mutant: the quotes of an hour that is over change, too.                  *)
KeepsAny(i, b) == TRUE

(* The close of an hour that is over stands.                                *)
Keeps(i, b) ==
  i < Len(series) =>
    /\ b.priced = series[i].priced /\ b.price = series[i].price
    /\ b.open = series[i].open

HourChanges ==
  \E i \in DOMAIN series : \E b \in HourBucket :
    /\ Keeps(i, b)
    /\ series' = [series EXCEPT ![i] = b]

SeriesNext == NextHour \/ HourChanges
SeriesSpec == SeriesInit /\ [][SeriesNext]_series

Indices == 1 .. Len(series)

(***************************************************************************)
(* compute_sentiment_macd.  A value is a sequence of one element, or empty *)
(* for None; sums stand for means and carry their period as a factor.      *)
(***************************************************************************)
(* Mutant: an hour without posts counts as neutral.                         *)
CarriedNeutral(data) == [i \in DOMAIN data |-> << data[i].sent >>]

(* Empty hours inherit the latest value; leading ones stay None.            *)
Carried(data) ==
  [i \in DOMAIN data |->
    LET told == { j \in 1 .. i : data[j].posts }
    IN  IF told = {} THEN << >> ELSE << data[Max(told)].sent >>]

(* Mutant: a window that is not full yet is averaged as it is.              *)
WindowSumPartial(values, i, period) ==
  LET window == { j \in Max({1, i - period + 1}) .. i : values[j] # << >> }
  IN  IF window = {} THEN << >> ELSE LET told == Picked(values, window)
           IN  << Total([k \in DOMAIN told |-> told[k][1]]) >>

WindowSum(values, i, period) ==
  IF i < period \/ \E j \in i - period + 1 .. i : values[j] = << >> THEN << >>
  ELSE << Total([k \in 1 .. period |-> values[i - period + k][1]]) >>

MacdLine(data) ==
  LET filled == Carried(data)
  IN  [i \in DOMAIN data |->
        LET f == WindowSum(filled, i, Fast)
            s == WindowSum(filled, i, Slow)
        IN  IF f = << >> \/ s = << >> THEN << >>
            ELSE << Slow * f[1] - Fast * s[1] >>]

SignalLine(data) ==
  LET line == MacdLine(data)
  IN  [i \in DOMAIN data |-> WindowSum(line, i, Smooth)]

(***************************************************************************)
(* compute_lagged_correlation, over hours with a sentiment, a return and   *)
(* the market open or not.                                                 *)
(***************************************************************************)
(* Mutant: the price is taken before the sentiment it should follow.        *)
PairsBackwards(data, lag) ==
  { i \in DOMAIN data : i - lag \in DOMAIN data /\ data[i - lag].open }

Pairs(data, lag) ==
  { i \in DOMAIN data : i + lag \in DOMAIN data /\ data[i + lag].open }

(* r as a numerator and the square of its denominator.                      *)
Pearson(data, lag) ==
  LET P      == Pairs(data, lag)
      n      == Cardinality(P)
      sum(v) == Total([i \in DOMAIN data |-> IF i \in P THEN v[i] ELSE 0])
      x      == [i \in P |-> data[i].sent]
      y      == [i \in P |-> data[i + lag].change]
      num    == n * sum([i \in P |-> x[i] * y[i]]) - sum(x) * sum(y)
      den    == (n * sum([i \in P |-> x[i] * x[i]]) - sum(x) * sum(x))
                  * (n * sum([i \in P |-> y[i] * y[i]]) - sum(y) * sum(y))
  IN  IF n < MinSamples \/ den <= 0 THEN [num |-> 0, den |-> 1]
      ELSE [num |-> num, den |-> den]

Stronger(r, q) == r.num * r.num * q.den > q.num * q.num * r.den

(* The sweep keeps the first of the strongest correlations.                 *)
Sweep(best, data, lag) ==
  LET r == Pearson(data, lag)
  IN  IF Stronger(r, best.r) THEN [r |-> r, lag |-> lag] ELSE best

BestLag(data) ==
  LET best[k \in 0 .. 2 * MaxLag + 1] ==
        IF k = 0 THEN [r |-> [num |-> 0, den |-> 1], lag |-> 0]
        ELSE Sweep(best[k - 1], data, k - MaxLag - 1)
  IN  best[2 * MaxLag + 1]

(***************************************************************************)
(* Closed regions: runs of hours without a regular session.                *)
(***************************************************************************)
(* Mutant: a region starts again at every closed hour.                      *)
ScanHourRestarting(scan, i) ==
  IF ~ series[i].open THEN [start |-> i, regions |-> scan.regions]
  ELSE IF scan.start # 0
    THEN [start |-> 0, regions |-> Append(scan.regions, << scan.start, i - 1 >>)]
    ELSE scan

ScanHour(scan, i) ==
  IF ~ series[i].open
    THEN IF scan.start = 0 THEN [start |-> i, regions |-> scan.regions] ELSE scan
  ELSE IF scan.start # 0
    THEN [start |-> 0, regions |-> Append(scan.regions, << scan.start, i - 1 >>)]
    ELSE scan

Scanned ==
  LET upto[i \in 0 .. Len(series)] ==
        IF i = 0 THEN [start |-> 0, regions |-> << >>] ELSE ScanHour(upto[i - 1], i)
  IN  upto[Len(series)]

AllRegions ==
  IF Scanned.start = 0 THEN Scanned.regions
  ELSE Append(Scanned.regions, << Scanned.start, Len(series) >>)

(* The region the series ends in is dropped while the latest quote is one   *)
(* of the regular session; short ones are not shown.                        *)
PastRegions(live) ==
  LET n == Len(AllRegions)
  IN  IF live /\ n > 0 /\ AllRegions[n][2] = Len(series)
      THEN SubSeq(AllRegions, 1, n - 1) ELSE AllRegions

ClosedRegions(live) ==
  LET past == PastRegions(live)
  IN  Picked(past, { k \in DOMAIN past : past[k][2] - past[k][1] >= MinClosedHours })

(***************************************************************************)
(* Buy signals: compute_opportunity in half points (20 of them are 100 %). *)
(***************************************************************************)
(* What else goes into a response: how the valuation of the stock compares  *)
(* with its sector, and the close of the hour before the window, 0 if none. *)
Inputs == [pe : {"below", "equal", "above", "unknown"}, before : HourPrices \cup {0}]

(* The 5th percentile of the prices of the whole window and of the hour     *)
(* before it: the least price with at least as many prices up to it as its  *)
(* place in their order.                                                    *)
SupportPrice(before) ==
  LET priced  == { i \in Indices : series[i].priced }
      prices  == { series[i].price : i \in priced } \cup ({before} \ {0})
      upto(p) == Cardinality({ i \in priced : series[i].price <= p })
                   + (IF before # 0 /\ before <= p THEN 1 ELSE 0)
      all     == Cardinality(priced) + (IF before # 0 THEN 1 ELSE 0)
      place   == 1 + ((all - 1) * 5) \div 100
  IN  IF prices = {} THEN 0 ELSE Min({ p \in prices : upto(p) >= place })

(* Mutant: an hour without a price counts as one at the support.            *)
SupportPointsDefault(i, before) ==
  LET s == SupportPrice(before)
  IN  IF ~ series[i].priced \/ 40 * (series[i].price - s) <= series[i].price
        THEN 6 ELSE 0

SupportPoints(i, before) ==
  LET s == SupportPrice(before)
  IN  IF ~ series[i].priced \/ series[i].price = 0 \/ s = 0 THEN 0
      ELSE IF 40 * (series[i].price - s) <= series[i].price THEN 6
      ELSE IF 20 * (series[i].price - s) <= series[i].price THEN 3
      ELSE 0

(* sentimentSMA: the hours there are, empty ones as 0.                      *)
CrossoverPoints(i) ==
  LET n   == Min({i, Fast})
      sum == Total([k \in 1 .. n |-> series[i - n + k].sent])
  IN  CASE series[i].sent * n <= sum -> 0
        [] series[i].sent * n > sum /\ sum > 0 -> 6
        [] OTHER -> 3

DivergencePoints(i) ==
  LET recent == Max({1, i - 2}) .. i
  IN  IF /\ Cardinality(recent) = 3 /\ \A j \in recent : series[j].priced
         /\ series[i].price < series[i - 2].price
         /\ series[i].sent - series[i - 2].sent > 1
        THEN 4 ELSE 0

(* pe_relative_sector: below 0, 0, above it or unknown.                     *)
ValuationPoints(pe) == CASE pe = "below" -> 4 [] pe = "equal" -> 2 [] OTHER -> 0

Score(i, r) ==
  SupportPoints(i, r.before) + CrossoverPoints(i) + DivergencePoints(i)
    + ValuationPoints(r.pe)

BuySignal(i, r) == Score(i, r) >= 10

(* Mutant: all prices that follow are looked at.                            *)
ForwardAll(i) == { k \in i + 1 .. Len(series) : series[k].priced }

(* The first two hours with a price after a signal, within a day.           *)
Forward(i) ==
  { k \in i + 1 .. Min({Len(series), i + ForwardHours}) :
      /\ series[k].priced
      /\ Cardinality({ j \in i + 1 .. k - 1 : series[j].priced }) < 2 }

(* A favourable excursion of more than 0.2 %.                               *)
Better(i, k) == 1000 * series[k].price > 1002 * series[i].price

(* The verdict on an hour with a signal.                                    *)
Verdict(i) ==
  IF ~ series[i].priced \/ Forward(i) = {} THEN "pending"
  ELSE IF \E k \in Forward(i) : Better(i, k) THEN "good"
  ELSE "bad"

Quality(i, r) == IF BuySignal(i, r) THEN Verdict(i) ELSE "pending"

-----------------------------------------------------------------------------
(* The hours of the series keep their types.                                *)
SeriesTypeOK == series \in Seq(HourBucket) /\ Len(series) <= SeriesHours

(* The oscillator measures momentum, not how often people post: an empty    *)
(* hour and an hour that repeats the last index give the same curves, and   *)
(* the lines start as soon as, and not before, their windows are full.      *)
Told == { i \in Indices : series[i].posts }

Repeated ==
  [i \in Indices |->
     LET told == { j \in Told : j <= i }
     IN  [posts |-> told # {}, sent |-> IF told = {} THEN 0 ELSE series[Max(told)].sent]]

MomentumNotCadence ==
  /\ MacdLine(series) = MacdLine(Repeated)
  /\ SignalLine(series) = SignalLine(Repeated)

LinesStartWhenFull ==
  \A i \in Indices :
    /\ MacdLine(series)[i] # << >> <=>
         \E j \in Told : j + Slow - 1 <= i
    /\ SignalLine(series)[i] # << >> <=>
         \E j \in Told : j + Slow - 1 + Smooth - 1 <= i

(* A return that repeats the sentiment of d hours before is recognised: the *)
(* correlation at lag d is perfect, and the lag reported is as strong.      *)
Delayed(d) ==
  [i \in Indices |-> [sent |-> series[i].sent, open |-> i > d /\ series[i].open,
                      change |-> IF i > d THEN series[i - d].sent ELSE 0]]

LeadIsFound ==
  \A d \in 1 .. MaxLag :
    LET P == { i \in Indices : i + d \in Indices /\ series[i + d].open }
        r == Pearson(Delayed(d), d)
    IN  (Cardinality(P) >= MinSamples
           /\ Cardinality({ series[i].sent : i \in P }) > 1) =>
          /\ r.num > 0 /\ r.num * r.num = r.den
          /\ ~ Stronger(r, BestLag(Delayed(d)).r)

(* The regions shown are the maximal runs of closed hours that are long     *)
(* enough, in order, the one that reaches the present only between sessions.*)
ClosedRegionsMaximal ==
  LET Closed(a, b) == \A i \in a .. b : ~ series[i].open
  IN \A live \in BOOLEAN :
      /\ ToSet(ClosedRegions(live)) =
           { r \in Indices \X Indices :
               /\ r[2] - r[1] >= MinClosedHours /\ Closed(r[1], r[2])
               /\ r[1] = 1 \/ series[r[1] - 1].open
               /\ r[2] = Len(series) \/ series[r[2] + 1].open
               /\ ~ (live /\ r[2] = Len(series)) }
      /\ \A k \in 1 .. Len(ClosedRegions(live)) - 1 :
           ClosedRegions(live)[k][2] < ClosedRegions(live)[k + 1][1]

(* No mood and no valuation make a strong buy of a price far from support.  *)
StrongBuyNearSupport ==
  \A i \in Indices : \A r \in Inputs :
    Score(i, r) >= 15 =>
      /\ series[i].priced
      /\ 20 * (series[i].price - SupportPrice(r.before)) <= series[i].price

(* Signal and verdict of an hour may both change while it is in progress or *)
(* a price after it is, and a signal may come and go later, too: with the   *)
(* support of the window, the valuation or posts that are scored late.  The *)
(* verdict is settled once the hour is over and, of the hours after it that *)
(* are over, one is better or two have a price.                             *)
Settled(i) ==
  LET over == Forward(i) \ {Len(series)}
  IN  /\ i < Len(series)
      /\ \/ Cardinality(over) = 2
         \/ \E k \in over : Better(i, k)

(* A settled verdict is final, whatever comes later.  Quality shows it only *)
(* while there is a signal: what a response says of the hour can return to  *)
(* pending, and is never reversed.                                          *)
VerdictsSettle ==
  [][\A i \in Indices : Settled(i) => Settled(i)' /\ Verdict(i)' = Verdict(i)]_series

(* The curves, the lag, the regions and the scores of a response mean what  *)
(* they are called, for every series of hours.                              *)
AnalyticsSound ==
  /\ MomentumNotCadence
  /\ LinesStartWhenFull
  /\ LeadIsFound
  /\ ClosedRegionsMaximal
  /\ StrongBuyNearSupport
=============================================================================
