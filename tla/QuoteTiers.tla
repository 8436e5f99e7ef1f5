----------------------------- MODULE QuoteTiers -----------------------------
(***************************************************************************)
(* Quote retention and the query that reads across it.  stock_quotes rows  *)
(* older than the cutoff are folded into hourly and daily bars and         *)
(* deleted, in one statement, while quotes go on arriving, late ones and   *)
(* ones that were folded already among them; the API resamples bars and    *)
(* rows together.  A quote is the tick of its timestamp, all of one symbol.*)
(***************************************************************************)
EXTENDS Naturals, Sequences, FiniteSets, FiniteSetsExt

CONSTANTS
  QuoteTicks,     (* bound: timestamps 0 .. QuoteTicks - 1                  *)
  HourTicks,      (* timestamps of an hour                                  *)
  TierDayTicks,   (* timestamps of a New York day, a whole number of hours  *)
  PriceAt,        (* the price of the quote with a timestamp                *)
  Rollup,         (* statements that may run at a time                      *)
  MaxRewrites     (* bound: quotes stored a second time after a rollup      *)

QuoteTick == 0 .. QuoteTicks - 1

ASSUME TierAssumption ==
  /\ QuoteTicks \in Nat \ {0} /\ HourTicks \in Nat \ {0}
  /\ TierDayTicks \in Nat \ {0} /\ TierDayTicks % HourTicks = 0
  /\ PriceAt \in [QuoteTick -> Nat]
  /\ MaxRewrites \in Nat

Widths == { HourTicks, TierDayTicks }

Bucket(t, w) == t \div w

(* GROUP BY the hour or the day of the timestamp.                           *)
InBucket(S, w, b) == { t \in S : Bucket(t, w) = b }

VARIABLES
  rowsAt,       (* timestamps in stock_quotes                               *)
  bars,         (* market_hourly_facts and market_daily_facts, by width and *)
                (* bucket                                                   *)
  everAt,       (* history: timestamps that were ever stored                *)
  expiry,       (* the cutoff of the latest retention run                   *)
  visible,      (* the rows each running statement can see, or None         *)
  rewrites      (* history: the quotes that were stored again, in order      *)

quoteVars == << rowsAt, bars, everAt, expiry, visible, rewrites >>

NoBar == [count |-> 0]
NotRunning == {QuoteTicks}

(* The aggregates of a set of rows: the first and the last one count.       *)
BarOf(S) ==
  IF S = {} THEN NoBar
  ELSE [count |-> Cardinality(S), first |-> Min(S), last |-> Max(S),
        open |-> PriceAt[Min(S)], close |-> PriceAt[Max(S)],
        high |-> Max({ PriceAt[t] : t \in S }),
        low  |-> Min({ PriceAt[t] : t \in S })]

(* Mutant: the close of the latest statement wins.                          *)
FoldedLatest(old, new) ==
  IF new.count = 0 THEN old ELSE IF old.count = 0 THEN new
  ELSE [count |-> old.count + new.count,
        first |-> Min({old.first, new.first}),
        last  |-> Max({old.last, new.last}),
        open  |-> old.open,
        close |-> new.close,
        high  |-> Max({old.high, new.high}),
        low   |-> Min({old.low, new.low})]

(* ON CONFLICT DO UPDATE: the earlier open, the later close, extremes.      *)
Folded(old, new) ==
  IF new.count = 0 THEN old ELSE IF old.count = 0 THEN new
  ELSE [count |-> old.count + new.count,
        first |-> Min({old.first, new.first}),
        last  |-> Max({old.last, new.last}),
        open  |-> IF new.first < old.first THEN new.open ELSE old.open,
        close |-> IF new.last >= old.last THEN new.close ELSE old.close,
        high  |-> Max({old.high, new.high}),
        low   |-> Min({old.low, new.low})]

QuoteInit ==
  /\ rowsAt = {} /\ everAt = {} /\ expiry = 0 /\ rewrites = << >>
  /\ bars = [w \in Widths |-> [b \in 0 .. Bucket(QuoteTicks - 1, w) |-> NoBar]]
  /\ visible = [r \in Rollup |-> NotRunning]

(* INSERT ... ON CONFLICT DO NOTHING: a poll may offer any bar again.       *)
KeepQuote(t) ==
  /\ t \notin rowsAt
  /\ IF t \in everAt
       THEN Len(rewrites) < MaxRewrites /\ rewrites' = Append(rewrites, t)
       ELSE UNCHANGED rewrites
  /\ rowsAt' = rowsAt \cup {t}
  /\ everAt' = everAt \cup {t}
  /\ UNCHANGED << bars, expiry, visible >>

(* The statement takes its snapshot; it may then wait for the advisory lock.*)
StartRollup(r, cutoff) ==
  /\ visible[r] = NotRunning
  /\ cutoff >= expiry /\ expiry' = cutoff
  /\ visible' = [visible EXCEPT ![r] = { t \in rowsAt : t < cutoff }]
  /\ UNCHANGED << rowsAt, bars, everAt, rewrites >>

(* Mutant: the aggregates come from the snapshot, not from what the DELETE  *)
(* returns.                                                                 *)
PrunedBySnapshot(r) == visible[r]

(* A row another statement has deleted meanwhile is not returned.           *)
Pruned(r) == visible[r] \cap rowsAt

CommitRollup(r) ==
  /\ visible[r] # NotRunning
  /\ rowsAt' = rowsAt \ Pruned(r)
  /\ bars' = [w \in Widths |-> [b \in DOMAIN bars[w] |->
       Folded(bars[w][b], BarOf(InBucket(Pruned(r), w, b)))]]
  /\ visible' = [visible EXCEPT ![r] = NotRunning]
  /\ UNCHANGED << everAt, expiry, rewrites >>

(* The connection is lost: the statement rolls back, or has committed; the  *)
(* caller reconnects and starts it again.                                   *)
RollupLost(r) ==
  /\ visible[r] # NotRunning
  /\ visible' = [visible EXCEPT ![r] = NotRunning]
  /\ UNCHANGED << rowsAt, bars, everAt, expiry, rewrites >>

QuoteNext ==
  \/ \E t \in QuoteTick : KeepQuote(t)
  \/ \E r \in Rollup :
       \/ \E cutoff \in 1 .. QuoteTicks : StartRollup(r, cutoff)
       \/ CommitRollup(r)
       \/ RollupLost(r)

QuoteSpec == QuoteInit /\ [][QuoteNext]_quoteVars

-----------------------------------------------------------------------------
(* HOURLY_MARKET_QUERY: per hour, the close observed last in either source. *)
HourSources(h) ==
  { b \in { bars[HourTicks][h], BarOf(InBucket(rowsAt, HourTicks, h)) } : b.count > 0 }

(* Mutant: an hour with a fact is answered from the fact alone.             *)
HourCloseOfFacts(h) ==
  IF bars[HourTicks][h].count > 0 THEN bars[HourTicks][h].close
  ELSE (CHOOSE b \in HourSources(h) : TRUE).close

HourClose(h) ==
  (CHOOSE b \in HourSources(h) : \A c \in HourSources(h) : c.last <= b.last).close

Hours == DOMAIN bars[HourTicks]

(* One row per hour, with the change since the hour before if it has one.   *)
HourlyRows ==
  { [hour |-> h, price |-> HourClose(h),
     since |-> { HourClose(g) : g \in { g \in Hours :
                   g + 1 = h /\ HourSources(g) # {} } }]
    : h \in { h \in Hours : HourSources(h) # {} } }

(* The variables keep their types; a bar opens and closes at prices of its  *)
(* own bucket.                                                              *)
QuoteTypeOK ==
  /\ rowsAt \subseteq QuoteTick /\ everAt \subseteq QuoteTick
  /\ rowsAt \subseteq everAt
  /\ \A w \in Widths : \A b \in DOMAIN bars[w] :
       LET bar == bars[w][b]
       IN  bar.count > 0 => /\ {Bucket(bar.first, w), Bucket(bar.last, w)} = {b}
                            /\ bar.open = PriceAt[bar.first]
                            /\ bar.close = PriceAt[bar.last]
  /\ expiry \in 0 .. QuoteTicks
  /\ rewrites \in Seq(QuoteTick) /\ Len(rewrites) <= MaxRewrites

Prices(b) == << b.first, b.last, b.open, b.close, b.high, b.low >>

(* Whatever the order in which quotes arrive, late and twice, and rollups   *)
(* run, retried and overlapping, the prices of a bar folded with the rows   *)
(* that are left are those of all quotes of its bucket.                     *)
BarsOfAllQuotes ==
  \A w \in Widths : \A b \in DOMAIN bars[w] :
    LET all    == BarOf(InBucket(everAt, w, b))
        merged == Folded(bars[w][b], BarOf(InBucket(rowsAt, w, b)))
    IN  /\ merged.count = 0 <=> all.count = 0
        /\ all.count # 0 => Prices(merged) = Prices(all)

Again(q, w, b) == { i \in DOMAIN q : Bucket(q[i], w) = b }

(* Only a quote that is stored again is observed twice, and every time that *)
(* it was: observations counted in a bar or still to be counted are those   *)
(* that were made.                                                          *)
ObservationsCounted ==
  \A w \in Widths : \A b \in DOMAIN bars[w] :
    bars[w][b].count + Cardinality(InBucket(rowsAt, w, b)) =
      Cardinality(InBucket(everAt, w, b)) + Cardinality(Again(rewrites, w, b))

(* A history across the cutoff reads as if nothing had been rolled up: the  *)
(* hour is closed by its latest quote and changes against the hour before.  *)
HistoryAcrossTiers ==
  LET AllOf(h) == InBucket(everAt, HourTicks, h)
      Close(h) == PriceAt[Max(AllOf(h))]
  IN  HourlyRows =
        { [hour |-> h, price |-> Close(h),
           since |-> { Close(g) : g \in { g \in Hours :
                         g + 1 = h /\ AllOf(g) # {} } }]
          : h \in { h \in Hours : AllOf(h) # {} } }

(* Rolling quotes up loses and invents nothing: the bars, their counts and  *)
(* what is read across the tiers are those of all quotes.                   *)
TiersAgree ==
  /\ BarsOfAllQuotes
  /\ ObservationsCounted
  /\ HistoryAcrossTiers
=============================================================================
