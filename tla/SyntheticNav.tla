---------------------------- MODULE SyntheticNav ----------------------------
(***************************************************************************)
(* The simulated intraday price of the fund SWYGX in market-producer.  Its *)
(* runner is called from the polling loop.  While the session is regular   *)
(* it stores an estimate on top of the NAV of the previous trading day;    *)
(* once the NAV of the day is published it stores that NAV, dated to the   *)
(* 16:00 ET close.  A row of stock_quotes is never changed afterwards:     *)
(* (symbol, timestamp) conflicts do nothing.                               *)
(*                                                                         *)
(* A day has four slots: before the close, the very instant of the close,  *)
(* the evening before 18:15 ET, and the time after it.  A call works with  *)
(* the time it started at, while its two requests to Yahoo may take long.  *)
(***************************************************************************)
EXTENDS Integers, Sequences, FiniteSetsExt

CONSTANTS
  LastDate,      (* bound: of the clock                                     *)
  TradingDay,    (* the days the NYSE calendar has a session for            *)
  Nav,           (* the published NAV of each day                           *)
  BadNav,        (* a value of the wrong scale                              *)
  Weight,        (* of each ETF that stands for a holding of the fund        *)
  Moves,         (* moves of a proxy in percent, plausible or not           *)
  NavWindow,     (* days a response of Yahoo reaches back                   *)
  MaxNavFaults   (* bound: failures, bad values, missing rows, restarts     *)

Date == 1 .. LastDate
Slot == 1 .. 4
Open == 1   Bell == 2   Evening == 3   Settled == 4
Proxy == DOMAIN Weight
None == 0                          (* of dates and values                   *)
MaxPlausibleMove == 8              (* percent                               *)

ASSUME NavAssumption ==
  /\ LastDate \in Nat \ {0} /\ NavWindow \in Nat \ {0} /\ MaxNavFaults \in Nat
  /\ TradingDay \subseteq Date
  /\ Nav \in [Date -> Nat \ {0}] /\ BadNav \in Nat \ {0}
  /\ Weight \in Seq(Nat \ {0}) /\ Moves \subseteq Nat \ {0}

VARIABLES
  day, slot,
  published,     (* trading days whose NAV Yahoo has                        *)
  quotes,        (* rows of stock_quotes for the fund                       *)
  navStage,      (* "idle", or the request the call waits for               *)
  called,        (* the time maybe_run was called with                      *)
  officialDone,  (* _official_done_for                                      *)
  baseline,      (* the date the estimate builds on                         *)
  unguarded,     (* dates stored without the close of the day before them   *)
                 (* to compare with                                         *)
  navFaults

navVars == << day, slot, published, quotes, navStage, called, officialDone,
              baseline, unguarded, navFaults >>

NavInit ==
  /\ day = 1 /\ slot = Open
  /\ published = {} /\ quotes = {} /\ unguarded = {}
  /\ navStage = "idle"
  /\ called = << 1, Open >>
  /\ officialDone = None /\ baseline = None
  /\ navFaults = 0

PreviousTradingDate(d) ==
  LET prior == { p \in TradingDay : p < d } IN IF prior = {} THEN None ELSE Max(prior)

(* Between two slots the polling loop has called the runner, unless a call  *)
(* is still waiting for Yahoo.  A NAV is out before the next session opens. *)
PassTime ==
  /\ slot = Settled => /\ day < LastDate
                       /\ day \in TradingDay => day \in published
  /\ day'  = IF slot = Settled THEN day + 1 ELSE day
  /\ slot' = IF slot = Settled THEN Open ELSE slot + 1
  /\ UNCHANGED << published, quotes, navStage, called, officialDone, baseline,
                  unguarded, navFaults >>

PublishNav ==
  /\ day \in TradingDay \ published /\ slot \in {Evening, Settled}
  /\ published' = published \cup {day}
  /\ UNCHANGED << day, slot, quotes, navStage, called, officialDone, baseline,
                  unguarded, navFaults >>

-----------------------------------------------------------------------------

(* session == "regular" includes the instant of the close.                  *)
EstimateDue(d, s) == d \in TradingDay /\ s \in {Open, Bell}

OfficialDue(d, s) == officialDone # d /\ s = Settled /\ d \in TradingDay

(* maybe_run: the throttle and the backoff only make calls rarer, so a call *)
(* may happen at any time.                                                  *)
NavCall ==
  /\ navStage = "idle"
  /\ EstimateDue(day, slot) \/ OfficialDue(day, slot)
  /\ navStage' = "navs"
  /\ called'   = << day, slot >>
  /\ UNCHANGED << day, slot, published, quotes, officialDone, baseline,
                  unguarded, navFaults >>

(* What Yahoo may answer: the published closes of the window; for the day   *)
(* in progress possibly the last close again.  A row may be missing, or of  *)
(* the wrong scale.                                                         *)
StaleClose(d) == LET p == PreviousTradingDate(d) IN IF p = None THEN None ELSE Nav[p]

Rows == { d \in TradingDay : d > day - NavWindow /\ d <= day
                             /\ (d \in published \/ d = day) }

Value(d) == IF d \in published THEN Nav[d] ELSE StaleClose(d)

NavResponse(missing, bad) ==
  [ d \in { r \in Rows \ missing : Value(r) # None } |->
      IF d \in bad THEN BadNav ELSE Value(d) ]

-----------------------------------------------------------------------------
Move(a, b) == IF a > b THEN a - b ELSE b - a
Implausible(prev, v) == Move(prev, v) * 100 > MaxPlausibleMove * prev

(* "Broad index funds essentially never move this much in a day."           *)
ASSUME NavMovesPlausibly ==
  \A d \in TradingDay :
    LET p == PreviousTradingDate(d) IN p # None => ~ Implausible(Nav[p], Nav[d])

IsFinalClose(d) ==
  \/ d < called[1]
  \/ d = called[1] /\ called[2] = Settled

Stored(S, d, s) == \E q \in S : q.date = d /\ q.slot = s

(* Mutant: without the conflict clause a timestamp may have two rows.       *)
InsertQuoteAlways(S, q) == S \cup {q}

(* INSERT ... ON CONFLICT (symbol, timestamp) DO NOTHING.                   *)
InsertQuote(S, q) == IF Stored(S, q.date, q.slot) THEN S ELSE S \cup {q}

OfficialRow(d, v) == [date |-> d, slot |-> Bell, kind |-> "official",
                      value |-> v, base |-> d]

(* Mutant: a repeated close is skipped whatever its date.                   *)
SkippedForGood(acc, f, d) ==
  \/ d \notin TradingDay \/ ~ IsFinalClose(d)
  \/ acc.prev # None /\ (Implausible(acc.prev, f[d]) \/ f[d] = acc.prev)

(* Mutant: the comparison with the close before it is dropped.              *)
SkippedUnlessImplausible(acc, f, d) ==
  \/ d \notin TradingDay \/ ~ IsFinalClose(d)
  \/ acc.prev # None /\ Implausible(acc.prev, f[d])

Skipped(acc, f, d) ==
  \/ d \notin TradingDay \/ ~ IsFinalClose(d)
  \/ acc.prev # None /\ Implausible(acc.prev, f[d])
  \/ acc.prev # None /\ d = called[1] /\ f[d] = acc.prev

(* One iteration of _upsert_official_rows; an insert that raises leaves     *)
(* prev_close as it was.                                                    *)
UpsertOfficial(acc, f, d, failing) ==
  IF Skipped(acc, f, d) \/ d \in failing THEN acc
  ELSE [ prev      |-> f[d],
         quotes    |-> InsertQuote(acc.quotes, OfficialRow(d, f[d])),
         done      |-> IF d = called[1] THEN d ELSE acc.done,
         unguarded |->
           IF Stored(acc.quotes, d, Bell) \/ acc.prev = StaleClose(d)
           THEN acc.unguarded ELSE acc.unguarded \cup {d} ]

(* The rows come in the order of their dates.                               *)
UpsertOfficialRows(f, failing) ==
  LET upto[d \in 0 .. LastDate] ==
        IF d = 0
        THEN [prev |-> None, quotes |-> quotes, done |-> officialDone, unguarded |-> unguarded]
        ELSE IF d \in DOMAIN f THEN UpsertOfficial(upto[d - 1], f, d, failing)
                               ELSE upto[d - 1]
  IN  upto[LastDate]

(* Mutant: any earlier NAV will do as a baseline.                           *)
BaselineLatest(f) ==
  LET prior == { d \in DOMAIN f : d < called[1] }
  IN  IF prior = {} THEN None ELSE Max(prior)

BaselineFrom(f) ==
  LET prior == { d \in DOMAIN f : d < called[1] }
  IN  IF prior # {} /\ Max(prior) = PreviousTradingDate(called[1])
      THEN Max(prior) ELSE None

NavsArrive ==
  /\ navStage = "navs"
  /\ \E missing, bad, failing \in SUBSET Rows :
       LET f   == NavResponse(missing, bad)
           acc == UpsertOfficialRows(f, failing)
           b   == BaselineFrom(f)
           faults == Cardinality(missing) + Cardinality(bad) + Cardinality(failing)
       IN  /\ navFaults + faults <= MaxNavFaults
           /\ navFaults'    = navFaults + faults
           /\ quotes'       = acc.quotes
           /\ officialDone' = acc.done
           /\ unguarded'    = acc.unguarded
           /\ IF EstimateDue(called[1], called[2]) /\ b # None
              THEN navStage' = "proxies" /\ baseline' = b
              ELSE navStage' = "idle"    /\ baseline' = None
  /\ UNCHANGED << day, slot, published, called >>

(* Mutant: an estimate may carry the timestamp of the close.                *)
EstimateTooLateAfterBell(s) == s > Bell

EstimateTooLate(s) == s >= Bell

(* A proxy without a bar of the day of the call, or with an implausible     *)
(* move, is left out and the weights of the others make up for it.          *)
Priced(move) == { p \in Proxy : move[p] # None /\ move[p] <= MaxPlausibleMove }

(* The weights of the priced proxies and their weighted moves.              *)
Weighted(move) ==
  LET upto[n \in 0 .. Len(Weight)] ==
        IF n = 0 THEN [covered |-> 0, moved |-> 0]
        ELSE IF n \in Priced(move)
        THEN [covered |-> upto[n - 1].covered + Weight[n],
              moved   |-> upto[n - 1].moved + Weight[n] * move[n]]
        ELSE upto[n - 1]
  IN  upto[Len(Weight)]

(* Mutant: the sum is not renormalized over the priced proxies.             *)
EstimateTenthsDiluted(move) ==
  (10 * Weighted(move).moved) \div Weighted([p \in Proxy |-> 1]).covered

EstimateTenths(move) == (10 * Weighted(move).moved) \div Weighted(move).covered

Estimate(move) == [date |-> called[1], slot |-> called[2], kind |-> "estimate",
                   value |-> EstimateTenths(move), base |-> baseline]

ProxiesArrive ==
  /\ navStage = "proxies"
  /\ \E move \in [Proxy -> Moves \cup {None}] :
       quotes' = IF Priced(move) = {} \/ EstimateTooLate(called[2]) THEN quotes
                 ELSE InsertQuote(quotes, Estimate(move))
  /\ navStage' = "idle" /\ baseline' = None
  /\ UNCHANGED << day, slot, published, called, officialDone, unguarded, navFaults >>

(* _record_failure: the request raised, or the process was restarted and    *)
(* forgot which NAV it had stored.                                          *)
NavCallFails ==
  /\ navStage # "idle" /\ navFaults < MaxNavFaults
  /\ navFaults' = navFaults + 1
  /\ navStage' = "idle" /\ baseline' = None
  /\ officialDone' \in {officialDone, None}
  /\ UNCHANGED << day, slot, published, quotes, called, unguarded >>

NavStep == NavCall \/ NavsArrive \/ ProxiesArrive
NavNext == PassTime \/ PublishNav \/ NavStep \/ NavCallFails

NavSpec == NavInit /\ [][NavNext]_navVars

-----------------------------------------------------------------------------
(* The variables keep their types, with one row per time.                   *)
NavTypeOK ==
  /\ day \in Date /\ slot \in Slot
  /\ published \subseteq TradingDay
  /\ quotes \subseteq [ date : Date, slot : Slot, kind : {"official", "estimate"},
                        value : Nat, base : Date ]
  /\ \A q, r \in quotes : q.date = r.date /\ q.slot = r.slot => q = r
  /\ navStage \in {"idle", "navs", "proxies"}
  /\ called \in Date \X Slot
  /\ officialDone \in Date \cup {None} /\ baseline \in Date \cup {None}
  /\ unguarded \subseteq Date
  /\ navFaults \in 0 .. MaxNavFaults

(* The leaderboard takes a day with a regular row for a trading day: no row *)
(* is dated to another day, and only the NAV itself to the instant of the   *)
(* close, where an estimate would block it for good.                        *)
OfficialRowsUnblocked ==
  \A q \in quotes : /\ q.date \in TradingDay
                    /\ (q.slot = Bell) <=> (q.kind = "official")

(* A one-day move is never put on top of a NAV that is older than one       *)
(* trading day, however late the answers of Yahoo are.                      *)
EstimateOnPreviousSession ==
  \A q \in quotes : q.kind = "estimate" => q.base = PreviousTradingDate(q.date)

(* An estimate lies between the least and the greatest plausible move, also *)
(* when proxies are missing (moves in tenths of a percent, rounded down).   *)
EstimateWithinMoves ==
  LET plausible == { m \in Moves : m <= MaxPlausibleMove }
  IN  \A q \in quotes : q.kind = "estimate" =>
        q.value \in 10 * Min(plausible) .. 10 * Max(plausible)

(* What is stored as a NAV, for ever, was published as that NAV or has the  *)
(* wrong scale: the close of the day before, which Yahoo repeats until the  *)
(* publication, is not taken for it, unless the response gave no such close *)
(* to compare with.                                                         *)
StaleOnlyUnguarded ==
  \A q \in quotes :
    q.kind = "official" /\ q.value \notin {Nav[q.date], BadNav} => q.date \in unguarded

(* A NAV that really equals the one before it is deferred on its own day,   *)
(* and made up for with the next: without a failure no day stays behind.    *)
EarlierNavsStored ==
  navFaults = 0 /\ officialDone # None =>
    \A d \in TradingDay :
      day - NavWindow < d /\ d < officialDone => Stored(quotes, d, Bell)
(* What synthetic_nav.py writes, once and for ever, whatever Yahoo answers  *)
(* and whenever: the parts above together.                                  *)
NavRowsSound ==
  /\ OfficialRowsUnblocked
  /\ EstimateOnPreviousSession
  /\ EstimateWithinMoves
  /\ StaleOnlyUnguarded
  /\ EarlierNavsStored
=============================================================================
