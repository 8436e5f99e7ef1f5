--------------------------- MODULE MarketPolling ---------------------------
(***************************************************************************)
(* The quote cycles of market-producer.  Each cycle takes the time once,   *)
(* derives the session of every symbol from it, asks Yahoo for the latest  *)
(* one-minute bar of the symbols whose session is open, and stores the     *)
(* bars one after the other; a bar that is stored already is left as it    *)
(* is.  Both session functions look up the row of the exchange calendar    *)
(* for the UTC date of the moment, and nothing else.                       *)
(*                                                                         *)
(* Time is counted in ticks; day d has the ticks d * DayTicks and up.      *)
(* There is one stock, and one future whose session opens the day before.  *)
(***************************************************************************)
EXTENDS Integers, FiniteSetsExt

CONSTANTS
  DayTicks, LastTick,          (* ticks of a UTC day; bound of the clock    *)
  StockDays, FutureDays,       (* the rows of the two calendars             *)
  StockOpen, StockClose,       (* offsets of a row of the NYSE              *)
  PreSpan, AfterSpan,          (* hours before and after the session        *)
  FutureOpen, FutureClose,     (* offsets of a row of CME, the first one    *)
                               (* negative                                  *)
  MaxQuoteFaults               (* bound                                     *)

ASSUME PollingAssumption ==
  /\ {DayTicks, LastTick} \subseteq Nat \ {0}
  /\ StockDays \subseteq Nat /\ FutureDays \subseteq Nat
  /\ 0 <= StockOpen - PreSpan /\ StockOpen < StockClose /\ StockClose < DayTicks
  /\ FutureOpen < 0 /\ -DayTicks < FutureOpen
  /\ 0 < FutureClose /\ FutureClose < DayTicks + FutureOpen
  /\ PreSpan \in Nat \ {0} /\ {AfterSpan, MaxQuoteFaults} \subseteq Nat
  /\ {StockOpen, StockClose, FutureOpen, FutureClose} \subseteq Int

Quoted == {"stock", "future"}

VARIABLES
  quoteClock,
  polledAt,      (* now_utc of the cycle                                    *)
  quoteAsked,    (* symbols whose request is on its way                     *)
  received,      (* [symbol, at, label] of the cycle                        *)
  quoteRows,     (* stock_quotes                                            *)
  quoteFaults

pollingVars == << quoteClock, polledAt, quoteAsked, received, quoteRows, quoteFaults >>

PollingInit ==
  /\ quoteClock = 0 /\ polledAt = -1
  /\ quoteAsked = {} /\ received = {} /\ quoteRows = {} /\ quoteFaults = 0

-----------------------------------------------------------------------------
DateOf(t) == t \div DayTicks
At(d, offset) == d * DayTicks + offset

(* Mutant: the session ends before the bell.                                *)
StockSessionUntilBell(t) ==
  LET d == DateOf(t) IN
  IF d \in StockDays /\ t \in At(d, StockOpen) .. At(d, StockClose) - 1 THEN "regular"
  ELSE "closed"

(* get_market_session                                                       *)
StockSession(t) ==
  LET d == DateOf(t) IN
  IF d \notin StockDays THEN "closed"
  ELSE IF t \in At(d, StockOpen) .. At(d, StockClose) THEN "regular"
  ELSE IF t \in At(d, StockOpen - PreSpan) .. At(d, StockOpen) - 1 THEN "pre"
  ELSE IF t \in At(d, StockClose) + 1 .. At(d, StockClose + AfterSpan) THEN "after"
  ELSE "closed"

(* Mutant: a weekday of the calendar is open all day.                       *)
FutureSessionAllDay(t) ==
  IF DateOf(t) \in FutureDays THEN "futures_open" ELSE "futures_closed"

(* get_futures_session; the rows are the weekdays here.                     *)
FutureSession(t) ==
  LET d == DateOf(t) IN
  IF d \notin FutureDays THEN "futures_closed"
  ELSE IF t \in At(d, FutureOpen) .. At(d, FutureClose) THEN "futures_open"
  ELSE "futures_break"

Session(i, t) == IF i = "future" THEN FutureSession(t) ELSE StockSession(t)

Inactive == {"closed", "futures_closed", "futures_break"}

(* The minutes that trade: Yahoo has bars of the regular session only, and  *)
(* answers with the last one there is.                                      *)
BarTicks(i) ==
  IF i = "future"
  THEN UNION { At(d, FutureOpen) .. At(d, FutureClose) - 1 : d \in FutureDays }
  ELSE UNION { At(d, StockOpen) .. At(d, StockClose) - 1 : d \in StockDays }

LatestBar(i) ==
  LET past == { t \in BarTicks(i) : t >= 0 /\ t <= quoteClock } IN
  IF past = {} THEN -1 ELSE Max(past)

-----------------------------------------------------------------------------
CycleOver == quoteAsked = {} /\ received = {}

(* fetch_and_store takes the time and asks for every symbol that trades.    *)
BeginQuotes ==
  /\ CycleOver /\ polledAt # quoteClock
  /\ polledAt' = quoteClock
  /\ quoteAsked' = { i \in Quoted : Session(i, quoteClock) \notin Inactive }
  /\ UNCHANGED << quoteClock, received, quoteRows, quoteFaults >>

QuoteArrives ==
  /\ \E i \in quoteAsked :
       /\ quoteAsked' = quoteAsked \ {i}
       /\ received' = IF LatestBar(i) = -1 THEN received
                      ELSE received \cup { [ symbol |-> i, at |-> LatestBar(i),
                                             label |-> Session(i, polledAt) ] }
  /\ UNCHANGED << quoteClock, polledAt, quoteRows, quoteFaults >>

(* Throttled, or any other exception: no quote in this cycle.               *)
QuoteFails ==
  /\ quoteFaults < MaxQuoteFaults /\ quoteFaults' = quoteFaults + 1
  /\ \E i \in quoteAsked : quoteAsked' = quoteAsked \ {i}
  /\ UNCHANGED << quoteClock, polledAt, received, quoteRows >>

(* Mutant: without the conflict clause a timestamp may have two rows.       *)
InsertRowAlways(S, q) == S \cup {q}

(* INSERT_QUOTE_SQL, ON CONFLICT (symbol, timestamp) DO NOTHING.            *)
InsertRow(S, q) ==
  IF \E r \in S : r.symbol = q.symbol /\ r.at = q.at THEN S ELSE S \cup {q}

(* The inserts after gather, one at a time, each of which may raise.        *)
StoreQuote ==
  /\ quoteAsked = {}
  /\ \E q \in received :
       /\ received' = received \ {q}
       /\ \/ quoteRows' = InsertRow(quoteRows, q) /\ UNCHANGED quoteFaults
          \/ /\ quoteFaults < MaxQuoteFaults /\ quoteFaults' = quoteFaults + 1
             /\ UNCHANGED quoteRows
  /\ UNCHANGED << quoteClock, polledAt, quoteAsked >>

(* A tick is longer than the poll interval; a cycle may last into the next. *)
PollingTick ==
  /\ polledAt = quoteClock /\ quoteClock < LastTick
  /\ quoteClock' = quoteClock + 1
  /\ UNCHANGED << polledAt, quoteAsked, received, quoteRows, quoteFaults >>

PollingNext ==
  BeginQuotes \/ QuoteArrives \/ QuoteFails \/ StoreQuote \/ PollingTick
PollingSpec == PollingInit /\ [][PollingNext]_pollingVars

-----------------------------------------------------------------------------
(* The variables keep their types; a bar that is read again is no second row.*)
PollingTypeOK ==
  /\ quoteClock \in 0 .. LastTick /\ polledAt \in -1 .. quoteClock
  /\ quoteAsked \subseteq Quoted
  /\ received \cup quoteRows \subseteq
       [ symbol : Quoted, at : 0 .. LastTick,
         label : {"pre", "regular", "after", "futures_open"} ]
  /\ \A q, r \in quoteRows : q.symbol = r.symbol /\ q.at = r.at => q = r
  /\ quoteFaults \in 0 .. MaxQuoteFaults

(* What the exchanges do, whatever the date of the row: a session belongs   *)
(* to the row of a day and may begin or end on another one.                 *)
StockTrades(t) ==
  \E d \in StockDays : t \in At(d, StockOpen - PreSpan) .. At(d, StockClose + AfterSpan)
FutureTrades(t) ==
  \E d \in FutureDays : t \in At(d, FutureOpen) .. At(d, FutureClose)

(* Only bars of a running session are asked for: on a holiday or in the     *)
(* daily break the last bar would be stored under the wrong session.        *)
NothingAskedWhileShut ==
  /\ "stock"  \in quoteAsked => StockTrades(polledAt)
  /\ "future" \in quoteAsked => FutureTrades(polledAt)

(* Once after-hours trading is over (or the UTC date has changed) the last  *)
(* bar of the regular session is stored, also when a single request or      *)
(* insert failed: the polls after the bell make up for it.                  *)
ClosingBarStored ==
  \A d \in StockDays :
    quoteClock >= At(d + 1, 1) /\ quoteFaults <= 1 =>
      \E r \in quoteRows : r.symbol = "stock" /\ r.at = At(d, StockClose - 1)

(* What is polled and stored belongs to the sessions of the exchanges:      *)
(* nothing between them, and the close of each.                             *)
QuotesOfSessions ==
  /\ NothingAskedWhileShut
  /\ ClosingBarStored

(* "After-hours: 4:00 PM - 8:00 PM ET" and, of the futures, "~23h sessions  *)
(* with a daily break": the functions say that an exchange that trades is   *)
(* open.                                                                    *)
TradingIsOpen ==
  /\ StockTrades(quoteClock)  => StockSession(quoteClock)  \notin Inactive
  /\ FutureTrades(quoteClock) => FutureSession(quoteClock) \notin Inactive
=============================================================================
