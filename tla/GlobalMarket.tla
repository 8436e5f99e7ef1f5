---------------------------- MODULE GlobalMarket ----------------------------
(***************************************************************************)
(* The context bars of market-producer (global_market.py): the polling     *)
(* loop calls maybe_run, which polls hourly bars at an interval and the    *)
(* daily bars of an instrument once its session has settled.  Bars are     *)
(* upserted by key, so a bar stored while it was in progress is replaced   *)
(* by a later poll.  global_backfill.py stores daily bars meanwhile.       *)
(*                                                                         *)
(* A day has DaySlots slots; slot t of the clock belongs to day            *)
(* DayOf(t).  A session that opens the evening before has Opens <= 0.      *)
(***************************************************************************)
EXTENDS Integers, FiniteSetsExt, SequencesExt, Maps

CONSTANTS
  Instruments,     (* sequence, in the order of list_global_instruments     *)
  Hourly,          (* those that are no us_equity                           *)
  Opens, Closes,   (* slot of the day, per instrument                       *)
  SessionDays,     (* days with a session; also the configured weekdays     *)
  DaySlots, Grace, (* GLOBAL_DAILY_SETTLE_GRACE_MINUTES in slots            *)
  LookbackDays,    (* of a daily poll; an hourly one looks back one day     *)
  GlobalDays, MaxGlobalFaults      (* bounds                                *)

Instrument == Range(Instruments)

ASSUME GlobalAssumption ==
  /\ Instruments \in Seq(Instrument) /\ IsInjective(Instruments) /\ Hourly \subseteq Instrument
  /\ {DaySlots, Grace, LookbackDays, GlobalDays} \subseteq Nat \ {0}
  /\ SessionDays \subseteq 1 .. GlobalDays /\ MaxGlobalFaults \in Nat
  /\ Opens \in [Instrument -> Int] /\ Closes \in [Instrument -> 1 .. DaySlots]
  /\ \A i \in Instrument : Opens[i] < Closes[i]

VARIABLES
  clock,
  interval,      (* what maybe_run polls: "none", "1h" or "1d"              *)
  nowUtc,        (* the time maybe_run was called with                      *)
  asked,         (* requests of the gather that have no result yet          *)
  results,       (* instrument -> status and bars of its request            *)
  completed,     (* instruments of the poll with a usable answer            *)
  hourlyPolled,  (* last_hourly_poll                                        *)
  lastSession,   (* last_daily_session                                      *)
  cooling,       (* << instrument, interval >> in backoff                   *)
  bars,          (* rows of global_market_bars                              *)
  backfill,      (* bars a backfill has fetched and not stored              *)
  gaps,          (* history: keys left out of an answer after their end     *)
  overtaken,     (* history: keys a backfill replaced by an older bar       *)
  globalFaults

globalVars == << clock, interval, nowUtc, asked, results, completed,
                 hourlyPolled, lastSession, cooling, bars, backfill, gaps,
                 overtaken, globalFaults >>

GlobalInit ==
  /\ clock = 1 /\ nowUtc = 1
  /\ interval = "none" /\ asked = {} /\ results = << >> /\ completed = {}
  /\ hourlyPolled = 0 /\ lastSession = [i \in Instrument |-> 0]
  /\ cooling = {} /\ bars = {} /\ backfill = {}
  /\ gaps = {} /\ overtaken = {} /\ globalFaults = 0

DayOf(t)  == ((t - 1) \div DaySlots) + 1
SlotOf(t) == ((t - 1) % DaySlots) + 1
GlobalFault == globalFaults < MaxGlobalFaults /\ globalFaults' = globalFaults + 1

GlobalTick ==
  /\ clock < GlobalDays * DaySlots /\ clock' = clock + 1
  /\ UNCHANGED << interval, nowUtc, asked, results, completed, hourlyPolled,
                  lastSession, cooling, bars, backfill, gaps, overtaken, globalFaults >>

-----------------------------------------------------------------------------
(* A key is << instrument, interval, at >>; at is the day of a daily bar    *)
(* and the slot of an hourly one.                                           *)
StartsAt(k) == IF k[2] = "1d" THEN (k[3] - 1) * DaySlots + Opens[k[1]] ELSE k[3]
EndsAt(k)   == IF k[2] = "1d" THEN (k[3] - 1) * DaySlots + Closes[k[1]] ELSE k[3] + 1

BarAt(k, t) == [key |-> k, final |-> t >= EndsAt(k)]

(* What the provider has of the range that is asked for.  The official      *)
(* closes of Taiwan come from the same keys.                                *)
Asked(i, iv, t) ==
  IF iv = "1d"
  THEN { << i, iv, d >> : d \in { e \in SessionDays :
                           DayOf(t) - LookbackDays <= e /\ e <= DayOf(t) + 1 } }
  ELSE { << i, iv, s >> : s \in { u \in 1 .. GlobalDays * DaySlots : u > t - DaySlots } }

Offered(i, iv, t) == { BarAt(k, clock) : k \in { x \in Asked(i, iv, t) : StartsAt(x) <= clock } }

(* Mutant: the settling grace is left out, the close itself too.            *)
DailyDueEarly(i, t) ==
  DayOf(t) \in SessionDays /\ lastSession[i] # DayOf(t)

DailyDue(i, t) ==
  /\ DayOf(t) \in SessionDays
  /\ SlotOf(t) >= Closes[i] + Grace
  /\ lastSession[i] # DayOf(t)

Eligible(S, iv) == { i \in S : << i, iv >> \notin cooling }

(* maybe_run loads the instruments; the hourly poll has its own interval.   *)
MaybeRun ==
  /\ interval = "none"
  /\ nowUtc' = clock
  /\ IF hourlyPolled < clock
     THEN interval' = "1h" /\ asked' = Eligible(Hourly, "1h")
     ELSE interval' = "1d" /\ asked' = Eligible({ i \in Instrument : DailyDue(i, clock) }, "1d")
  /\ UNCHANGED << clock, results, completed, hourlyPolled, lastSession, cooling,
                  bars, backfill, gaps, overtaken, globalFaults >>

(* _fetch_one in a thread: bars with possibly a row missing, none at all, a *)
(* rate limit, or another error.                                            *)
FetchBars ==
  /\ \E i \in asked :
       LET offered == Offered(i, interval, nowUtc)
           Answer(status, rows) ==
             /\ asked' = asked \ {i}
             /\ results' = With(results, i, [status |-> status, rows |-> rows])
       IN  \/ Answer(IF offered = {} THEN "no_data" ELSE "success", offered)
              /\ UNCHANGED << gaps, globalFaults >>
           \/ \E lost \in offered :
                /\ GlobalFault
                /\ Answer(IF offered = {lost} THEN "no_data" ELSE "success", offered \ {lost})
                /\ gaps' = IF lost.final THEN gaps \cup {lost.key} ELSE gaps
           \/ \E status \in {"rate_limited", "transient_error"} :
                GlobalFault /\ Answer(status, {}) /\ UNCHANGED gaps
  /\ UNCHANGED << clock, interval, nowUtc, completed, hourlyPolled, lastSession,
                  cooling, bars, backfill, overtaken >>

(* Mutant: a bar that exists is kept as it is.                              *)
UpsertKeeping(rows) ==
  bars \cup { r \in rows : \A b \in bars : b.key # r.key }

(* Mutant: every poll adds its rows.                                        *)
UpsertAdded(rows) == bars \cup rows

(* ON CONFLICT DO UPDATE of every column.                                   *)
Upsert(rows) == { b \in bars : \A r \in rows : r.key # b.key } \cup rows

(* Mutant: every answer completes the session of an instrument.             *)
CompletesAlways(status) == TRUE

Completes(status) == status \in {"success", "no_data"}

Pending == asked = {} /\ DOMAIN results # {}
NextResult == Instruments[SelectInSeq(Instruments, LAMBDA i : i \in DOMAIN results)]

(* The results are recorded and stored one after the other.                 *)
StoreResult ==
  /\ interval # "none" /\ Pending
  /\ LET i == NextResult
         r == results[i]
     IN  /\ cooling' = IF r.status = "rate_limited" THEN cooling \cup {<< i, interval >>}
                       ELSE cooling \ {<< i, interval >>}
         /\ bars' = Upsert(r.rows)
         /\ completed' = IF Completes(r.status) THEN completed \cup {i} ELSE completed
         /\ results' = Restrict(results, DOMAIN results \ {i})
  /\ UNCHANGED << clock, interval, nowUtc, asked, hourlyPolled, lastSession,
                  backfill, gaps, overtaken, globalFaults >>

(* executemany failed twice, after some of its rows were committed: the     *)
(* exception ends the whole run, and the results not yet stored are lost.   *)
StoreFails ==
  /\ interval # "none" /\ Pending /\ GlobalFault
  /\ \E rows \in SUBSET results[NextResult].rows : bars' = Upsert(rows)
  /\ interval' = "none" /\ results' = << >> /\ completed' = {}
  /\ UNCHANGED << clock, nowUtc, asked, hourlyPolled, lastSession, cooling,
                  backfill, gaps, overtaken >>

(* The hourly poll is followed by the daily one of the same call.           *)
EndHourly ==
  /\ interval = "1h" /\ asked = {} /\ DOMAIN results = {}
  /\ hourlyPolled' = nowUtc /\ completed' = {}
  /\ interval' = "1d"
  /\ asked' = Eligible({ i \in Instrument : DailyDue(i, nowUtc) }, "1d")
  /\ UNCHANGED << clock, nowUtc, results, lastSession, cooling, bars, backfill,
                  gaps, overtaken, globalFaults >>

EndDaily ==
  /\ interval = "1d" /\ asked = {} /\ DOMAIN results = {}
  /\ lastSession' = [ i \in Instrument |->
                        IF i \in completed THEN DayOf(nowUtc) ELSE lastSession[i] ]
  /\ interval' = "none" /\ completed' = {}
  /\ UNCHANGED << clock, nowUtc, asked, results, hourlyPolled, cooling, bars,
                  backfill, gaps, overtaken, globalFaults >>

CooldownEnds ==
  /\ \E c \in cooling : cooling' = cooling \ {c}
  /\ UNCHANGED << clock, interval, nowUtc, asked, results, completed, hourlyPolled,
                  lastSession, bars, backfill, gaps, overtaken, globalFaults >>

RestartRunner ==
  /\ GlobalFault
  /\ interval' = "none" /\ asked' = {} /\ results' = << >> /\ completed' = {}
  /\ hourlyPolled' = 0 /\ lastSession' = [i \in Instrument |-> 0] /\ cooling' = {}
  /\ UNCHANGED << clock, nowUtc, bars, backfill, gaps, overtaken >>

(* backfill_instrument: a fetch, then the upsert, in another process.       *)
BackfillFetch ==
  /\ backfill = {} /\ GlobalFault
  /\ \E i \in Instrument : backfill' = Offered(i, "1d", clock)
  /\ UNCHANGED << clock, interval, nowUtc, asked, results, completed, hourlyPolled,
                  lastSession, cooling, bars, gaps, overtaken >>

BackfillStore ==
  /\ backfill # {}
  /\ bars' = Upsert(backfill) /\ backfill' = {}
  /\ overtaken' = overtaken \cup
       { b.key : b \in { x \in bars : x.final /\ [key |-> x.key, final |-> FALSE] \in backfill } }
  /\ UNCHANGED << clock, interval, nowUtc, asked, results, completed, hourlyPolled,
                  lastSession, cooling, gaps, globalFaults >>

GlobalNext ==
  \/ GlobalTick \/ MaybeRun \/ FetchBars \/ StoreResult \/ StoreFails
  \/ EndHourly \/ EndDaily \/ CooldownEnds \/ RestartRunner
  \/ BackfillFetch \/ BackfillStore

(* Time passes, the loop calls maybe_run again, and its requests and        *)
(* statements end; a cooldown is over in the end.                           *)
GlobalFairness ==
  /\ WF_globalVars(GlobalTick) /\ WF_globalVars(CooldownEnds)
  /\ WF_globalVars(MaybeRun) /\ WF_globalVars(FetchBars) /\ WF_globalVars(StoreResult)
  /\ WF_globalVars(EndHourly) /\ WF_globalVars(EndDaily)
GlobalSpec == GlobalInit /\ [][GlobalNext]_globalVars /\ GlobalFairness

-----------------------------------------------------------------------------
(* The variables keep their types, with one bar per key.                    *)
GlobalTypeOK ==
  /\ clock \in 1 .. GlobalDays * DaySlots /\ nowUtc \in 1 .. clock
  /\ interval \in {"none", "1h", "1d"}
  /\ asked \subseteq Instrument /\ DOMAIN results \subseteq Instrument
  /\ completed \subseteq Instrument
  /\ \A i \in Instrument : lastSession[i] \in {0} \cup SessionDays
  /\ \A b, c \in bars : b.key = c.key => b = c

(* The bar of a key is final, unless the answer had no row for it or a      *)
(* backfill has stored an earlier one over it.                              *)
SettledBar(k) ==
  \/ k \in gaps \cup overtaken
  \/ [key |-> k, final |-> TRUE] \in bars

(* A session is ticked off only when its final bar, and those of the        *)
(* sessions before it that were missed, are stored: a poll that failed, was *)
(* throttled, or ran before the close leaves the session due.               *)
CompletedSessionsFinal ==
  \A i \in Instrument : \A d \in SessionDays :
    d <= lastSession[i] /\ d >= lastSession[i] - LookbackDays => SettledBar(<< i, "1d", d >>)

(* Whatever fails on the way, the final bar of every session is stored in   *)
(* the end, on its day or with a later one.                                 *)
SessionsStored ==
  \A i \in Instrument : \A d \in SessionDays :
    <> SettledBar(<< i, "1d", d >>)
=============================================================================
