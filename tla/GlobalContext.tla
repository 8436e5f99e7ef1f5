--------------------------- MODULE GlobalContext ---------------------------
(***************************************************************************)
(* What the global context of a stock reports: the pairs of returns of a   *)
(* foreign factor and of the stock that the correlations are computed      *)
(* from, and the move of the stock around an event.  Daily bars arrive     *)
(* meanwhile, mostly in order; some come late, and a backfill stores the   *)
(* bar of a session that is still open.                                    *)
(*                                                                         *)
(* A close is the end of its bar and whether its price is positive; a      *)
(* move or return is the pair of ends it spans.                            *)
(***************************************************************************)
EXTENDS FiniteSetsExt, SequencesExt, Lists

CONSTANTS
  FactorEnds, StockEnds,   (* ends of the daily bars                        *)
  Lags, HorizonSessions,
  EventTimes,              (* occurred_at of the signals                    *)
  LastMoment,              (* bound: of the clock                           *)
  MaxBarFaults             (* bound: early, late and unusable daily bars    *)

ASSUME ContextAssumption ==
  /\ FactorEnds \cup StockEnds \cup EventTimes \subseteq Nat
  /\ Lags \subseteq Nat
  /\ HorizonSessions \in Nat \ {0} /\ {LastMoment, MaxBarFaults} \subseteq Nat

VARIABLES
  moment,
  factorCloses, stockCloses,   (* [end, usable]                             *)
  barFaults

contextVars == << moment, factorCloses, stockCloses, barFaults >>

ContextInit ==
  /\ moment = 0 /\ factorCloses = {} /\ stockCloses = {}
  /\ barFaults = 0

BarFault == barFaults < MaxBarFaults /\ barFaults' = barFaults + 1
EndsOf(closes) == { c.end : c \in closes }
InOrder(closes, e) == \A x \in EndsOf(closes) : x < e

ContextTick ==
  /\ moment < LastMoment /\ moment' = moment + 1
  /\ UNCHANGED << factorCloses, stockCloses, barFaults >>

(* upsert_global_bars; the poll of the next session can make up for a bar,  *)
(* and a backfill stores what there is of the session in progress.          *)
Closed(closes, ends) ==
  { c \in [end : ends, usable : BOOLEAN] :
      /\ c.end <= moment /\ c.usable /\ InOrder(closes, c.end) }

(* Mutant: the key of a bar is not unique.                                  *)
UpsertedTwice(closes, c) == closes \cup {c}

Upserted(closes, c) == { x \in closes : x.end # c.end } \cup {c}

StoreFactorClose ==
  /\ \/ \E c \in Closed(factorCloses, FactorEnds) :
          factorCloses' = Upserted(factorCloses, c) /\ UNCHANGED barFaults
     \/ \E c \in [end : FactorEnds, usable : BOOLEAN] :
          BarFault /\ factorCloses' = Upserted(factorCloses, c)
  /\ UNCHANGED << moment, stockCloses >>

StoreStockClose ==
  /\ \/ \E c \in Closed(stockCloses, StockEnds) :
          stockCloses' = Upserted(stockCloses, c) /\ UNCHANGED barFaults
     \/ \E c \in [end : StockEnds, usable : BOOLEAN] :
          BarFault /\ stockCloses' = Upserted(stockCloses, c)
  /\ UNCHANGED << moment, factorCloses >>

ContextNext == ContextTick \/ StoreFactorClose \/ StoreStockClose
ContextSpec == ContextInit /\ [][ContextNext]_contextVars

-----------------------------------------------------------------------------
(* calculate_relationship                                                   *)
(***************************************************************************)
InTime(closes) ==
  [k \in 1 .. Cardinality(EndsOf(closes)) |->
     CHOOSE c \in closes : c.end = Ascending(EndsOf(closes))[k]]

(* Mutant: unusable closes are left out before the returns are taken.       *)
ReturnsOverGaps(closes) ==
  LET s == InTime({ c \in closes : c.usable })
  IN  [k \in 1 .. (IF s = << >> THEN 0 ELSE Len(s) - 1) |-> << s[k].end, s[k + 1].end >>]

(* The closes of two neighbours; an unusable one spoils two returns.        *)
Returns(closes) ==
  LET s == InTime(closes)
      usable == { k \in 1 .. Len(s) - 1 : s[k].usable /\ s[k + 1].usable }
      order == Ascending(usable)
  IN  [k \in DOMAIN order |-> << s[order[k]].end, s[order[k] + 1].end >>]

(* Mutant: a close at the same time counts as later.                        *)
FirstLaterOrSame(returns, e) == Cardinality({ k \in DOMAIN returns : returns[k][2] < e })

(* bisect_right                                                             *)
FirstLater(returns, e) == Cardinality({ k \in DOMAIN returns : returns[k][2] <= e })

(* Mutant: past the end, the last stock return is taken.                    *)
PartnerClamped(returns, e, lag) == Min({FirstLater(returns, e) + lag + 1, Len(returns)})

Partner(returns, e, lag) == FirstLater(returns, e) + lag + 1

(* pairs, before they are cut to the horizon.                               *)
AllPairs(factor, stock, lag) ==
  LET f == Returns(factor)
      s == Returns(stock)
      order == Ascending({ k \in DOMAIN f : Partner(s, f[k][2], lag) \in DOMAIN s })
  IN  [k \in DOMAIN order |-> << f[order[k]], s[Partner(s, f[order[k]][2], lag)] >>]

CutToHorizon(pairs) ==
  SubSeq(pairs, Max({1, Len(pairs) - HorizonSessions + 1}), Len(pairs))

(* next_close_move                                                          *)
(***************************************************************************)
(* Mutant: the move is the one up to the newest close.                      *)
AfterLatest(closes, t) == { c \in closes : c.end > t /\ c.end = Max(EndsOf(closes)) }

After(closes, t) == { c \in closes : c.end > t /\ \A x \in EndsOf(closes) : x > t => c.end <= x }
Before(closes, t) == { c \in closes : c.end < t /\ \A x \in EndsOf(closes) : x < t => x <= c.end }

(* The set of the move, empty for None.                                     *)
NextCloseMove(closes, t) ==
  { << b.end, a.end >> : b \in { x \in Before(closes, t) : x.usable },
                         a \in { x \in After(closes, t) : x.usable } }

-----------------------------------------------------------------------------
(* The variables keep their types, with one close per end: an upsert        *)
(* replaces the bar of its key.                                             *)
ContextTypeOK ==
  /\ moment \in 0 .. LastMoment /\ barFaults \in 0 .. MaxBarFaults
  /\ factorCloses \subseteq [end : FactorEnds, usable : BOOLEAN]
  /\ stockCloses \subseteq [end : StockEnds, usable : BOOLEAN]
  /\ \A S \in {factorCloses, stockCloses} : \A c, d \in S : c.end = d.end => c = d

(* "Align factor closes to the first later U.S. close": whatever bars are   *)
(* missing or unusable, the stock return of a pair ends later than the      *)
(* factor return, with exactly lag other stock returns in between: no lag   *)
(* ever looks at a move the factor could not have preceded.                 *)
PairsFollow ==
  \A lag \in Lags :
    LET pairs == AllPairs(factorCloses, stockCloses, lag)
        s == Returns(stockCloses)
    IN  \A k \in DOMAIN pairs :
          LET f == pairs[k][1][2]
              e == pairs[k][2][2]
          IN  f < e /\ Cardinality({ j \in DOMAIN s : f < s[j][2] /\ s[j][2] < e }) = lag

(* A return never spans a close that is stored, usable or not.              *)
ReturnsSpanOneSession ==
  \A S \in {factorCloses, stockCloses} : \A k \in DOMAIN Returns(S) :
    \A x \in EndsOf(S) : ~ (Returns(S)[k][1] < x /\ x < Returns(S)[k][2])

(* A close is stored that ends after all those before it.                   *)
InOrderStep ==
  /\ << factorCloses, stockCloses >>' # << factorCloses, stockCloses >>
  /\ \A S \in {<< factorCloses, factorCloses' >>, << stockCloses, stockCloses' >>} :
       S[1] \subseteq S[2] /\ \A c \in S[2] \ S[1] : InOrder(S[1], c.end)

(* A close that arrives in order only adds pairs at the end: no correlation *)
(* is ever based on a pair that a later close takes back, and the oldest    *)
(* ones make room.                                                          *)
PairsOnlyGrow ==
  [][ InOrderStep =>
      \A lag \in Lags :
        LET old == CutToHorizon(AllPairs(factorCloses, stockCloses, lag))
            new == CutToHorizon(AllPairs(factorCloses', stockCloses', lag))
        IN  \E k \in 1 .. Len(old) + 1 :
              /\ IsPrefix(SubSeq(old, k, Len(old)), new)
              /\ k > 1 => Len(new) = HorizonSessions ]_contextVars

(* The reaction to an event is fixed once it is reported: later sessions    *)
(* that arrive in order do not move it.                                     *)
ReactionFixed ==
  [][ InOrderStep =>
      \A t \in EventTimes :
        NextCloseMove(stockCloses, t) # {} =>
          NextCloseMove(stockCloses', t) = NextCloseMove(stockCloses, t) ]_contextVars
(* The pairs behind every correlation: the factor first, single sessions    *)
(* only.                                                                    *)
PairsSound ==
  /\ PairsFollow
  /\ ReturnsSpanOneSession
=============================================================================
