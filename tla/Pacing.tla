------------------------------- MODULE Pacing -------------------------------
(***************************************************************************)
(* The request shaping of the producers that poll once per symbol          *)
(* (shared/pacing.py), in the loop that the StockTwits, Finnhub, Alpaca    *)
(* and market producers share: take the symbols that are not in cooldown,  *)
(* gather their requests through a semaphore and a token bucket, record    *)
(* every outcome, sleep.                                                   *)
(*                                                                         *)
(* A tick refills 1/TokenTicks of a token, so tokens are counted in        *)
(* fractions of 1/TokenTicks.                                              *)
(***************************************************************************)
EXTENDS Integers, SequencesExt

CONSTANTS
  Polled,          (* the symbols of a cycle, in the order of tickers()     *)
  MaxConcurrency,  (* slots of the semaphore                                *)
  Burst,           (* max_rate: capacity of the bucket in tokens            *)
  TokenTicks,      (* ticks it takes to refill a token                      *)
  PollInterval,    (* sleep between cycles, also the first penalty          *)
  MaxBackoff,
  Horizon          (* bound: no cycle begins after it                       *)

ASSUME PacingAssumption ==
  /\ IsInjective(Polled)
  /\ {MaxConcurrency, Burst, TokenTicks, PollInterval} \subseteq Nat \ {0}
  /\ MaxBackoff \in Nat /\ MaxBackoff >= PollInterval
  /\ Horizon \in Nat

Symbols == Range(Polled)

VARIABLES
  now,
  wakeAt,          (* when the loop wakes; it gathers while this is 0       *)
  waiting,         (* symbols that wait for a slot                          *)
  pacing,          (* symbols with a slot in the limiter; the first one     *)
                   (* holds its lock                                        *)
  fetching,        (* symbols whose request is on its way                   *)
  outcomes,        (* symbol -> rate limited?                               *)
  tokens, refilledAt,
  holdUntil,       (* the holder of the lock sleeps until then              *)
  penalty, nextOk, (* per symbol, 0 when it has none                        *)
  starts           (* history: when the requests started                    *)

pacingVars == << now, wakeAt, waiting, pacing, fetching, outcomes, tokens,
                 refilledAt, holdUntil, penalty, nextOk, starts >>

PacingInit ==
  /\ now = 1 /\ wakeAt = 1
  /\ waiting = {} /\ pacing = << >> /\ fetching = {} /\ outcomes = << >>
  /\ tokens = Burst * TokenTicks /\ refilledAt = 1 /\ holdUntil = 0
  /\ penalty = [s \in Symbols |-> 0] /\ nextOk = [s \in Symbols |-> 0]
  /\ starts = << >>

Gathering == wakeAt = 0
Least(a, b) == IF a < b THEN a ELSE b

-----------------------------------------------------------------------------
(* Mutant: the cooldown is not looked at.                                   *)
DueAlways(s) == TRUE

(* PerSymbolBackoff.due.                                                    *)
Due(s) == now >= nextOk[s]

BeginCycle ==
  /\ ~ Gathering /\ now >= wakeAt /\ now <= Horizon
  /\ wakeAt' = 0
  /\ waiting' = { s \in Symbols : Due(s) }
  /\ outcomes' = << >>
  /\ UNCHANGED << now, pacing, fetching, tokens, refilledAt, holdUntil,
                  penalty, nextOk, starts >>

(* Mutant: the slot is held only during the request.                        *)
SlotFreeForFetch == Cardinality(fetching) < MaxConcurrency

SlotFree == Len(pacing) + Cardinality(fetching) < MaxConcurrency

(* gather starts the coroutines in the order of the symbols, and both the   *)
(* semaphore and the lock of the limiter serve them in the order they came. *)
Before(s, t) == \E i, j \in DOMAIN Polled : i < j /\ Polled[i] = s /\ Polled[j] = t

TakeSlot ==
  /\ SlotFree
  /\ \E s \in waiting : /\ \A t \in waiting \ {s} : Before(s, t)
                       /\ waiting' = waiting \ {s}
                       /\ pacing'  = Append(pacing, s)
  /\ UNCHANGED << now, wakeAt, fetching, outcomes, tokens, refilledAt,
                  holdUntil, penalty, nextOk, starts >>

(* Mutant: tokens accumulate without limit while the loop sleeps.           *)
RefilledUncapped == tokens + (now - refilledAt)

Refilled == Least(Burst * TokenTicks, tokens + (now - refilledAt))

(* Mutant: a token is handed out as soon as there is a part of it.          *)
TokenReadyEarly == Refilled >= 1

TokenReady == Refilled >= TokenTicks

(* One pass of the loop in acquire, by the holder of the lock.              *)
AcquireToken ==
  /\ pacing # << >> /\ now >= holdUntil /\ TokenReady
  /\ tokens'   = Refilled - TokenTicks
  /\ refilledAt' = now /\ holdUntil' = 0
  /\ fetching' = fetching \cup {Head(pacing)}
  /\ pacing'   = Tail(pacing)
  /\ starts'   = Append(starts, now)
  /\ UNCHANGED << now, wakeAt, waiting, outcomes, penalty, nextOk >>

WaitForToken ==
  /\ pacing # << >> /\ now >= holdUntil /\ ~ TokenReady
  /\ tokens' = Refilled /\ refilledAt' = now
  /\ holdUntil' = now + (TokenTicks - Refilled)
  /\ UNCHANGED << now, wakeAt, waiting, pacing, fetching, outcomes, penalty,
                  nextOk, starts >>

(* The request ends: answered, throttled, failed or timed out.  Only        *)
(* "throttled" counts.                                                      *)
Answer ==
  /\ \E s \in fetching, limited \in BOOLEAN :
       /\ fetching' = fetching \ {s}
       /\ outcomes' = [ t \in DOMAIN outcomes \cup {s} |->
                         IF t = s THEN limited ELSE outcomes[t] ]
  /\ UNCHANGED << now, wakeAt, waiting, pacing, tokens, refilledAt, holdUntil,
                  penalty, nextOk, starts >>

(* Mutant: the penalty doubles without a cap.                               *)
NextPenaltyUncapped(p) == IF p > 0 THEN 2 * p ELSE PollInterval

NextPenalty(p) == Least(MaxBackoff, IF p > 0 THEN 2 * p ELSE PollInterval)

(* Mutant: the loop counts on an outcome of every symbol.                   *)
AllAnswered == DOMAIN outcomes = Symbols

AllReturned == waiting = {} /\ pacing = << >> /\ fetching = {}

(* gather returns; record is called for every symbol that was polled.       *)
EndCycle ==
  /\ Gathering /\ AllReturned
  /\ penalty' = [ s \in Symbols |->
       IF s \notin DOMAIN outcomes THEN penalty[s]
       ELSE IF outcomes[s] THEN NextPenalty(penalty[s]) ELSE 0 ]
  /\ nextOk' = [ s \in Symbols |->
       IF s \notin DOMAIN outcomes THEN nextOk[s]
       ELSE IF outcomes[s] THEN now + penalty'[s] ELSE 0 ]
  /\ wakeAt' = now + PollInterval
  /\ UNCHANGED << now, waiting, pacing, fetching, outcomes, tokens, refilledAt,
                  holdUntil, starts >>

(* Sleeps that ended are served before time goes on, requests may take any  *)
(* time.  After the horizon only the sleep of the limiter is awaited.       *)
PacingTick ==
  /\ now < Horizon \/ now < holdUntil
  /\ now' = now + 1
  /\ UNCHANGED << wakeAt, waiting, pacing, fetching, outcomes, tokens,
                  refilledAt, holdUntil, penalty, nextOk, starts >>

PacingStep == BeginCycle \/ TakeSlot \/ AcquireToken \/ WaitForToken \/ Answer \/ EndCycle
PacingNext == PacingTick \/ PacingStep

(* Time passes, the event loop runs what is ready, and every request has a  *)
(* timeout.                                                                 *)
PacingFairness ==
  /\ WF_pacingVars(PacingTick)
  /\ WF_pacingVars(TakeSlot) /\ WF_pacingVars(AcquireToken \/ WaitForToken)
  /\ WF_pacingVars(Answer) /\ WF_pacingVars(EndCycle)
PacingSpec == PacingInit /\ [][PacingNext]_pacingVars /\ PacingFairness

-----------------------------------------------------------------------------
(* The variables keep their types; the bucket holds its burst at most.      *)
PacingTypeOK ==
  /\ now \in Nat /\ wakeAt \in Nat /\ holdUntil \in Nat
  /\ waiting \subseteq Symbols /\ pacing \in Seq(Symbols)
  /\ fetching \subseteq Symbols
  /\ DOMAIN outcomes \subseteq Symbols
  /\ tokens \in 0 .. Burst * TokenTicks /\ refilledAt \in 0 .. now
  /\ penalty \in [Symbols -> 0 .. MaxBackoff] /\ nextOk \in [Symbols -> Nat]
  /\ starts \in Seq(Nat)

(* However cycles, sleeps and slow answers fall, no window of time sees     *)
(* more requests start than a full bucket and the refill of the window.     *)
StartsWithinRate ==
  \A i, j \in 1 .. Len(starts) :
    i <= j => TokenTicks * ((j - i + 1) - Burst) <= starts[j] - starts[i]

(* Who waits for a token holds a slot, so that a token is never spent by    *)
(* one who still waits for a slot; slots are never exceeded.                *)
SlotsRespected == Len(pacing) + Cardinality(fetching) <= MaxConcurrency

(* A throttled symbol does not take part again before its cooldown is over, *)
(* however long it waits for its turn.                                      *)
CooldownRespected ==
  \A s \in waiting \cup Range(pacing) \cup fetching : now >= nextOk[s]

(* The first penalty ends when the loop wakes; a symbol that is throttled   *)
(* again and again stays away for at most the longest backoff.              *)
CooldownBounded ==
  \A s \in Symbols : /\ nextOk[s] <= now + MaxBackoff
                     /\ penalty[s] = 0 <=> nextOk[s] = 0

(* What a provider sees of pacing.py, however slow it answers: requests     *)
(* within the rate, within the slots, and none in a cooldown that is        *)
(* neither skipped nor endless.                                             *)
RequestsPaced ==
  /\ StartsWithinRate
  /\ SlotsRespected
  /\ CooldownRespected
  /\ CooldownBounded

(* No cycle hangs: the lock that is held across the sleep is always handed  *)
(* on, every symbol is polled, and the loop sleeps again.                   *)
CyclesEnd == Gathering ~> ~ Gathering
=============================================================================
