--------------------------- MODULE SymbolRegistry ---------------------------
(***************************************************************************)
(* The snapshot of the tracked symbols that every producer and the api     *)
(* hold (shared/symbols.py).  A task refreshes it in a worker thread:      *)
(* read the active rows, then publish them under the lock.  A refresh that *)
(* fails keeps the snapshot and is repeated sooner, with a growing delay.  *)
(*                                                                         *)
(* The read and the publication take less than a tick.                     *)
(***************************************************************************)
EXTENDS Integers

CONSTANTS
  Tracked,                          (* the rows of tracked_symbols          *)
  RefreshInterval, RetryBase, RetryMax,   (* in ticks                       *)
  MaxOutages, MaxEdits              (* bounds                               *)

(* The checks of the constructor.                                           *)
ASSUME RegistryAssumption ==
  /\ {RefreshInterval, RetryBase, RetryMax} \subseteq Nat \ {0}
  /\ RetryMax >= RetryBase
  /\ {MaxOutages, MaxEdits} \subseteq Nat

VARIABLES
  active,        (* the rows with is_active                                 *)
  edits,
  down,          (* no usable answer: the database cannot be reached, or a  *)
                 (* row cannot be decoded                                   *)
  outages,       (* refreshes that failed                                   *)
  snapshot,      (* _symbols                                                *)
  rows,          (* the list the thread has read, if any                    *)
  refresher,     (* "new", "reading", "sleeping" or "stopped"               *)
  napLeft,       (* of next_delay                                           *)
  retryDelay,
  staleFor       (* history: ticks since the last read, or since there was  *)
                 (* no usable answer                                        *)

registryVars == << active, edits, down, outages, snapshot, rows, refresher,
                   napLeft, retryDelay, staleFor >>

RegistryInit ==
  /\ active = Tracked /\ edits = 0
  /\ down = FALSE /\ outages = 0
  /\ snapshot = {} /\ rows = {}
  /\ refresher = "new" /\ napLeft = 0 /\ retryDelay = RetryBase
  /\ staleFor = 0

(* The api adds, disables or enables symbols.                               *)
EditSymbols ==
  /\ edits < MaxEdits
  /\ edits' = edits + 1
  /\ active' \in (SUBSET Tracked) \ {active}
  /\ UNCHANGED << down, outages, snapshot, rows, refresher, napLeft, retryDelay, staleFor >>

DatabaseChanges ==
  /\ down' = ~ down
  /\ UNCHANGED << active, edits, outages, snapshot, rows, refresher, napLeft,
                  retryDelay, staleFor >>

(* start: the initial load.                                                 *)
StartRegistry ==
  /\ refresher = "new"
  /\ refresher' = "reading"
  /\ UNCHANGED << active, edits, down, outages, snapshot, rows, napLeft,
                  retryDelay, staleFor >>

ReadSymbols ==
  /\ refresher = "reading" /\ rows = {} /\ ~ down
  /\ rows' = {active} /\ staleFor' = 0
  /\ UNCHANGED << active, edits, down, outages, snapshot, refresher, napLeft, retryDelay >>

(* refresh returned True.  After a stop the thread still publishes, but     *)
(* nothing is scheduled any more.                                           *)
PublishSnapshot ==
  /\ rows # {}
  /\ snapshot' \in rows /\ rows' = {}
  /\ IF refresher = "reading"
     THEN refresher' = "sleeping" /\ napLeft' = RefreshInterval /\ retryDelay' = RetryBase
     ELSE UNCHANGED << refresher, napLeft, retryDelay >>
  /\ UNCHANGED << active, edits, down, outages, staleFor >>

(* Mutant: the delay doubles without a cap.                                 *)
NextRetryUncapped(d) == 2 * d

NextRetry(d) == IF 2 * d < RetryMax THEN 2 * d ELSE RetryMax

RefreshFails ==
  /\ refresher = "reading" /\ rows = {} /\ down
  /\ outages < MaxOutages /\ outages' = outages + 1
  /\ refresher' = "sleeping" /\ napLeft' = retryDelay
  /\ retryDelay' = NextRetry(retryDelay) /\ staleFor' = 0
  /\ UNCHANGED << active, edits, down, snapshot, rows >>

EndNap ==
  /\ refresher = "sleeping" /\ napLeft = 0
  /\ refresher' = "reading"
  /\ UNCHANGED << active, edits, down, outages, snapshot, rows, napLeft,
                  retryDelay, staleFor >>

RegistryTick ==
  /\ refresher = "sleeping" /\ napLeft > 0 /\ rows = {}
  /\ napLeft' = napLeft - 1
  /\ staleFor' = IF down THEN 0 ELSE staleFor + 1
  /\ UNCHANGED << active, edits, down, outages, snapshot, rows, refresher, retryDelay >>

StopRegistry ==
  /\ refresher \in {"reading", "sleeping"}
  /\ refresher' = "stopped"
  /\ UNCHANGED << active, edits, down, outages, snapshot, rows, napLeft,
                  retryDelay, staleFor >>

RegistryNext ==
  \/ EditSymbols \/ DatabaseChanges
  \/ StartRegistry \/ ReadSymbols \/ PublishSnapshot \/ RefreshFails
  \/ EndNap \/ RegistryTick \/ StopRegistry

RegistrySpec == RegistryInit /\ [][RegistryNext]_registryVars

-----------------------------------------------------------------------------
(* While the database answers, with rows that can be decoded, no poller     *)
(* works with a symbol list that is older than the longest pause of the     *)
(* task, also after many failures in a row.                                 *)
StalenessBounded ==
  staleFor <= (IF RefreshInterval > RetryMax THEN RefreshInterval ELSE RetryMax)
=============================================================================
