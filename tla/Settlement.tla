----------------------------- MODULE Settlement -----------------------------
(***************************************************************************)
(* What a stage of the pipeline promises for the messages of its input     *)
(* queue, whatever fails: a message stays open until it has been stored    *)
(* (persisted, or passed on to the next stage) or rejected (moved to the   *)
(* dead-letter queue), and only a message that can never be handled is     *)
(* rejected.  Nothing is said about how often a message is delivered.      *)
(***************************************************************************)
CONSTANTS
  Message,
  Rejectable      (* the messages a stage may move to its dead-letter queue *)

VARIABLES
  accepted,       (* messages the input queue ever took                     *)
  open,           (* messages with a copy the stage still has to handle     *)
  stored,         (* messages whose effect is durable                       *)
  rejected        (* messages in the dead-letter queue                      *)

settlementVars == << accepted, open, stored, rejected >>

Init ==
  /\ accepted = {}
  /\ open     = {}
  /\ stored   = {}
  /\ rejected = {}

Accept(m) ==
  /\ accepted' = accepted \cup {m}
  /\ open'     = open \cup {m}
  /\ UNCHANGED << stored, rejected >>

(* A batch becomes durable in one step, or not at all.                      *)
Store(S) ==
  /\ S \subseteq accepted
  /\ stored' = stored \cup S
  /\ UNCHANGED << accepted, open, rejected >>

Reject(m) ==
  /\ m \in Rejectable \cap accepted
  /\ rejected' = rejected \cup {m}
  /\ UNCHANGED << accepted, open, stored >>

(* Forgetting a message is allowed once its outcome is durable.             *)
Settle(m) ==
  /\ m \in open \cap (stored \cup rejected)
  /\ open' = open \ {m}
  /\ UNCHANGED << accepted, stored, rejected >>

Next ==
  \/ \E m \in Message : Accept(m) \/ Reject(m) \/ Settle(m)
  \/ \E S \in SUBSET Message : Store(S)

Spec == Init /\ [][Next]_settlementVars

(* Nothing is forgotten, and nothing appears that was not accepted.         *)
Complete == accepted = open \cup stored \cup rejected
=============================================================================
