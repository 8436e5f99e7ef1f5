------------------------- MODULE MCStorageConsumer -------------------------
(***************************************************************************)
(* Small instances of StorageConsumer for TLC.  A behaviour either works   *)
(* in batches of BatchSize, on messages of every kind, or singly, on more  *)
(* copies of storable messages, so that what is delivered exceeds the      *)
(* prefetch window.                                                        *)
(***************************************************************************)
EXTENDS StorageConsumer

CONSTANTS v1, v2, poison, bad

VARIABLE work   (* "batches" or "singly"                                   *)

Singly == INSTANCE StorageConsumer WITH
  BatchSize <- 1, MaxAccepted <- 5, MaxFaults <- 1, Inbound <- {v1, v2}

MCInit == Init /\ work \in {"batches", "singly"}

MCNext ==
  \/ work = "batches" /\ Next        /\ UNCHANGED work
  \/ work = "singly"  /\ Singly!Next /\ UNCHANGED work

(* Fairness, for the behaviours that work in batches.                       *)
MCFairness ==
  /\ WF_vars(work = "batches" /\ ConsumerTask /\ UNCHANGED posts)
  /\ WF_vars(work = "batches" /\ ((WorkerTask /\ UNCHANGED posts) \/ Persist))
  /\ WF_vars(work = "batches" /\ Supervisor /\ UNCHANGED posts)

MCSpec == MCInit /\ [][MCNext]_<< vars, work >> /\ MCFairness

(* PutNeverBlocks of messaging.py's buffer and prefetch window, for batches *)
(* of one.                                                                  *)
SinglePutNeverBlocks == work = "singly" => Singly!PutNeverBlocks

(* QueueDrained, for the behaviours whose fairness is stated above.         *)
BatchesDrained == work = "batches" => QueueDrained

MCMessage   == {v1, v2, poison, bad}
MCMalformed == {bad}
MCPoison    == {poison}
=============================================================================
