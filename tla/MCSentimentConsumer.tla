------------------------ MODULE MCSentimentConsumer ------------------------
(* A small instance of SentimentConsumer for TLC.  Malformed messages take  *)
(* the same path in both consumers; MCStorageConsumer has them.             *)
EXTENDS SentimentConsumer

CONSTANTS valid, unscorable, invalid

MCPost          == {valid, unscorable, invalid}
MCMessage       == MCPost \X {0, 1}
MCInbound       == MCPost \X {0}
MCUnscorable    == {unscorable}
MCInvalidResult == {invalid}
=============================================================================
