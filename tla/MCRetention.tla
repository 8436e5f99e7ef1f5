----------------------------- MODULE MCRetention -----------------------------
(* Small instances of Retention for TLC.                                    *)
EXTENDS Retention

CONSTANTS old, older, scheduler, command

MCKey    == {old, older}
MCHourOf == [k \in MCKey |-> IF k = older THEN 0 ELSE 1]
=============================================================================
