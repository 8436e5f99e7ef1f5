--------------------------- MODULE MCArchiveExport ---------------------------
(* A row of the second half of month 0 and one of the first half of month 1. *)
EXTENDS ArchiveExport

CONSTANTS first, second, timer, operator

MCSample  == {first, second}
MCExporter == {timer, operator}

MCEventAt == [s \in MCSample |-> IF s = first THEN 1 ELSE 2]
=============================================================================
