---------------------------- MODULE MCRecordsPage ----------------------------
(* Two filters, one with a full page and a half, and up to five loads.        *)
EXTENDS RecordsPage

RowCount == [f \in Filter |-> IF f = 1 THEN 3 ELSE 2]
==============================================================================
