----------------------------- MODULE MCRunLedger -----------------------------
EXTENDS RunLedger
(* Three runs; the first two write one file, and the second is the largest. *)
MCSize == [r \in Runs |-> IF r = 2 THEN 3 ELSE 1]
MCOutput == [r \in Runs |-> IF r <= 2 THEN 1 ELSE 2]
=============================================================================
