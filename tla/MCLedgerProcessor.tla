------------------------- MODULE MCLedgerProcessor -------------------------
(* A window of ledgers above a seeded prefix of any length; the first and  *)
(* the last ledger stage rows in different tables.                         *)
EXTENDS LedgerProcessor, TLC

MCLedgers == First..Last
MCStagedIn == [l \in MCLedgers |-> IF l = First THEN {1} ELSE Tables]
MCSymmetry == Permutations(Writers)
=============================================================================
