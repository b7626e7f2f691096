----------------------------- MODULE MCLakePacing -----------------------------
(* A window of a few ledgers above the first closed one (3).               *)
EXTENDS LakePacing
=============================================================================
