----------------------------- MODULE LedgerLog -----------------------------
(***************************************************************************)
(* What the live indexer promises: the stored ledgers are a log that only  *)
(* grows at its end, one ledger at a time, and only by a ledger the lake   *)
(* holds; and it keeps growing while the next ledger is there.             *)
(***************************************************************************)
EXTENDS Integers

CONSTANTS First, Last   \* the ledgers of the model are First..Last

VARIABLES
    height,   \* the newest stored ledger, First - 1 while there is none
    arrived   \* the ledgers whose file is in the lake

logVars == <<height, arrived>>

LogInit == height \in (First - 1)..Last /\ arrived = {}

Arrive(l) == arrived' = arrived \cup {l} /\ UNCHANGED height

Append ==
    /\ height + 1 \in arrived
    /\ height' = height + 1
    /\ UNCHANGED arrived

LogNext == Append \/ \E l \in First..Last : Arrive(l)

LogSpec == LogInit /\ [][LogNext]_logVars

FairLogSpec == LogSpec /\ WF_logVars(Append)
=============================================================================
