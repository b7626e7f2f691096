---------------------------- MODULE LedgerStore ----------------------------
(***************************************************************************)
(* What the write path promises its readers: the API, the resume of a      *)
(* backfill and the cursor of the live indexer.  A ledger is absent, or    *)
(* served with exactly the rows it stages; it goes from one to the other   *)
(* in one step, possibly together with others, and stays.                  *)
(***************************************************************************)
CONSTANTS
    Ledgers,   \* the ledger sequences
    StagedIn   \* StagedIn[l]: the tables in which ledger l has rows

VARIABLE
    served     \* served[l]: {} while l is absent, {tables} once it is served

\* The store that serves the ledgers of S.
Serving(S) == [l \in Ledgers |-> IF l \in S THEN {StagedIn[l]} ELSE {}]

StoreInit == \E seeded \in SUBSET Ledgers : served = Serving(seeded)

Publish(S) ==
    /\ \A l \in S : served[l] = {}
    /\ served' = [l \in Ledgers |-> IF l \in S THEN {StagedIn[l]} ELSE served[l]]

StoreNext == \E S \in SUBSET Ledgers : Publish(S)

StoreSpec == StoreInit /\ [][StoreNext]_served
=============================================================================
