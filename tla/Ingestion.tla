------------------------------ MODULE Ingestion ------------------------------
(***************************************************************************)
(* The live indexer and backfill processes on one store: both advance what *)
(* max(sequence) says, and the live indexer goes on from there.  A process *)
(* that stores ledgers above the cursor makes the indexer skip what lies   *)
(* between, and no doorbell brings it back there.                          *)
(*                                                                         *)
(* The steps are those of LedgerProcessor and BackfillRunner.  Every       *)
(* doorbell wakes the same reconcile, so the one named Later stands for    *)
(* all.                                                                    *)
(***************************************************************************)
EXTENDS BackfillRunner

CONSTANTS
    Live,        \* slots of the indexer
    First, Last, PublicLake, Concurrency, Retries, MaxReceive  \* of LedgerProcessor

VARIABLES
    lake, doorbell, received, slot, published  \* of LedgerProcessor

liveVars == <<lake, doorbell, received, slot, published>>
ingestionVars == <<backfillVars, liveVars>>

Lp == INSTANCE LedgerProcessor WITH Writers <- Live

\* Only the two together need this: a hypothesis of what is proved of them.
IngestionAssumption ==
    /\ Live \subseteq Writers /\ Live \cap Runs = {}
    /\ Lp!LedgerProcessorAssumption

LiveInit ==
    /\ lake = {} /\ published = {}
    /\ doorbell = [b \in Lp!Bells |-> "none"]
    /\ received = [b \in Lp!Bells |-> 0]
    /\ slot = [s \in Live |-> Lp!Idle]

\* The store ends anywhere, and has no hole.
IngestionInit ==
    /\ BackfillInit /\ LiveInit
    /\ \E n \in (First - 1)..Last : ledgers = First..n

-----------------------------------------------------------------------------
\* A file lands in the indexer's bucket.
FileLands(l) ==
    /\ l \notin lake /\ lake' = lake \cup {l}
    /\ UNCHANGED <<pwVars, doorbell, received, slot, published, faults>>

LiveStep ==
    /\ \/ Lp!LaterFileLands
       \/ \E l \in Ledgers : FileLands(l)
       \/ \E s \in Live :
            \/ Lp!Receive(s, Lp!Later)
            \/ Lp!Work(s) \/ Lp!StepFails(s) \/ Lp!PrefetchFails(s) \/ Lp!Crash(s)
    /\ UNCHANGED <<archive, files, run, sync>>

RunStep ==
    /\ \/ \E l \in Ledgers : ArchiveLands(l)
       \/ \E r \in Runs :
            Start(r) \/ Step(r) \/ SyncStep(r) \/ SyncFails(r) \/ CleanupFails(r) \/ Crash(r)
    /\ UNCHANGED liveVars

ServerLands == Land /\ UNCHANGED <<brVars, liveVars>>

IngestionNext ==
    \/ LiveStep
    \/ RunStep
    \/ ServerLands

IngestionSpec == IngestionInit /\ [][IngestionNext]_ingestionVars

-----------------------------------------------------------------------------
\* Process r was started for l and may store it where the ledger before it is
\* missing: its range begins at l, or that ledger is its own too, and it has
\* not ended Ok or has reported that ledger as not in the archive.
MayLeaveOut(r, l) ==
    /\ l \in Asked[r] /\ run[r].runs > 0
    /\ l - 1 \in Asked[r] /\ run[r].pc = "done" =>
         PartitionOf(l - 1) \in run[r].skipped \ run[r].whole

(***************************************************************************)
(* The indexer never returns to a ledger below the cursor, and a backfill  *)
(* may run beside it on any range, above the cursor too.  Whatever the two *)
(* do, and whatever lands late: a hole never ends at a ledger of the       *)
(* indexer's own.  It ends where the range of some process begins, or it   *)
(* is that process's to store, or reported by it (reconcile with execute). *)
(***************************************************************************)
HolesAreOwned ==
    \A l \in ledgers :
        l = First \/ l - 1 \in ledgers \/ \E r \in Runs : MayLeaveOut(r, l)

-----------------------------------------------------------------------------
(* What makes it inductive.                                                *)

\* Nothing is missing right below l, or some process was started for l.
Follows(l) ==
    l = First \/ l - 1 \in ledgers \/ \E r \in Runs : l \in Asked[r] /\ run[r].runs > 0

\* The invocation in slot s is at a ledger with nothing missing right below,
\* and its writer, which is open only while it persists, holds that ledger.
SlotFollows(s) ==
    /\ slot[s].pc \in {"loop", "process", "persist", "publish"} => Follows(slot[s].next)
    /\ slot[s].pc \in {"process", "persist", "publish"} => slot[s].next \in lake
    /\ slot[s].pc = "publish" => slot[s].next \in ledgers
    /\ writer[s].phase # "closed" => slot[s].pc = "persist"
    /\ writer[s].phase = "closed" => writer[s] = Fresh("closed")
    /\ writer[s].ledger_rows \subseteq {slot[s].next}
    /\ writer[s].phase \in {"commit", "marker"} => writer[s].ledger_rows # {}
    /\ writer[s].phase = "committed" => slot[s].next \in ledgers

\* A process writes what it was started for.
RangeFollows(r) ==
    /\ writer[r].ledger_rows # {} => run[r].runs > 0
    /\ writer[r].ledger_rows \subseteq Asked[r]

IngestionInv ==
    /\ BackfillInv
    /\ lake \subseteq Ledgers /\ slot \in [Live -> Lp!SlotType]
    /\ \A s \in Live : SlotFollows(s)
    /\ \A r \in Runs : RangeFollows(r)
    /\ \A l \in ledgers \cup markers : Follows(l)
=============================================================================
