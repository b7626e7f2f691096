----------------------------- MODULE MCBackfill -----------------------------
(***************************************************************************)
(* The write path with any callers (PartitionWriter), and with the         *)
(* backfill as its caller (BackfillRunner): one process that is run twice, *)
(* two whose ranges meet inside a partition, and one of a part of the      *)
(* window beside the live indexer (Ingestion).  The initial state chooses; *)
(* `part` names the choice.                                                *)
(***************************************************************************)
EXTENDS Ingestion, TLC

CONSTANTS
    Parts,       \* the parts of this run
    s,           \* a slot of the indexer
    a, b,        \* processes: a is run alone or with b; one of the two beside the indexer
    d1           \* a scratch directory

VARIABLE part

allVars == <<part, ingestionVars>>

ASSUME IngestionAssumption

\* Ledgers 3..5 are in two archive partitions: 2, the genesis one, whose only
\* ledger is 3, and 4 with ledgers 4 and 5.  Ledger 3 stages rows in both
\* tables, ledger 4 only in the last one to be ended, ledger 5 none.
MCLedgers == 3..5
MCStagedIn == 3 :> {1, 2} @@ 4 :> {2} @@ 5 :> {}
MCRange == a :> 3..5 @@ b :> 5..5
Disjoint == a :> 3..4 @@ b :> 5..5

\* The processes share the default scratch directory.
MCTempDir == [r \in Runs |-> d1]

-----------------------------------------------------------------------------
\* The write path: two writers, ledger 4, and ledger 3 once more.
St == INSTANCE PartitionWriter WITH Writers <- {a, b}, Ledgers <- {3, 4}, StagedIn <- [l \in {3, 4} |-> StagedIn[l]]

\* The processes that are run in each part.
Started ==
    CASE part = "one" -> {a} [] part \in {"two", "shared", "beside"} -> {a, b} [] OTHER -> {}

\* Only alone is a process run twice; beside the indexer one of the two is
\* run, and the archive keeps what it has.
Bounds ==
    /\ \A r \in Runs \ Started : run'[r] = run[r]
    /\ part # "one" => \A r \in Runs : run'[r].runs <= 1
    /\ part \in {"two", "beside"} => faults' <= 1
    /\ part = "shared" => faults' = 0
    /\ part = "beside" =>
         /\ archive' = archive
         /\ \A q, r \in Runs : run'[q].runs > 0 /\ run'[r].runs > 0 => q = r

Init ==
    /\ part \in Parts
    /\ IngestionInit
    /\ part = "store" => archive = {} /\ ledgers \in {{3}, {3, 4}}
    /\ part = "beside" => archive \in {{4, 5}, {3, 4, 5}}

Next ==
    /\ \/ part = "store" /\ St!PWNext /\ UNCHANGED <<brVars, liveVars>>
       \/ part \in {"one", "two", "shared", "beside"} /\ RunStep
       \/ part \in {"one", "two", "shared", "beside"} /\ ServerLands
       \/ part = "beside" /\ LiveStep
    /\ Bounds
    /\ UNCHANGED part

\* A started process runs, and so does its sync task (FairBackfill).  Started
\* MaxRuns times, a process takes finitely many steps, so what is fair to all
\* at once is fair to each.
Fairness ==
    WF_allVars((\E r \in Runs : Step(r) \/ SyncStep(r)) /\ UNCHANGED <<part, liveVars>>)

Spec == Init /\ [][Next]_allVars /\ Fairness

-----------------------------------------------------------------------------
\* docs/backfills.md: "Parallelism is external: run K processes with disjoint
\* `--start`/`--end`".  So none of them misses a file that its sync reported.
DisjointRangesRun == \A r \in Runs : FilesAreThere(r)
=============================================================================
