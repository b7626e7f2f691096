-------------------------- MODULE IngestionProofs --------------------------
(***************************************************************************)
(* Proofs about the backfill, for any number of processes, ranges, scratch *)
(* directories and runs, and any faults; and about the live indexer and    *)
(* the processes on one store (Ingestion), for all windows.                *)
(*                                                                         *)
(* A process takes only steps that the write path allows, so what is       *)
(* proved of PartitionWriter carries over; and BackfillInv is inductive,   *)
(* since a ledger leaves the books of a process (todo, part, left) only    *)
(* when its row is stored, and none is reported of a partition that the    *)
(* archive had whole.  Beside the indexer, whoever stores a ledger has its *)
(* predecessor stored, for a slot read the cursor or stored that one       *)
(* itself, or is a process that was started for the ledger.                *)
(***************************************************************************)
EXTENDS Ingestion, PartitionWriterProofs, FiniteSetTheorems

-----------------------------------------------------------------------------
(* Partitions.                                                             *)

\* The number of a partition is natural, and not above its ledgers.
LEMMA PartitionNumber ==
    ASSUME NEW l \in Ledgers
    PROVE  PartitionOf(l) \in Partitions /\ PartitionOf(l) \in Nat
                /\ l \in PartitionOf(l)..(PartitionOf(l) + PartitionSize - 1)
<1>1. l \in Nat /\ PartitionSize \in Nat \ {0}
  BY PartitionWriterAssumption, BackfillAssumption
<1>2. l % PartitionSize \in 0..(PartitionSize - 1)
  BY <1>1
<1>3. l % PartitionSize <= l
  BY <1>1, Z3
<1> QED
  BY <1>1, <1>2, <1>3 DEF PartitionOf, Partitions

LEMMA PartitionsAreNatural == Partitions \subseteq Nat
  BY PartitionNumber DEF Partitions

\* A partition is finite: it holds at most PartitionSize ledgers.
LEMMA FilesAreFinite ==
    ASSUME NEW p \in Partitions
    PROVE  IsFiniteSet(FilesOf(p)) /\ FilesOf(p) \subseteq Ledgers
<1>1. p \in Nat /\ p \in Int /\ p + PartitionSize - 1 \in Int
  BY PartitionsAreNatural, BackfillAssumption
<1>2. FilesOf(p) \subseteq p..(p + PartitionSize - 1)
  BY PartitionNumber DEF FilesOf
<1>3. IsFiniteSet(p..(p + PartitionSize - 1))
  BY <1>1, FS_Interval
<1> QED
  BY <1>2, <1>3, FS_Subset DEF FilesOf

\* As many files of a partition as it has ledgers are all of them.
LEMMA FullCount ==
    ASSUME NEW p \in Partitions, NEW S \in SUBSET FilesOf(p),
           Cardinality(S) = Cardinality(FilesOf(p))
    PROVE  S = FilesOf(p)
  BY FilesAreFinite, FS_Subset

\* The least of some partitions, or ledgers, is one of them.
LEMMA LeastIsMember ==
    ASSUME NEW T \in SUBSET Nat, T # {}
    PROVE  Least(T) \in T
<1>1. PICK m \in T : \A x \in T : m <= x
  BY Smallest
<1> QED
  BY <1>1 DEF Least

-----------------------------------------------------------------------------
(* Types.                                                                  *)

\* Every record a step makes of a process, its sync task or a writer.
LEMMA RunFields ==
    ASSUME NEW x \in RunType
    PROVE  /\ x.pc \in {"idle", "await", "index", "cleanup", "done", "failed"}
           /\ x.runs \in 0..MaxRuns
           /\ x.todo \subseteq Partitions /\ x.skipped \subseteq Partitions
           /\ x.part \in Partitions \cup {0}
           /\ x.left \subseteq Ledgers /\ x.completed \subseteq Ledgers /\ x.whole \subseteq Partitions
  BY DEF RunType

\* The records a step makes: of a process whose program counter moves, that
\* looked at a ledger, took up a partition, or was started; of a sync task.
Moved(x, pc) == [x EXCEPT !.pc = pc]
LookedAt(x, l) == [x EXCEPT !.left = @ \ {l}]
TookUp(x, pc, p, todo, left, skipped) ==
    [x EXCEPT !.pc = pc, !.part = p, !.todo = todo, !.left = left, !.skipped = skipped]
Started(pc, n, todo, completed, whole) ==
    [IdleRun EXCEPT !.pc = pc, !.runs = n, !.todo = todo,
                    !.completed = completed, !.whole = whole]
Answered(x, st) == [x EXCEPT !.st = st]

LEMMA MovedRun ==
    ASSUME NEW x \in RunType,
           NEW pc \in {"idle", "await", "index", "cleanup", "done", "failed"}
    PROVE  /\ Moved(x, pc) \in RunType
           /\ Moved(x, pc).pc = pc
           /\ Moved(x, pc).runs = x.runs /\ Moved(x, pc).todo = x.todo
           /\ Moved(x, pc).part = x.part /\ Moved(x, pc).left = x.left
           /\ Moved(x, pc).completed = x.completed /\ Moved(x, pc).skipped = x.skipped
           /\ Moved(x, pc).whole = x.whole
  BY DEF RunType, Moved

LEMMA LookedAtRun ==
    ASSUME NEW x \in RunType, NEW l \in Ledgers
    PROVE  /\ LookedAt(x, l) \in RunType
           /\ LookedAt(x, l).left = x.left \ {l}
           /\ LookedAt(x, l).pc = x.pc /\ LookedAt(x, l).runs = x.runs
           /\ LookedAt(x, l).todo = x.todo /\ LookedAt(x, l).part = x.part
           /\ LookedAt(x, l).completed = x.completed /\ LookedAt(x, l).skipped = x.skipped
           /\ LookedAt(x, l).whole = x.whole
  BY DEF RunType, LookedAt

LEMMA TookUpRun ==
    ASSUME NEW x \in RunType, NEW pc \in {"index", "cleanup"}, NEW p \in Partitions,
           NEW todo \in SUBSET Partitions, NEW left \in SUBSET Ledgers,
           NEW skipped \in SUBSET Partitions
    PROVE  LET y == TookUp(x, pc, p, todo, left, skipped)
           IN  /\ y \in RunType
               /\ y.pc = pc /\ y.runs = x.runs /\ y.todo = todo /\ y.part = p
               /\ y.left = left /\ y.completed = x.completed /\ y.skipped = skipped
               /\ y.whole = x.whole
  BY DEF RunType, TookUp

Outcomes == {"begin", "synced", "short", "resynced", "Complete", "S3Incomplete", "Err"}

LEMMA SyncRecords ==
    /\ NoSync \in SyncType /\ NoSync.st = "none"
    /\ \A p \in Partitions : Syncing(p) \in SyncType /\ Syncing(p).st = "begin" /\ Syncing(p).part = p
    /\ \A x \in SyncType, st \in Outcomes :
         Answered(x, st) \in SyncType /\ Answered(x, st).st = st /\ Answered(x, st).part = x.part
  BY DEF NoSync, Syncing, SyncType, Answered, Outcomes

-----------------------------------------------------------------------------
(* The composition: what a process does to the store is a step of a writer. *)

ProcessStep(r) ==
    Start(r) \/ Step(r) \/ SyncStep(r) \/ SyncFails(r) \/ CleanupFails(r) \/ Crash(r)

\* The steps that change neither the store nor a writer.
Aside(r) ==
    \/ Start(r) \/ SyncStep(r) \/ SyncFails(r) \/ SkipCompleted(r) \/ Cleanup(r)

\* The steps in which the process ends with an error.
Fails(r) == SyncErr(r) \/ Panic(r) \/ PartitionErr(r) \/ CleanupFails(r) \/ Crash(r)

LEMMA StepKinds ==
    ASSUME NEW r \in Runs, ProcessStep(r)
    PROVE  \/ Aside(r) \/ Fails(r) \/ NextPartition(r) \/ Ingest(r) \/ AbortPartition(r)
           \/ CommitPartition(r) \/ Committed(r)
  BY DEF ProcessStep, Step, Aside, Fails

LEMMA AsideKeepsStore ==
    ASSUME NEW r \in Runs, Aside(r)
    PROVE  UNCHANGED pwVars
  BY DEF Aside, Start, SyncStep, SyncFails, SkipCompleted, Cleanup, AlreadyComplete, Download,
         CountFiles, ProbeArchive, CountAgain, SyncTo

LEMMA FailsExits ==
    ASSUME NEW r \in Runs, Fails(r)
    PROVE  Exit(r, "failed") /\ UNCHANGED archive /\ run[r].pc \in Running
  BY DEF Fails, SyncErr, Panic, PartitionErr, CleanupFails, Crash, Running

\* The next ledger of a partition is one of the ledgers left.
LEMMA NextLedger ==
    ASSUME BackfillTypeOK, NEW r \in Runs, run[r].left # {}
    PROVE  Least(run[r].left) \in run[r].left /\ Least(run[r].left) \in Ledgers
<1>1. run[r].left \subseteq Ledgers /\ run[r].left \in SUBSET Nat
  BY PartitionWriterAssumption, RunFields DEF BackfillTypeOK
<1> QED
  BY <1>1, LeastIsMember

LEMMA BackfillIsWriterStep ==
    ASSUME BackfillTypeOK, NEW r \in Runs, WriterFollows(r), ProcessStep(r)
    PROVE  [PWNext]_pwVars
<1>0. r \in Writers
  BY BackfillAssumption
<1>1. CASE Aside(r)
  BY <1>1, AsideKeepsStore
<1>2. CASE Fails(r)
  <2>1. writer' = [writer EXCEPT ![r] = Fresh("closed")] /\ UNCHANGED storeVars
    BY <1>2, FailsExits DEF Exit
  <2>2. CASE writer[r].phase = "closed"
    <3>1. writer[r] = Fresh("closed") /\ writer \in [Writers -> WriterType]
      BY <2>2 DEF WriterFollows, BackfillTypeOK, PWTypeOK
    <3>2. writer' = writer
      BY <1>0, <2>1, <3>1, Zenon
    <3> QED
      BY <2>1, <3>2 DEF pwVars, storeVars
  <2>3. CASE writer[r].phase # "closed"
    BY <1>0, <2>1, <2>3 DEF Drop, PWNext
  <2> QED
    BY <2>2, <2>3
<1>3. CASE NextPartition(r)
  BY <1>0, <1>3 DEF NextPartition, PWNext
<1>4. CASE Ingest(r)
  <2>1. Least(run[r].left) \in Ledgers
    BY <1>4, NextLedger DEF Ingest
  <2> QED
    BY <1>0, <1>4, <2>1 DEF Ingest, PWNext
<1>5. CASE AbortPartition(r) \/ CommitPartition(r) \/ Committed(r)
  BY <1>0, <1>5 DEF AbortPartition, CommitPartition, Committed, PWNext
<1> QED
  BY <1>1, <1>2, <1>3, <1>4, <1>5, StepKinds

-----------------------------------------------------------------------------
(* What each step makes of its process.  The others are not touched.       *)

Others(r) ==
    \A q \in Runs \ {r} : run'[q] = run[q] /\ sync'[q] = sync[q] /\ writer'[q] = writer[q]

\* The types of everything but the store and the writers.
RunsTypeOK ==
    /\ archive \in SUBSET Ledgers
    /\ files \in [Dirs -> SUBSET Ledgers]
    /\ run \in [Runs -> RunType]
    /\ sync \in [Runs -> SyncType]
    /\ faults \in 0..MaxFaults

LEMMA FaultType == ASSUME BackfillTypeOK, Fault PROVE faults' \in 0..MaxFaults
  BY BackfillAssumption DEF BackfillTypeOK, Fault

LEMMA DirType == ASSUME NEW r \in Runs PROVE Dir(r) \in Dirs
  BY DEF Dir, Dirs

\* A new sync task takes the least partition that is left.
LEMMA SpawnedSync ==
    ASSUME NEW todo \in SUBSET Partitions
    PROVE  LET y == IF todo = {} THEN NoSync ELSE Syncing(Least(todo))
           IN  /\ y \in SyncType
               /\ todo = {} => y.st = "none"
               /\ todo # {} => y.st = "begin" /\ y.part \in todo
<1>1. CASE todo = {}
  BY <1>1, SyncRecords
<1>2. CASE todo # {}
  <2>1. Least(todo) \in todo
    BY <1>2, PartitionsAreNatural, LeastIsMember
  <2> QED
    BY <1>2, <2>1, SyncRecords
<1> QED
  BY <1>1, <1>2

LEMMA StartMakes ==
    ASSUME BackfillTypeOK, NEW r \in Runs, Start(r)
    PROVE  /\ RunsTypeOK' /\ Others(r) /\ UNCHANGED <<pwVars, files, archive>>
           /\ run'[r].runs = run[r].runs + 1 /\ run'[r].skipped = {} /\ run'[r].left = {}
           /\ run'[r].completed \subseteq ledgers \cap Asked[r]
           /\ \A p \in run'[r].whole : FilesOf(p) \subseteq archive
           /\ run'[r].todo = {p \in Partitions : Clamped(r, p) # {}
                                /\ ~ (Clamped(r, p) \subseteq run'[r].completed)}
           /\ \/ run'[r].todo = {} /\ run'[r].pc = "done" /\ sync'[r].st = "none"
              \/ /\ run'[r].todo # {} /\ run'[r].pc = "await"
                 /\ sync'[r].st = "begin" /\ sync'[r].part \in run'[r].todo
<1> DEFINE completed == IF r \in Reindex THEN {} ELSE ledgers \cap Asked[r]
           todo == {p \in Partitions : Clamped(r, p) # {} /\ ~ FullyDone(r, p, completed)}
           pc == IF todo = {} THEN "done" ELSE "await"
           n == run[r].runs + 1
           whole == {p \in todo : FilesOf(p) \subseteq archive}
           x == Started(pc, n, todo, completed, whole)
           y == IF todo = {} THEN NoSync ELSE Syncing(Least(todo))
<1>1. /\ run' = [run EXCEPT ![r] = x] /\ sync' = [sync EXCEPT ![r] = y]
      /\ UNCHANGED <<pwVars, archive, files, faults>> /\ run[r].runs < MaxRuns
  BY Zenon DEF Start, Started
<1>2. /\ completed \in SUBSET Ledgers /\ whole \in SUBSET Partitions
      /\ completed \subseteq ledgers \cap Asked[r]
      /\ todo \in SUBSET Partitions /\ n \in 0..MaxRuns /\ pc \in {"done", "await"}
  <2>1. run[r].runs \in 0..MaxRuns
    BY RunFields DEF BackfillTypeOK
  <2> QED
    BY <1>1, <2>1, BackfillAssumption DEF BackfillTypeOK, PWTypeOK
<1>3. todo = {p \in Partitions : Clamped(r, p) # {} /\ ~ (Clamped(r, p) \subseteq completed)}
  BY DEF FullyDone
<1>4. pc = IF todo = {} THEN "done" ELSE "await"
  OBVIOUS
<1>9. \A p \in whole : FilesOf(p) \subseteq archive
  OBVIOUS
<1> HIDE DEF completed, todo, pc, n, whole
<1>5. /\ x \in RunType /\ x.pc = pc /\ x.runs = n /\ x.todo = todo
      /\ x.left = {} /\ x.completed = completed /\ x.skipped = {} /\ x.whole = whole
  BY ONLY <1>2 DEF x, Started, RunType, IdleRun
<1>6. /\ y \in SyncType
      /\ todo = {} => y.st = "none"
      /\ todo # {} => y.st = "begin" /\ y.part \in todo
  BY <1>2, SpawnedSync
<1> HIDE DEF x, y
<1>7. /\ run'[r] = x /\ sync'[r] = y /\ Others(r)
      /\ run' \in [Runs -> RunType] /\ sync' \in [Runs -> SyncType]
  BY <1>1, <1>5, <1>6 DEF BackfillTypeOK, Others, pwVars
<1>8. RunsTypeOK'
  BY <1>1, <1>7 DEF BackfillTypeOK, RunsTypeOK
<1> QED
  BY <1>1, <1>2, <1>3, <1>4, <1>5, <1>6, <1>7, <1>8, <1>9 DEF n

LEMMA SyncMakes ==
    ASSUME BackfillTypeOK, NEW r \in Runs, SyncStep(r) \/ SyncFails(r)
    PROVE  /\ RunsTypeOK' /\ Others(r) /\ UNCHANGED <<pwVars, run, archive>>
           /\ sync[r].st # "none" /\ sync'[r].st # "none" /\ sync'[r].part = sync[r].part
<1>1. \E st \in Outcomes : sync' = [sync EXCEPT ![r].st = st]
  BY DEF Outcomes, SyncStep, SyncFails, AlreadyComplete, Download, CountFiles, ProbeArchive, CountAgain, SyncTo
<1>2. UNCHANGED <<pwVars, archive, run>> /\ sync[r].st # "none"
  BY DEF SyncStep, SyncFails, AlreadyComplete, Download, CountFiles, ProbeArchive, CountAgain, SyncTo
<1>3. faults' \in 0..MaxFaults
  <2>1. UNCHANGED faults \/ Fault
    BY DEF SyncStep, SyncFails, AlreadyComplete, Download, CountFiles, ProbeArchive, CountAgain
  <2> QED
    BY <2>1, FaultType DEF BackfillTypeOK
<1>4. files' \in [Dirs -> SUBSET Ledgers]
  <2>1. CASE Download(r)
    <3>1. PICK got \in SUBSET archive : files' = [files EXCEPT ![Dir(r)] = @ \cup got]
      BY <2>1 DEF Download
    <3> QED
      BY <3>1, DirType DEF BackfillTypeOK
  <2>2. CASE ~ Download(r)
    BY <2>2 DEF SyncStep, SyncFails, AlreadyComplete, CountFiles, ProbeArchive, CountAgain, BackfillTypeOK
  <2> QED
    BY <2>1, <2>2
<1>5. /\ sync' \in [Runs -> SyncType] /\ \A q \in Runs \ {r} : sync'[q] = sync[q]
      /\ sync'[r].st # "none" /\ sync'[r].part = sync[r].part
  <2>1. PICK st \in Outcomes : sync' = [sync EXCEPT ![r].st = st]
    BY <1>1
  <2>2. sync[r] \in SyncType /\ sync'[r] = Answered(sync[r], st)
    BY <2>1 DEF BackfillTypeOK, Answered
  <2>3. sync'[r] \in SyncType /\ sync'[r].st = st /\ sync'[r].part = sync[r].part
    BY <2>2, SyncRecords
  <2>4. st # "none"
    BY DEF Outcomes
  <2> QED
    BY <2>1, <2>3, <2>4 DEF BackfillTypeOK
<1> QED
  BY <1>2, <1>3, <1>4, <1>5 DEF Others, RunsTypeOK, BackfillTypeOK, pwVars

\* The outcome of sync_partition: `complete` or archive lag.
LEMMA NextPartitionMakes ==
    ASSUME BackfillTypeOK, NEW r \in Runs, SyncFollows(r), NextPartition(r)
    PROVE  /\ RunsTypeOK' /\ Others(r) /\ UNCHANGED <<storeVars, files>>
           /\ run[r].pc = "await" /\ sync[r].part \in run[r].todo
           /\ run'[r].part = sync[r].part /\ run'[r].todo = run[r].todo \ {sync[r].part}
           /\ run'[r].runs = run[r].runs /\ run'[r].completed = run[r].completed
           /\ run'[r].whole = run[r].whole /\ UNCHANGED archive
           /\ IF run'[r].todo = {} THEN sync'[r].st = "none"
              ELSE sync'[r].st = "begin" /\ sync'[r].part \in run'[r].todo
           /\ \/ /\ sync[r].st = "Complete" /\ run'[r].pc = "index"
                 /\ run'[r].left = Clamped(r, sync[r].part) /\ run'[r].skipped = run[r].skipped
                 /\ Open(r)
              \/ /\ sync[r].st = "S3Incomplete" /\ run'[r].pc = "cleanup" /\ run'[r].left = {}
                 /\ run'[r].skipped = run[r].skipped \cup {sync[r].part}
                 /\ UNCHANGED writer
<1> DEFINE p == sync[r].part
           rest == run[r].todo \ {p}
           complete == sync[r].st = "Complete"
           pc == IF complete THEN "index" ELSE "cleanup"
           left == IF complete THEN Clamped(r, p) ELSE {}
           skipped == run[r].skipped \cup IF complete THEN {} ELSE {p}
           x == TookUp(run[r], pc, p, rest, left, skipped)
           y == IF rest = {} THEN NoSync ELSE Syncing(Least(rest))
<1>1. /\ run' = [run EXCEPT ![r] = [run[r] EXCEPT !.pc = pc, !.part = p, !.todo = rest,
                                                !.left = left, !.skipped = skipped]]
      /\ sync' = [sync EXCEPT ![r] = y]
      /\ IF complete THEN Open(r) ELSE UNCHANGED pwVars
      /\ UNCHANGED <<archive, files, faults>>
      /\ run[r].pc = "await" /\ sync[r].st # "none"
      /\ ~ complete => sync[r].st = "S3Incomplete"
  BY DEF NextPartition
<1>2. /\ run[r] \in RunType /\ p \in run[r].todo /\ run[r].todo \subseteq Partitions
      /\ run[r].skipped \subseteq Partitions
  BY <1>1, RunFields DEF SyncFollows, BackfillTypeOK
<1>3. p \in Partitions /\ rest \in SUBSET Partitions
  BY <1>2
<1>4. /\ pc \in {"index", "cleanup"} /\ left \in SUBSET Ledgers /\ skipped \in SUBSET Partitions
  BY <1>2, <1>3, FilesAreFinite DEF Clamped
<1>5. run'[r] = x
  BY <1>1, <1>2 DEF TookUp, BackfillTypeOK
<1>6. y \in SyncType /\ (rest = {} => y.st = "none")
      /\ (rest # {} => y.st = "begin" /\ y.part \in rest)
  BY <1>3, SpawnedSync
<1>7. sync'[r] = y /\ sync' \in [Runs -> SyncType] /\ Others(r)
  <2>1. UNCHANGED pwVars \/ writer' = [writer EXCEPT ![r] = Fresh("open")]
    BY <1>1 DEF Open
  <2>2. \A q \in Runs \ {r} : writer'[q] = writer[q]
    BY <2>1, BackfillAssumption DEF BackfillTypeOK, PWTypeOK, pwVars
  <2> HIDE DEF y
  <2> QED
    BY <1>1, <1>6, <2>2 DEF BackfillTypeOK, Others
<1>8. /\ x \in RunType
      /\ x.pc = pc /\ x.runs = run[r].runs /\ x.todo = rest /\ x.part = p
      /\ x.left = left /\ x.completed = run[r].completed /\ x.skipped = skipped
      /\ x.whole = run[r].whole
  <2> DEFINE z == run[r]
  <2>1. z \in RunType
    BY <1>2
  <2>2. x = TookUp(z, pc, p, rest, left, skipped)
    OBVIOUS
  <2> HIDE DEF x, z, pc, p, rest, left, skipped
  <2>3. /\ x \in RunType
        /\ x.pc = pc /\ x.runs = z.runs /\ x.todo = rest /\ x.part = p
        /\ x.left = left /\ x.completed = z.completed /\ x.skipped = skipped
        /\ x.whole = z.whole
    BY ONLY <2>1, <2>2, <1>3, <1>4, TookUpRun
  <2> QED
    BY ONLY <2>3 DEF z
<1>9. RunsTypeOK'
  <2>1. run' \in [Runs -> RunType]
    BY <1>1, <1>5, <1>8 DEF BackfillTypeOK
  <2> QED
    BY <2>1, <1>1, <1>7 DEF RunsTypeOK, BackfillTypeOK
<1>10. UNCHANGED storeVars /\ (~ complete => UNCHANGED writer)
  BY <1>1 DEF Open, pwVars, storeVars
<1> QED
  BY <1>1, <1>2, <1>5, <1>6, <1>7, <1>8, <1>9, <1>10

LEMMA FailsMakes ==
    ASSUME BackfillTypeOK, NEW r \in Runs, Fails(r)
    PROVE  /\ RunsTypeOK' /\ Others(r) /\ UNCHANGED storeVars
           /\ run[r].pc \in Running /\ run'[r].pc = "failed" /\ sync'[r].st = "none"
           /\ run'[r].runs = run[r].runs /\ run'[r].completed = run[r].completed
           /\ run'[r].whole = run[r].whole /\ run'[r].skipped = run[r].skipped /\ UNCHANGED archive
           /\ writer'[r] = Fresh("closed")
<1>1. /\ run' = [run EXCEPT ![r].pc = "failed"] /\ sync' = [sync EXCEPT ![r] = NoSync]
      /\ writer' = [writer EXCEPT ![r] = Fresh("closed")] /\ UNCHANGED <<storeVars, archive>>
      /\ run[r].pc \in Running
  BY FailsExits DEF Exit
<1>2. faults' \in 0..MaxFaults
  <2>1. UNCHANGED faults \/ Fault
    BY DEF Fails, SyncErr, Panic, PartitionErr, CleanupFails, Crash
  <2> QED
    BY <2>1, FaultType DEF BackfillTypeOK
<1>3. files' \in [Dirs -> SUBSET Ledgers]
  <2>1. CASE CleanupFails(r)
    BY <2>1, DirType DEF CleanupFails, BackfillTypeOK
  <2>2. CASE ~ CleanupFails(r)
    BY <2>2 DEF Fails, SyncErr, Panic, PartitionErr, Crash, BackfillTypeOK
  <2> QED
    BY <2>1, <2>2
<1>4. /\ run'[r] \in RunType /\ run'[r].pc = "failed"
      /\ run'[r].runs = run[r].runs /\ run'[r].completed = run[r].completed
      /\ run'[r].whole = run[r].whole /\ run'[r].skipped = run[r].skipped
  <2>1. run[r] \in RunType /\ run'[r] = Moved(run[r], "failed")
    BY <1>1 DEF BackfillTypeOK, Moved
  <2> QED
    BY <2>1, MovedRun
<1>5. /\ run' \in [Runs -> RunType] /\ sync' \in [Runs -> SyncType] /\ Others(r)
      /\ sync'[r] = NoSync /\ writer'[r] = Fresh("closed")
  BY <1>1, <1>4, SyncRecords, BackfillAssumption DEF BackfillTypeOK, PWTypeOK, Others
<1> QED
  BY <1>1, <1>2, <1>3, <1>4, <1>5, SyncRecords DEF RunsTypeOK, BackfillTypeOK

\* A file is dropped, or kept (--keep-partitions, or it cannot be removed).
LEMMA UnlinkType ==
    ASSUME BackfillTypeOK, NEW r \in Runs, NEW l, Unlink(r, l)
    PROVE  files' \in [Dirs -> SUBSET Ledgers] /\ faults' \in 0..MaxFaults
  BY DirType, FaultType DEF Unlink, BackfillTypeOK

\* The ledger at hand is looked at, and the process goes on to the next one.
LEMMA LookedAtMakes ==
    ASSUME BackfillTypeOK, NEW r \in Runs, NEW l \in run[r].left,
           run' = [run EXCEPT ![r].left = @ \ {l}]
    PROVE  /\ run' \in [Runs -> RunType] /\ \A q \in Runs \ {r} : run'[q] = run[q]
           /\ run'[r].left = run[r].left \ {l}
           /\ run'[r].pc = run[r].pc /\ run'[r].runs = run[r].runs
           /\ run'[r].todo = run[r].todo /\ run'[r].part = run[r].part
           /\ run'[r].completed = run[r].completed /\ run'[r].skipped = run[r].skipped
           /\ run'[r].whole = run[r].whole
<1>1. run[r] \in RunType /\ run'[r] = LookedAt(run[r], l)
  BY DEF BackfillTypeOK, LookedAt
<1>2. l \in Ledgers
  BY <1>1, RunFields
<1>3. /\ run'[r] \in RunType
      /\ run'[r].left = run[r].left \ {l}
      /\ run'[r].pc = run[r].pc /\ run'[r].runs = run[r].runs
      /\ run'[r].todo = run[r].todo /\ run'[r].part = run[r].part
      /\ run'[r].completed = run[r].completed /\ run'[r].skipped = run[r].skipped
      /\ run'[r].whole = run[r].whole
  BY <1>1, <1>2, LookedAtRun
<1> QED
  BY <1>3 DEF BackfillTypeOK

LEMMA SkipMakes ==
    ASSUME BackfillTypeOK, NEW r \in Runs, SkipCompleted(r)
    PROVE  LET l == Least(run[r].left)
           IN  /\ RunsTypeOK' /\ Others(r) /\ UNCHANGED <<pwVars, sync, archive>>
               /\ run[r].pc = "index" /\ l \in run[r].left /\ l \in run[r].completed
               /\ Unlink(r, l) /\ run' = [run EXCEPT ![r].left = @ \ {l}]
<1> DEFINE l == Least(run[r].left)
<1>1. /\ run[r].pc = "index" /\ run[r].left # {} /\ l \in run[r].completed
      /\ Unlink(r, l) /\ run' = [run EXCEPT ![r].left = @ \ {l}]
      /\ UNCHANGED <<pwVars, archive, sync>>
  BY DEF SkipCompleted
<1>2. l \in run[r].left
  BY <1>1, NextLedger
<1> HIDE DEF l
<1>3. RunsTypeOK' /\ Others(r)
  BY <1>1, <1>2, LookedAtMakes, UnlinkType DEF RunsTypeOK, Others, BackfillTypeOK, pwVars
<1> QED
  BY <1>1, <1>2, <1>3 DEF l

\* ingest_ledger_from_file: the writer has the ledger's row, and its rows
\* unless the write failed.
LEMMA IngestMakes ==
    ASSUME BackfillTypeOK, NEW r \in Runs, Ingest(r)
    PROVE  LET l == Least(run[r].left)
           IN  /\ RunsTypeOK' /\ Others(r) /\ UNCHANGED <<ledgers, sync, archive>>
               /\ run[r].pc = "index" /\ l \in run[r].left
               /\ writer'[r].ledger_rows = writer[r].ledger_rows \cup {l}
               /\ \/ /\ writer[r].phase = "open" /\ writer'[r].phase = "open"
                     /\ Unlink(r, l) /\ run' = [run EXCEPT ![r].left = @ \ {l}]
                  \/ writer'[r].phase = "failed" /\ UNCHANGED <<run, files>>
<1> DEFINE l == Least(run[r].left)
<1>1. /\ run[r].pc = "index" /\ run[r].left # {} /\ WriteLedger(r, l)
      /\ \/ /\ writer'[r].phase = "open"
            /\ Unlink(r, l) /\ run' = [run EXCEPT ![r].left = @ \ {l}]
         \/ writer'[r].phase # "open" /\ Fault /\ UNCHANGED <<run, files>>
      /\ UNCHANGED <<archive, sync>>
  BY DEF Ingest
<1>2. l \in run[r].left /\ l \in Ledgers
  BY <1>1, NextLedger
<1> HIDE DEF l
<1>3. /\ writer'[r].ledger_rows = writer[r].ledger_rows \cup {l}
      /\ writer'[r].phase \in {"open", "failed"} /\ writer[r].phase = "open"
      /\ \A q \in Runs \ {r} : writer'[q] = writer[q]
      /\ UNCHANGED ledgers
  <2>1. PICK S \in SUBSET StagedIn[l] :
          writer' = [writer EXCEPT ![r].phase = IF S = StagedIn[l] THEN "open" ELSE "failed",
                                   ![r].inserts = Stream(r, l, S),
                                   ![r].ledger_rows = @ \cup {l}]
    BY <1>1 DEF WriteLedger
  <2>2. writer \in [Writers -> WriterType] /\ Runs \subseteq Writers
    BY BackfillAssumption DEF BackfillTypeOK, PWTypeOK
  <2>3. writer'[r] = [writer[r] EXCEPT !.phase = IF S = StagedIn[l] THEN "open" ELSE "failed",
                                       !.inserts = Stream(r, l, S), !.ledger_rows = @ \cup {l}]
    BY <2>1, <2>2
  <2>4. writer[r] \in WriterType
    BY <2>2
  <2>5. writer'[r].ledger_rows = writer[r].ledger_rows \cup {l}
        /\ writer'[r].phase \in {"open", "failed"}
    BY ONLY <2>3, <2>4 DEF WriterType
  <2> QED
    BY <1>1, <2>1, <2>2, <2>5 DEF WriteLedger
<1>4. RunsTypeOK' /\ Others(r)
  BY <1>1, <1>2, <1>3, LookedAtMakes, UnlinkType, FaultType DEF RunsTypeOK, Others, BackfillTypeOK
<1> QED
  BY <1>1, <1>2, <1>3, <1>4 DEF l

LEMMA CleanupMakes ==
    ASSUME BackfillTypeOK, NEW r \in Runs, Cleanup(r)
    PROVE  /\ RunsTypeOK' /\ Others(r) /\ UNCHANGED <<pwVars, sync, archive>>
           /\ run[r].pc = "cleanup"
           /\ run'[r].pc = IF sync[r].st = "none" THEN "done" ELSE "await"
           /\ run'[r].runs = run[r].runs
           /\ run'[r].todo = run[r].todo
           /\ run'[r].completed = run[r].completed /\ run'[r].skipped = run[r].skipped
           /\ run'[r].whole = run[r].whole
<1> DEFINE pc == IF sync[r].st = "none" THEN "done" ELSE "await"
<1>1. /\ run' = [run EXCEPT ![r].pc = pc] /\ UNCHANGED <<pwVars, archive, sync, faults>>
      /\ run[r].pc = "cleanup"
  BY DEF Cleanup
<1>2. files' \in [Dirs -> SUBSET Ledgers]
  BY DirType DEF Cleanup, BackfillTypeOK
<1>3. run[r] \in RunType /\ run'[r] = Moved(run[r], pc) /\ pc \in {"done", "await"}
  BY <1>1 DEF BackfillTypeOK, Moved
<1> HIDE DEF pc
<1>4. /\ run'[r] \in RunType /\ run'[r].pc = pc /\ run'[r].runs = run[r].runs
      /\ run'[r].todo = run[r].todo
      /\ run'[r].completed = run[r].completed /\ run'[r].skipped = run[r].skipped
      /\ run'[r].whole = run[r].whole
  BY <1>3, MovedRun
<1>5. RunsTypeOK' /\ Others(r)
  BY <1>1, <1>2, <1>4 DEF RunsTypeOK, Others, BackfillTypeOK, pwVars
<1> QED
  BY <1>1, <1>4, <1>5 DEF pc

LEMMA CommittedMakes ==
    ASSUME BackfillTypeOK, NEW r \in Runs, Committed(r)
    PROVE  /\ RunsTypeOK' /\ Others(r) /\ UNCHANGED <<storeVars, files, sync, archive>>
           /\ run[r].pc = "index" /\ run'[r].pc = "cleanup"
           /\ writer[r].phase = "committed" /\ writer'[r] = Fresh("closed")
           /\ run'[r].runs = run[r].runs
           /\ run'[r].todo = run[r].todo /\ run'[r].part = run[r].part
           /\ run'[r].completed = run[r].completed /\ run'[r].skipped = run[r].skipped
           /\ run'[r].whole = run[r].whole
<1>1. /\ run' = [run EXCEPT ![r].pc = "cleanup"]
      /\ writer' = [writer EXCEPT ![r] = Fresh("closed")] /\ UNCHANGED storeVars
      /\ UNCHANGED <<archive, files, sync, faults>>
      /\ run[r].pc = "index" /\ writer[r].phase = "committed"
  BY DEF Committed, Drop
<1>2. run[r] \in RunType /\ run'[r] = Moved(run[r], "cleanup")
  BY <1>1 DEF BackfillTypeOK, Moved
<1>3. /\ run'[r] \in RunType /\ run'[r].pc = "cleanup" /\ run'[r].runs = run[r].runs
      /\ run'[r].todo = run[r].todo /\ run'[r].part = run[r].part
      /\ run'[r].completed = run[r].completed /\ run'[r].skipped = run[r].skipped
      /\ run'[r].whole = run[r].whole
  BY <1>2, MovedRun
<1>4. RunsTypeOK' /\ Others(r) /\ writer'[r] = Fresh("closed")
  BY <1>1, <1>3, BackfillAssumption DEF RunsTypeOK, Others, BackfillTypeOK, PWTypeOK
<1> QED
  BY <1>1, <1>3, <1>4

\* abort() and commit(), step by step.
LEMMA CommitMakes ==
    ASSUME BackfillTypeOK, NEW r \in Runs, AbortPartition(r) \/ CommitPartition(r)
    PROVE  /\ RunsTypeOK' /\ Others(r) /\ UNCHANGED <<run, sync, files, archive>>
           /\ run[r].pc = "index"
           /\ \/ writer'[r] = Fresh("rejected")
              \/ /\ run[r].left = {} /\ writer'[r].ledger_rows = writer[r].ledger_rows
                 /\ writer[r].phase \in Accepting
                 /\ writer'[r].phase \in {"commit", "marker"}
              \/ /\ run[r].left = {} /\ writer'[r] = Fresh("committed")
                 /\ writer[r].phase \in Accepting
                 /\ writer[r].ledger_rows \subseteq ledgers'
<1>0. writer \in [Writers -> WriterType] /\ r \in Writers /\ Runs \subseteq Writers
  BY BackfillAssumption DEF BackfillTypeOK, PWTypeOK
<1>1. /\ UNCHANGED <<run, sync, files, archive>> /\ run[r].pc = "index"
      /\ UNCHANGED faults \/ Fault
  BY DEF AbortPartition, CommitPartition, brVars
<1>2. RunsTypeOK'
  BY <1>1, FaultType DEF RunsTypeOK, BackfillTypeOK
<1>3. CASE Abort(r) \/ (run[r].left = {} /\ (EndInsertFails(r) \/ MarkersFail(r)))
  BY <1>0, <1>1, <1>2, <1>3 DEF Abort, EndInsertFails, MarkersFail, Others
<1>4. CASE run[r].left = {} /\ (Commit(r) \/ EndInsert(r) \/ SendMarkers(r) \/ AckMarkers(r))
  <2>1. \A q \in Runs \ {r} : writer'[q] = writer[q]
    BY <1>0, <1>4 DEF Commit, EndInsert, SendMarkers, AckMarkers
  <2>2. writer[r].phase \in Accepting
    BY <1>4 DEF Commit, EndInsert, SendMarkers, AckMarkers, Accepting
  <2>3. \/ /\ writer'[r].ledger_rows = writer[r].ledger_rows
           /\ writer'[r].phase \in {"commit", "marker"}
        \/ /\ writer'[r] = Fresh("committed")
           /\ writer[r].ledger_rows \subseteq ledgers'
    <3>1. writer[r] \in WriterType
      BY <1>0
    <3>2. CASE Commit(r)
      BY <1>0, <3>1, <3>2 DEF Commit, WriterType
    <3>3. CASE EndInsert(r)
      BY <1>0, <3>1, <3>3 DEF EndInsert, WriterType
    <3>4. CASE SendMarkers(r)
      BY <1>0, <3>1, <3>4 DEF SendMarkers, WriterType
    <3>5. CASE AckMarkers(r)
      BY <1>0, <3>1, <3>5 DEF AckMarkers, WriterType
    <3> QED
      BY <1>4, <3>2, <3>3, <3>4, <3>5
  <2> QED
    BY <1>1, <1>2, <1>4, <2>1, <2>2, <2>3 DEF Others
<1> QED
  BY <1>3, <1>4 DEF AbortPartition, CommitPartition, CommitStep

-----------------------------------------------------------------------------
(* The books of one process: its writer, its prefetch and what it owes.    *)

\* DoneIsStored and ReleasedIsHeld of one process.
Stored(r) ==
    run[r].pc = "done" =>
        \A l \in Asked[r] : l \in ledgers \/ PartitionOf(l) \in run[r].skipped

Held(r) ==
    run[r].pc = "index" /\ writer[r].phase \in Accepting \cup {"committed"} =>
        \A l \in Clamped(r, run[r].part) \ run[r].left :
            l \in ledgers \/ l \in writer[r].ledger_rows

InOrder(r) ==
    WriterFollows(r) /\ SyncFollows(r) /\ NothingForgotten(r) /\ Stored(r) /\ Held(r)

\* A process that takes no step keeps its books: stored ledgers stay stored.
LEMMA BooksKept ==
    ASSUME NEW r \in Runs, InOrder(r), ledgers \subseteq ledgers',
           run'[r] = run[r], sync'[r] = sync[r], writer'[r] = writer[r]
    PROVE  InOrder(r)'
<1>1. WriterFollows(r)' /\ SyncFollows(r)'
  BY DEF InOrder, WriterFollows, SyncFollows, Clamped, FilesOf
<1>2. NothingForgotten(r)' /\ Stored(r)' /\ Held(r)'
  BY DEF InOrder, NothingForgotten, Stored, Held
<1> QED
  BY <1>1, <1>2 DEF InOrder

\* A ledger of a range is one of its partition's.
LEMMA AskedIsClamped ==
    ASSUME NEW r \in Runs, NEW l \in Asked[r]
    PROVE  /\ l \in Ledgers /\ PartitionOf(l) \in Partitions
           /\ l \in Clamped(r, PartitionOf(l))
           /\ \A p \in Partitions : l \in Clamped(r, p) => p = PartitionOf(l)
  BY BackfillAssumption, PartitionNumber DEF Clamped, FilesOf

LEMMA StartInOrder ==
    ASSUME BackfillTypeOK, NEW r \in Runs, InOrder(r), Start(r)
    PROVE  InOrder(r)'
<1>0. /\ UNCHANGED <<ledgers, writer>> /\ writer[r] = Fresh("closed")
      /\ Fresh("closed").phase = "closed" /\ run[r].runs \in Nat
  <2>1. run[r].pc \in {"idle", "done", "failed"}
    BY DEF Start
  <2> QED
    BY <2>1, StartMakes, RunFields, BackfillAssumption
       DEF pwVars, InOrder, WriterFollows, Fresh, BackfillTypeOK
<1>1. WriterFollows(r)' /\ SyncFollows(r)' /\ Held(r)'
  BY <1>0, StartMakes DEF WriterFollows, SyncFollows, Held, Running
<1>2. ASSUME NEW l \in Asked[r], l \notin ledgers PROVE PartitionOf(l) \in run'[r].todo
  BY <1>2, AskedIsClamped, StartMakes
<1>3. NothingForgotten(r)' /\ Stored(r)'
  BY <1>0, <1>2, StartMakes DEF NothingForgotten, Stored
<1> QED
  BY <1>1, <1>3 DEF InOrder

LEMMA NextPartitionInOrder ==
    ASSUME BackfillTypeOK, NEW r \in Runs, InOrder(r), NextPartition(r)
    PROVE  InOrder(r)'
<1>0. SyncFollows(r) /\ WriterFollows(r) /\ NothingForgotten(r) /\ r \in Writers
  BY BackfillAssumption DEF InOrder
<1>1. /\ UNCHANGED ledgers /\ writer[r] = Fresh("closed") /\ writer[r].phase = "closed"
      /\ run[r].runs > 0
  BY <1>0, NextPartitionMakes DEF storeVars, WriterFollows, SyncFollows
<1>2. /\ run'[r].pc = "index" => writer'[r].phase = "open"
      /\ run'[r].pc # "index" => writer'[r] = Fresh("closed") /\ writer'[r].phase = "closed"
  <2>1. Fresh("open").phase = "open"
    BY DEF Fresh
  <2>2. ASSUME Open(r) PROVE writer'[r] = Fresh("open")
    BY <1>0, <2>2 DEF Open, BackfillTypeOK, PWTypeOK
  <2> QED
    BY <1>0, <1>1, <2>1, <2>2, NextPartitionMakes
<1>3. WriterFollows(r)'
  BY <1>2, NextPartitionMakes, <1>0 DEF WriterFollows
<1>4. SyncFollows(r)'
  BY <1>0, <1>1, NextPartitionMakes DEF SyncFollows, Running
<1>5. NothingForgotten(r)'
  BY <1>0, <1>1, NextPartitionMakes DEF NothingForgotten, Running
<1>6. Stored(r)' /\ Held(r)'
  BY <1>0, <1>2, NextPartitionMakes DEF Stored, Held, Accepting
<1> QED
  BY <1>3, <1>4, <1>5, <1>6 DEF InOrder

LEMMA FailsInOrder ==
    ASSUME BackfillTypeOK, NEW r \in Runs, InOrder(r), Fails(r)
    PROVE  InOrder(r)'
<1>1. UNCHANGED ledgers /\ run[r].runs > 0 /\ run[r].completed \subseteq ledgers
  BY FailsMakes DEF storeVars, InOrder, SyncFollows, NothingForgotten, Running
<1>2. Fresh("closed").phase = "closed"
  BY DEF Fresh
<1> QED
  BY <1>1, <1>2, FailsMakes
     DEF InOrder, WriterFollows, SyncFollows, NothingForgotten, Stored, Held, Running

LEMMA SkipInOrder ==
    ASSUME BackfillTypeOK, NEW r \in Runs, InOrder(r), SkipCompleted(r)
    PROVE  InOrder(r)'
<1> DEFINE l == Least(run[r].left)
<1>1. /\ UNCHANGED <<ledgers, writer, sync>> /\ run[r].pc = "index"
      /\ l \in run[r].left /\ l \in run[r].completed
      /\ run' = [run EXCEPT ![r].left = @ \ {l}]
  BY SkipMakes DEF pwVars
<1> HIDE DEF l
<1>2. /\ run'[r].left = run[r].left \ {l}
      /\ run'[r].pc = run[r].pc /\ run'[r].runs = run[r].runs
      /\ run'[r].todo = run[r].todo /\ run'[r].part = run[r].part
      /\ run'[r].completed = run[r].completed /\ run'[r].skipped = run[r].skipped
      /\ run'[r].whole = run[r].whole
  BY <1>1, LookedAtMakes
<1>3. l \in ledgers
  BY <1>1 DEF InOrder, NothingForgotten
<1>4. WriterFollows(r)' /\ SyncFollows(r)' /\ NothingForgotten(r)'
  BY <1>1, <1>2 DEF InOrder, WriterFollows, SyncFollows, NothingForgotten
<1>5. Stored(r)' /\ Held(r)'
  BY <1>1, <1>2, <1>3 DEF InOrder, Stored, Held
<1> QED
  BY <1>4, <1>5 DEF InOrder

LEMMA IngestInOrder ==
    ASSUME BackfillTypeOK, NEW r \in Runs, InOrder(r), Ingest(r)
    PROVE  InOrder(r)'
<1> DEFINE l == Least(run[r].left)
<1>1. /\ UNCHANGED <<ledgers, sync>> /\ run[r].pc = "index" /\ l \in run[r].left
      /\ writer'[r].ledger_rows = writer[r].ledger_rows \cup {l}
      /\ \/ /\ writer[r].phase = "open" /\ writer'[r].phase = "open"
            /\ run' = [run EXCEPT ![r].left = @ \ {l}]
         \/ writer'[r].phase = "failed" /\ UNCHANGED run
  BY IngestMakes
<1> HIDE DEF l
<1>2. CASE writer'[r].phase = "failed" /\ UNCHANGED run
  BY <1>1, <1>2 DEF InOrder, WriterFollows, SyncFollows, NothingForgotten, Stored, Held, Accepting
<1>3. CASE /\ writer[r].phase = "open" /\ writer'[r].phase = "open"
           /\ run' = [run EXCEPT ![r].left = @ \ {l}]
  <2>1. /\ run'[r].left = run[r].left \ {l}
        /\ run'[r].pc = run[r].pc /\ run'[r].runs = run[r].runs
        /\ run'[r].todo = run[r].todo /\ run'[r].part = run[r].part
        /\ run'[r].completed = run[r].completed /\ run'[r].skipped = run[r].skipped
        /\ run'[r].whole = run[r].whole
    BY <1>1, <1>3, LookedAtMakes
  <2>2. WriterFollows(r)' /\ SyncFollows(r)' /\ NothingForgotten(r)'
    BY <1>1, <1>3, <2>1 DEF InOrder, WriterFollows, SyncFollows, NothingForgotten
  <2>3. Stored(r)' /\ Held(r)'
    BY <1>1, <1>3, <2>1 DEF InOrder, Stored, Held, Accepting
  <2> QED
    BY <2>2, <2>3 DEF InOrder
<1> QED
  BY <1>1, <1>2, <1>3

LEMMA CommitInOrder ==
    ASSUME BackfillTypeOK, NEW r \in Runs, InOrder(r), ledgers \subseteq ledgers',
           AbortPartition(r) \/ CommitPartition(r)
    PROVE  InOrder(r)'
<1>1. /\ UNCHANGED <<run, sync>> /\ run[r].pc = "index"
      /\ \/ writer'[r] = Fresh("rejected")
         \/ /\ run[r].left = {} /\ writer'[r].ledger_rows = writer[r].ledger_rows
            /\ writer[r].phase \in Accepting
            /\ writer'[r].phase \in {"commit", "marker"}
         \/ /\ run[r].left = {} /\ writer'[r] = Fresh("committed")
            /\ writer[r].phase \in Accepting
            /\ writer[r].ledger_rows \subseteq ledgers'
  BY CommitMakes
<1>2. \A phase \in Phases : Fresh(phase).phase = phase /\ Fresh(phase).ledger_rows = {}
  BY DEF Fresh
<1>3. WriterFollows(r)'
  BY <1>1, <1>2 DEF InOrder, WriterFollows, Phases
<1>4. SyncFollows(r)' /\ NothingForgotten(r)' /\ Stored(r)'
  BY <1>1 DEF InOrder, SyncFollows, NothingForgotten, Stored
<1>5. Held(r)'
  BY <1>1, <1>2 DEF InOrder, Held, Phases, Accepting
<1> QED
  BY <1>3, <1>4, <1>5 DEF InOrder

\* The partition is committed: all its ledgers were looked at, so all are stored.
LEMMA CommittedInOrder ==
    ASSUME BackfillTypeOK, NEW r \in Runs, InOrder(r), Committed(r)
    PROVE  InOrder(r)'
<1>1. UNCHANGED ledgers /\ run[r].left = {} /\ writer[r].ledger_rows = {}
  BY CommittedMakes DEF storeVars, InOrder, WriterFollows
<1>2. Clamped(r, run[r].part) \subseteq ledgers
  BY <1>1, CommittedMakes DEF InOrder, Held
<1>3. \A l \in Asked[r] : PartitionOf(l) = run[r].part => l \in ledgers
  BY <1>2, AskedIsClamped
<1>4. WriterFollows(r)' /\ SyncFollows(r)'
  <2>1. Fresh("closed").phase = "closed"
    BY DEF Fresh
  <2>2. WriterFollows(r)'
    BY <2>1, CommittedMakes DEF WriterFollows
  <2>3. SyncFollows(r)'
    BY CommittedMakes DEF InOrder, SyncFollows, Running
  <2> QED
    BY <2>2, <2>3
<1>5. NothingForgotten(r)'
  BY <1>1, <1>3, CommittedMakes DEF InOrder, NothingForgotten, Running
<1>6. Stored(r)' /\ Held(r)'
  BY CommittedMakes DEF Stored, Held
<1> QED
  BY <1>4, <1>5, <1>6 DEF InOrder

LEMMA CleanupInOrder ==
    ASSUME BackfillTypeOK, NEW r \in Runs, InOrder(r), Cleanup(r)
    PROVE  InOrder(r)'
<1>1. UNCHANGED <<ledgers, writer, sync>>
  BY CleanupMakes DEF pwVars
<1>2. WriterFollows(r)' /\ SyncFollows(r)'
  BY <1>1, CleanupMakes DEF InOrder, WriterFollows, SyncFollows, Running
<1>3. NothingForgotten(r)' /\ Stored(r)' /\ Held(r)'
  BY <1>1, CleanupMakes DEF InOrder, SyncFollows, NothingForgotten, Stored, Held, Running
<1> QED
  BY <1>2, <1>3 DEF InOrder

LEMMA StepInOrder ==
    ASSUME BackfillTypeOK, NEW r \in Runs, InOrder(r), ledgers \subseteq ledgers', ProcessStep(r)
    PROVE  RunsTypeOK' /\ Others(r) /\ InOrder(r)'
<1>1. CASE SyncStep(r) \/ SyncFails(r)
  BY <1>1, SyncMakes DEF InOrder, WriterFollows, SyncFollows, NothingForgotten, Stored, Held, pwVars
<1>2. CASE Start(r)
  BY <1>2, StartMakes, StartInOrder
<1>3. CASE NextPartition(r)
  BY <1>3, NextPartitionMakes, NextPartitionInOrder DEF InOrder
<1>4. CASE Fails(r)
  BY <1>4, FailsMakes, FailsInOrder
<1>5. CASE SkipCompleted(r)
  BY <1>5, SkipMakes, SkipInOrder
<1>6. CASE Ingest(r)
  BY <1>6, IngestMakes, IngestInOrder
<1>7. CASE AbortPartition(r) \/ CommitPartition(r)
  BY <1>7, CommitMakes, CommitInOrder
<1>8. CASE Committed(r)
  BY <1>8, CommittedMakes, CommittedInOrder
<1>9. CASE Cleanup(r)
  BY <1>9, CleanupMakes, CleanupInOrder
<1> QED
  BY <1>1, <1>2, <1>3, <1>4, <1>5, <1>6, <1>7, <1>8, <1>9, StepKinds DEF Aside

-----------------------------------------------------------------------------
(* The scratch directory of a process that shares it with none.            *)

OnDisk(r) == Alone(r) => DownloadIsWhole(r) /\ FilesAreThere(r)

\* A process that was never started touches no file, and none another's
\* directory; it is started once more, or as often as before.
LEMMA FilesTouched ==
    ASSUME BackfillTypeOK, NEW r \in Runs, InOrder(r), ProcessStep(r)
    PROVE  /\ run'[r].runs >= run[r].runs
           /\ \/ UNCHANGED files
              \/ /\ run[r].runs > 0
                 /\ \A d \in Dirs \ {Dir(r)} : files'[d] = files[d]
<1>0. SyncFollows(r) /\ run[r].runs \in Nat /\ (run[r].pc # "idle" => run[r].runs > 0)
  BY RunFields, BackfillAssumption DEF InOrder, SyncFollows, BackfillTypeOK
<1>1. CASE Start(r)
  BY <1>0, <1>1, StartMakes
<1>2. CASE SyncStep(r) \/ SyncFails(r)
  <2>1. UNCHANGED run /\ run[r].runs > 0
    BY <1>0, <1>2, SyncMakes DEF SyncFollows, Running
  <2>2. UNCHANGED files \/ Download(r)
    BY <1>2 DEF SyncStep, SyncFails, AlreadyComplete, CountFiles, ProbeArchive, CountAgain
  <2> QED
    BY <1>0, <2>1, <2>2 DEF Download, BackfillTypeOK
<1>3. CASE NextPartition(r)
  BY <1>0, <1>3, NextPartitionMakes
<1>4. CASE Fails(r)
  <2>1. run'[r].runs = run[r].runs /\ run[r].runs > 0
    BY <1>0, <1>4, FailsMakes DEF Running
  <2>2. UNCHANGED files \/ CleanupFails(r)
    BY <1>4 DEF Fails, SyncErr, Panic, PartitionErr, Crash
  <2> QED
    BY <1>0, <2>1, <2>2 DEF CleanupFails, BackfillTypeOK
<1>5. CASE SkipCompleted(r) \/ Ingest(r)
  <2> DEFINE l == Least(run[r].left)
  <2>1. /\ run[r].pc = "index" /\ l \in run[r].left
        /\ \/ UNCHANGED <<run, files>>
           \/ Unlink(r, l) /\ run' = [run EXCEPT ![r].left = @ \ {l}]
    BY <1>5, SkipMakes, IngestMakes
  <2> HIDE DEF l
  <2>2. run'[r].runs = run[r].runs
    BY <2>1, LookedAtMakes
  <2> QED
    BY <1>0, <2>1, <2>2 DEF Unlink, BackfillTypeOK
<1>6. CASE AbortPartition(r) \/ CommitPartition(r)
  BY <1>0, <1>6, CommitMakes
<1>7. CASE Committed(r)
  BY <1>0, <1>7, CommittedMakes
<1>8. CASE Cleanup(r)
  <2>1. run'[r].runs = run[r].runs /\ run[r].runs > 0
    BY <1>0, <1>8, CleanupMakes
  <2> QED
    BY <1>0, <1>8, <2>1 DEF Cleanup, BackfillTypeOK
<1> QED
  BY <1>1, <1>2, <1>3, <1>4, <1>5, <1>6, <1>7, <1>8, StepKinds DEF Aside

\* No step of another process takes a file from it.
LEMMA DiskOfOthers ==
    ASSUME BackfillTypeOK, BackfillTypeOK', NEW q \in Runs, InOrder(q), ProcessStep(q), Others(q),
           NEW r \in Runs \ {q}, OnDisk(r)
    PROVE  OnDisk(r)'
<1> SUFFICES ASSUME Alone(r)' PROVE DownloadIsWhole(r)' /\ FilesAreThere(r)'
  BY DEF OnDisk
<1>1. run'[q].runs >= run[q].runs /\ run[q].runs \in Nat /\ run'[q].runs \in Nat
  BY FilesTouched, RunFields, BackfillAssumption DEF BackfillTypeOK
<1>2. Alone(r)
  BY <1>1 DEF Alone, Others
<1>3. TempDir[q] = TempDir[r] => run'[q].runs = 0
  BY DEF Alone
<1>4. files'[Dir(r)] = files[Dir(r)]
  BY <1>1, <1>3, FilesTouched, DirType DEF Dir
<1>5. run'[r] = run[r] /\ sync'[r] = sync[r]
  BY DEF Others
<1> QED
  BY <1>2, <1>4, <1>5 DEF OnDisk, DownloadIsWhole, FilesAreThere, Dir, FilesOf

\* The files of the prefetched partition are not those of the one at hand.
LEMMA PrefetchIsAnother ==
    ASSUME NEW r \in Runs, InOrder(r), run[r].pc \in {"index", "cleanup"},
           sync[r].st # "none"
    PROVE  FilesOf(run[r].part) \cap FilesOf(sync[r].part) = {}
  BY DEF InOrder, SyncFollows, FilesOf

\* sync_partition says Complete only when the folder has all of the partition.
LEMMA SyncOnDisk ==
    ASSUME BackfillTypeOK, NEW r \in Runs, InOrder(r), DownloadIsWhole(r), FilesAreThere(r),
           SyncStep(r) \/ SyncFails(r)
    PROVE  DownloadIsWhole(r)' /\ FilesAreThere(r)'
<1>1. /\ UNCHANGED run /\ sync[r].st # "none" /\ sync'[r].part = sync[r].part
      /\ sync[r].part \in Partitions
  BY SyncMakes, RunFields DEF InOrder, SyncFollows, BackfillTypeOK
<1>2. files[Dir(r)] \subseteq files'[Dir(r)]
  <2>1. UNCHANGED files \/ Download(r)
    BY DEF SyncStep, SyncFails, AlreadyComplete, CountFiles, ProbeArchive, CountAgain
  <2> QED
    BY <2>1, DirType DEF Download, BackfillTypeOK
<1>3. FilesAreThere(r)'
  BY <1>1, <1>2 DEF FilesAreThere, Dir
<1>4. ASSUME sync'[r].st = "Complete" PROVE Cardinality(Local(r)) = Need(r)
  <2>1. ASSUME NEW st, SyncTo(r, st) PROVE st = "Complete"
    <3>1. sync'[r] = [sync[r] EXCEPT !.st = st] /\ sync[r] \in SyncType
      BY <2>1 DEF SyncTo, BackfillTypeOK
    <3> QED
      BY <1>4, <3>1 DEF SyncType
  <2>2. ~ SyncFails(r) /\ ~ Download(r) /\ ~ ProbeArchive(r)
    BY <2>1 DEF SyncFails, Download, ProbeArchive
  <2> QED
    BY <2>1, <2>2 DEF SyncStep, AlreadyComplete, CountFiles, CountAgain
<1>5. Cardinality(Local(r)) = Need(r) => FilesOf(sync[r].part) \subseteq files[Dir(r)]
  <2>1. Local(r) \in SUBSET FilesOf(sync[r].part)
    BY DEF Local
  <2> QED
    BY <1>1, <2>1, FullCount DEF Local, Need
<1> QED
  BY <1>1, <1>2, <1>3, <1>4, <1>5 DEF DownloadIsWhole, FilesOf, Dir

\* A file is dropped only when its ledger is looked at, a folder when its
\* partition is done.
LEMMA DiskPreserved ==
    ASSUME BackfillTypeOK, NEW r \in Runs, InOrder(r), ProcessStep(r), Others(r), OnDisk(r)
    PROVE  OnDisk(r)'
<1> SUFFICES ASSUME Alone(r)' PROVE DownloadIsWhole(r)' /\ FilesAreThere(r)'
  BY DEF OnDisk
<1>0. DownloadIsWhole(r) /\ FilesAreThere(r)
  BY DEF OnDisk, Alone, Others
<1>1. CASE SyncStep(r) \/ SyncFails(r)
  BY <1>0, <1>1, SyncOnDisk
<1>2. CASE Start(r)
  BY <1>2, StartMakes DEF DownloadIsWhole, FilesAreThere
<1>3. CASE NextPartition(r)
  BY <1>0, <1>3, NextPartitionMakes
     DEF InOrder, DownloadIsWhole, FilesAreThere, Clamped, FilesOf, Dir
<1>4. CASE Fails(r)
  BY <1>4, FailsMakes DEF DownloadIsWhole, FilesAreThere
<1>5. CASE SkipCompleted(r) \/ Ingest(r)
  <2> DEFINE l == Least(run[r].left)
  <2>1. /\ run[r].pc = "index" /\ l \in run[r].left /\ UNCHANGED sync
        /\ \/ UNCHANGED <<run, files>>
           \/ Unlink(r, l) /\ run' = [run EXCEPT ![r].left = @ \ {l}]
    BY <1>5, SkipMakes, IngestMakes
  <2> HIDE DEF l
  <2>2. CASE UNCHANGED <<run, files>>
    BY <1>0, <2>1, <2>2 DEF DownloadIsWhole, FilesAreThere, FilesOf, Dir
  <2>3. CASE Unlink(r, l) /\ run' = [run EXCEPT ![r].left = @ \ {l}]
    <3>1. files[Dir(r)] \ {l} \subseteq files'[Dir(r)]
      BY <2>3, DirType DEF Unlink, BackfillTypeOK
    <3>2. l \in FilesOf(run[r].part)
      BY <2>1 DEF InOrder, SyncFollows, Clamped
    <3>3. sync[r].st # "none" => l \notin FilesOf(sync[r].part)
      BY <2>1, <3>2, PrefetchIsAnother
    <3>4. /\ run'[r].left = run[r].left \ {l} /\ run'[r].pc = run[r].pc
          /\ run'[r].completed = run[r].completed
      BY <2>1, <2>3, LookedAtMakes
    <3> QED
      BY <1>0, <2>1, <3>1, <3>3, <3>4 DEF DownloadIsWhole, FilesAreThere, FilesOf, Dir
  <2> QED
    BY <2>1, <2>2, <2>3
<1>6. CASE AbortPartition(r) \/ CommitPartition(r)
  BY <1>0, <1>6, CommitMakes DEF DownloadIsWhole, FilesAreThere, FilesOf, Dir
<1>7. CASE Committed(r)
  BY <1>0, <1>7, CommittedMakes DEF DownloadIsWhole, FilesAreThere, FilesOf, Dir
<1>8. CASE Cleanup(r)
  <2>1. files[Dir(r)] \ FilesOf(run[r].part) \subseteq files'[Dir(r)]
    BY <1>8, DirType DEF Cleanup, BackfillTypeOK
  <2>2. /\ UNCHANGED sync /\ run[r].pc = "cleanup" /\ run'[r].pc # "index"
    BY <1>8, CleanupMakes
  <2> QED
    BY <1>0, <2>1, <2>2, PrefetchIsAnother DEF DownloadIsWhole, FilesAreThere, FilesOf, Dir
<1> QED
  BY <1>1, <1>2, <1>3, <1>4, <1>5, <1>6, <1>7, <1>8, StepKinds DEF Aside

-----------------------------------------------------------------------------
(* What is reported as archive lag.                                        *)

\* A partition of which the archive has every file does not count short.
LEMMA LagIsCounted ==
    ASSUME NEW p \in Partitions, NEW S,
           Cardinality(S \cap FilesOf(p)) < Cardinality(FilesOf(p))
    PROVE  ~ (FilesOf(p) \subseteq S)
<1>1. SUFFICES ASSUME FilesOf(p) \subseteq S PROVE FALSE
  OBVIOUS
<1>2. S \cap FilesOf(p) = FilesOf(p)
  BY <1>1
<1>3. Cardinality(FilesOf(p)) \in Nat
  BY FilesAreFinite, FS_CardinalityType
<1> QED
  BY <1>2, <1>3

\* A process that takes no step: the archive keeps what it has.
LEMMA LagKept ==
    ASSUME NEW r \in Runs, LagIsTrue(r), archive \subseteq archive',
           run'[r] = run[r], sync'[r] = sync[r]
    PROVE  LagIsTrue(r)'
  BY DEF LagIsTrue, FilesOf

\* The probe of the archive alone answers S3Incomplete.
LEMMA ProbeIsTrue ==
    ASSUME BackfillTypeOK, NEW r \in Runs, InOrder(r), LagIsTrue(r),
           SyncStep(r) \/ SyncFails(r)
    PROVE  LagIsTrue(r)'
<1>1. /\ UNCHANGED <<run, archive>> /\ sync[r].st # "none" /\ sync'[r].part = sync[r].part
      /\ sync[r].part \in Partitions
  BY SyncMakes, RunFields DEF InOrder, SyncFollows, BackfillTypeOK
<1>2. ASSUME sync'[r].st = "S3Incomplete" PROVE sync[r].part \notin run[r].whole
  <2>1. ASSUME NEW st, SyncTo(r, st) PROVE st = "S3Incomplete"
    <3>1. sync'[r] = [sync[r] EXCEPT !.st = st] /\ sync[r] \in SyncType
      BY <2>1 DEF SyncTo, BackfillTypeOK
    <3> QED
      BY <1>2, <3>1 DEF SyncType
  <2>2. ~ SyncFails(r) /\ ~ Download(r) /\ ~ AlreadyComplete(r) /\ ~ CountFiles(r) /\ ~ CountAgain(r)
    BY <2>1 DEF SyncFails, Download, AlreadyComplete, CountFiles, CountAgain
  <2>3. ProbeArchive(r)
    BY <2>2 DEF SyncStep
  <2>4. Cardinality(archive \cap FilesOf(sync[r].part)) < Cardinality(FilesOf(sync[r].part))
    BY <2>1, <2>3 DEF ProbeArchive, Need
  <2> QED
    BY <1>1, <2>4, LagIsCounted DEF LagIsTrue
<1> QED
  BY <1>1, <1>2 DEF LagIsTrue, FilesOf

LEMMA LagStays ==
    ASSUME BackfillTypeOK, NEW r \in Runs, InOrder(r), LagIsTrue(r), ProcessStep(r)
    PROVE  LagIsTrue(r)' /\ UNCHANGED archive
<1>1. CASE SyncStep(r) \/ SyncFails(r)
  BY <1>1, SyncMakes, ProbeIsTrue
<1>2. CASE Start(r)
  BY <1>2, StartMakes DEF LagIsTrue, FilesOf
<1>3. CASE NextPartition(r)
  BY <1>3, NextPartitionMakes DEF LagIsTrue, FilesOf, InOrder
<1>4. CASE Fails(r)
  BY <1>4, FailsMakes DEF LagIsTrue, FilesOf
<1>5. CASE SkipCompleted(r) \/ Ingest(r)
  <2> DEFINE l == Least(run[r].left)
  <2>1. /\ l \in run[r].left /\ UNCHANGED <<sync, archive>>
        /\ \/ UNCHANGED run
           \/ run' = [run EXCEPT ![r].left = @ \ {l}]
    BY <1>5, SkipMakes, IngestMakes
  <2> HIDE DEF l
  <2>2. run'[r].whole = run[r].whole /\ run'[r].skipped = run[r].skipped
    BY <2>1, LookedAtMakes
  <2> QED
    BY <2>1, <2>2 DEF LagIsTrue, FilesOf
<1>6. CASE AbortPartition(r) \/ CommitPartition(r)
  BY <1>6, CommitMakes, LagKept
<1>7. CASE Committed(r)
  BY <1>7, CommittedMakes DEF LagIsTrue, FilesOf
<1>8. CASE Cleanup(r)
  BY <1>8, CleanupMakes DEF LagIsTrue, FilesOf
<1> QED
  BY <1>1, <1>2, <1>3, <1>4, <1>5, <1>6, <1>7, <1>8, StepKinds DEF Aside

-----------------------------------------------------------------------------
(* The specification.                                                      *)

\* BackfillInv, with what it says of each process put together.
Books == PWInv /\ BackfillTypeOK /\ \A r \in Runs : InOrder(r)

Whole == Books /\ \A r \in Runs : OnDisk(r) /\ LagIsTrue(r)

LEMMA WholeIsDone == /\ Whole => DoneIsStored
                     /\ Whole' => DoneIsStored'
  BY DEF Whole, Books, InOrder, Stored, LagIsTrue, DoneIsStored

LEMMA BackfillInvParts == BackfillInv <=> Whole
<1>1. BackfillInv => Whole
  BY DEF BackfillInv, Whole, Books, InOrder, OnDisk, Stored, Held, DoneIsStored, ReleasedIsHeld,
         NoMissingFile
<1>2. Whole => BackfillInv
  BY WholeIsDone DEF BackfillInv, Whole, Books, InOrder, OnDisk, Held, ReleasedIsHeld, NoMissingFile
<1> QED
  BY <1>1, <1>2

LEMMA BackfillInitInv == BackfillInit => PWInit /\ Whole
<1> SUFFICES ASSUME BackfillInit PROVE PWInit /\ Whole
  OBVIOUS
<1>1. PWInit /\ PWInv
  BY InitInv DEF BackfillInit, PWInit
<1>2. \A r \in Runs : /\ run[r] = IdleRun /\ sync[r] = NoSync /\ writer[r] = Fresh("closed")
  BY BackfillAssumption DEF BackfillInit
<1>3. /\ IdleRun \in RunType /\ NoSync \in SyncType /\ IdleRun.pc = "idle" /\ NoSync.st = "none"
      /\ IdleRun.completed = {} /\ IdleRun.whole = {} /\ Fresh("closed").phase = "closed"
  BY BackfillAssumption DEF IdleRun, RunType, NoSync, SyncType, Fresh
<1>4. BackfillTypeOK
  BY <1>1, <1>3, BackfillAssumption DEF BackfillInit, BackfillTypeOK, PWInv
<1>5. \A r \in Runs : InOrder(r)
  BY <1>2, <1>3
     DEF InOrder, WriterFollows, SyncFollows, NothingForgotten, Stored, Held, Running
<1>6. \A r \in Runs : OnDisk(r) /\ LagIsTrue(r)
  BY <1>2, <1>3 DEF OnDisk, DownloadIsWhole, FilesAreThere, LagIsTrue
<1> QED
  BY <1>1, <1>4, <1>5, <1>6 DEF Whole, Books

\* The server, or another writer, moves: the processes keep their books.
LEMMA StoreMoves ==
    ASSUME Whole, [PWNext]_pwVars, UNCHANGED <<archive, files, run, sync>>,
           faults' \in 0..MaxFaults, \A r \in Runs : writer'[r] = writer[r]
    PROVE  Whole'
<1>1. PWInv' /\ ledgers \subseteq ledgers'
  BY NextInv, LedgersGrow DEF Whole, Books
<1>2. BackfillTypeOK'
  BY <1>1 DEF Whole, Books, BackfillTypeOK, PWInv
<1>3. \A r \in Runs : InOrder(r)'
  BY <1>1, BooksKept DEF Whole, Books
<1>4. \A r \in Runs : OnDisk(r)' /\ LagIsTrue(r)'
  BY LagKept DEF Whole, OnDisk, Alone, DownloadIsWhole, FilesAreThere, FilesOf, Dir
<1> QED
  BY <1>1, <1>2, <1>3, <1>4 DEF Whole, Books

LEMMA ProcessMoves ==
    ASSUME Whole, NEW r \in Runs, ProcessStep(r)
    PROVE  Whole' /\ [PWNext]_pwVars
<1>1. [PWNext]_pwVars
  BY BackfillIsWriterStep DEF Whole, Books, InOrder
<1>2. PWInv' /\ ledgers \subseteq ledgers'
  BY <1>1, NextInv, LedgersGrow DEF Whole, Books
<1>3. RunsTypeOK' /\ Others(r) /\ InOrder(r)'
  BY <1>2, StepInOrder DEF Whole, Books
<1>4. BackfillTypeOK'
  BY <1>2, <1>3 DEF BackfillTypeOK, RunsTypeOK, PWInv
<1>5. \A q \in Runs : InOrder(q)'
  BY <1>2, <1>3, BooksKept DEF Others, Whole, Books
<1>6. \A q \in Runs : OnDisk(q)'
  BY <1>3, <1>4, DiskPreserved, DiskOfOthers DEF Whole, Books
<1>7. \A q \in Runs : LagIsTrue(q)'
  BY <1>3, LagStays, LagKept DEF Others, Whole, Books
<1> QED
  BY <1>1, <1>2, <1>4, <1>5, <1>6, <1>7 DEF Whole, Books

LEMMA ArchiveMoves ==
    ASSUME Whole, NEW l \in Ledgers, ArchiveLands(l)
    PROVE  Whole' /\ UNCHANGED pwVars
<1>1. /\ UNCHANGED <<pwVars, files, run, sync, faults>>
      /\ archive' \in SUBSET Ledgers /\ archive \subseteq archive'
  BY DEF ArchiveLands, Whole, Books, BackfillTypeOK
<1>2. PWInv' /\ UNCHANGED <<ledgers, writer>>
  BY <1>1, NextInv DEF Whole, Books, pwVars
<1>3. BackfillTypeOK'
  BY <1>1, <1>2 DEF Whole, Books, BackfillTypeOK, PWInv
<1>4. \A r \in Runs : InOrder(r)'
  BY <1>1, <1>2, BooksKept DEF Whole, Books
<1>5. \A r \in Runs : OnDisk(r)' /\ LagIsTrue(r)'
  BY <1>1, LagKept DEF Whole, OnDisk, Alone, DownloadIsWhole, FilesAreThere, FilesOf, Dir
<1> QED
  BY <1>1, <1>2, <1>3, <1>4, <1>5 DEF Whole, Books

LEMMA BackfillNextInv == Whole /\ [BackfillNext]_backfillVars => Whole' /\ [PWNext]_pwVars
<1> SUFFICES ASSUME Whole, [BackfillNext]_backfillVars PROVE Whole' /\ [PWNext]_pwVars
  OBVIOUS
<1>0. faults \in 0..MaxFaults
  BY DEF Whole, Books, BackfillTypeOK
<1>1. CASE UNCHANGED backfillVars
  BY <1>0, <1>1, StoreMoves DEF backfillVars, brVars, pwVars
<1>2. CASE Land /\ UNCHANGED brVars
  <2>1. UNCHANGED writer /\ PWNext
    BY <1>2 DEF Land, LandRows, LandMarkers, PWNext
  <2> QED
    BY <1>0, <1>2, <2>1, StoreMoves DEF brVars
<1>3. CASE \E l \in Ledgers : ArchiveLands(l)
  BY <1>3, ArchiveMoves
<1>4. CASE \E r \in Runs : ProcessStep(r)
  BY <1>4, ProcessMoves
<1> QED
  BY <1>1, <1>2, <1>3, <1>4 DEF BackfillNext, ProcessStep

\* The inductive invariant of the backfill.
THEOREM BackfillInvariant == BackfillSpec => []BackfillInv
  BY BackfillInitInv, BackfillNextInv, BackfillInvParts, PTL DEF BackfillSpec

\* The processes take only steps of the write path, each with its own writer.
THEOREM BackfillWritePath == BackfillSpec => PWSpec
  BY BackfillInitInv, BackfillNextInv, PTL DEF BackfillSpec, PWSpec

\* To a reader, K processes that download, crash and resume are the atomic
\* store of LedgerStore (run.rs, persist/writer.rs).
THEOREM BackfillStore == BackfillSpec => ImplementsStore
  BY BackfillWritePath, Refinement, PTL

\* The commit-marker contract holds under the backfill.
THEOREM BackfillMarkers == BackfillSpec => []MarkerImpliesRows
  BY BackfillWritePath, CommitMarker, PTL

\* run.rs execute(): a run that ends Ok has stored every ledger of its range
\* whose partition it did not report as skipped, whatever it resumed from, and
\* sync.rs lets it skip none of which the archive had every file at its start.
THEOREM RangeIsStored == BackfillSpec => []DoneIsStored
<1>1. BackfillInv => DoneIsStored
  BY DEF BackfillInv
<1> QED
  BY <1>1, BackfillInvariant, PTL

\* ingest.rs drop_indexed_file: a file deleted before its partition's commit
\* is of a ledger that is stored, or that the one open writer holds.
THEOREM EarlyDeleteIsSafe == BackfillSpec => []ReleasedIsHeld
<1>1. BackfillInv => ReleasedIsHeld
  BY DEF BackfillInv
<1> QED
  BY <1>1, BackfillInvariant, PTL

\* ingest.rs "ledger file missing post-sync": the assertion never fails in a
\* process whose scratch directory no other process uses.
THEOREM NeverPanics == BackfillSpec => []NoMissingFile
<1>1. BackfillInv => NoMissingFile
  BY DEF BackfillInv
<1> QED
  BY <1>1, BackfillInvariant, PTL

-----------------------------------------------------------------------------
(* The invariant, but for BackfillInv.                                     *)

\* Stored ledgers stay stored, and a process that was started stays so.
Grows ==
    /\ ledgers \subseteq ledgers'
    /\ \A r \in Runs : run[r].runs > 0 => run'[r].runs > 0

LEMMA FollowsStays ==
    ASSUME Grows, NEW l, Follows(l)
    PROVE  Follows(l)'
  BY DEF Grows, Follows

LiveTypeOK == lake \subseteq Ledgers /\ slot \in [Live -> Lp!SlotType]

InStep ==
    /\ LiveTypeOK
    /\ \A s \in Live : SlotFollows(s)
    /\ \A r \in Runs : RangeFollows(r)
    /\ \A l \in ledgers \cup markers : Follows(l)

LEMMA IngestionInvParts == IngestionInv <=> Whole /\ InStep
  BY BackfillInvParts DEF IngestionInv, InStep, LiveTypeOK

\* A slot that takes no step.
LEMMA SlotRests ==
    ASSUME Grows, NEW s \in Live, SlotFollows(s),
           slot'[s] = slot[s], writer'[s] = writer[s], lake \subseteq lake'
    PROVE  SlotFollows(s)'
<1>1. slot[s].pc \in {"loop", "process", "persist", "publish"} => Follows(slot[s].next)'
  <2>1. slot[s].pc \in {"loop", "process", "persist", "publish"} => Follows(slot[s].next)
    BY DEF SlotFollows
  <2> QED
    BY <2>1 DEF Grows, Follows
<1> QED
  BY <1>1 DEF SlotFollows, Grows

\* A process that takes no step.
LEMMA RangeRests ==
    ASSUME Grows, NEW r \in Runs, RangeFollows(r), run'[r] = run[r], writer'[r] = writer[r]
    PROVE  RangeFollows(r)'
  BY DEF RangeFollows

-----------------------------------------------------------------------------
(* What the steps of a slot make of it.                                    *)

SlotMove(s) ==
    \/ Lp!Receive(s, Lp!Later)
    \/ Lp!Work(s) \/ Lp!StepFails(s) \/ Lp!PrefetchFails(s) \/ Lp!Crash(s)

SlotPcs == {"idle", "cursor", "loop", "process", "persist", "publish"}

Received == [Lp!Idle EXCEPT !.pc = "cursor", !.bell = Lp!Later]
WentTo(x, pc) == [x EXCEPT !.pc = pc]
Began(x) == [x EXCEPT !.pc = "persist", !.attempt = 0]
Retried(x, k) == [x EXCEPT !.attempt = k]
CaughtUp(x, n) == [x EXCEPT !.pc = "loop", !.next = n]
WentOn(x, n, k) == [x EXCEPT !.pc = "loop", !.next = n, !.persisted = k]

LEMMA SlotFields ==
    ASSUME NEW x \in Lp!SlotType
    PROVE  /\ x.pc \in SlotPcs /\ x.next \in First..(Last + 1)
           /\ x.attempt \in 0..Retries /\ x.persisted \in Nat
  BY DEF Lp!SlotType, SlotPcs

LEMMA RestingSlots ==
    ASSUME IngestionAssumption
    PROVE  /\ Lp!Idle \in Lp!SlotType /\ Lp!Idle.pc = "idle"
           /\ Received \in Lp!SlotType /\ Received.pc = "cursor"
<1>1. First \in First..(Last + 1) /\ Lp!Later \in Lp!Bells /\ 0 \in 0..Retries
  BY DEF IngestionAssumption, Lp!LedgerProcessorAssumption, Lp!Later, Lp!Bells
<1> QED
  BY <1>1 DEF Lp!Idle, Lp!SlotType, Received

LEMMA WentToSlot ==
    ASSUME NEW x \in Lp!SlotType, NEW pc \in SlotPcs
    PROVE  WentTo(x, pc) \in Lp!SlotType /\ WentTo(x, pc).pc = pc /\ WentTo(x, pc).next = x.next
  BY DEF WentTo, Lp!SlotType, SlotPcs

LEMMA BeganSlot ==
    ASSUME IngestionAssumption, NEW x \in Lp!SlotType
    PROVE  Began(x) \in Lp!SlotType /\ Began(x).pc = "persist" /\ Began(x).next = x.next
<1>1. 0 \in 0..Retries
  BY DEF IngestionAssumption, Lp!LedgerProcessorAssumption
<1> QED
  BY <1>1 DEF Began, Lp!SlotType

LEMMA RetriedSlot ==
    ASSUME NEW x \in Lp!SlotType, NEW k \in 0..Retries
    PROVE  Retried(x, k) \in Lp!SlotType /\ Retried(x, k).pc = x.pc /\ Retried(x, k).next = x.next
  BY DEF Retried, Lp!SlotType

LEMMA CaughtUpSlot ==
    ASSUME NEW x \in Lp!SlotType, NEW n \in First..(Last + 1)
    PROVE  CaughtUp(x, n) \in Lp!SlotType /\ CaughtUp(x, n).pc = "loop" /\ CaughtUp(x, n).next = n
  BY DEF CaughtUp, Lp!SlotType

LEMMA WentOnSlot ==
    ASSUME NEW x \in Lp!SlotType, NEW n \in First..(Last + 1), NEW k \in Nat
    PROVE  WentOn(x, n, k) \in Lp!SlotType /\ WentOn(x, n, k).pc = "loop" /\ WentOn(x, n, k).next = n
  BY DEF WentOn, Lp!SlotType

\* The writers of the two modules are the same.
LEMMA SameWriter ==
    ASSUME NEW s, NEW l
    PROVE  /\ Lp!Open(s) <=> Open(s)
           /\ Lp!WriteLedger(s, l) <=> WriteLedger(s, l)
           /\ Lp!Commit(s) <=> Commit(s)
           /\ Lp!Abort(s) <=> Abort(s)
           /\ Lp!CommitStep(s) <=> CommitStep(s)
           /\ Lp!Drop(s) <=> Drop(s)
           /\ Lp!pwVars = pwVars /\ Lp!storeVars = storeVars
           /\ \A phase : Lp!Fresh(phase) = Fresh(phase)
<1>1. Lp!pwVars = pwVars /\ Lp!storeVars = storeVars /\ Lp!Tables = Tables
  BY DEF Lp!pwVars, pwVars, Lp!storeVars, storeVars, Lp!Tables, Tables
<1>2. \A phase : Lp!Fresh(phase) = Fresh(phase)
  BY <1>1 DEF Lp!Fresh, Fresh, Lp!NoRows, NoRows
<1>3. /\ Lp!Open(s) <=> Open(s)
      /\ Lp!Commit(s) <=> Commit(s)
      /\ Lp!Abort(s) <=> Abort(s)
      /\ Lp!Drop(s) <=> Drop(s)
  BY <1>1, <1>2 DEF Lp!Open, Open, Lp!Commit, Commit, Lp!Abort, Abort, Lp!Drop, Drop,
                    Lp!storeVars, storeVars
<1>4. Lp!WriteLedger(s, l) <=> WriteLedger(s, l)
  BY <1>1, <1>2 DEF Lp!WriteLedger, WriteLedger, Lp!Stream, Stream, Lp!SentTo, SentTo
<1>5. Lp!CommitStep(s) <=> CommitStep(s)
  BY <1>1, <1>2 DEF Lp!CommitStep, CommitStep, Lp!EndInsert, EndInsert, Lp!EndInsertFails, EndInsertFails,
                    Lp!SendMarkers, SendMarkers, Lp!AckMarkers, AckMarkers, Lp!MarkersFail, MarkersFail,
                    Lp!storeVars, storeVars
<1> QED
  BY <1>1, <1>2, <1>3, <1>4, <1>5

\* Slot s alone changes, into a slot, and no writer but its own.
OnlySlot(s) ==
    /\ slot' \in [Live -> Lp!SlotType] /\ \A t \in Live \ {s} : slot'[t] = slot[t]
    /\ \A w \in Writers \ {s} : writer'[w] = writer[w]
    /\ lake' = lake /\ faults' \in 0..MaxFaults

NoWriter(s) == writer' = [writer EXCEPT ![s] = Fresh("closed")] /\ UNCHANGED storeVars

\* It is between two invocations, or about to read the cursor.
Rests(s) == slot'[s].pc \in {"idle", "cursor"} /\ NoWriter(s)

\* It has read the cursor.
CatchesUp(s) == slot'[s].pc = "loop" /\ slot'[s].next = Lp!FirstLedgerToRead /\ NoWriter(s)

\* It goes through the steps of one ledger.
Proceeds(s) ==
    /\ slot'[s].next = slot[s].next /\ NoWriter(s)
    /\ \/ slot[s].pc = "loop" /\ slot'[s].pc = "process" /\ slot[s].next \in lake
       \/ slot[s].pc = "process" /\ slot'[s].pc = "persist"
       \/ slot[s].pc = "persist" /\ slot'[s].pc = "persist"
       \/ slot[s].pc = "persist" /\ slot'[s].pc = "publish" /\ writer[s].phase = "committed"

GoesOn(s) ==
    slot[s].pc = "publish" /\ slot'[s].pc = "loop" /\ slot'[s].next = slot[s].next + 1 /\ NoWriter(s)

\* Its writer takes a step.
WriterMove(s) ==
    \/ Open(s) \/ Abort(s) \/ CommitStep(s)
    \/ writer[s].ledger_rows = {} /\ WriteLedger(s, slot[s].next)
    \/ writer[s].ledger_rows # {} /\ Commit(s)

Writes(s) == slot[s].pc = "persist" /\ slot'[s] = slot[s] /\ WriterMove(s)

SlotStep(s) == Rests(s) \/ CatchesUp(s) \/ Proceeds(s) \/ GoesOn(s) \/ Writes(s)

LEMMA CursorInRange ==
    ASSUME IngestionAssumption, ledgers \in SUBSET Ledgers
    PROVE  /\ Lp!FirstLedgerToRead \in First..(Last + 1)
           /\ \A l \in ledgers : l < Lp!FirstLedgerToRead
           /\ Lp!FirstLedgerToRead = First \/ Lp!FirstLedgerToRead - 1 \in ledgers
<1>0. First \in Nat \ {0} /\ Last \in Nat /\ First <= Last /\ Ledgers = First..Last
  BY DEF IngestionAssumption, Lp!LedgerProcessorAssumption
<1>1. CASE ledgers = {}
  BY <1>0, <1>1 DEF Lp!FirstLedgerToRead, Lp!MaxSeq
<1>2. CASE ledgers # {}
  <2>1. ledgers \in SUBSET (0..Last)
    BY <1>0
  <2>2. \E m \in ledgers : \A l \in ledgers : l <= m
    BY <1>0, <1>2, <2>1, Greatest
  <2>3. Lp!MaxSeq \in ledgers /\ \A l \in ledgers : l <= Lp!MaxSeq
    BY <1>2, <2>2 DEF Lp!MaxSeq
  <2> DEFINE m == Lp!MaxSeq
  <2>4. m \in First..Last /\ Lp!FirstLedgerToRead = m + 1
    BY <1>0, <2>3 DEF Lp!FirstLedgerToRead
  <2> HIDE DEF m
  <2>5. m + 1 \in First..(Last + 1) /\ (m + 1) - 1 = m
    BY <1>0, <2>4
  <2>6. \A l \in ledgers : l < m + 1
    BY <1>0, <2>3, <2>4 DEF m
  <2> QED
    BY <2>3, <2>4, <2>5, <2>6 DEF m
<1> QED
  BY <1>1, <1>2

LEMMA SlotSteps ==
    ASSUME IngestionAssumption, PWTypeOK, faults \in 0..MaxFaults, LiveTypeOK, NEW s \in Live, SlotFollows(s), SlotMove(s)
    PROVE  OnlySlot(s) /\ SlotStep(s)
<1>0. /\ slot \in [Live -> Lp!SlotType] /\ slot[s] \in Lp!SlotType /\ s \in Writers
      /\ writer \in [Writers -> WriterType]
      /\ First \in Nat /\ Last \in Nat /\ Ledgers = First..Last
  BY DEF IngestionAssumption, LiveTypeOK, PWTypeOK, Lp!LedgerProcessorAssumption
<1> DEFINE Becomes(x) == slot' = [slot EXCEPT ![s] = x]
<1>1. ASSUME NEW x \in Lp!SlotType, Becomes(x)
      PROVE  /\ slot' \in [Live -> Lp!SlotType] /\ \A t \in Live \ {s} : slot'[t] = slot[t]
             /\ slot'[s] = x
  BY <1>0, <1>1
<1>2. faults' = faults \/ Lp!Fault => faults' \in 0..MaxFaults
  BY BackfillAssumption DEF IngestionAssumption, Lp!Fault
<1>3. UNCHANGED pwVars =>
        /\ \A w \in Writers \ {s} : writer'[w] = writer[w]
        /\ slot[s].pc # "persist" => NoWriter(s)
  <2>1. slot[s].pc # "persist" => writer = [writer EXCEPT ![s] = Fresh("closed")]
    BY <1>0 DEF SlotFollows
  <2> QED
    BY <2>1 DEF pwVars, storeVars, NoWriter
<1>4. writer' = [writer EXCEPT ![s] = Fresh("closed")] =>
        /\ \A w \in Writers \ {s} : writer'[w] = writer[w]
        /\ writer'[s] = Fresh("closed")
  BY <1>0
\* The invocation ends.
<1>5. Lp!ReturnOk(s) \/ Lp!ReturnErr(s) => Becomes(Lp!Idle)
  BY DEF Lp!ReturnOk, Lp!ReturnErr
<1>6. Lp!Idle \in Lp!SlotType /\ Lp!Idle.pc = "idle"
  BY RestingSlots
<1>7. CASE Lp!Receive(s, Lp!Later)
  <2>1. Becomes(Received) /\ UNCHANGED <<pwVars, lake, faults>> /\ slot[s].pc = "idle"
    BY <1>7, SameWriter DEF Lp!Receive, Received, Lp!pwVars, pwVars
  <2> QED
    BY <1>1, <1>2, <1>3, <2>1, RestingSlots DEF OnlySlot, SlotStep, Rests
<1>8. CASE Lp!ReadCursor(s)
  <2>1. UNCHANGED <<pwVars, lake, faults>> /\ slot[s].pc = "cursor"
    BY <1>8 DEF Lp!ReadCursor, Lp!pwVars, pwVars
  <2>2. CASE Becomes(Lp!Idle)
    BY <1>1, <1>2, <1>3, <1>6, <2>1, <2>2 DEF OnlySlot, SlotStep, Rests
  <2>3. CASE Becomes(CaughtUp(slot[s], Lp!FirstLedgerToRead))
    <3>1. Lp!FirstLedgerToRead \in First..(Last + 1)
      BY CursorInRange DEF PWTypeOK
    <3> QED
      BY <1>0, <1>1, <1>2, <1>3, <2>1, <2>3, <3>1, CaughtUpSlot DEF OnlySlot, SlotStep, CatchesUp
  <2>4. Becomes(Lp!Idle) \/ Becomes(CaughtUp(slot[s], Lp!FirstLedgerToRead))
    BY <1>0, <1>5, <1>8 DEF Lp!ReadCursor, CaughtUp
  <2> QED
    BY <2>2, <2>3, <2>4
<1>9. CASE Lp!CheckNext(s) \/ Lp!Deadline(s) \/ Lp!StepFails(s)
  <2>1. /\ UNCHANGED <<pwVars, lake>> /\ slot[s].pc \in {"cursor", "loop", "process"}
        /\ faults' = faults \/ Lp!Fault
    BY <1>9 DEF Lp!CheckNext, Lp!Deadline, Lp!StepFails, Lp!pwVars, pwVars
  <2>2. CASE Becomes(Lp!Idle)
    BY <1>1, <1>2, <1>3, <1>6, <2>1, <2>2 DEF OnlySlot, SlotStep, Rests
  <2>3. CASE slot[s].pc = "loop" /\ slot[s].next \in lake /\ Becomes(WentTo(slot[s], "process"))
    BY <1>0, <1>1, <1>2, <1>3, <2>1, <2>3, WentToSlot DEF OnlySlot, SlotStep, Proceeds, SlotPcs
  <2> QED
    BY <1>0, <1>5, <1>9, <2>2, <2>3 DEF Lp!CheckNext, Lp!Deadline, Lp!StepFails, Lp!Goto, WentTo
<1>10. CASE Lp!Process(s)
  <2>1. UNCHANGED <<pwVars, lake, faults>> /\ slot[s].pc = "process" /\ Becomes(Began(slot[s]))
    BY <1>0, <1>10 DEF Lp!Process, Lp!pwVars, pwVars, Began
  <2> QED
    BY <1>0, <1>1, <1>2, <1>3, <2>1, BeganSlot DEF OnlySlot, SlotStep, Proceeds
<1>11. CASE Lp!PersistStep(s)
  <2>1. /\ UNCHANGED <<lake, slot>> /\ slot[s].pc = "persist" /\ WriterMove(s)
        /\ faults' = faults \/ Lp!Fault
    BY <1>11, SameWriter DEF Lp!PersistStep, WriterMove, CommitStep
  <2>2. \A w \in Writers \ {s} : writer'[w] = writer[w]
    BY <1>0, <2>1 DEF WriterMove, Open, Abort, CommitStep, WriteLedger, Commit, EndInsert, EndInsertFails,
                      SendMarkers, AckMarkers, MarkersFail
  <2> QED
    BY <1>0, <1>2, <2>1, <2>2 DEF OnlySlot, SlotStep, Writes
<1>12. CASE Lp!PersistDone(s)
  <2>1. /\ UNCHANGED <<lake, faults, storeVars>> /\ slot[s].pc = "persist" /\ writer[s].phase = "committed"
        /\ Becomes(WentTo(slot[s], "publish")) /\ writer' = [writer EXCEPT ![s] = Fresh("closed")]
    BY <1>0, <1>12, SameWriter DEF Lp!PersistDone, Lp!Goto, WentTo, Drop
  <2> QED
    BY <1>0, <1>1, <1>2, <1>4, <2>1, WentToSlot DEF OnlySlot, SlotStep, Proceeds, SlotPcs, NoWriter
<1>13. CASE Lp!WriteFailed(s) \/ Lp!PrefetchFails(s)
  <2>1. /\ UNCHANGED <<lake, storeVars>> /\ slot[s].pc = "persist" /\ Lp!AttemptEnds(s)
        /\ faults' = faults \/ Lp!Fault
    BY <1>13, SameWriter DEF Lp!WriteFailed, Lp!PrefetchFails, Drop, pwVars, storeVars, Lp!pwVars
  <2>2. NoWriter(s) /\ \A w \in Writers \ {s} : writer'[w] = writer[w]
    <3>1. CASE Lp!WriteFailed(s)
      BY <1>0, <1>4, <3>1, SameWriter DEF Lp!WriteFailed, Drop, NoWriter
    <3>2. CASE Lp!PrefetchFails(s)
      <4>1. writer = [writer EXCEPT ![s] = Fresh("closed")]
        BY <1>0, <3>2 DEF Lp!PrefetchFails, SlotFollows
      <4> QED
        BY <3>2, <4>1 DEF Lp!PrefetchFails, Lp!pwVars, storeVars, NoWriter
    <3> QED
      BY <1>13, <3>1, <3>2
  <2>3. CASE Becomes(Lp!Idle)
    BY <1>1, <1>2, <1>6, <2>1, <2>2, <2>3 DEF OnlySlot, SlotStep, Rests
  <2>4. CASE slot[s].attempt < Retries /\ Becomes(Retried(slot[s], slot[s].attempt + 1))
    <3>1. slot[s].attempt + 1 \in 0..Retries
      BY <1>0, <2>4, SlotFields DEF IngestionAssumption, Lp!LedgerProcessorAssumption
    <3> QED
      BY <1>0, <1>1, <1>2, <2>1, <2>2, <2>4, <3>1, RetriedSlot DEF OnlySlot, SlotStep, Proceeds
  <2> QED
    BY <1>0, <1>5, <2>1, <2>3, <2>4 DEF Lp!AttemptEnds, Retried
<1>14. CASE Lp!PublishEnrichment(s)
  <2>1. /\ UNCHANGED <<pwVars, lake, faults>> /\ slot[s].pc = "publish"
        /\ Becomes(WentOn(slot[s], slot[s].next + 1, slot[s].persisted + 1))
    BY <1>0, <1>14 DEF Lp!PublishEnrichment, WentOn, Lp!pwVars, pwVars
  <2>2. slot[s].next + 1 \in First..(Last + 1) /\ slot[s].persisted + 1 \in Nat
    <3>1. slot[s].next \in First..Last /\ slot[s].persisted \in Nat
      BY <1>0, <2>1, SlotFields DEF SlotFollows, LiveTypeOK
    <3> QED
      BY <1>0, <3>1
  <2> DEFINE x == WentOn(slot[s], slot[s].next + 1, slot[s].persisted + 1)
  <2>3. x \in Lp!SlotType /\ x.pc = "loop" /\ x.next = slot[s].next + 1
    BY <1>0, <2>2, WentOnSlot
  <2> HIDE DEF x
  <2>4. /\ slot' \in [Live -> Lp!SlotType] /\ \A t \in Live \ {s} : slot'[t] = slot[t]
        /\ slot'[s] = x
    BY <1>1, <2>1, <2>3 DEF x
  <2> QED
    BY <1>2, <1>3, <2>1, <2>3, <2>4 DEF OnlySlot, SlotStep, GoesOn
<1>15. CASE Lp!Crash(s)
  <2>1. /\ UNCHANGED <<lake, storeVars>> /\ Becomes(Lp!Idle) /\ Lp!Fault
        /\ writer' = [writer EXCEPT ![s] = Fresh("closed")]
    BY <1>5, <1>15, SameWriter DEF Lp!Crash, Lp!storeVars, storeVars
  <2> QED
    BY <1>1, <1>2, <1>4, <1>6, <2>1 DEF OnlySlot, SlotStep, Rests, NoWriter
<1> QED
  BY <1>7, <1>8, <1>9, <1>10, <1>11, <1>12, <1>13, <1>14, <1>15 DEF SlotMove, Lp!Work

LEMMA SlotStepIsWriterStep ==
    ASSUME IngestionAssumption, PWTypeOK, LiveTypeOK, NEW s \in Live, SlotFollows(s), SlotStep(s)
    PROVE  [PWNext]_pwVars
<1>0. /\ s \in Writers /\ writer \in [Writers -> WriterType] /\ slot[s].next \in Nat
      /\ lake \subseteq Ledgers
  BY SlotFields DEF IngestionAssumption, LiveTypeOK, PWTypeOK, Lp!LedgerProcessorAssumption
<1>1. CASE NoWriter(s)
  <2>1. CASE writer[s].phase = "closed"
    <3>1. writer' = writer
      BY <1>0, <1>1, <2>1 DEF NoWriter, SlotFollows
    <3> QED
      BY <1>1, <3>1 DEF NoWriter, pwVars, storeVars
  <2>2. CASE writer[s].phase # "closed"
    BY <1>0, <1>1, <2>2 DEF NoWriter, Drop, PWNext
  <2> QED
    BY <2>1, <2>2
<1>2. CASE Writes(s)
  <2>1. slot[s].next \in Ledgers
    BY <1>0, <1>2 DEF Writes, SlotFollows
  <2> QED
    BY <1>0, <1>2, <2>1 DEF Writes, WriterMove, PWNext
<1> QED
  BY <1>1, <1>2 DEF SlotStep, Rests, CatchesUp, Proceeds, GoesOn

\* The writer of a slot holds the ledger the slot is at, and sends no other.
LEMMA WriterMoves ==
    ASSUME PWTypeOK, NEW s \in Writers, SlotFollows(s), Writes(s)
    PROVE  /\ ledgers' \cup markers' \subseteq ledgers \cup markers \cup {slot[s].next}
           /\ \/ writer'[s].phase \in {"open", "failed", "rejected"}
                   /\ writer'[s].ledger_rows \subseteq {slot[s].next}
              \/ writer'[s].phase \in {"commit", "marker"} /\ writer'[s].ledger_rows = {slot[s].next}
              \/ /\ writer'[s].phase = "committed" /\ writer'[s].ledger_rows = {}
                 /\ slot[s].next \in ledgers'
<1>0. /\ writer \in [Writers -> WriterType] /\ writer[s] \in WriterType
      /\ writer[s].ledger_rows \subseteq {slot[s].next}
      /\ writer[s].phase \in {"commit", "marker"} => writer[s].ledger_rows = {slot[s].next}
  BY DEF PWTypeOK, SlotFollows
<1>1. \A phase \in {"open", "rejected", "committed"} :
        Fresh(phase).phase = phase /\ Fresh(phase).ledger_rows = {}
  BY DEF Fresh
<1>2. CASE Open(s) \/ Abort(s) \/ EndInsertFails(s) \/ MarkersFail(s)
  <2>1. writer'[s] \in {Fresh("open"), Fresh("rejected")} /\ UNCHANGED storeVars
    BY <1>0, <1>2 DEF Open, Abort, EndInsertFails, MarkersFail
  <2> QED
    BY <1>1, <2>1 DEF storeVars
<1>3. CASE WriteLedger(s, slot[s].next)
  <2>1. PICK S : /\ writer' = [writer EXCEPT
                      ![s].phase = IF S = StagedIn[slot[s].next] THEN "open" ELSE "failed",
                      ![s].inserts = Stream(s, slot[s].next, S),
                      ![s].ledger_rows = @ \cup {slot[s].next}]
                 /\ UNCHANGED <<rows, ledgers, markers>>
    BY <1>3 DEF WriteLedger
  <2> DEFINE i == Stream(s, slot[s].next, S)
             n == slot[s].next
  <2>2. writer' = [writer EXCEPT ![s].phase = IF S = StagedIn[n] THEN "open" ELSE "failed",
                                 ![s].inserts = i, ![s].ledger_rows = @ \cup {n}]
    BY <2>1
  <2> HIDE DEF i, n
  <2>3. writer'[s].phase \in {"open", "failed"} /\ writer'[s].ledger_rows = writer[s].ledger_rows \cup {n}
    BY <1>0, <2>2 DEF WriterType
  <2> QED
    BY <1>0, <2>1, <2>3 DEF n
<1>4. CASE Commit(s) /\ writer[s].ledger_rows # {}
  BY <1>0, <1>4 DEF Commit, WriterType, storeVars
<1>5. CASE EndInsert(s)
  BY <1>0, <1>5 DEF EndInsert, WriterType
<1>6. CASE SendMarkers(s)
  <2>1. writer[s].ledger_rows = {slot[s].next}
    BY <1>0, <1>6 DEF SendMarkers
  <2>2. /\ writer' = [writer EXCEPT ![s].phase = "marker"] /\ ledgers' = ledgers
        /\ markers' = markers \cup writer[s].ledger_rows
    BY <1>6, <2>1 DEF SendMarkers
  <2>3. writer'[s].phase = "marker" /\ writer'[s].ledger_rows = writer[s].ledger_rows
    BY <1>0, <2>2 DEF WriterType
  <2> QED
    BY <2>1, <2>2, <2>3
<1>7. CASE AckMarkers(s)
  BY <1>0, <1>1, <1>7 DEF AckMarkers
<1> QED
  BY <1>2, <1>3, <1>4, <1>5, <1>6, <1>7 DEF Writes, WriterMove, CommitStep

\* The ledger before the one the cursor read names is stored.
LEMMA SlotGoesOn ==
    ASSUME IngestionAssumption, LiveTypeOK, PWTypeOK, Grows,
           NEW s \in Live, SlotFollows(s), OnlySlot(s), SlotStep(s)
    PROVE  SlotFollows(s)'
<1>0. /\ s \in Writers /\ slot[s] \in Lp!SlotType /\ slot[s].next \in First..(Last + 1)
      /\ writer \in [Writers -> WriterType]
      /\ Ledgers = First..Last /\ First \in Nat /\ Last \in Nat /\ lake \subseteq Ledgers
  BY SlotFields DEF IngestionAssumption, LiveTypeOK, PWTypeOK, Lp!LedgerProcessorAssumption
<1>1. Fresh("closed").phase = "closed" /\ Fresh("closed").ledger_rows = {}
  BY DEF Fresh
<1>2. NoWriter(s) => writer'[s] = Fresh("closed") /\ ledgers' = ledgers
  BY <1>0 DEF NoWriter, storeVars
<1>3. lake' = lake
  BY DEF OnlySlot
<1>9. ASSUME NEW n, Follows(n), slot'[s].next = n PROVE Follows(slot[s].next)'
  BY <1>9 DEF Grows, Follows
<1>4. CASE Rests(s)
  BY <1>1, <1>2, <1>4 DEF Rests, SlotFollows
<1>5. CASE CatchesUp(s)
  <2>1. Follows(Lp!FirstLedgerToRead)
    BY CursorInRange DEF PWTypeOK, Follows
  <2>2. Follows(slot[s].next)'
    BY <1>5, <1>9, <2>1 DEF CatchesUp
  <2> QED
    BY <1>1, <1>2, <1>5, <2>2 DEF CatchesUp, SlotFollows
<1>6. CASE Proceeds(s)
  <2>1. Follows(slot[s].next) /\ (slot[s].pc # "loop" => slot[s].next \in lake)
    BY <1>6 DEF Proceeds, SlotFollows
  <2>2. Follows(slot[s].next)'
    BY <1>6, <1>9, <2>1 DEF Proceeds
  <2> QED
    BY <1>1, <1>2, <1>3, <1>6, <2>1, <2>2 DEF Proceeds, SlotFollows
<1>7. CASE GoesOn(s)
  <2>1. slot[s].next \in ledgers /\ slot'[s].next - 1 = slot[s].next
    BY <1>0, <1>7 DEF GoesOn, SlotFollows
  <2>2. Follows(slot[s].next)'
    BY <2>1 DEF Grows, Follows
  <2> QED
    BY <1>1, <1>2, <1>7, <2>2 DEF GoesOn, SlotFollows
<1>8. CASE Writes(s)
  <2>1. slot'[s] = slot[s] /\ slot[s].pc = "persist" /\ Follows(slot[s].next) /\ slot[s].next \in lake
    BY <1>8 DEF Writes, SlotFollows
  <2>2. Follows(slot[s].next)'
    BY <1>9, <2>1
  <2> QED
    BY <1>0, <1>3, <1>8, <2>1, <2>2, WriterMoves DEF SlotFollows
<1> QED
  BY <1>4, <1>5, <1>6, <1>7, <1>8 DEF SlotStep

-----------------------------------------------------------------------------
(* The steps.                                                              *)

\* A writer's steps send, and store, what it holds and nothing else.
LEMMA SentByProcess ==
    ASSUME PWTypeOK, NEW r \in Runs, ProcessStep(r)
    PROVE  ledgers' \cup markers' \subseteq ledgers \cup markers \cup writer[r].ledger_rows
<1>1. CASE Aside(r)
  BY <1>1, AsideKeepsStore DEF pwVars
<1>2. CASE Fails(r)
  BY <1>2, FailsExits DEF Exit, storeVars
<1>3. CASE NextPartition(r) \/ Ingest(r) \/ AbortPartition(r) \/ Committed(r)
  BY <1>3 DEF NextPartition, Open, Ingest, WriteLedger, AbortPartition, Abort, Committed, Drop, storeVars, pwVars
<1>4. CASE CommitPartition(r)
  BY <1>4 DEF CommitPartition, Commit, CommitStep, EndInsert, EndInsertFails, SendMarkers, AckMarkers,
              MarkersFail, storeVars
<1> QED
  BY <1>1, <1>2, <1>3, <1>4, StepKinds

\* A process holds the ledgers it held, or the next one of the partition that
\* it indexes; only a start adds to its runs.
LEMMA HeldByProcess ==
    ASSUME Whole, NEW r \in Runs, ProcessStep(r)
    PROVE  /\ Start(r) \/ run'[r].runs = run[r].runs
           /\ \/ writer'[r].ledger_rows \subseteq writer[r].ledger_rows
              \/ /\ run[r].pc = "index"
                 /\ writer'[r].ledger_rows \subseteq writer[r].ledger_rows \cup run[r].left
<1>0. BackfillTypeOK /\ PWTypeOK /\ r \in Writers /\ InOrder(r) /\ SyncFollows(r)
      /\ writer \in [Writers -> WriterType]
  BY BackfillAssumption DEF Whole, Books, InOrder, BackfillTypeOK, PWTypeOK
<1>1. \A phase \in {"closed", "open", "rejected"} : Fresh(phase).ledger_rows = {}
  BY DEF Fresh
<1>2. CASE Start(r)
  BY <1>0, <1>2, StartMakes DEF pwVars
<1>3. CASE SyncStep(r) \/ SyncFails(r)
  BY <1>0, <1>3, SyncMakes DEF pwVars
<1>4. CASE SkipCompleted(r)
  <2>1. run' = [run EXCEPT ![r].left = @ \ {Least(run[r].left)}] /\ UNCHANGED pwVars
        /\ Least(run[r].left) \in run[r].left
    BY <1>0, <1>4, SkipMakes
  <2>2. run'[r].runs = run[r].runs
    BY <1>0, <2>1, LookedAtMakes
  <2> QED
    BY <2>1, <2>2 DEF pwVars
<1>5. CASE Cleanup(r)
  BY <1>0, <1>5, CleanupMakes DEF pwVars
<1>6. CASE Fails(r)
  BY <1>0, <1>1, <1>6, FailsMakes
<1>7. CASE NextPartition(r)
  <2>1. writer' = [writer EXCEPT ![r] = Fresh("open")] \/ UNCHANGED writer
    BY <1>7 DEF NextPartition, Open, pwVars
  <2>2. run'[r].runs = run[r].runs
    BY <1>0, <1>7, NextPartitionMakes
  <2> QED
    BY <1>0, <1>1, <2>1, <2>2
<1>8. CASE Ingest(r)
  <2>1. /\ run[r].pc = "index" /\ Least(run[r].left) \in run[r].left
        /\ writer'[r].ledger_rows = writer[r].ledger_rows \cup {Least(run[r].left)}
        /\ UNCHANGED run \/ run' = [run EXCEPT ![r].left = @ \ {Least(run[r].left)}]
    BY <1>0, <1>8, IngestMakes DEF Ingest
  <2>2. run'[r].runs = run[r].runs
    BY <1>0, <2>1, LookedAtMakes
  <2> QED
    BY <2>1, <2>2
<1>9. CASE AbortPartition(r) \/ CommitPartition(r)
  <2>1. UNCHANGED run
    BY <1>0, <1>9, CommitMakes
  <2>2. writer'[r].ledger_rows \subseteq writer[r].ledger_rows
    BY <1>0, <1>1, <1>9, CommitMakes DEF Fresh
  <2> QED
    BY <2>1, <2>2
<1>10. CASE Committed(r)
  BY <1>0, <1>1, <1>10, CommittedMakes
<1> QED
  BY <1>2, <1>3, <1>4, <1>5, <1>6, <1>7, <1>8, <1>9, <1>10, StepKinds DEF Aside

\* The process that takes the step stages ledgers of its range, once started.
LEMMA RangeGoesOn ==
    ASSUME Whole, NEW r \in Runs, RangeFollows(r), ProcessStep(r)
    PROVE  RangeFollows(r)'
<1>0. SyncFollows(r) /\ WriterFollows(r) /\ BackfillTypeOK /\ run[r].runs \in Nat
  BY RunFields DEF Whole, Books, InOrder, BackfillTypeOK
<1>1. CASE Start(r)
  <2>1. run'[r].runs = run[r].runs + 1 /\ writer'[r] = writer[r]
    BY <1>0, <1>1, StartMakes DEF pwVars
  <2> QED
    BY <1>0, <2>1 DEF RangeFollows
<1>2. CASE ~ Start(r)
  <2>1. run'[r].runs = run[r].runs
    BY <1>2, HeldByProcess
  <2>2. /\ writer'[r].ledger_rows \subseteq Asked[r]
        /\ writer'[r].ledger_rows # {} => run[r].runs > 0
    BY <1>0, HeldByProcess DEF RangeFollows, SyncFollows, Clamped
  <2> QED
    BY <2>1, <2>2 DEF RangeFollows
<1> QED
  BY <1>1, <1>2

\* No writer but its own is touched by a process.
LEMMA OthersWriters ==
    ASSUME PWTypeOK, NEW r \in Runs, ProcessStep(r)
    PROVE  \A w \in Writers \ {r} : writer'[w] = writer[w]
<1>0. r \in Writers /\ writer \in [Writers -> WriterType]
  BY BackfillAssumption DEF PWTypeOK
<1>1. CASE Aside(r)
  BY <1>1, AsideKeepsStore DEF pwVars
<1>2. CASE Fails(r)
  BY <1>0, <1>2, FailsExits DEF Exit
<1>3. CASE NextPartition(r) \/ Ingest(r) \/ AbortPartition(r) \/ Committed(r)
  BY <1>0, <1>3 DEF NextPartition, Open, Ingest, WriteLedger, AbortPartition, Abort, Committed, Drop, pwVars
<1>4. CASE CommitPartition(r)
  BY <1>0, <1>4 DEF CommitPartition, Commit, CommitStep, EndInsert, EndInsertFails, SendMarkers, AckMarkers,
              MarkersFail
<1> QED
  BY <1>1, <1>2, <1>3, <1>4, StepKinds

LEMMA RunMoves ==
    ASSUME IngestionAssumption, Whole, InStep, NEW r \in Runs, ProcessStep(r), UNCHANGED liveVars
    PROVE  Whole' /\ InStep' /\ [PWNext]_pwVars
<1>1. Whole' /\ [PWNext]_pwVars
  BY ProcessMoves
<1>2. /\ DoneIsStored /\ DoneIsStored' /\ BackfillTypeOK /\ PWTypeOK
      /\ ledgers \subseteq ledgers' /\ Others(r)
  BY <1>1, WholeIsDone, LedgersGrow, StepInOrder DEF Whole, Books, BackfillTypeOK
<1>3. \A q \in Runs : run'[q].runs >= run[q].runs /\ run[q].runs \in Nat /\ run'[q].runs \in Nat
  <2>1. \A q \in Runs : run[q].runs \in Nat /\ run'[q].runs \in Nat
    BY <1>1, RunFields DEF Whole, Books, BackfillTypeOK
  <2>2. run'[r].runs >= run[r].runs
    BY <1>2, FilesTouched DEF Whole, Books
  <2> QED
    BY <1>2, <2>1, <2>2 DEF Others
<1>4. Grows
  BY <1>2, <1>3 DEF Grows
<1>5. \A l \in ledgers' \cup markers' : Follows(l)'
  <2>1. \A l \in ledgers \cup markers \cup writer[r].ledger_rows : Follows(l)
    BY DEF InStep, RangeFollows, Follows
  <2> QED
    BY <1>2, <1>4, <2>1, SentByProcess, FollowsStays
<1>6. \A q \in Runs : RangeFollows(q)'
  BY <1>2, <1>4, RangeRests, RangeGoesOn DEF InStep, Others
<1>7. \A s \in Live : SlotFollows(s)'
  <2>1. \A s \in Live : slot'[s] = slot[s] /\ writer'[s] = writer[s] /\ lake' = lake
    <3>1. \A s \in Live : s \in Writers /\ s # r
      BY DEF IngestionAssumption
    <3>2. \A w \in Writers \ {r} : writer'[w] = writer[w]
      BY <1>2, OthersWriters
    <3> QED
      BY <3>1, <3>2 DEF liveVars
  <2> QED
    BY <1>2, <1>4, <2>1, SlotRests DEF InStep
<1>8. LiveTypeOK'
  BY DEF InStep, LiveTypeOK, liveVars
<1> QED
  BY <1>1, <1>5, <1>6, <1>7, <1>8 DEF InStep

\* Steps that leave the slots and the writers alone, and send nothing new.
LEMMA QuietMoves ==
    ASSUME InStep, UNCHANGED <<slot, writer, run>>,
           lake' \subseteq Ledgers, lake \subseteq lake', ledgers \subseteq ledgers',
           ledgers' \cup markers' \subseteq ledgers \cup markers
    PROVE  InStep'
<1>1. Grows
  BY DEF Grows
<1>2. \A l \in ledgers' \cup markers' : Follows(l)'
  BY <1>1, FollowsStays DEF InStep
<1>3. \A s \in Live : SlotFollows(s)'
  BY <1>1, SlotRests DEF InStep
<1>4. \A r \in Runs : RangeFollows(r)'
  BY <1>1, RangeRests DEF InStep
<1> QED
  BY <1>2, <1>3, <1>4 DEF InStep, LiveTypeOK

LEMMA SlotMoves ==
    ASSUME IngestionAssumption, Whole, InStep, NEW s \in Live, SlotMove(s), UNCHANGED <<archive, files, run, sync>>
    PROVE  Whole' /\ InStep' /\ [PWNext]_pwVars
<1>0. PWTypeOK /\ BackfillTypeOK /\ LiveTypeOK /\ SlotFollows(s) /\ faults \in 0..MaxFaults
      /\ s \in Writers /\ \A r \in Runs : r \in Writers /\ r # s
  BY BackfillAssumption DEF IngestionAssumption, Whole, Books, BackfillTypeOK, InStep
<1>1. OnlySlot(s) /\ SlotStep(s)
  BY <1>0, SlotSteps
<1>2. [PWNext]_pwVars
  BY <1>0, <1>1, SlotStepIsWriterStep
<1>3. Whole'
  BY <1>0, <1>1, <1>2, StoreMoves DEF OnlySlot
<1>4. Grows
  BY <1>2, LedgersGrow DEF Whole, Books, Grows
<1>5. \A l \in ledgers' \cup markers' : Follows(l)'
  <2>1. CASE UNCHANGED storeVars
    BY <1>4, <2>1, FollowsStays DEF InStep, storeVars
  <2>2. CASE Writes(s)
    <3>1. ledgers' \cup markers' \subseteq ledgers \cup markers \cup {slot[s].next}
      BY <1>0, <2>2, WriterMoves
    <3>2. Follows(slot[s].next)
      BY <1>0, <2>2 DEF Writes, SlotFollows
    <3> QED
      BY <1>4, <3>1, <3>2, FollowsStays DEF InStep
  <2> QED
    BY <1>1, <2>1, <2>2 DEF SlotStep, Rests, CatchesUp, Proceeds, GoesOn, NoWriter
<1>6. \A t \in Live : SlotFollows(t)'
  <2>1. SlotFollows(s)'
    BY <1>0, <1>1, <1>4, SlotGoesOn DEF InStep
  <2>2. ASSUME NEW t \in Live \ {s} PROVE SlotFollows(t)'
    <3>1. slot'[t] = slot[t] /\ writer'[t] = writer[t] /\ lake' = lake
      BY <1>1 DEF IngestionAssumption, OnlySlot
    <3> QED
      BY <1>4, <3>1, SlotRests DEF InStep
  <2> QED
    BY <2>1, <2>2
<1>7. \A r \in Runs : RangeFollows(r)'
  BY <1>0, <1>1, <1>4, RangeRests DEF InStep, OnlySlot
<1>8. LiveTypeOK'
  BY <1>0, <1>1 DEF OnlySlot, LiveTypeOK
<1> QED
  BY <1>2, <1>3, <1>5, <1>6, <1>7, <1>8 DEF InStep

LEMMA IngestionInitInv ==
    ASSUME IngestionAssumption
    PROVE  IngestionInit => PWInit /\ Whole /\ InStep
<1> SUFFICES ASSUME IngestionInit PROVE PWInit /\ Whole /\ InStep
  OBVIOUS
<1>1. PWInit /\ Whole
  BY BackfillInitInv DEF IngestionInit
<1>2. /\ lake = {} /\ slot = [s \in Live |-> Lp!Idle] /\ markers = {} /\ Live \subseteq Writers
      /\ writer = [w \in Writers |-> Fresh("closed")] /\ run = [r \in Runs |-> IdleRun]
      /\ Runs \subseteq Writers
  BY BackfillAssumption DEF IngestionAssumption, IngestionInit, LiveInit, BackfillInit, StoreHolds
<1>3. Fresh("closed").phase = "closed" /\ Fresh("closed").ledger_rows = {} /\ IdleRun.runs = 0
  BY DEF Fresh, IdleRun
<1>4. LiveTypeOK
  BY <1>2, RestingSlots DEF LiveTypeOK
<1>5. \A s \in Live : SlotFollows(s)
  BY <1>2, <1>3, RestingSlots DEF SlotFollows
<1>6. \A r \in Runs : RangeFollows(r)
  BY <1>2, <1>3 DEF RangeFollows
<1>7. ASSUME NEW l \in ledgers PROVE Follows(l)
  <2>1. PICK n \in (First - 1)..Last : ledgers = First..n
    BY DEF IngestionInit
  <2>2. Ledgers = First..Last /\ First \in Nat /\ Last \in Nat
    BY DEF IngestionAssumption, Lp!LedgerProcessorAssumption
  <2> QED
    BY <1>7, <2>1, <2>2 DEF Follows
<1>8. \A l \in ledgers \cup markers : Follows(l)
  BY <1>2, <1>7
<1> QED
  BY <1>1, <1>4, <1>5, <1>6, <1>8 DEF InStep

LEMMA IngestionNextInv ==
    ASSUME IngestionAssumption
    PROVE  Whole /\ InStep /\ [IngestionNext]_ingestionVars => Whole' /\ InStep' /\ [PWNext]_pwVars
<1> SUFFICES ASSUME Whole, InStep, [IngestionNext]_ingestionVars
             PROVE  Whole' /\ InStep' /\ [PWNext]_pwVars
  OBVIOUS
<1>0. lake \subseteq Ledgers /\ faults \in 0..MaxFaults
  BY DEF InStep, LiveTypeOK, Whole, Books, BackfillTypeOK
<1>1. CASE UNCHANGED ingestionVars
  <2>1. UNCHANGED backfillVars /\ UNCHANGED liveVars
    BY <1>1 DEF ingestionVars
  <2>2. Whole' /\ [PWNext]_pwVars
    BY <2>1, BackfillNextInv
  <2>3. UNCHANGED <<slot, writer, run, lake, ledgers, markers>>
    BY <2>1 DEF backfillVars, liveVars, pwVars, brVars
  <2> QED
    BY <1>0, <2>2, <2>3, QuietMoves
<1>2. CASE ServerLands
  <2>1. Land /\ UNCHANGED brVars /\ UNCHANGED liveVars
    BY <1>2 DEF ServerLands
  <2>2. Whole' /\ [PWNext]_pwVars
    BY <2>1, BackfillNextInv DEF BackfillNext
  <2>3. UNCHANGED <<slot, writer, run, lake>> /\ ledgers \subseteq ledgers'
        /\ ledgers' \cup markers' \subseteq ledgers \cup markers
    BY <2>1 DEF Land, LandMarkers, LandRows, liveVars, brVars
  <2> QED
    BY <1>0, <2>2, <2>3, QuietMoves
<1>3. CASE LiveStep
  <2>1. UNCHANGED <<archive, files, run, sync>>
    BY <1>3 DEF LiveStep
  <2>2. CASE Lp!LaterFileLands \/ \E l \in Ledgers : FileLands(l)
    <3>1. UNCHANGED <<pwVars, slot, faults>> /\ lake \subseteq lake' /\ lake' \subseteq Ledgers
      BY <1>0, <2>2 DEF Lp!LaterFileLands, FileLands, Lp!pwVars, pwVars
    <3>2. Whole'
      BY <1>0, <2>1, <3>1, StoreMoves DEF pwVars
    <3> QED
      BY <2>1, <3>1, <3>2, QuietMoves DEF pwVars
  <2>3. CASE \E s \in Live : SlotMove(s)
    BY <2>1, <2>3, SlotMoves
  <2> QED
    BY <1>3, <2>2, <2>3 DEF LiveStep, SlotMove
<1>4. CASE RunStep
  <2>1. UNCHANGED liveVars
    BY <1>4 DEF RunStep
  <2>2. CASE \E l \in Ledgers : ArchiveLands(l)
    <3>1. Whole' /\ UNCHANGED pwVars /\ UNCHANGED run
      BY <2>2, ArchiveMoves DEF ArchiveLands
    <3> QED
      BY <1>0, <2>1, <3>1, QuietMoves DEF liveVars, pwVars
  <2>3. ASSUME NEW r \in Runs, ProcessStep(r) PROVE Whole' /\ InStep' /\ [PWNext]_pwVars
    BY <2>1, <2>3, RunMoves
  <2> QED
    BY <1>4, <2>2, <2>3 DEF RunStep, ProcessStep
<1> QED
  BY <1>1, <1>2, <1>3, <1>4 DEF IngestionNext

\* The inductive invariant of the indexer beside the backfill.
THEOREM IngestionInvariant ==
    ASSUME IngestionAssumption
    PROVE  IngestionSpec => []IngestionInv
  BY IngestionInitInv, IngestionNextInv, IngestionInvParts, PTL DEF IngestionSpec

\* The indexer and the backfill write one store, and to a reader it still is
\* the atomic store of LedgerStore.
THEOREM SharedStore ==
    ASSUME IngestionAssumption
    PROVE  IngestionSpec => ImplementsStore
<1>1. IngestionSpec => PWSpec
  BY IngestionInitInv, IngestionNextInv, PTL DEF IngestionSpec, PWSpec
<1> QED
  BY <1>1, Refinement, PTL

\* Whatever the indexer and the processes do, whatever fails and whatever lands
\* late: a hole ends at a ledger that a process was started for, where its range
\* begins or below a ledger that is its own to store, or that it has reported
\* (reconcile of handler/mod.rs with execute() of run.rs).
THEOREM NoHoleIsLost ==
    ASSUME IngestionAssumption
    PROVE  IngestionSpec => []HolesAreOwned
<1>1. IngestionInv => HolesAreOwned
  <2> SUFFICES ASSUME IngestionInv, NEW l \in ledgers, l # First, l - 1 \notin ledgers
               PROVE  \E r \in Runs : MayLeaveOut(r, l)
    BY DEF HolesAreOwned
  <2>1. PICK r \in Runs : l \in Asked[r] /\ run[r].runs > 0
    BY DEF IngestionInv, Follows
  <2>2. DoneIsStored
    BY DEF IngestionInv, BackfillInv
  <2> QED
    BY <2>1, <2>2 DEF DoneIsStored, MayLeaveOut
<1> QED
  BY <1>1, IngestionInvariant, PTL
=============================================================================
