--------------------------- MODULE BackfillRunner ---------------------------
(***************************************************************************)
(* `backfill-runner run`: K processes re-ingest ranges of history from the *)
(* public archive (crates/backfill-runner/src/run.rs, sync.rs, ingest.rs). *)
(*                                                                         *)
(* A process walks the archive partitions of its range.  While it indexes  *)
(* one through a single PartitionWriter, a task downloads the next one; a  *)
(* partition is indexed only when a full copy is on disk, and its folder   *)
(* is deleted afterwards.  Any process may be killed, panic or return an   *)
(* error at any step, and an operator runs it again.                       *)
(*                                                                         *)
(* A process writes through a writer of its own name; other writers, as    *)
(* the live indexer's, may use the store beside them.                      *)
(***************************************************************************)
EXTENDS PartitionWriter

CONSTANTS
    Runs,           \* the processes: writers that belong to a backfill
    PartitionSize,  \* ledgers of an archive partition (64 000)
    FirstClosed,    \* FIRST_CLOSED_LEDGER: the genesis partition starts there
    Asked,          \* Asked[r]: the ledgers start..end process r is asked for
    TempDir,        \* TempDir[r]: its scratch directory
    Reindex,        \* the processes started with --reindex
    KeepPartitions, \* the processes started with --keep-partitions
    MaxFaults,      \* bound: errors, crashes and swallowed downloads
    MaxRuns         \* bound: times an operator starts each process

PartitionOf(l) == l - (l % PartitionSize)
Partitions == {PartitionOf(l) : l \in Ledgers}
FilesOf(p) == {l \in Ledgers : PartitionOf(l) = p}
Dirs == {TempDir[r] : r \in Runs}

ASSUME BackfillAssumption ==
    /\ Runs \subseteq Writers
    /\ PartitionSize \in Nat \ {0}
    /\ Asked \in [Runs -> SUBSET Ledgers]
    /\ \A p \in Partitions : \A l \in p..(p + PartitionSize - 1) :
         l \in Ledgers <=> l >= FirstClosed
    /\ Reindex \subseteq Runs /\ KeepPartitions \subseteq Runs
    /\ MaxFaults \in Nat /\ MaxRuns \in Nat

VARIABLES
    archive,  \* ledgers whose file is in the public archive
    files,    \* files[d]: ledger files in scratch directory d
    run,      \* run[r]: the main task of process r
    sync,     \* sync[r]: its sync_partition task, at most one in flight
    faults    \* faults so far

brVars == <<archive, files, run, sync, faults>>
backfillVars == <<pwVars, brVars>>

-----------------------------------------------------------------------------
Least(S) == CHOOSE m \in S : \A x \in S : m <= x

\* Partition::clamped: what process r owes of partition p.
Clamped(r, p) == Asked[r] \cap FilesOf(p)

\* todo: partitions not handled yet.  part: the one being handled.  left: its
\* ledgers not looked at yet.  completed: `ledgers` as the run found it; whole:
\* the partitions then in todo of which the archive had every file.  skipped:
\* partitions given up as S3Incomplete.
IdleRun == [pc |-> "idle", runs |-> 0, todo |-> {}, part |-> 0, left |-> {},
            completed |-> {}, whole |-> {}, skipped |-> {}]

RunType == [pc : {"idle", "await", "index", "cleanup", "done", "failed"},
            runs : 0..MaxRuns, todo : SUBSET Partitions, part : Partitions \cup {0},
            left : SUBSET Ledgers, completed : SUBSET Ledgers,
            whole : SUBSET Partitions, skipped : SUBSET Partitions]

\* A sync_partition call, step by step, and the outcome it returns.
NoSync == [st |-> "none", part |-> 0]
Syncing(p) == [st |-> "begin", part |-> p]
SyncType == [st : {"none", "begin", "synced", "short", "resynced",
                   "Complete", "S3Incomplete", "Err"},
             part : Partitions \cup {0}]

BackfillInit ==
    /\ \E seeded \in SUBSET Ledgers : StoreHolds(seeded)
    /\ writer = [w \in Writers |-> Fresh("closed")]
    /\ archive \in SUBSET Ledgers
    /\ files = [d \in Dirs |-> {}]
    /\ run = [r \in Runs |-> IdleRun]
    /\ sync = [r \in Runs |-> NoSync]
    /\ faults = 0

Fault == faults < MaxFaults /\ faults' = faults + 1

Dir(r) == TempDir[r]
Local(r) == files[Dir(r)] \cap FilesOf(sync[r].part)
Need(r) == Cardinality(FilesOf(sync[r].part))

-----------------------------------------------------------------------------
\* The archive only grows.
ArchiveLands(l) ==
    /\ l \notin archive
    /\ archive' = archive \cup {l}
    /\ UNCHANGED <<pwVars, files, run, sync, faults>>

\* partition_fully_done.
FullyDone(r, p, completed) == Clamped(r, p) \subseteq completed

\* execute(): the resume set is loaded once, partitions whose clamped range is
\* in it are dropped, and the first of the others is synced in the foreground.
Start(r) ==
    LET completed == IF r \in Reindex THEN {} ELSE ledgers \cap Asked[r]
        todo == {p \in Partitions : Clamped(r, p) # {} /\ ~ FullyDone(r, p, completed)}
    IN  /\ run[r].pc \in {"idle", "done", "failed"}
        /\ run[r].runs < MaxRuns
        /\ run' = [run EXCEPT ![r] = [IdleRun EXCEPT
                     !.pc = IF todo = {} THEN "done" ELSE "await",
                     !.runs = run[r].runs + 1, !.todo = todo,
                     !.completed = completed,
                     !.whole = {p \in todo : FilesOf(p) \subseteq archive}]]
        /\ sync' = [sync EXCEPT ![r] = IF todo = {} THEN NoSync ELSE Syncing(Least(todo))]
        /\ UNCHANGED <<pwVars, archive, files, faults>>

-----------------------------------------------------------------------------
(* sync_partition.                                                         *)

SyncTo(r, st) ==
    /\ sync' = [sync EXCEPT ![r].st = st]
    /\ UNCHANGED <<pwVars, archive, run>>

\* local_partition_complete: a full folder is not synced again.
AlreadyComplete(r) ==
    /\ sync[r].st = "begin"
    /\ Cardinality(Local(r)) = Need(r)
    /\ SyncTo(r, "Complete")
    /\ UNCHANGED <<files, faults>>

\* `aws s3 sync` exits 0.  It copies what the archive holds, and a swallowed
\* local problem may leave some of it behind.
Download(r) ==
    LET there == archive \cap FilesOf(sync[r].part) IN
    /\ sync[r].st \in {"begin", "short"}
    /\ sync[r].st = "begin" => Cardinality(Local(r)) # Need(r)
    /\ \E got \in SUBSET there :
         /\ files' = [files EXCEPT ![Dir(r)] = @ \cup got]
         /\ IF there \subseteq Local(r) \cup got THEN UNCHANGED faults ELSE Fault
    /\ SyncTo(r, IF sync[r].st = "begin" THEN "synced" ELSE "resynced")

\* Mutant of CountFiles: the folder is compared with the archive, not with
\* Partition::ledger_count.
CountFilesOfArchive(r) ==
    /\ sync[r].st = "synced"
    /\ Local(r) = archive \cap FilesOf(sync[r].part)
    /\ SyncTo(r, "Complete")
    /\ UNCHANGED <<files, faults>>

\* dir_stats against Partition::ledger_count.
CountFiles(r) ==
    /\ sync[r].st = "synced"
    /\ Cardinality(Local(r)) = Need(r)
    /\ SyncTo(r, "Complete")
    /\ UNCHANGED <<files, faults>>

\* Mutant of ProbeArchive: any short copy is taken for archive lag.
ProbeArchiveNever(r) ==
    /\ sync[r].st = "synced"
    /\ Cardinality(Local(r)) # Need(r)
    /\ SyncTo(r, "S3Incomplete")
    /\ UNCHANGED <<files, faults>>

\* object_count: fewer files on S3 than the whole partition is archive lag.
ProbeArchive(r) ==
    /\ sync[r].st = "synced"
    /\ Cardinality(Local(r)) # Need(r)
    /\ SyncTo(r, IF Cardinality(archive \cap FilesOf(sync[r].part)) < Need(r)
                   THEN "S3Incomplete" ELSE "short")
    /\ UNCHANGED <<files, faults>>

CountAgain(r) ==
    /\ sync[r].st = "resynced"
    /\ SyncTo(r, IF Cardinality(Local(r)) = Need(r) THEN "Complete" ELSE "Err")
    /\ UNCHANGED <<files, faults>>

SyncFails(r) ==
    /\ sync[r].st \in {"begin", "synced", "short", "resynced"}
    /\ Fault
    /\ SyncTo(r, "Err")
    /\ UNCHANGED files

SyncStep(r) ==
    AlreadyComplete(r) \/ Download(r) \/ CountFiles(r) \/ ProbeArchive(r) \/ CountAgain(r)

-----------------------------------------------------------------------------
(* The loop over partitions.                                               *)

\* The outcome of the current partition arrives and the next one is spawned.
NextPartition(r) ==
    LET p == sync[r].part
        rest == run[r].todo \ {p}
        complete == sync[r].st = "Complete"
        skipped == run[r].skipped \cup IF complete THEN {} ELSE {p}
    IN  /\ run[r].pc = "await"
        /\ sync[r].st \in {"Complete", "S3Incomplete"}
        /\ run' = [run EXCEPT ![r] = [run[r] EXCEPT
                     !.pc = IF complete THEN "index" ELSE "cleanup",
                     !.part = p, !.todo = rest,
                     !.left = IF complete THEN Clamped(r, p) ELSE {},
                     !.skipped = skipped]]
        /\ sync' = [sync EXCEPT ![r] = IF rest = {} THEN NoSync ELSE Syncing(Least(rest))]
        /\ IF complete THEN Open(r) ELSE UNCHANGED pwVars
        /\ UNCHANGED <<archive, files, faults>>

\* The process ends; the runtime drops its sync task and its writer.
Exit(r, pc) ==
    /\ run' = [run EXCEPT ![r].pc = pc]
    /\ sync' = [sync EXCEPT ![r] = NoSync]
    /\ writer' = [writer EXCEPT ![r] = Fresh("closed")]
    /\ UNCHANGED storeVars

SyncErr(r) ==
    /\ run[r].pc = "await"
    /\ sync[r].st = "Err"
    /\ Exit(r, "failed")
    /\ UNCHANGED <<archive, files, faults>>

\* drop_indexed_file; a file that cannot be removed is only warned about.
Unlink(r, l) ==
    \/ /\ files' = IF r \in KeepPartitions THEN files ELSE [files EXCEPT ![Dir(r)] = @ \ {l}]
       /\ UNCHANGED faults
    \/ r \notin KeepPartitions /\ l \in files[Dir(r)] /\ Fault /\ UNCHANGED files

\* Mutant of SkipCompleted: the resume set is read as a high-water mark.
SkipBelowMark(r) ==
    /\ run[r].pc = "index" /\ run[r].left # {}
    /\ LET l == Least(run[r].left) IN
         /\ \E c \in run[r].completed : l <= c
         /\ Unlink(r, l)
         /\ run' = [run EXCEPT ![r].left = @ \ {l}]
    /\ UNCHANGED <<pwVars, archive, sync>>

\* The next ledger of the partition was stored when the run started.
SkipCompleted(r) ==
    /\ run[r].pc = "index" /\ run[r].left # {}
    /\ LET l == Least(run[r].left) IN
         /\ l \in run[r].completed
         /\ Unlink(r, l)
         /\ run' = [run EXCEPT ![r].left = @ \ {l}]
    /\ UNCHANGED <<pwVars, archive, sync>>

\* assert!(path.exists()): the process panics.
Panic(r) ==
    /\ run[r].pc = "index" /\ run[r].left # {}
    /\ writer[r].phase = "open"
    /\ LET l == Least(run[r].left) IN l \notin run[r].completed /\ l \notin files[Dir(r)]
    /\ Exit(r, "failed")
    /\ UNCHANGED <<archive, files, faults>>

\* ingest_ledger_from_file, and its file is dropped when that succeeded.
Ingest(r) ==
    /\ run[r].pc = "index" /\ run[r].left # {}
    /\ LET l == Least(run[r].left) IN
         /\ l \notin run[r].completed
         /\ l \in files[Dir(r)]
         /\ WriteLedger(r, l)
         /\ IF writer'[r].phase = "open"
              THEN /\ Unlink(r, l)
                   /\ run' = [run EXCEPT ![r].left = @ \ {l}]
              ELSE Fault /\ UNCHANGED <<files, run>>
    /\ UNCHANGED <<archive, sync>>

AbortPartition(r) ==
    /\ run[r].pc = "index"
    /\ writer[r].phase = "failed"
    /\ Abort(r)
    /\ UNCHANGED brVars

CommitPartition(r) ==
    /\ run[r].pc = "index" /\ run[r].left = {}
    /\ \/ Commit(r) /\ UNCHANGED faults
       \/ /\ CommitStep(r)
          /\ IF writer'[r].phase = "rejected" THEN Fault ELSE UNCHANGED faults
    /\ UNCHANGED <<archive, files, run, sync>>

\* index_partition returned Err: so does execute(), and the process ends.
PartitionErr(r) ==
    /\ run[r].pc = "index"
    /\ writer[r].phase = "rejected"
    /\ Exit(r, "failed")
    /\ UNCHANGED <<archive, files, faults>>

Committed(r) ==
    /\ run[r].pc = "index"
    /\ writer[r].phase = "committed"
    /\ Drop(r)
    /\ run' = [run EXCEPT ![r].pc = "cleanup"]
    /\ UNCHANGED <<archive, files, sync, faults>>

\* Mutant of Cleanup: it waits for a prefetch after the last partition too.
CleanupAndWait(r) ==
    /\ run[r].pc = "cleanup"
    /\ files' = [files EXCEPT ![Dir(r)] = @ \ FilesOf(run[r].part)]
    /\ run' = [run EXCEPT ![r].pc = "await"]
    /\ UNCHANGED <<pwVars, archive, sync, faults>>

\* cleanup_partition_folder, then on to the prefetched partition or the end.
Cleanup(r) ==
    /\ run[r].pc = "cleanup"
    /\ files' = IF r \in KeepPartitions THEN files
                ELSE [files EXCEPT ![Dir(r)] = @ \ FilesOf(run[r].part)]
    /\ run' = [run EXCEPT ![r].pc = IF sync[r].st = "none" THEN "done" ELSE "await"]
    /\ UNCHANGED <<pwVars, archive, sync, faults>>

\* remove_dir_all returns an error, or the process dies inside it: some of
\* the folder is left.
CleanupFails(r) ==
    /\ run[r].pc = "cleanup" /\ r \notin KeepPartitions
    /\ Fault
    /\ \E gone \in SUBSET FilesOf(run[r].part) :
         files' = [files EXCEPT ![Dir(r)] = @ \ gone]
    /\ Exit(r, "failed")
    /\ UNCHANGED archive

\* The process is killed, or its machine goes down.
Crash(r) ==
    /\ run[r].pc \in {"await", "index", "cleanup"}
    /\ Fault
    /\ Exit(r, "failed")
    /\ UNCHANGED <<archive, files>>

-----------------------------------------------------------------------------
Step(r) ==
    \/ NextPartition(r) \/ SyncErr(r) \/ SkipCompleted(r) \/ Panic(r) \/ Ingest(r)
    \/ AbortPartition(r) \/ CommitPartition(r) \/ PartitionErr(r) \/ Committed(r)
    \/ Cleanup(r)

BackfillNext ==
    \/ Land /\ UNCHANGED brVars
    \/ \E l \in Ledgers : ArchiveLands(l)
    \/ \E r \in Runs :
         Start(r) \/ Step(r) \/ SyncStep(r) \/ SyncFails(r) \/ CleanupFails(r) \/ Crash(r)

BackfillSpec == BackfillInit /\ [][BackfillNext]_backfillVars

\* A started process runs, and so does its sync task; nothing else is assumed.
FairBackfill ==
    /\ BackfillSpec
    /\ \A r \in Runs : WF_backfillVars(Step(r)) /\ WF_backfillVars(SyncStep(r))

-----------------------------------------------------------------------------
BackfillTypeOK ==
    /\ PWTypeOK
    /\ archive \in SUBSET Ledgers
    /\ files \in [Dirs -> SUBSET Ledgers]
    /\ run \in [Runs -> RunType]
    /\ sync \in [Runs -> SyncType]
    /\ faults \in 0..MaxFaults

\* No other process that was ever started has the scratch directory of r.
Alone(r) == \A q \in Runs \ {r} : TempDir[q] = TempDir[r] => run[q].runs = 0

\* The assertion of ingest.rs ("ledger file missing post-sync") will hold.
FilesAreThere(r) ==
    run[r].pc = "index" => run[r].left \ run[r].completed \subseteq files[Dir(r)]

(***************************************************************************)
(* sync_partition returns Complete only for a partition that can be        *)
(* indexed: no process ever panics on "ledger file missing post-sync",     *)
(* whatever an earlier run of it, its prefetch or a swallowed download     *)
(* left on disk, as long as the directory is its own.                      *)
(***************************************************************************)
NoMissingFile == \A r \in Runs : Alone(r) => FilesAreThere(r)

(***************************************************************************)
(* A run that ends Ok has stored every ledger of its range, but for the    *)
(* partitions it reported as "skipped (S3)", and none of these was whole   *)
(* in the archive when the run began: the resume filter, the skip of       *)
(* completed ledgers and the single commit at the end lose nothing, and a  *)
(* download that is short of the archive is never taken for archive lag.   *)
(***************************************************************************)
DoneIsStored ==
    \A r \in Runs : run[r].pc = "done" =>
        \A l \in Asked[r] : l \in ledgers \/ PartitionOf(l) \in run[r].skipped \ run[r].whole

(***************************************************************************)
(* A file is deleted as soon as its ledger is staged, long before the      *)
(* partition is committed ("safe to delete this early").  So a ledger of   *)
(* the partition that has no file left to come back to is stored already,  *)
(* or in a writer that will store it or lose the whole partition.  (And    *)
(* every variable has its type.)                                           *)
(***************************************************************************)
ReleasedIsHeld ==
    /\ BackfillTypeOK
    /\ \A r \in Runs :
         run[r].pc = "index" /\ writer[r].phase \in Accepting \cup {"committed"} =>
             \A l \in Clamped(r, run[r].part) \ run[r].left :
                 l \in ledgers \/ l \in writer[r].ledger_rows

(***************************************************************************)
(* A download that stays short of the archive is tried twice and no more,  *)
(* and no run waits for a prefetch that was never started: once it waits   *)
(* for a partition, it comes to an end, Ok or not.                         *)
(***************************************************************************)
RunEnds == \A r \in Runs : run[r].pc = "await" ~> run[r].pc \in {"done", "failed"}

-----------------------------------------------------------------------------
(* What makes these inductive, of one process.                             *)

Running == {"await", "index", "cleanup"}

\* It has a writer only while it indexes, and commits what it looked at.
WriterFollows(r) ==
    /\ run[r].pc # "index" => writer[r].phase = "closed"
    /\ writer[r].phase = "closed" => writer[r] = Fresh("closed")
    /\ writer[r].phase = "committed" => writer[r].ledger_rows = {}
    /\ writer[r].phase \in {"commit", "marker", "committed"} => run[r].left = {}

\* Its prefetch is of a partition still to be handled, which the one at hand
\* no longer is; with no prefetch there is none.
SyncFollows(r) ==
    /\ run[r].pc # "idle" => run[r].runs > 0
    /\ sync[r].st # "none" => run[r].pc \in Running /\ sync[r].part \in run[r].todo
    /\ run[r].pc \in {"index", "cleanup"} =>
         run[r].part \notin run[r].todo /\ (sync[r].st = "none" => run[r].todo = {})
    /\ run[r].pc = "index" => run[r].left \subseteq Clamped(r, run[r].part)

\* A ledger of its range is stored, or its partition skipped, still to be
\* handled, or the one at hand.
NothingForgotten(r) ==
    /\ run[r].completed \subseteq ledgers
    /\ run[r].pc \in Running =>
         \A l \in Asked[r] :
             \/ l \in ledgers
             \/ PartitionOf(l) \in run[r].skipped \cup run[r].todo
             \/ run[r].pc = "index" /\ PartitionOf(l) = run[r].part

\* A complete download is on disk until its partition is at hand.
DownloadIsWhole(r) ==
    sync[r].st = "Complete" => FilesOf(sync[r].part) \subseteq files[Dir(r)]

\* The archive keeps what it has, and no partition that was whole is given up.
LagIsTrue(r) ==
    /\ \A p \in run[r].whole : FilesOf(p) \subseteq archive
    /\ sync[r].st = "S3Incomplete" => sync[r].part \notin run[r].whole
    /\ run[r].skipped \cap run[r].whole = {}

BackfillInv ==
    /\ PWInv
    /\ DoneIsStored /\ ReleasedIsHeld /\ NoMissingFile
    /\ \A r \in Runs :
         /\ WriterFollows(r) /\ SyncFollows(r) /\ NothingForgotten(r) /\ LagIsTrue(r)
         /\ Alone(r) => DownloadIsWhole(r)
=============================================================================
