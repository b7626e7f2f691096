-------------------------- MODULE PartitionWriter --------------------------
(***************************************************************************)
(* The write path into ClickHouse shared by the live indexer and by the    *)
(* backfill runner: crates/db-clickhouse/src/persist/writer.rs.            *)
(*                                                                         *)
(* A writer keeps one INSERT open per entity table, streams the staged     *)
(* rows of one or more ledgers into them, and at commit ends the inserts   *)
(* one after the other; the `ledgers` rows, held back until then, are      *)
(* written last.  A reader, a resume and the live cursor all take a        *)
(* `ledgers` row to mean "this ledger is fully ingested".                  *)
(*                                                                         *)
(* A row is the number of the ledger it was staged from.  ReplacingMerge-  *)
(* Tree collapses a row written twice for one ledger into one, so a table  *)
(* is a set.  An INSERT whose end was not acknowledged (an error, an       *)
(* abort, a process that died) is not rolled back: the server may have     *)
(* written some, all or none of its rows, and may still do so later.       *)
(***************************************************************************)
EXTENDS Integers, FiniteSets

CONSTANTS
    Writers,    \* identities of the PartitionWriter values alive at once
    Ledgers,    \* the ledger sequences of the model
    NumTables,  \* number of entity tables (every table but `ledgers`)
    StagedIn    \* StagedIn[l]: the tables for which ledger l stages rows

\* The entity tables, numbered in the order in which commit() ends them.
Tables == 1..NumTables

ASSUME PartitionWriterAssumption ==
    /\ Ledgers \subseteq Nat
    /\ NumTables \in Nat
    /\ StagedIn \in [Ledgers -> SUBSET Tables]

VARIABLES
    rows,      \* rows[t]: ledgers whose rows are in entity table t
    ledgers,   \* the `ledgers` table
    streamed,  \* streamed[t]: rows handed to some INSERT into t
    markers,   \* rows handed to some INSERT into `ledgers`
    writer     \* writer[w]: the PartitionWriter value w

storeVars == <<rows, ledgers, streamed, markers>>
pwVars == <<rows, ledgers, streamed, markers, writer>>

-----------------------------------------------------------------------------
(***************************************************************************)
(* A writer.  phase "open" accepts ledgers; "failed" is a writer whose     *)
(* last write_ledger or write_only returned Err; "commit" is inside        *)
(* commit(), about to end table `next`; "marker" has the `ledgers` insert  *)
(* open; "committed" and "rejected" are the result the caller sees.        *)
(***************************************************************************)
Phases == {"closed", "open", "failed", "commit", "marker", "committed", "rejected"}

NoRows == [t \in Tables |-> {}]

Fresh(phase) == [phase |-> phase, inserts |-> NoRows, ledger_rows |-> {}, next |-> 1]

WriterType == [phase : Phases,
               inserts : [Tables -> SUBSET Ledgers],
               ledger_rows : SUBSET Ledgers,
               next : Nat]

\* Nothing is written yet, or a prefix of history is: `seeded` is complete.
StoreHolds(seeded) ==
    /\ rows = [t \in Tables |-> {l \in seeded : t \in StagedIn[l]}]
    /\ ledgers = seeded
    /\ streamed = NoRows
    /\ markers = {}

PWInit ==
    /\ \E seeded \in SUBSET Ledgers : StoreHolds(seeded)
    /\ writer = [w \in Writers |-> Fresh("closed")]

\* PartitionWriter::open: no request is sent yet.
Open(w) ==
    /\ writer[w].phase = "closed"
    /\ writer' = [writer EXCEPT ![w] = Fresh("open")]
    /\ UNCHANGED storeVars

\* The inserts after l's rows have gone into the tables of S (write_rows).
Stream(w, l, S) ==
    [t \in Tables |-> IF t \in S THEN writer[w].inserts[t] \cup {l}
                                 ELSE writer[w].inserts[t]]

SentTo(l, S) ==
    [t \in Tables |-> IF t \in S THEN streamed[t] \cup {l} ELSE streamed[t]]

\* One write_ledger call.  The ledger row is buffered before the first entity
\* row is streamed; an error leaves the rows of some tables unwritten.
WriteLedger(w, l) ==
    /\ writer[w].phase = "open"
    /\ \E S \in SUBSET StagedIn[l] :
         /\ writer' = [writer EXCEPT
              ![w].phase = IF S = StagedIn[l] THEN "open" ELSE "failed",
              ![w].inserts = Stream(w, l, S),
              ![w].ledger_rows = @ \cup {l}]
         /\ streamed' = SentTo(l, S)
    /\ UNCHANGED <<rows, ledgers, markers>>

\* One write_only call: the targeted tables alone, and no `ledgers` row.
WriteOnly(w, l, only) ==
    /\ writer[w].phase = "open"
    /\ \E S \in SUBSET (StagedIn[l] \cap only) :
         /\ writer' = [writer EXCEPT
              ![w].phase = IF S = StagedIn[l] \cap only THEN "open" ELSE "failed",
              ![w].inserts = Stream(w, l, S)]
         /\ streamed' = SentTo(l, S)
    /\ UNCHANGED <<rows, ledgers, markers>>

\* abort(): every insert is dropped without an end.
Abort(w) ==
    /\ writer[w].phase \in {"open", "failed"}
    /\ writer' = [writer EXCEPT ![w] = Fresh("rejected")]
    /\ UNCHANGED storeVars

\* commit() starts; the caller may not commit a writer whose write failed.
Commit(w) ==
    /\ writer[w].phase = "open"
    /\ writer' = [writer EXCEPT ![w].phase = "commit"]
    /\ UNCHANGED storeVars

\* Mutant of EndInsert: the last table was left out of commit's list of ends.
EndInsertOfAllButOne(w) ==
    LET t == writer[w].next IN
    /\ writer[w].phase = "commit"
    /\ t \in Tables
    /\ rows' = IF t = NumTables THEN rows ELSE [rows EXCEPT ![t] = @ \cup writer[w].inserts[t]]
    /\ writer' = [writer EXCEPT ![w].next = t + 1]
    /\ UNCHANGED <<ledgers, streamed, markers>>

\* end(table): the server has acknowledged every row of the insert.
EndInsert(w) ==
    LET t == writer[w].next IN
    /\ writer[w].phase = "commit"
    /\ t \in Tables
    /\ rows' = [rows EXCEPT ![t] = @ \cup writer[w].inserts[t]]
    /\ writer' = [writer EXCEPT ![w].next = t + 1]
    /\ UNCHANGED <<ledgers, streamed, markers>>

\* end(table) returns Err: commit() returns it and drops the later inserts.
EndInsertFails(w) ==
    LET t == writer[w].next IN
    /\ writer[w].phase = "commit"
    /\ t \in Tables
    /\ writer[w].inserts[t] # {}
    /\ writer' = [writer EXCEPT ![w] = Fresh("rejected")]
    /\ UNCHANGED storeVars

\* Mutant of SendMarkers: the `ledgers` rows are written first, not last.
SendMarkersFirst(w) ==
    /\ writer[w].phase = "commit"
    /\ writer[w].next = 1
    /\ writer' = [writer EXCEPT ![w].phase = "marker"]
    /\ markers' = markers \cup writer[w].ledger_rows
    /\ UNCHANGED <<rows, ledgers, streamed>>

\* Step 2 of commit(): the buffered `ledgers` rows are sent, if there are any.
SendMarkers(w) ==
    /\ writer[w].phase = "commit"
    /\ writer[w].next = NumTables + 1
    /\ IF writer[w].ledger_rows = {}
         THEN /\ writer' = [writer EXCEPT ![w] = Fresh("committed")]
              /\ UNCHANGED markers
         ELSE /\ writer' = [writer EXCEPT ![w].phase = "marker"]
              /\ markers' = markers \cup writer[w].ledger_rows
    /\ UNCHANGED <<rows, ledgers, streamed>>

\* The `ledgers` insert is acknowledged: commit() returns Ok.
AckMarkers(w) ==
    /\ writer[w].phase = "marker"
    /\ ledgers' = ledgers \cup writer[w].ledger_rows
    /\ writer' = [writer EXCEPT ![w] = Fresh("committed")]
    /\ UNCHANGED <<rows, streamed, markers>>

\* The `ledgers` insert fails or its answer is lost: commit() returns Err.
MarkersFail(w) ==
    /\ writer[w].phase = "marker"
    /\ writer' = [writer EXCEPT ![w] = Fresh("rejected")]
    /\ UNCHANGED storeVars

\* The caller is done with the result, or its process died and took the
\* writer with it.
Drop(w) ==
    /\ writer[w].phase # "closed"
    /\ writer' = [writer EXCEPT ![w] = Fresh("closed")]
    /\ UNCHANGED storeVars

(***************************************************************************)
(* ClickHouse writes blocks of an insert as it receives them, whether or   *)
(* not the client ever sees the end acknowledged.                          *)
(***************************************************************************)
LandRows(t) ==
    \E S \in SUBSET (streamed[t] \ rows[t]) \ {{}} :
        /\ rows' = [rows EXCEPT ![t] = @ \cup S]
        /\ UNCHANGED <<ledgers, streamed, markers, writer>>

LandMarkers ==
    \E S \in SUBSET (markers \ ledgers) \ {{}} :
        /\ ledgers' = ledgers \cup S
        /\ UNCHANGED <<rows, streamed, markers, writer>>

Land == LandMarkers \/ \E t \in Tables : LandRows(t)

\* The steps a writer takes by itself once commit() was called.
CommitStep(w) ==
    \/ EndInsert(w) \/ EndInsertFails(w)
    \/ SendMarkers(w) \/ AckMarkers(w) \/ MarkersFail(w)

PWNext ==
    \/ Land
    \/ \E w \in Writers :
         \/ Open(w) \/ Abort(w) \/ Commit(w) \/ CommitStep(w) \/ Drop(w)
         \/ \E l \in Ledgers :
              \/ WriteLedger(w, l)
              \/ \E only \in SUBSET Tables : WriteOnly(w, l, only)

PWSpec == PWInit /\ [][PWNext]_pwVars

-----------------------------------------------------------------------------
PWTypeOK ==
    /\ rows \in [Tables -> SUBSET Ledgers]
    /\ ledgers \in SUBSET Ledgers
    /\ streamed \in [Tables -> SUBSET Ledgers]
    /\ markers \in SUBSET Ledgers
    /\ writer \in [Writers -> WriterType]

Complete(l) == \A t \in StagedIn[l] : l \in rows[t]

(***************************************************************************)
(* The commit-marker contract (writer.rs "Commit-marker pattern"): a       *)
(* ledger with a `ledgers` row has every row it stages in every table,     *)
(* whichever writers, retries and failures produced them.                  *)
(***************************************************************************)
MarkerImpliesRows == \A l \in ledgers : Complete(l)

(***************************************************************************)
(* What makes it inductive: a marker is on the wire only when the rows are *)
(* there, a committing writer has landed what it passed, and a writer that *)
(* may commit has streamed every ledger it buffered into every table.      *)
(***************************************************************************)
MarkersWait == \A l \in markers : Complete(l)

RowsOnlyWhereStaged ==
    \A t \in Tables : \A l \in rows[t] \cup streamed[t] : t \in StagedIn[l]

Accepting == {"open", "commit", "marker"}

BufferedIsStreamed ==
    \A w \in Writers : writer[w].phase \in Accepting =>
        \A l \in writer[w].ledger_rows : \A t \in StagedIn[l] : l \in writer[w].inserts[t]

InsertsAreStreamed ==
    \A w \in Writers : \A t \in Tables :
        \A l \in writer[w].inserts[t] : l \in streamed[t]

PassedIsLanded ==
    \A w \in Writers : writer[w].phase \in {"commit", "marker"} =>
        \A t \in Tables : (t < writer[w].next \/ writer[w].phase = "marker") =>
            writer[w].inserts[t] \subseteq rows[t]

\* commit() consumes the writer, so no insert was ended before it.
NothingEnded == \A w \in Writers : writer[w].phase = "open" => writer[w].next = 1

PWInv ==
    /\ PWTypeOK
    /\ NothingEnded
    /\ MarkerImpliesRows
    /\ MarkersWait
    /\ RowsOnlyWhereStaged
    /\ BufferedIsStreamed
    /\ InsertsAreStreamed
    /\ PassedIsLanded

-----------------------------------------------------------------------------
(***************************************************************************)
(* Refinement: to a reader that trusts `ledgers`, the tables are an atomic *)
(* store, in which a ledger appears with all its rows at once and never    *)
(* changes again (LedgerStore).                                            *)
(***************************************************************************)
Served == [l \in Ledgers |->
             IF l \in ledgers THEN {{t \in Tables : l \in rows[t]}} ELSE {}]

Store == INSTANCE LedgerStore WITH served <- Served

ImplementsStore == Store!StoreSpec
=============================================================================
