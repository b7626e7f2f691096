-------------------------- MODULE LedgerProcessor --------------------------
(***************************************************************************)
(* The live indexer: a Lambda woken by SQS doorbells that reconciles the   *)
(* cursor, max(sequence) of `ledgers`, with the ledger files on S3 and     *)
(* persists forward, oldest first (crates/indexer/src/handler/mod.rs).     *)
(* Every ledger goes through a PartitionWriter of its own, so this module  *)
(* composes the sequencer with the steps of that module.                   *)
(*                                                                         *)
(* A slot is one concurrent execution of the function; an invocation is    *)
(* what a slot does for one doorbell.  Files may land in any order and a   *)
(* doorbell may be delivered late, twice, or not at all (dead-lettered).   *)
(***************************************************************************)
EXTENDS PartitionWriter

CONSTANTS
    First, Last,   \* the modelled window of ledgers
    PublicLake,    \* TRUE when the bucket is SDF's public data lake
    Concurrency,   \* reservedConcurrentExecutions of the function
    Retries,       \* retries of one ledger: the length of RETRY_BACKOFF_MS
    MaxReceive,    \* maxReceiveCount of the ingest queue
    MaxFaults      \* bound: errors, crashes and timeouts in one behaviour

ASSUME LedgerProcessorAssumption ==
    /\ First \in Nat \ {0} /\ Last \in Nat /\ First <= Last
    /\ Ledgers = First..Last
    /\ PublicLake \in BOOLEAN
    /\ Concurrency \in Nat /\ Retries \in Nat
    /\ MaxReceive \in Nat /\ MaxFaults \in Nat

VARIABLES
    lake,       \* ledgers whose file is on S3
    doorbell,   \* doorbell[b]: where the SQS message for file b is
    received,   \* received[b]: its ApproximateReceiveCount
    slot,       \* slot[s]: the invocation slot s is running
    published,  \* ledgers whose enrichment messages were sent
    faults      \* faults so far

lpVars == <<lake, doorbell, received, slot, published, faults>>
vars == <<pwVars, lpVars>>

-----------------------------------------------------------------------------
\* One doorbell per file.  The last one stands for every file past the
\* window: the network closes a ledger about every five seconds, for ever.
Bells == First..(Last + 1)
Later == Last + 1

Idle == [pc |-> "idle", bell |-> Later, next |-> First, attempt |-> 0, persisted |-> 0]

SlotType == [pc : {"idle", "cursor", "loop", "process", "persist", "publish"},
             bell : Bells,
             next : First..(Last + 1),
             attempt : 0..Retries,
             persisted : Nat]

Busy == {s \in Writers : slot[s].pc # "idle"}

\* SELECT max(sequence) FROM ledgers: 0 when the table is empty.
MaxSeq == IF ledgers = {} THEN 0 ELSE CHOOSE m \in ledgers : \A l \in ledgers : l <= m

\* first_ledger_to_read has an answer (Some).
HasCursor == MaxSeq > 0 \/ PublicLake

\* Mutant of FirstLedgerToRead: off by one.
SecondLedgerToRead == IF MaxSeq > 0 /\ MaxSeq < Last THEN MaxSeq + 2 ELSE First

FirstLedgerToRead == IF MaxSeq > 0 THEN MaxSeq + 1 ELSE First

Init ==
    /\ \E n \in (First - 1)..Last : StoreHolds(First..n)
    /\ writer = [w \in Writers |-> Fresh("closed")]
    /\ lake = {}
    /\ doorbell = [b \in Bells |-> "none"]
    /\ received = [b \in Bells |-> 0]
    /\ slot = [s \in Writers |-> Idle]
    /\ published = {}
    /\ faults = 0

Fault == faults < MaxFaults /\ faults' = faults + 1

-----------------------------------------------------------------------------
(* The lake and the queue.                                                 *)

\* A ledger file lands on S3 and its ObjectCreated event is queued.
FileLands(l) ==
    /\ l \notin lake
    /\ lake' = lake \cup {l}
    /\ doorbell' = [doorbell EXCEPT ![l] = "queued"]
    /\ UNCHANGED <<pwVars, received, slot, published, faults>>

\* One more file past the window: a new message with a receive count of 0.
LaterFileLands ==
    /\ doorbell[Later] \notin {"queued", "inflight"}
    /\ doorbell' = [doorbell EXCEPT ![Later] = "queued"]
    /\ received' = [received EXCEPT ![Later] = 0]
    /\ UNCHANGED <<pwVars, lake, slot, published, faults>>

\* SNS and SQS deliver at least once; an operator redrives the DLQ.
DeliveredAgain(b) ==
    /\ doorbell[b] \in {"done", "dead"}
    /\ doorbell' = [doorbell EXCEPT ![b] = "queued"]
    /\ received' = [received EXCEPT ![b] = 0]
    /\ UNCHANGED <<pwVars, lake, slot, published, faults>>

\* The event source mapping starts an invocation for doorbell b.
Receive(s, b) ==
    /\ slot[s].pc = "idle"
    /\ doorbell[b] = "queued"
    /\ Cardinality(Busy) < Concurrency
    /\ doorbell' = [doorbell EXCEPT ![b] = "inflight"]
    /\ received' = [received EXCEPT ![b] = @ + 1]
    /\ slot' = [slot EXCEPT ![s] = [Idle EXCEPT !.pc = "cursor", !.bell = b]]
    /\ UNCHANGED <<pwVars, lake, published, faults>>

\* Where a doorbell goes whose delivery number n did not succeed.
AfterFailure(n) == IF n >= MaxReceive THEN "dead" ELSE "queued"

\* The mapping over-polls: it receives b while every slot is taken (429).
Throttled(b) ==
    /\ doorbell[b] = "queued"
    /\ Cardinality(Busy) >= Concurrency
    /\ received' = [received EXCEPT ![b] = @ + 1]
    /\ doorbell' = [doorbell EXCEPT ![b] = AfterFailure(received[b] + 1)]
    /\ UNCHANGED <<pwVars, lake, slot, published, faults>>

-----------------------------------------------------------------------------
(* The handler.  Its ends first: an invocation releases its doorbell.      *)

\* reconcile returned Ok: the doorbell is acknowledged and deleted.
ReturnOk(s) ==
    /\ doorbell' = [doorbell EXCEPT ![slot[s].bell] = "done"]
    /\ slot' = [slot EXCEPT ![s] = Idle]

\* A batch item failure, or an invocation that never answered.
ReturnErr(s) ==
    /\ doorbell' = [doorbell EXCEPT ![slot[s].bell] = AfterFailure(received[slot[s].bell])]
    /\ slot' = [slot EXCEPT ![s] = Idle]

Goto(s, pc) == slot' = [slot EXCEPT ![s].pc = pc]

ReadCursor(s) ==
    /\ slot[s].pc = "cursor"
    /\ IF HasCursor
         THEN /\ slot' = [slot EXCEPT ![s].pc = "loop", ![s].next = FirstLedgerToRead]
              /\ UNCHANGED doorbell
         ELSE ReturnOk(s)
    /\ UNCHANGED <<pwVars, lake, received, published, faults>>

\* Mutants of CheckNext: a missing file is passed over; the file is taken to be
\* there because a doorbell rang; an invocation serves its own doorbell only.
CheckNextSkippingGaps(s) ==
    /\ slot[s].pc = "loop"
    /\ IF slot[s].next \in lake THEN Goto(s, "process") /\ UNCHANGED doorbell
       ELSE IF slot[s].next < Last THEN slot' = [slot EXCEPT ![s].next = @ + 1] /\ UNCHANGED doorbell
       ELSE ReturnOk(s)
    /\ UNCHANGED <<pwVars, lake, received, published, faults>>

CheckNextWithoutHead(s) ==
    /\ slot[s].pc = "loop"
    /\ IF slot[s].next \in Ledgers THEN Goto(s, "process") /\ UNCHANGED doorbell ELSE ReturnOk(s)
    /\ UNCHANGED <<pwVars, lake, received, published, faults>>

CheckNextOfOwnBell(s) ==
    /\ slot[s].pc = "loop"
    /\ IF slot[s].next \in lake /\ slot[s].next = slot[s].bell
         THEN Goto(s, "process") /\ UNCHANGED doorbell ELSE ReturnOk(s)
    /\ UNCHANGED <<pwVars, lake, received, published, faults>>

\* HEAD of the next file: on S3, or a gap that ends the contiguous run.
CheckNext(s) ==
    /\ slot[s].pc = "loop"
    /\ IF slot[s].next \in lake
         THEN Goto(s, "process") /\ UNCHANGED doorbell
         ELSE ReturnOk(s)
    /\ UNCHANGED <<pwVars, lake, received, published, faults>>

\* Mutant of Deadline: the budget is as good as spent before the first ledger.
DeadlineBeforeAnyLedger(s) ==
    /\ slot[s].pc = "loop"
    /\ ReturnOk(s)
    /\ UNCHANGED <<pwVars, lake, received, published, faults>>

\* RECONCILE_DEADLINE: 540 s, hundreds of ledgers.  That the cursor read alone
\* takes as long is counted as a fault.
Deadline(s) ==
    /\ slot[s].pc = "loop"
    /\ IF slot[s].persisted > 0 THEN UNCHANGED faults ELSE Fault
    /\ ReturnOk(s)
    /\ UNCHANGED <<pwVars, lake, received, published>>

\* Mutant of Process: the enrichment messages go out before the write.
ProcessPublishingFirst(s) ==
    /\ slot[s].pc = "process"
    /\ slot' = [slot EXCEPT ![s].pc = "persist", ![s].attempt = 0]
    /\ published' = published \cup {slot[s].next}
    /\ UNCHANGED <<pwVars, lake, doorbell, received, faults>>

\* Download, decompress, parse, and the metadata reads.
Process(s) ==
    /\ slot[s].pc = "process"
    /\ slot' = [slot EXCEPT ![s].pc = "persist", ![s].attempt = 0]
    /\ UNCHANGED <<pwVars, lake, doorbell, received, published, faults>>

\* A read error of ClickHouse or S3, or a file that does not parse: no retry.
StepFails(s) ==
    /\ slot[s].pc \in {"cursor", "loop", "process"}
    /\ Fault
    /\ ReturnErr(s)
    /\ UNCHANGED <<pwVars, lake, received, published>>

\* The steps of a writer that are an error of ClickHouse or of the network.
Failing == {<<"open", "failed">>, <<"commit", "rejected">>, <<"marker", "rejected">>}

\* persist_ledger_clickhouse: open, write_ledger, and commit or abort.
PersistStep(s) ==
    /\ slot[s].pc = "persist"
    /\ \/ Open(s)
       \/ writer[s].ledger_rows = {} /\ WriteLedger(s, slot[s].next)
       \/ writer[s].ledger_rows # {} /\ Commit(s)
       \/ writer[s].phase = "failed" /\ Abort(s)
       \/ CommitStep(s)
    /\ IF <<writer[s].phase, writer'[s].phase>> \in Failing THEN Fault ELSE UNCHANGED faults
    /\ UNCHANGED <<lake, doorbell, received, slot, published>>

PersistDone(s) ==
    /\ slot[s].pc = "persist"
    /\ writer[s].phase = "committed"
    /\ Drop(s)
    /\ Goto(s, "publish")
    /\ UNCHANGED <<lake, doorbell, received, published, faults>>

\* Mutants of AttemptEnds: one retry too many; after the last retry the
\* invocation goes on to the next ledger.
AttemptEndsLate(s) ==
    \/ /\ slot[s].attempt <= Retries
       /\ slot' = [slot EXCEPT ![s].attempt = @ + 1]
       /\ UNCHANGED doorbell
    \/ ReturnErr(s)

AttemptEndsGoingOn(s) ==
    /\ IF slot[s].attempt < Retries
         THEN slot' = [slot EXCEPT ![s].attempt = @ + 1]
         ELSE slot' = [slot EXCEPT ![s].pc = "loop", ![s].next = @ + 1]
    /\ UNCHANGED doorbell

\* One attempt at the ledger failed.  A transient error is retried from the
\* start, a permanent one or the last retry ends the invocation.
AttemptEnds(s) ==
    \/ /\ slot[s].attempt < Retries
       /\ slot' = [slot EXCEPT ![s].attempt = @ + 1]
       /\ UNCHANGED doorbell
    \/ ReturnErr(s)

WriteFailed(s) ==
    /\ slot[s].pc = "persist"
    /\ writer[s].phase = "rejected"
    /\ Drop(s)
    /\ AttemptEnds(s)
    /\ UNCHANGED <<lake, received, published, faults>>

\* A prefetch that fails closed (SAC map, prior contract rows).
PrefetchFails(s) ==
    /\ slot[s].pc = "persist"
    /\ writer[s].phase = "closed"
    /\ Fault
    /\ AttemptEnds(s)
    /\ UNCHANGED <<pwVars, lake, received, published>>

\* The enrichment messages of the file: sent, or lost with a warning.  The
\* file holds one ledger, so the loop over its ledgers ends here too.
PublishEnrichment(s) ==
    /\ slot[s].pc = "publish"
    /\ published' \in {published, published \cup {slot[s].next}}
    /\ slot' = [slot EXCEPT ![s].pc = "loop", ![s].next = @ + 1, ![s].persisted = @ + 1]
    /\ UNCHANGED <<pwVars, lake, doorbell, received, faults>>

\* The function times out, runs out of memory or loses its host.
Crash(s) ==
    /\ slot[s].pc # "idle"
    /\ Fault
    /\ ReturnErr(s)
    /\ writer' = [writer EXCEPT ![s] = Fresh("closed")]
    /\ UNCHANGED <<storeVars, lake, received, published>>

-----------------------------------------------------------------------------
ServerLands == Land /\ UNCHANGED lpVars

Work(s) ==
    \/ ReadCursor(s) \/ CheckNext(s) \/ Deadline(s) \/ Process(s)
    \/ PersistStep(s) \/ PersistDone(s) \/ WriteFailed(s) \/ PublishEnrichment(s)

Environment ==
    \/ ServerLands
    \/ LaterFileLands
    \/ \E l \in Ledgers : FileLands(l)
    \/ \E b \in Bells : DeliveredAgain(b) \/ Throttled(b)

Next ==
    \/ Environment
    \/ \E s \in Writers :
         \/ \E b \in Bells : Receive(s, b)
         \/ Work(s)
         \/ StepFails(s) \/ PrefetchFails(s) \/ Crash(s)

Spec == Init /\ [][Next]_vars

(***************************************************************************)
(* Fairness: the queue keeps delivering what is in it while a slot is      *)
(* free, a running invocation takes its next step, and ledgers keep        *)
(* closing.  Nothing is assumed of a file, of a fault or of the server.    *)
(***************************************************************************)
Fairness ==
    /\ WF_vars(LaterFileLands)
    /\ WF_vars(\E s \in Writers, b \in Bells : Receive(s, b))
    /\ \A s \in Writers : WF_vars(Work(s))

FairSpec == Spec /\ Fairness

-----------------------------------------------------------------------------
LPTypeOK ==
    /\ PWTypeOK
    /\ lake \in SUBSET Ledgers
    /\ doorbell \in [Bells -> {"none", "queued", "inflight", "done", "dead"}]
    /\ received \in [Bells -> Nat]
    /\ slot \in [Writers -> SlotType]
    /\ published \in SUBSET Ledgers
    /\ faults \in 0..MaxFaults

(***************************************************************************)
(* The ordering barrier of reconcile ("this gate is what guarantees no     *)
(* gaps"): whatever the order in which files land and doorbells ring, and  *)
(* whatever fails, the stored ledgers are a prefix of the window.          *)
(***************************************************************************)
NoGaps == \A l \in ledgers : First..l \subseteq ledgers

(***************************************************************************)
(* What makes NoGaps inductive: a slot works on a ledger whose file it has *)
(* seen and all of whose predecessors are stored, its writer holds that    *)
(* ledger's row and no other, and a `ledgers` row on the wire, of a live   *)
(* or a dead writer, has all its predecessors stored already.              *)
(***************************************************************************)
Below(l) == First..(l - 1) \subseteq ledgers

SlotsAtFrontier ==
    \A s \in Writers : slot[s].pc \in {"loop", "process", "persist", "publish"} => Below(slot[s].next)

SlotsHaveFile ==
    \A s \in Writers : slot[s].pc \in {"process", "persist", "publish"} => slot[s].next \in lake

PublishedSlotIsStored ==
    \A s \in Writers : slot[s].pc = "publish" => slot[s].next \in ledgers

WritersHoldNext ==
    \A s \in Writers :
        /\ writer[s].phase # "closed" => slot[s].pc = "persist"
        /\ writer[s].phase = "closed" => writer[s] = Fresh("closed")
        /\ writer[s].phase \in {"commit", "marker"} => writer[s].ledger_rows # {}
        /\ writer[s].ledger_rows \subseteq {slot[s].next}
        /\ writer[s].phase = "committed" => slot[s].next \in ledgers

MarkersInOrder == \A l \in markers : Below(l) /\ l \in lake

PublishedAreStored == published \subseteq ledgers

OrderInv ==
    /\ NoGaps
    /\ SlotsAtFrontier
    /\ SlotsHaveFile
    /\ PublishedSlotIsStored
    /\ WritersHoldNext
    /\ MarkersInOrder
    /\ PublishedAreStored

(***************************************************************************)
(* What reservedConcurrentExecutions = 1 buys (compute-stack.ts): a ledger *)
(* is persisted only while it is the one after the cursor, or while it is  *)
(* the cursor itself because a lost answer or a late insert stored it.     *)
(* History below the cursor is never written again.                        *)
(***************************************************************************)
Height == IF ledgers = {} THEN First - 1 ELSE MaxSeq

WritesAtCursor ==
    \A s \in Writers :
        slot[s].pc = "persist" => slot[s].next \in {Height, Height + 1}

(***************************************************************************)
(* An enrichment message is sent only for a ledger whose rows and marker   *)
(* are stored (process_s3_object: "the CH writes are already durable"),    *)
(* so a worker that reads the row of its message always finds it.          *)
(***************************************************************************)
PublishedIsDurable == \A l \in published : l \in ledgers /\ Complete(l)

-----------------------------------------------------------------------------
(***************************************************************************)
(* Refinement: the store and the lake are a log that grows at its end by   *)
(* one ledger at a time, and only by a ledger whose file is in the lake.   *)
(***************************************************************************)
Log == INSTANCE LedgerLog WITH height <- Height, arrived <- lake

ImplementsLog == Log!LogSpec

(***************************************************************************)
(* Liveness: once the files up to l are in the lake or stored, l is stored *)
(* in the end, although its own doorbell may be throttled, dead-lettered   *)
(* or acknowledged before its file was reachable.  An empty table of our   *)
(* own bucket is the exception: it has no cursor to advance from.          *)
(***************************************************************************)
Drains ==
    \A l \in Ledgers :
        (HasCursor /\ First..l \subseteq lake \cup ledgers) ~> l \in ledgers

\* The log grows whenever it can (the fair version of ImplementsLog).
ImplementsFairLog == Log!FairLogSpec
=============================================================================
