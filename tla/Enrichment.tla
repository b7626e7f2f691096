----------------------------- MODULE Enrichment -----------------------------
(***************************************************************************)
(* Off-chain enrichment of assets and NFTs: the indexer publishes the keys *)
(* of a batch that have no enrichment row, the worker Lambda takes them    *)
(* from SQS, fetches the issuer's stellar.toml or the token's metadata and *)
(* inserts one row per key; `enrich` drains the same keys from the tables  *)
(* and retries what found nothing.  A row always exists once a key was     *)
(* tried: the empty row is the sentinel of a permanent failure.            *)
(*                                                                         *)
(* A value is present or not; of a table FINAL, only the winner of the     *)
(* ReplacingMergeTree(version) is kept.  Keys are numbered in ORDER BY     *)
(* order.  The HTTP side is in NftFetcher.                                 *)
(***************************************************************************)
EXTENDS Naturals, FiniteSets, FiniteSetsExt

CONSTANTS
    AssetKeys, NftKeys,  \* keys of asset_enrichment and nft_enrichment
    ContractOf,          \* the contract of an NFT
    BatchSize,           \* records of one invocation of the worker
    ChunkSize,           \* keys a drain selects at a time
    MaxReceive,          \* maxReceiveCount of the queue
    Drains,              \* the modes of `enrich` the operator may start
    Beside,              \* whether the worker runs on beside a drain
    MaxDrains, MaxMessages, MaxWrites, MaxFaults, MaxChanges  \* bounds

Keys == AssetKeys \cup NftKeys
Collections == {ContractOf[k] : k \in NftKeys}
Modes == {"Untried", "Sentinels", "All", "CollectionName"}

EnrichmentAssumption ==
    /\ Keys \subseteq Nat \ {0} /\ IsFiniteSet(Keys) /\ AssetKeys \cap NftKeys = {}
    /\ DOMAIN ContractOf = NftKeys /\ Collections \cap Keys = {}
    /\ Drains \subseteq Modes /\ Beside \in BOOLEAN
    /\ {BatchSize, ChunkSize, MaxReceive} \subseteq Nat \ {0}
    /\ {MaxDrains, MaxMessages, MaxWrites, MaxFaults, MaxChanges} \subseteq Nat

VARIABLES
    base,      \* the keys of the indexer's tables, assets and nfts
    row,       \* the enrichment row of each key, or Untried
    inserts,   \* rows sent to ClickHouse that have not landed
    queue,     \* messages of the SQS queue
    dlq,       \* keys whose message was moved to the dead letters
    sent,      \* history: the keys ever published
    worker,    \* the running invocation of the worker Lambda
    warm,      \* the fetcher cache of its container: the values it holds
    drain,     \* the running command of `enrich`
    source,    \* what the host of each key and the name() of each contract answers
    clock,     \* now_ms
    count      \* the uses made of the bounds

enrichmentVars ==
    <<base, row, inserts, queue, dlq, sent, worker, warm, drain, source, clock, count>>

Untried == [version |-> 0, meta |-> FALSE, coll |-> FALSE, seen |-> 0, named |-> 0]
Tried(k) == row[k] # Untried

NoTask == [pc |-> "fetch"]
Asleep == [batch |-> {}, failures |-> {}, task |-> NoTask]
NoDrain == [mode |-> "none", kind |-> {}, after |-> 0, tasks |-> <<>>, failed |-> FALSE,
            known |-> {}, real |-> {}, sentinel |-> {}]
Warmth == [Keys -> {0} \cup 1..(MaxChanges + 1)]

EnrichmentInit ==
    /\ base = {} /\ row = [k \in Keys |-> Untried] /\ inserts = {}
    /\ queue = {} /\ dlq = {} /\ sent = {} /\ worker = Asleep /\ warm = [k \in Keys |-> 0]
    /\ drain = NoDrain /\ clock = 0
    /\ source \in [Keys \cup Collections -> {"real", "gone", "down"}]
    /\ count = [messages |-> 0, faults |-> 0, changes |-> 1, drains |-> 0]

Fault == count.faults < MaxFaults /\ count' = [count EXCEPT !.faults = @ + 1]

-----------------------------------------------------------------------------
(* The indexer.                                                            *)

\* unenriched_asset_keys and unenriched_nft_keys.
Unenriched(keys) == {k \in keys : ~ Tried(k)}

\* sep1_candidate_keys, and of the NFTs the minted ones.
CandidateKeys(ks) == {k \in ks : k \in AssetKeys \/ k \notin base}

\* A filter that fails lets every candidate through.
ToPublish(ks, filterFails) == IF filterFails THEN ks ELSE Unenriched(ks)

\* publish_messages: one message per key.
Messages(ks) ==
    {[id |-> count.messages + Cardinality({j \in ks : j <= k}), key |-> k,
      receives |-> 0, visible |-> TRUE] : k \in ks}

\* A ledger with the keys ks is committed and then published; a crash between
\* the two, or a send that fails and is only logged, loses messages.
Index(ks, filterFails, lost) ==
    LET published == ToPublish(CandidateKeys(ks), filterFails) \ lost
        faulty == filterFails \/ lost # {}
    IN  /\ ks # {} /\ lost \subseteq CandidateKeys(ks)
        /\ count.messages + Cardinality(published) <= MaxMessages
        /\ faulty => count.faults < MaxFaults
        /\ base' = base \cup ks /\ sent' = sent \cup published
        /\ queue' = queue \cup Messages(published)
        /\ count' = [count EXCEPT !.messages = @ + Cardinality(published),
                                  !.faults = @ + IF faulty THEN 1 ELSE 0]
        /\ UNCHANGED <<row, inserts, dlq, worker, warm, drain, source, clock>>

\* An external answer changes: metadata appears, goes, its host goes down.
SourceChanges(s, answer) ==
    /\ count.changes <= MaxChanges /\ source[s] # answer
    /\ source' = [source EXCEPT ![s] = answer]
    /\ count' = [count EXCEPT !.changes = @ + 1]
    /\ UNCHANGED <<base, row, inserts, queue, dlq, sent, worker, warm, drain, clock>>

-----------------------------------------------------------------------------
(* enrich_asset_from_sep1 and enrich_nft_token_uri for one key, by the     *)
(* worker or by a drain: fetch, bind the version, wait for the insert.     *)

\* held: the values in the cache of the process, by how recent they are; only
\* successful answers are cached.  seen and named: how recent the row's are.
Answer(k, held) == IF held[k] # 0 THEN "real" ELSE source[k]
Recent(k, held) == IF held[k] # 0 THEN held[k] ELSE count.changes
Transient == [pc |-> "transient"]

\* enrich_asset_from_sep1: an issuer that is missing, has no home domain or
\* whose file has no such currency makes a sentinel.
FetchAsset(k, held) ==
    IF Answer(k, held) = "down" THEN Transient
    ELSE [pc |-> "bind", meta |-> Answer(k, held) = "real", coll |-> FALSE,
          seen |-> Recent(k, held), named |-> 0]

\* enrich_nft_token_uri: the token's metadata, then the contract's name().
FetchNft(k, held) ==
    LET name == source[ContractOf[k]]
    IN  IF "down" \in {Answer(k, held), name} THEN Transient
        ELSE [pc |-> "bind", meta |-> Answer(k, held) = "real", coll |-> name = "real",
              seen |-> Recent(k, held), named |-> count.changes]

\* handle_record.
Fetched(k, held) == IF k \in AssetKeys THEN FetchAsset(k, held) ELSE FetchNft(k, held)

\* Mutant of Stamped: the version does not follow the clock.
StampedFlat(k, task, at) ==
    [key |-> k, version |-> 1, meta |-> task.meta, coll |-> task.coll,
     seen |-> task.seen, named |-> task.named]

\* insert_asset and insert_nft: the row and its version.
Stamped(k, task, at) ==
    [key |-> k, version |-> at, meta |-> task.meta, coll |-> task.coll,
     seen |-> task.seen, named |-> task.named]

RowOf(insert) ==
    [version |-> insert.version, meta |-> insert.meta, coll |-> insert.coll,
     seen |-> insert.seen, named |-> insert.named]

\* ReplacingMergeTree(version): the newest version of a key, and of equal ones
\* the last inserted.
Merge(table, new) ==
    [k \in Keys |-> IF \E i \in new : i.key = k /\ i.version >= table[k].version
                    THEN RowOf(CHOOSE i \in new : i.key = k) ELSE table[k]]

\* EnrichOutcome: the collection name of an NFT does not count.
Outcome(k, i) == IF i.meta THEN "real" ELSE "sentinel"

-----------------------------------------------------------------------------
(* The worker.                                                             *)

Draining == drain.mode # "none"

\* handle_event takes the records of its batch one by one.
Handled == CHOOSE m \in worker.batch : \A x \in worker.batch : m.id <= x.id

\* The messages that are delivered again; the others are dead letters.
Back(ms) == {[m EXCEPT !.visible = TRUE] : m \in {x \in ms : x.receives < MaxReceive}}

DeadLetters(ms) == {m.key : m \in {x \in ms : x.receives >= MaxReceive}}

\* SQS hands the worker a batch, unless the operator has stopped it for a drain.
Receive(ms) ==
    /\ worker = Asleep /\ (Beside \/ ~ Draining)
    /\ ms # {} /\ Cardinality(ms) <= BatchSize /\ \A m \in ms : m.visible
    /\ queue' = (queue \ ms) \cup
                {[m EXCEPT !.receives = @ + 1, !.visible = FALSE] : m \in ms}
    /\ worker' = [Asleep EXCEPT !.batch = ms]
    /\ UNCHANGED <<base, row, inserts, dlq, sent, warm, drain, source, clock, count>>

WorkerFetch ==
    LET task == Fetched(Handled.key, warm)
    IN  /\ worker.batch # {} /\ worker.task.pc = "fetch"
        /\ worker' = [worker EXCEPT !.task = task]
        /\ warm' = IF task.pc = "bind" /\ task.meta
                   THEN [warm EXCEPT ![Handled.key] = task.seen] ELSE warm
        /\ UNCHANGED <<base, row, inserts, queue, dlq, sent, drain, source, clock, count>>

WorkerInsert ==
    LET insert == Stamped(Handled.key, worker.task, clock + 1)
    IN  /\ worker.batch # {} /\ worker.task.pc = "bind" /\ clock < MaxWrites
        /\ clock' = clock + 1 /\ inserts' = inserts \cup {insert}
        /\ worker' = [worker EXCEPT !.task = [pc |-> "sent", insert |-> insert]]
        /\ UNCHANGED <<base, row, queue, dlq, sent, warm, drain, source, count>>

\* ClickHouse applies an insert, sooner or later.
Land(i) ==
    /\ i \in inserts
    /\ row' = Merge(row, {i}) /\ inserts' = inserts \ {i}
    /\ UNCHANGED <<base, queue, dlq, sent, worker, warm, drain, source, clock, count>>

\* classify_outcome: the record is reported as a failure.
Fails(task, insertFails) == task.pc = "transient" \/ insertFails

\* The outcome of a record: handle_event goes on with the next one.  An insert
\* that fails may still be applied.
Record(insertFails) ==
    /\ worker.batch # {} /\ worker.task.pc \in {"transient", "sent"}
    /\ IF insertFails THEN worker.task.pc = "sent" /\ Fault
       ELSE /\ worker.task.pc = "sent" => worker.task.insert \notin inserts
            /\ count' = count
    /\ worker' = [worker EXCEPT
                    !.batch = @ \ {Handled}, !.task = NoTask,
                    !.failures = @ \cup IF Fails(worker.task, insertFails)
                                        THEN {Handled.id} ELSE {}]
    \* SQS deletes what is not reported once the last record is done.
    /\ IF worker'.batch # {} THEN UNCHANGED <<queue, dlq>>
       ELSE LET mine == {m \in queue : ~ m.visible}
                failed == {m \in mine : m.id \in worker'.failures}
            IN  queue' = (queue \ mine) \cup Back(failed) /\ dlq' = dlq \cup DeadLetters(failed)
    /\ UNCHANGED <<base, row, inserts, sent, warm, drain, source, clock>>

\* handle_event returned, and the next batch may come.
Done ==
    /\ worker.batch = {} /\ worker # Asleep
    /\ worker' = Asleep
    /\ UNCHANGED <<base, row, inserts, queue, dlq, sent, warm, drain, source, clock, count>>

\* The invocation dies (timeout, out of memory): the container with its cache
\* is gone, the batch comes back when its visibility timeout ends.
Crash ==
    LET mine == {m \in queue : ~ m.visible}
    IN  /\ worker # Asleep /\ Fault
        /\ worker' = Asleep /\ warm' = [k \in Keys |-> 0]
        /\ queue' = (queue \ mine) \cup Back(mine) /\ dlq' = dlq \cup DeadLetters(mine)
        /\ UNCHANGED <<base, row, inserts, sent, drain, source, clock>>

\* At-least-once delivery: a message handled a moment ago is delivered again.
Duplicate(k) ==
    /\ Tried(k) /\ count.messages < MaxMessages /\ count.faults < MaxFaults
    /\ queue' = queue \cup
                {[id |-> count.messages + 1, key |-> k, receives |-> 0, visible |-> TRUE]}
    /\ count' = [count EXCEPT !.messages = @ + 1, !.faults = @ + 1]
    /\ UNCHANGED <<base, row, inserts, dlq, sent, worker, warm, drain, source, clock>>

-----------------------------------------------------------------------------
(* `enrich`: sep1-assets, nft-metadata and nft-collection-name.            *)

\* sep1_base and nft_base: the keys a mode walks.
Candidates(mode, kind) ==
    CASE mode = "Untried" -> Unenriched(base \cap kind)
      [] mode = "All" -> base \cap kind
      [] mode = "Sentinels" -> {k \in base \cap kind : Tried(k) /\ ~ row[k].meta}

\* NFT_COLLECTION_BASE: the contracts with a row that has no collection name.
Uncollected == {c \in Collections : \E k \in NftKeys :
                  ContractOf[k] = c /\ Tried(k) /\ ~ row[k].coll}

\* The operator starts a drain: in the worker's place, once all that was sent
\* has landed, as the note on now_ms asks, or beside the worker all the same.
StartDrain(mode, kind) ==
    /\ ~ Draining /\ (Beside \/ (worker = Asleep /\ inserts = {}))
    /\ count.drains < MaxDrains
    /\ mode \in Drains /\ kind \in {AssetKeys, NftKeys} /\ kind # {}
    /\ mode = "CollectionName" => kind = NftKeys
    /\ drain' = [NoDrain EXCEPT !.mode = mode, !.kind = kind, !.known = base \cap kind,
                   !.tasks = IF mode = "CollectionName" THEN [c \in Uncollected |-> NoTask] ELSE <<>>]
    /\ count' = [count EXCEPT !.drains = @ + 1]
    /\ UNCHANGED <<base, row, inserts, queue, dlq, sent, worker, warm, source, clock>>

\* Mutant of Chunk: OFFSET instead of a cursor, over a set that shrinks.
ChunkByOffset(mode, kind, after) ==
    LET rest == Candidates(mode, kind)
    IN  {k \in rest : Cardinality({j \in rest : j < k}) \in after..(after + ChunkSize - 1)}

\* select_sep1_chunk and select_nft_chunk: the next keys after the cursor.
Chunk(mode, kind, after) ==
    LET rest == {k \in Candidates(mode, kind) : k > after}
    IN  {k \in rest : Cardinality({j \in rest : j < k}) < ChunkSize}

Select ==
    LET chunk == Chunk(drain.mode, drain.kind, drain.after)
    IN  /\ drain.mode \in Modes \ {"CollectionName"} /\ drain.tasks = <<>> /\ chunk # {}
        /\ drain' = [drain EXCEPT !.after = Max(chunk), !.tasks = [k \in chunk |-> NoTask]]
        /\ UNCHANGED <<base, row, inserts, queue, dlq, sent, worker, warm, source, clock, count>>

With(tasks, t, task) == [tasks EXCEPT ![t] = task]
Without(tasks, t) == [j \in DOMAIN tasks \ {t} |-> tasks[j]]
SetTask(t, task) == drain' = [drain EXCEPT !.tasks = With(@, t, task)]

DrainFetch(k) ==
    /\ drain.mode # "CollectionName" /\ k \in DOMAIN drain.tasks
    /\ drain.tasks[k].pc = "fetch"
    /\ SetTask(k, Fetched(k, [j \in Keys |-> 0]))
    /\ UNCHANGED <<base, row, inserts, queue, dlq, sent, worker, warm, source, clock, count>>

DrainInsert(k) ==
    LET insert == Stamped(k, drain.tasks[k], clock + 1)
    IN  /\ k \in DOMAIN drain.tasks /\ drain.tasks[k].pc = "bind" /\ clock < MaxWrites
        /\ clock' = clock + 1 /\ inserts' = inserts \cup {insert}
        /\ SetTask(k, [pc |-> "sent", insert |-> insert])
        /\ UNCHANGED <<base, row, queue, dlq, sent, worker, warm, source, count>>

\* collect_join and tally.
Tally(k, insertFails) ==
    LET task == drain.tasks[k]
        ok == task.pc = "sent" /\ ~ insertFails
        landed(o) == IF ok /\ Outcome(k, task.insert) = o THEN {k} ELSE {}
    IN  /\ k \in DOMAIN drain.tasks /\ task.pc \in {"transient", "sent"}
        /\ IF insertFails THEN task.pc = "sent" /\ Fault
           ELSE count' = count /\ (task.pc = "sent" => task.insert \notin inserts)
        /\ drain' = [drain EXCEPT !.tasks = Without(@, k),
                                  !.failed = @ \/ ~ ok,
                                  !.real = @ \cup landed("real"),
                                  !.sentinel = @ \cup landed("sentinel")]
        /\ UNCHANGED <<base, row, inserts, queue, dlq, sent, worker, warm, source, clock>>

\* The row of rewrite_nft_collection_name.
Renamed(k, version) ==
    [Stamped(k, row[k], version) EXCEPT !.coll = TRUE, !.named = count.changes]

\* backfill_contract_collection_name: one INSERT ... SELECT for a contract.
CollectionName(c, fails) ==
    LET rows == {Renamed(k, clock + 1) :
                   k \in {j \in NftKeys : ContractOf[j] = c /\ Tried(j) /\ ~ row[j].coll}}
    IN  /\ drain.mode = "CollectionName" /\ c \in DOMAIN drain.tasks
        /\ drain' = [drain EXCEPT !.tasks = Without(@, c),
                                  !.failed = @ \/ fails \/ source[c] = "down"]
        /\ IF fails THEN source[c] = "real" /\ Fault ELSE count' = count
        /\ IF fails \/ source[c] # "real" THEN UNCHANGED <<row, clock>>
           ELSE /\ clock < MaxWrites /\ clock' = clock + 1
                /\ row' = Merge(row, rows)
        /\ UNCHANGED <<base, inserts, queue, dlq, sent, worker, warm, source>>

\* Nothing is left after the cursor: print_report.
EndDrain ==
    /\ Draining /\ drain.tasks = <<>>
    /\ drain.mode # "CollectionName" => Chunk(drain.mode, drain.kind, drain.after) = {}
    /\ drain' = NoDrain
    /\ UNCHANGED <<base, row, inserts, queue, dlq, sent, worker, warm, source, clock, count>>

-----------------------------------------------------------------------------
WorkerStep == WorkerFetch \/ WorkerInsert \/ Record(FALSE) \/ Done
DrainStep ==
    \/ Select \/ EndDrain
    \/ \E k \in Keys : DrainFetch(k) \/ DrainInsert(k) \/ Tally(k, FALSE)
    \/ \E c \in Collections : CollectionName(c, FALSE)

EnrichmentNext ==
    \/ \E ks, lost \in SUBSET Keys, filterFails \in BOOLEAN : Index(ks, filterFails, lost)
    \/ \E s \in Keys \cup Collections, a \in {"real", "gone", "down"} : SourceChanges(s, a)
    \/ \E ms \in SUBSET queue : Receive(ms)
    \/ WorkerStep \/ Crash \/ Record(TRUE)
    \/ \E k \in Keys : Duplicate(k) \/ Tally(k, TRUE)
    \/ \E c \in Collections : CollectionName(c, TRUE)
    \/ \E i \in inserts : Land(i)
    \/ \E m \in Modes, kind \in {AssetKeys, NftKeys} : StartDrain(m, kind)
    \/ DrainStep

\* Lambda polls the queue and runs what it took, ClickHouse answers, a
\* command runs to its end.
EnrichmentFairness ==
    /\ WF_enrichmentVars(\E ms \in SUBSET queue : Receive(ms))
    /\ WF_enrichmentVars(WorkerStep)
    /\ WF_enrichmentVars(\E i \in inserts : Land(i))
    /\ WF_enrichmentVars(DrainStep)

EnrichmentSpec ==
    EnrichmentInit /\ [][EnrichmentNext]_enrichmentVars /\ EnrichmentFairness

-----------------------------------------------------------------------------
(* Properties.                                                             *)

EnrichmentTypeOK ==
    /\ base \subseteq Keys /\ clock \in 0..MaxWrites
    /\ \A k \in Keys : DOMAIN row[k] = DOMAIN Untried /\ row[k].version \in 0..clock
    /\ \A i \in inserts : i.key \in Keys /\ i.version \in 1..clock
    /\ \A m \in queue : m.key \in base /\ m.receives \in 0..MaxReceive
    /\ dlq \subseteq base /\ warm \in Warmth
    /\ drain.mode \in Modes \cup {"none"}

\* A published key has a row, or a message in the queue or among the dead
\* letters: whatever fails, crashes, lands late or comes twice, no message is
\* acknowledged before its row is stored (classify_outcome, handle_event).
AckedIsTried == \A k \in sent : Tried(k) \/ k \in dlq \/ \E m \in queue : m.key = k

\* A value disappears only for an answer that is newer than the value.
KeepsValues ==
    \A k \in Keys :
         /\ row[k].meta /\ ~ row'[k].meta => row'[k].seen > row[k].seen
         /\ row[k].coll /\ ~ row'[k].coll => row'[k].named > row[k].named

\* Without a drain beside the worker no step takes a value otherwise: a late
\* or repeated attempt never puts a sentinel over it (now_ms as the version,
\* rewrite_nft_collection_name, --retry-sentinels).
ValuesKept == [][KeepsValues]_enrichmentVars

\* A drain of the untried keys that reports no failure leaves a row for every
\* key the tables held when it began, those whose message was lost included.
DrainCovers ==
    drain.mode = "Untried" /\ drain'.mode = "none" /\ ~ drain.failed
         => \A k \in drain.known : Tried(k)

\* What a drain in the worker's place reports is what --retry-sentinels walks:
\* all of the sentinels it wrote, none of the values.
ReportAgrees ==
    drain.mode \in {"Untried", "Sentinels", "All"} /\ drain'.mode = "none"
         => /\ drain.sentinel \subseteq Candidates("Sentinels", drain.kind)
            /\ drain.real \cap Candidates("Sentinels", drain.kind) = {}

\* "Rows with a fetched value are left untouched, so a retry cannot clobber it
\* with a regressed source" (--retry-sentinels).
RetryKeepsFetched ==
    [][drain.mode = "Sentinels"
         => \A k \in Keys : /\ row[k].meta => row'[k].meta
                            /\ row[k].coll => row'[k].coll]_enrichmentVars

-----------------------------------------------------------------------------
(* What makes it inductive.                                                *)

Rows == [version : Nat, meta : BOOLEAN, coll : BOOLEAN, seen : Nat, named : Nat]
Inserts == [key : Keys, version : Nat \ {0}, meta : BOOLEAN, coll : BOOLEAN, seen : Nat, named : Nat]
MessageType == [id : Nat, key : Keys, receives : Nat, visible : BOOLEAN]
BoundTasks == [pc : {"bind"}, meta : BOOLEAN, coll : BOOLEAN, seen : Nat, named : Nat]

\* A task of key k; the row it sent waits to land or has left a row.
IsTask(k, task) ==
    \/ task = NoTask \/ task = Transient \/ task \in BoundTasks
    \/ /\ task \in [pc : {"sent"}, insert : Inserts] /\ task.insert.key = k
       /\ task.insert \in inserts \/ Tried(k)

Shapes ==
    /\ {base, dlq, sent} \subseteq SUBSET Keys
    /\ row \in [Keys -> Rows] /\ inserts \subseteq Inserts /\ queue \subseteq MessageType
    /\ DOMAIN worker = DOMAIN Asleep /\ worker.batch \subseteq MessageType
    /\ worker.task # NoTask => worker.batch # {}
    /\ worker.batch # {} => IsTask(Handled.key, worker.task)
    /\ warm \in [Keys -> Nat] /\ clock \in Nat
    /\ DOMAIN drain = DOMAIN NoDrain
    /\ source \in [Keys \cup Collections -> {"real", "gone", "down"}]
    /\ count \in [messages : Nat, faults : Nat, changes : Nat \ {0}, drains : Nat]

\* A drain in the worker's place has the tables to itself; in its rewrite of
\* collection names nothing else is on its way.
Exclusive ==
    /\ ~ Beside /\ Draining => worker = Asleep
    /\ ~ Beside /\ drain.mode = "CollectionName" => inserts = {}

\* The tasks of a drain are its keys', or the contracts' it renames.
Tasks ==
    /\ IF Draining THEN drain.mode \in Modes ELSE drain = NoDrain
    /\ drain.mode = "CollectionName" =>
         /\ DOMAIN drain.tasks \subseteq Collections
         /\ \A c \in DOMAIN drain.tasks : drain.tasks[c] = NoTask
    /\ drain.mode \in Modes \ {"CollectionName"} =>
         /\ DOMAIN drain.tasks \subseteq base \cap drain.kind
         /\ \A k \in DOMAIN drain.tasks : IsTask(k, drain.tasks[k])

\* A message the worker holds is in its batch, a failure, or settled.
Held(m) ==
    \/ \E b \in worker.batch : b.id = m.id /\ b.key = m.key
    \/ m.id \in worker.failures \/ Tried(m.key)

Delivery ==
    /\ \A m \in queue : ~ m.visible => worker.batch # {} /\ Held(m)
    /\ AckedIsTried

\* What is stored of a key, or on its way.
Entries(k) == {row[k]} \cup {RowOf(i) : i \in {j \in inserts : j.key = k}}

\* a is not later than b, and b is empty only by a more recent answer.
Supersedes(b, a) ==
    /\ a.meta /\ ~ b.meta => a.seen < b.seen
    /\ a.coll /\ ~ b.coll => a.named < b.named

\* What an entry or a task says was so when it was read, and it is so now if
\* nothing changed since.
Truthful(k, a) ==
    /\ a.seen <= count.changes /\ a.named <= count.changes
    /\ a.meta /\ a.seen = count.changes => source[k] = "real"
    /\ a.coll => k \in NftKeys
    /\ a.coll /\ a.named = count.changes => source[ContractOf[k]] = "real"

\* A task that has its answer will supersede all there is.
Prevails(k, task) ==
    task.pc = "bind" => Truthful(k, task) /\ \A a \in Entries(k) : Supersedes(task, a)

Values ==
    /\ \A k \in Keys : \A a \in Entries(k) :
         /\ a.version <= clock /\ Truthful(k, a)
         /\ \A b \in Entries(k) : a.version <= b.version => Supersedes(b, a)
    /\ \A k \in Keys : warm[k] <= count.changes /\ (warm[k] = count.changes => source[k] = "real")
    /\ worker.batch # {} => Prevails(Handled.key, worker.task)
    /\ \A k \in DOMAIN drain.tasks : Prevails(k, drain.tasks[k])

Walking == drain.mode \in Modes \ {"CollectionName"}

\* The keys the drain has under way are not beyond its cursor.
Reach ==
    /\ drain.after \in Nat /\ drain.kind \subseteq Keys /\ drain.known \subseteq base \cap drain.kind
    /\ \A k \in DOMAIN drain.tasks : k <= drain.after

\* It has one attempt at a key, and what it sends is the newest of its key.
OneAttempt ==
    \A i \in inserts :
      /\ i.key <= drain.after /\ row[i.key].version < i.version
      /\ \A j \in inserts : j.key = i.key => j = i
      /\ i.key \in DOMAIN drain.tasks /\ drain.tasks[i.key].pc # "transient" =>
           drain.tasks[i.key] = [pc |-> "sent", insert |-> i]

SentIsKept ==
    \A k \in DOMAIN drain.tasks : drain.tasks[k].pc = "sent" =>
      drain.tasks[k].insert \in inserts \/ row[k] = RowOf(drain.tasks[k].insert)

\* The row of a key it has counted stays.
CountedIsSo ==
    /\ drain.real \cap drain.sentinel = {}
    /\ \A k \in drain.real \cup drain.sentinel :
         /\ k \in base \cap drain.kind /\ k <= drain.after /\ k \notin DOMAIN drain.tasks
         /\ k \notin {i.key : i \in inserts} /\ Tried(k)
         /\ row[k].meta <=> k \in drain.real

\* A key it has passed without failure has a row.
Passed ==
    drain.mode = "Untried" /\ ~ drain.failed =>
      \A k \in drain.known : k <= drain.after => Tried(k) \/ k \in DOMAIN drain.tasks

Walk == Walking => Reach /\ Passed

\* What a drain in the worker's place may count on.
AloneInv == Values /\ (Walking => OneAttempt /\ SentIsKept /\ CountedIsSo)

EnrichmentInv ==
    /\ Shapes /\ Exclusive /\ Tasks /\ Delivery /\ Walk
    /\ ~ Beside => AloneInv
=============================================================================
