# A verification development of the Soroban block explorer

TLA+ modules of this repository's indexer, maintenance passes, parser and API,
TLC runs over small instances of them, and TLAPS proofs, for every value of the
constants, of how ledgers are ingested, NFT events routed, keys enriched, pools
registered and served, and tables seeded. The modules are translated from the source.
`PROJECT.json` maps each definition to its lines, and lists the runs, for every
property a mutant of the code that breaks it, the hazards of the code with the
properties that would catch them, and the theorems.

    tlc -workers 2 -config MCSequencer.cfg MCLedgerProcessor.tla
    tlapm LedgerProcessorProofs.tla

Contents: 1 the system, 2 the modules, 3 the runs, 4 what is proved, 5 what is
only checked, 6 what is not modelled, 7 where documents and code differ, 8 plan.

## 1. The system

| Part | State | Operations | Hard behaviour | Correct when |
|---|---|---|---|---|
| **Partition writer** (`db-clickhouse/src/persist/writer.rs`) | an open INSERT per table, buffered `ledgers` rows; some 35 ClickHouse tables | open, write_ledger, write_only, commit, abort | no transactions: each insert ends alone, may fail, may land after its client gave up | a `ledgers` row is there only if every row of the ledger is |
| **Ledger Processor** (`indexer`) | none of its own: the cursor is `max(sequence)`; a warm container's caches | `handler`, `reconcile`, `process_s3_object`, `persist_with_retry` | files and doorbells in any order, redelivery, throttling, dead letters, retries, timeouts | ledgers are stored without gaps, in order, and always in the end |
| **Lake pacing** (`lake_pacing.rs`, `public-lake-keepalive.ts`) | chain messages and keepalives in the queue | `paced`, `next`, `send` | lost, duplicated and late messages; chains that merge | one chain, and a dead one restarts |
| **Backfill run** (`backfill-runner`) | scratch directory, resume set, prefetch task, a writer per partition | `execute`, `sync_partition`, `index_partition`, cleanup | kill and re-run, prefetch beside indexing, several processes, an archive that grows | an Ok run stored its range; a file is deleted only when it is not needed |
| **Maintenance passes** (`repair_tier1`, `contract_type_rebuild`, `nft_reclassify`, `soroban_pool_amounts`, re-key) | staging tables | build, EXCHANGE TABLES, promote, delete | writes between two statements of a pass | no live write is lost, no right row made wrong |
| **Snapshots and fills** (`bootstrap`, `snapshot-seed`, `balance-seed`, contract fills) | what they fetched, a checkpoint | fetch, compare, insert | the chain moves on between read and insert | the version of each row inserted is that of the state it holds |
| **Parser and staging** (`xdr-parser`, `persist/stage.rs`) | none: one ledger, folded | transactions, operations, events, calls, entry states, pools, value | order inside a ledger, envelopes apart from results, absent before-images | a row says what the network did, at its own position |
| **NFT routing** (`persist.rs`, `classification_cache.rs`) | verdicts in two tables and a cache; pending and hot tables | route, promote, delete | stale verdicts, lookups that fail open, a delete racing an insert | every NFT row ends in the right table |
| **Enrichment** (`enrichment_publish.rs`, worker, `enrichment-shared`, `enrich`) | side tables, SQS queue, caches of a container | anti-join, publish, fetch, insert, drain | fail-open filter, at-least-once messages, sentinel rows, pools of hosts | every key is tried, and a value is not lost to a sentinel |
| **API lists and search** (`api`) | none; tags and cursors are with the client | keyset pages, conditional requests, joins of two or three reads | pages over tables that grow, hold copies and change ranks | a walk neither skips nor repeats a row; a 304 is true |
| **API runtime fetches** (`rpc_pool.rs`, decompile, sponsors, verified source) | blocking jobs, slots | RPC with failover, deadline, download and unpack | endpoints that lag or fail, work that outlives its request | what is shown is of the thing asked for |
| **Infra, web, load tests** | | deployment, presentation | | |

How they interact. Galexie (mainnet) or SDF (testnet) writes one file per ledger
to S3. On mainnet each file rings a doorbell through SQS; on the public lake the
indexer rings itself. An invocation reads the cursor from ClickHouse, parses the
next file, looks up verdicts and SAC assets, persists through a partition writer
of its own, then publishes enrichment messages. A backfill uses the same parser
and writer on the same tables, one writer per archive partition; its resume set
is again `ledgers`. Snapshots and passes insert into the same tables beside both,
and the API reads them all. Three contracts carry this, and most properties are
about one of them:

* the **commit marker**: a row in `ledgers` means that the ledger is complete;
* the **version**: tables keep per key the row of the newest ledger, so that rows
  may come in any order and again, if each says the state as of its version;
* the **key order**: a list is a walk over an order that does not move, or says
  what it gives up when it does.

## 2. The modules

### Ingestion

| Module | Models | Composes |
|---|---|---|
| `LedgerStore` | abstract: a ledger is absent, or served with all its rows, and stays | |
| `PartitionWriter` | the write path, step by step, against a server that may land unacknowledged inserts late | refines `LedgerStore` |
| `LedgerLog` | abstract: a log that grows at its end by ledgers that are in the lake | |
| `LedgerProcessor` | queue, invocations, reconcile, retry, publish | the actions of `PartitionWriter`; refines `LedgerStore` and `LedgerLog` |
| `BackfillRunner` | K processes, their sync tasks, scratch directories and runs | the actions of `PartitionWriter` |
| `Ingestion` | the indexer and backfill processes on one store | the actions of `LedgerProcessor` and `BackfillRunner` |
| `LakePacing` | chain messages, keepalives and wakes | of `reconcile`, only what it returns |
| `PartitionWriterProofs`, `LedgerProcessorProofs`, `LakePacingProofs` | theorems | |
| `IngestionProofs` | theorems, on `BackfillRunner` alone and on `Ingestion` | |

**PartitionWriter.** A row is the number of the ledger it was staged from, a
table the set of its rows: ReplacingMergeTree makes a row written twice one row.
`writer[w]` is a `PartitionWriter` value: `inserts[t]` are the ledgers streamed
into the open INSERT of table `t`, `ledger_rows` the held-back markers, `next` how
far `commit()` has come in its list of `end(..).await?`. `streamed` and `markers`
are what any INSERT, of a live or a dead writer, ever sent: `LandRows` and
`LandMarkers` may store any part of it at any time, which covers blocks written
before an abort, an answer lost after the server had the rows, and a request still
running on the server after its Lambda was killed. `EndInsertFails`,
`MarkersFail`, `Drop` and the failing `WriteLedger` are the error paths.

**LedgerProcessor.** `slot[s]` is one execution of the function: `cursor` (SELECT
max), `loop` (deadline, HEAD), `process` (GET, parse, metadata reads), `persist`
(the writer and its retries), `publish`. A slot's writer is `writer[s]`. Doorbells
carry nothing, so there is one per file plus `Later`, which stands for every file
past the window: ledgers keep closing. A doorbell is queued, in flight, done or
dead; `Throttled` is a delivery that found no slot; `DeliveredAgain` is SQS's
at-least-once delivery and the redrive of the dead-letter queue. `Crash` drops the
invocation and its writer anywhere; what its inserts sent stays.

**BackfillRunner.** `run[r]` is the main task, `sync[r]` the one `sync_partition`
call in flight. The start of a run fixes the resume set and the partitions;
`NextPartition` takes a sync outcome and spawns the next; ledgers are skipped,
ingested and unlinked in ascending order; a partition commits once; its folder is
removed. A directory is shared by the processes that name it, as the default
`--temp-dir` is. `Download` copies any part of what the archive holds: a copy that
leaves something behind though `aws` exits 0 is a fault, and so is a file that cannot
be removed after its ledger was staged. `whole` and `skipped` record the partitions of
which the archive had every file as the run began, and those reported as skipped.

**Ingestion.** The indexer goes on from max(sequence), whoever wrote that row, and
never returns to a ledger below. So what a backfill stores above the cursor leaves a
hole that no doorbell fills: below the first ledger it was asked for, or below one that
came after a partition that failed or was skipped. Both happen in the run, since nothing
is assumed of the ranges that operators give. What the code does promise is that the
indexer makes no hole itself: `HolesAreOwned` says that each hole ends where some
process was told to begin, or at a ledger of a process that is to store the one before
it as well, and has not ended Ok, or has reported its partition as skipped. Who starts
`run --start <gap>` above the cursor (`docs/backfills.md:15`) has to start one for the
rest. One doorbell, `Later`, stands for all, since each wakes the same reconcile; the
archive keeps what it has.

**LakePacing.** `chain[e]` counts the queued messages `{expect: e}`, `wake` is the
invocation between receive, reconcile, send and answer. `Live` counts the messages
that expect a ledger not yet stored, and the wake that is about to send one. `copies` and `losses` are
history: duplicated and lost chains since `newest` last moved. A message is
delivered at some later time in any order. What a reconcile may store is any
contiguous part of the lake above the cursor: the theorem `LogRefinement` is why
that is all it can be.

### What a ledger becomes

In these modules the network is part of the model: it closes ledgers, the indexer
stores them in any order and again, and properties compare the two. The commit of a
ledger is one step (`PartitionWriter` has its parts).

| Module | State | Actions and the code |
|---|---|---|
| `LedgerRows` | `applied`: the ledger in apply order; `tx_set`: its envelopes in hash order; `parsed`, `stored` | `ParseTx`/`EndParse` walk the transactions of `parse_ledger`; `Stage` makes the rows of transactions, operations, events, participants, assets, pools and deployed contracts (`stage.rs`). An envelope may be missing. |
| `CallTrace` | the host's stack and trace, the calls made; the parser's `result` | the host calls, returns and fails; `ExtractInvocations` replays the trace, or reads the authorization trees when there is none. |
| `AccountState` | account entries and trustlines; the open transaction; `accounts`, `balances`, `account_entry_state` | fold of a transaction and of a ledger; `bootstrap` and `repair-tier1` statement by statement. |
| `SacBalances` | storage entries of contracts; `asset_sac`; a backfill's open partition | keying a balance on the asset a SAC wraps; `balance-seed`; the re-key's insert and delete. |
| `ContractCode` | programs, instances, CAP-85 references; the tables; a torn write | staging of programs, instances, upgrades and references; metadata read by running the contract; the three fills, chunk by chunk. |
| `PoolRegistry` | the storage of each pool, by family (`Routers`, `Old`, `Pairs`, `Configs`); registry, reserves and declarations | the gates each family passes; reserves from a rewrite; shares; what the API serves. |
| `PoolRegistryProofs` | | theorems |
| `PoolMovements` | events by position, SAC facets, registry legs; `pool_movements` | legs of each family; grouping of per-field events; the refill, truncate first. |
| `ValueFlow` | balances, change records, events and operations of one transaction | value per asset from entry changes (`net_settled`), transfers from events, an account's balance changes, the sub-account of a deposit. |
| `NftRouting` | code and verdicts, `cache`, hot and pending rows, the open writers | verdict lookups that may fail; routing; `contract-type-rebuild` (staging, EXCHANGE) and `nft-reclassify` (promote, delete). |
| `NftRoutingProofs` | | theorems |

### Snapshots

| Module | State | Actions and the code |
|---|---|---|
| `CheckpointRead` | the bucket list and its manifest; our rows; `snapshot`, `report` | `open_snapshot` reads buckets, first record of a key wins; `ReadSlice`/`Observe` classify our rows slice by slice while the indexer writes; `ObserveMissing`, `Finish`. |
| `SnapshotSeed` | the chain's state per ledger, rows incomplete in three ways, the running seed | select, compare, insert the versions; the indexer and a re-parse go on. |
| `SnapshotSeedProofs` | | theorems |

### Enrichment

| Module | State | Actions and the code |
|---|---|---|
| `Enrichment` | rows per key, inserts that have not landed, the SQS queue and dead letters, `worker`, `drain` | `Index` (anti-join and publish), `Receive`, `WorkerStep`, `Crash`, `Duplicate`, `Land`; the drains with their cursors, chunks and reports. |
| `NftFetcher` | endpoints, round-robin `cursor`, `cache`, loads in flight | `Call` joins or starts a load, `Ask` tries the next node or gateway, what is transient, what is cached. |
| `EnrichmentProofs` | | theorems about both |

### The API

A client asks, follows cursors both ways and polls; every read of a request is a
step of its own, with writes between the reads. `copies` counts unmerged copies.

| Module | Models |
|---|---|
| `Keyset` | cursors, the comparison in both directions, the peeked row, `finalize_page` (no state; shared) |
| `TxList` | `GET /v1/transactions` with filters, index-driven scans, partition stop, tags and 304 |
| `LedgerPages` | the ledger list, its over-fetch and tag; the detail and what caches keep of it |
| `EntityPages` | transactions of an account or asset, invocations and events of a contract, transfers of an NFT |
| `RankedLists` | assets, pools, accounts, participants and NFTs, ordered by ranks that move and a copy rebuilt every two minutes; contracts, by id |
| `PoolActivity` | rounds over leg rows, pairing of legs, windows and spans that double |
| `Search` | which of six buckets a query reads, their statements, ranking, limits and routes |
| `RuntimeFetch` | the RPC pool with failover, programs to decompile on a limited number of blocking slots, sponsors in calls of a few keys |
| `VerifiedSource` | the aggregator's records reduced to a status, a recipe and files |

`MCLedgerProcessor`, `MCBackfill`, `MCLakePacing`, `MCNfts`, `MCTables`, `MCPools`
and `MCLists` are the instances for TLC. Where a run has several parts, its module extends
a component that has theorems (`NftRouting`, `Enrichment`, `PoolRegistry`,
`SnapshotSeed`), whose constants the configuration gives, and instantiates the others.
What a part does not use stays as it is, at its initial value or at `<<>>`.

## 3. The runs

A run takes components that share the store, or an idea, and nothing else. Its
initial state chooses one of several scenarios, and `part` names the choice; so the
states of a run are the sum of those of its parts, not their product. A property of
such a run is a conjunction of what its parts promise (`part = .. => ..`), each
stated with a comment in the module of the component. Every property has a mutant
in `PROJECT.json`: a plausible bug in one mapped definition that TLC catches under
the same configuration.

| Run | States | Parts | Properties and what they say |
|---|---|---|---|
| `sequencer` | 349,510 | one slot, own bucket, retries, crashes, dead letters | `OrderInv`: gap-freedom with its strengthening. `WritesAtCursor`: with one slot a ledger is written only at the cursor or one above. `PublishedIsDurable`: no message before the marker. `ImplementsLog`. |
| `sequencer_live` | 276,268 | two slots, public lake | `NoGaps` does not depend on reserved concurrency 1. `ImplementsFairLog`: the log grows whenever it can. `Drains`: a contiguous run of files is stored in the end, whatever became of its own doorbells. |
| `backfill` | 536,542 | `store` (two writers, two tables), `one` (a process that fails, crashes and is run again), `two` (two in one partition and directory), `beside` (the live indexer, and a process on the whole window or on its last ledger) | `MarkerImpliesRows`, `ImplementsStore`: the commit marker; a reader that trusts it sees an atomic store. `NoMissingFile`: no panic after a sync reported Complete, in a scratch directory of one's own. `DoneIsStored`: an Ok run stored its range but for partitions it reported as skipped, and never takes a short download for archive lag. `ReleasedIsHeld`: a deleted file belongs to a ledger that is stored or fails with its partition. `HolesAreOwned`: a hole ends where a process was told to begin or is that process's own, never at a ledger the indexer chose. `RunEnds`: a run neither retries a short download for ever nor waits for a prefetch nobody started. |
| `pacing` | 27,220 | | `OneChain`: only a duplicate adds a chain, only a failure ends one. `ExpectsNext`: none waits beyond the next ledger. `StaleChainsEnd`: chains merge. `CatchesUp`: the keepalive restarts a dead one. |
| `nfts` | 398,809 | `routing`, `upgrades`; `worker`, `drain`, `both` (in turns), `beside`; `fetcher` | `NothingIsLost`: an NFT's event is hot or waits in quarantine; no message is acknowledged before its row; and the inductive invariants of the proofs. `VerdictsSettle`: the two passes settle a quiet database, and what is stored and cached is the verdict of the code. `ValuesKept`: a value goes only for a newer answer (not asked of `beside`, whose rows are in `disputed`). `ReportsAreTrue`: a drain without failures has covered its keys, and a rebuild has lost no contract. `AttemptsEnd`. |
| `tables` | 1,986,084 | `accounts`, `changes`, `signing`, `passes`; `holdings`, `claims`, `state`, `pool`; `sac_live`, `sac_seed`, `sac_rekey`, `sac_beside`; `ledger`, `trace`; `archive`, `samples`; `code`, `again`, `metadata`, `proxy` | `TablesTypeOK`: the types, and of the seed `SnapshotInv`, the invariant of its proof. `RowsAreTrue`: a row is the network at the newest stored ledger that touched it, and a report on a checkpoint blames no row wrongly. `SeedSettles`: once a seed from a checkpoint is through, what it read is right and stays so (of `claims`; in `RowsAreTrue` for the other three kinds of key). `NothingMissing`: whatever the indexer could not know is filled in, and everything has its row. `NeverWorse`: no pass makes a right row wrong; the swap of `repair-tier1` loses nothing while writers are stopped (`passes`), and beside a writer (`signing`) only rows that come back when their ledger is stored again. |
| `pools` | 546,070 | `claims`, `state`, `config`; `direct`, `apart`, `zero`, `config_moves`, `sacs`; `classic`, `tokens`, `authored`, `deposits` | `PoolsTypeOK`: the types, and `RegistryInv`, the invariant of the proof. `RegistryIsGenuine`: a pool is registered under its creator and legs, whatever others claim. `ServedIsCurrent`: reserves, shares, plane and token shown are the pool's own. `RowsAreMovements`, `NothingLost`: a stored leg is a movement, every movement is stored but for those the code leaves out (section 7), and what is stored of a pool adds up to what it moved. `NetIsFlow`: value, cells and sub-accounts are what the network did. |
| `lists` | 1,143,791 | `transactions`, `ledgers`, `entity_transactions`, `contract_events`, `nft_transfers`, `assets`, `pools`, `accounts`, `participants`, `contracts`, `nfts`, `classic_activity`, `soroban_activity`, `rounds`, `decompile`, `sponsors`, `verified`, `search` | `WalkSeesAll`: a walk by `next` shows all that was there, once, in order. `PagesFit`: a page leaves out no row, `prev` undoes `next`. `ShownIsTrue`: a 304 is true, movements are whole, what is fetched is of the thing asked for, a search shows matches. `Answers`: the rounds of a request end. |
| `backfill_shared` | violated | two processes on disjoint ranges | `DisjointRangesRun`; see section 7. |
| `nft_race` | violated | `nft-reclassify` beside the indexer | `NothingIsLost`; see section 7. |
| `tx_filters` | violated | an account's calls in a busy contract | `WalkSeesAll`; see section 7. |
| `movements_seeded` | violated | a movement in the ledger that deploys the SAC | `RowsAreMovements`; see section 7. |

One type invariant per run, or a conjunct of another invariant, covers the types.

### Bounds, and why they are enough

* **Ledgers**: one to six. The behaviours of interest need one below, at and above
  the cursor, or before, at and after a checkpoint, a deployment or a partition
  edge. Initial states hold every prefix (indexer) or every subset (writer, backfill).
* **Tables**: two where the order of `commit()` matters, one elsewhere. Ledgers stage
  into different sets of tables, one of them into none in the backfill.
* **Retries and receives**: `Retries` is 1 or 0 for the code's 3, `MaxReceive` 1 or
  2 for 10: the last attempt and the one before it are what the code tells apart.
* **Partitions**: `PartitionSize` 2 for 64 000: one ledger in the genesis partition,
  two in the next. `Partition` 2 in `TxList`, so that a scan stops at an edge.
* **Pages**: `Limit` 1 or 2, `MaxRequests` 1 to 7: a first page, a walk to the end
  of three or four rows, and a turn back. `MaxCopies` is one more than the unmerged
  copies a list must bear.
* **Windows**: `Window` 2 or 3 and `Span` 1 for the 64 rows and 500,000 ledgers of
  pool activity; `KEYS_PER_CALL`, `KEY_SLICES`, `SAMPLE_CAP`, `Slots` and
  `MAX_TOKEN_IDS_AS_PARAM` are 1 or 2, so that a second call, slice or chunk is needed.
* **Numbers**: amounts 0..2; `Width` 8 for 2^127 in `ValueFlow`, so that a sum of
  authored numbers overflows.
* `MaxFaults`, `MaxFailures` and `MaxOutages` (0 to 2) bound errors, crashes and changes of
  endpoints in one behaviour; `MaxRuns`, `MaxSeeds`, `MaxRekeys`, `MaxDrains`, `MaxPasses`,
  `MaxFills`, `MaxAgain` and `MaxReparses` how often a pass or process is started;
  `MaxWrites`, `MaxMoves` and `MaxChanges` what others do meanwhile. A late landing of sent rows is not a fault
  and is never bounded.
* Where two concerns do not meet, two parts take one each: `direct` has two calls in a
  transaction, `apart` two transactions in a ledger and `zero` movements of nothing, `code` references, upgrades and torn writes and `again`
  Stellar asset contracts, imitated events and ledgers stored twice, `sac_rekey` two
  partitions and `sac_beside` one and the indexer. The two claimable balances of `claims`
  are interchangeable (`Symmetry`); no other run uses symmetry.
* Deadlock is unchecked wherever requests, ledgers or passes are bounded: such a
  behaviour really ends. `sequencer`, `sequencer_live` and `pacing` never stop and
  are checked for deadlock.

### Fairness, and why the code justifies it

* `LedgerProcessor`: a running invocation takes its next step (`Work`); the event
  source mapping delivers something that is queued while a slot is free; ledgers keep
  closing, about one in five seconds, so a further doorbell comes (`LaterFileLands`).
  Nothing is assumed of a particular file, doorbell, fault or late insert. `Drains`
  excepts an empty table on the own bucket: that database waits for a seeding
  backfill (`first_ledger_to_read` is `None`).
* `BackfillRunner`: a started process and its sync task go on. The operator need not
  start it, the archive need not grow. One condition stands for all processes: each
  takes finitely many steps, so what is fair to all at once is fair to each.
* `LakePacing`: the schedule rings, SQS delivers every message in the end, though
  other messages take the slot first (strong fairness), a running handler goes on.
  Files need not land.
* `Enrichment`: Lambda polls the queue and runs what it took, ClickHouse answers, a
  started command goes on. Sources may be down for ever.
* `NftFetcher`: every request has a timeout, so every attempt ends.
* `PoolActivity` (`Answers`): the server goes on with a request it has begun.

## 4. What is proved

The theorems hold for every value of the constants that their module's assumption
allows: any sets of writers, slots, processes, ledgers, contracts and keys, any
assignment of rows to tables, any number of retries, faults and runs. The bounds of
the runs are constants like the others, so a theorem does not depend on their size.
A theorem that needs more says so in its ASSUME; those cases are named below.

| Module | Assumes | Says |
|---|---|---|
| `PartitionWriterProofs` | types | `WriterInvariant`, `CommitMarker`, `Refinement` |
| `LedgerProcessorProofs` | a window that is not empty and starts above 0 | `SequencerInvariant`, `SequencerTypes`, `Ordered`, `Contiguous`, `WritePath`, `SequencerStore`, `Durable`, `LogRefinement`; `AtCursor` for `Concurrency = 1` |
| `IngestionProofs` | a partition size above 0, a process's range among the ledgers | `BackfillInvariant`, `RangeIsStored`, `EarlyDeleteIsSafe`, `NeverPanics`, `BackfillWritePath`, `BackfillMarkers`, `BackfillStore`; with `IngestionAssumption` (the indexer's window, slots that are not processes) `IngestionInvariant`, `NoHoleIsLost`, `SharedStore` |
| `LakePacingProofs` | a window of ledgers | `PacingInvariant`, `ChainsAreBounded`, `ChainsExpectNext` |
| `NftRoutingProofs` | the writers stopped during a pass (`LiveDuring = {}`) | `PassInvariant`, `PassesSettle`, `ContractsAreKept`; without upgrades `RoutingInvariant`, `NoEventIsLost`, `WarmCacheAgrees`; with the indexer alone `CodeInvariant`, `CodeIsStored`; all three in `VerdictsAreSettled` |
| `EnrichmentProofs` | a finite set of keys, each asset or NFT | `EnrichmentInvariant`, `AckedKeysAreTried`, `DrainsCoverTheirKeys`; unless a drain runs beside the worker (`~ Beside`) `ValuesAreKept`, `ReportsAgree` |
| the same, of `NftFetcher` | pools with an endpoint or more, no token called "name" or "empty" | `FetcherInvariant`, `WaitersHaveALoad`, `EveryEndpointIsAsked` |
| `PoolRegistryProofs` | families of pools that do not overlap, a factory that is no foreign emitter | `RegistryInvariant`, `PoolTypesCorrect`, `RegistryRowsAreGenuine`, `CreationsAreRegistered`, `RegistryIsTrue`, `AttributionsAreFinal`, `DeclaredStateIsCurrent`, `ServedWithinPlane`; with one plane `ServedReservesAreCurrent`; if no configured pool is restored `ServedSharesAreTrue`; with both `ServedStateIsCurrent` |
| `SnapshotSeedProofs` | amounts and counters are naturals, kinds of keys that do not overlap | `SeedInvariant`, `SeedTypesCorrect`, `SeedingSettles`, `RowsHaveDimensions`, `InsertsNeverWorse` |

Each inductive invariant is also checked by TLC on a small instance: those of routing and
of enrichment are conjuncts of `NothingIsLost`, those of the registry and the seed of
`PoolsTypeOK` and `TablesTypeOK`. A property of a run that has several parts is the
conjunction of properties of their modules, and a theorem is about one of these; where the
run takes the property of one module as it stands (`VerdictsSettle`, `ValuesKept`,
`RegistryIsGenuine`, `ServedIsCurrent`, `SeedSettles` and those of ingestion and pacing),
theorem and run are about the very same definition.

**The write path.** `MarkerImpliesRows` alone is not inductive: markers may land late,
so whatever is *on the wire* must be complete already (`MarkersWait`); a writer sends
markers after it has passed every table, so what it passed must be landed
(`PassedIsLanded`) and what it buffered must be streamed (`BufferedIsStreamed`),
which fails only in a writer that may no longer commit. For `Refinement`, every step
publishes the set of ledgers whose markers it adds, or stutters: `PWInv` says those
have exactly their rows, and `RowsOnlyWhereStaged` that they will never get more.

**Its callers.** Each action of the indexer, of the backfill and of both together is a
writer step or leaves the store alone (`WritePath`, `BackfillWritePath`). So the commit
marker and the refinement carry over to all three without new proofs.

**The live indexer.** `NoGaps` needs every slot, every writer and every marker on the
wire to be at the frontier: a slot's ledger has all its predecessors stored
(`SlotsAtFrontier`), a writer holds that ledger and no other (`WritersHoldNext`), and a
marker, also of an invocation long dead, has all predecessors stored and its file in
the lake (`MarkersInOrder`). Since the store only grows, a frontier that held when it
was read still holds: this is why no lock is needed, and why two invocations may
overlap. `LogRefinement`: a step that stores ledgers stores exactly the next one, which
is in the lake. `AtCursor` does need the reservation of one execution: then nothing is
stored or on the wire above the ledger the one slot is at (`CursorInv`), so a ledger is
persisted at the cursor or right after it, and history is never written again.

**The backfill.** A run's books account for its range: a ledger is stored, or its
partition is skipped, still to be handled, or the one at hand (`NothingForgotten`). A
prefetch is of a partition still to be handled (`SyncFollows`), and in a directory of
one's own a download that was reported complete stays complete until its partition is
at hand (`DownloadIsWhole`, for `Alone` processes only; the others are the finding
`backfill_shared`). A writer that came to `commit()` has looked at every ledger of its
partition (`WriterFollows`), so when the run passes on, what was deleted early is
stored. Crashes and failures lose the writer and the books together, and the next run
starts from `ledgers` again.

**Archive lag.** That a partition is skipped for lag alone needs the archive's own
history: what it had whole as the run began it still has (`LagIsTrue`), and a probe that
counts the files of such a partition counts all of them (`LagIsCounted`, by the
cardinality of a finite set), so it cannot answer `S3Incomplete`. With `NothingForgotten`
this gives `DoneIsStored`.

**Both on one store.** `HolesAreOwned` speaks of the end of a hole, and so does the
invariant: a ledger *follows* if the one before it is stored, or a process was started
for it (`Follows`). Everything that is stored, or whose marker is on the wire, follows; a
slot is at a ledger that follows, since it read the cursor or stored the ledger before
(`SlotFollows`); a process writes what it was started for (`RangeFollows`). The store and
what was started only grow, so what follows goes on following. Should that process have
been asked for the ledger before as well, and have ended Ok, it has stored that one or
reported it, by `DoneIsStored`.

**Pacing.** The number of chains is a cardinality, so the proof counts: all chains that
expect something unknown expect the one next ledger (`ExpectsNext`), so they are the
messages of one number. A stored ledger leaves them all behind and its wake, which has
left its message behind too (`StoredIsAhead`), starts the one that replaces them.

**The passes.** A pass is several statements, and `PassFollows` says what each finds as
the earlier ones left it: the staging table is a rebuild of the contracts that are
there, no pending row is left that has a verdict, and so on. This is where the writers
must stand still; `nft_race` is the counterexample otherwise. `PassesSettle` and
`ContractsAreKept` follow, upgrades or not.

**Routing.** An event is routed by the verdict that was stored when it came. That this
loses nothing rests on three facts kept together: what a row, a staged row or the
container's cache says of a contract is true of its code (`ContractsTrue`,
`StagedTrue`), an event whose contract has no verdict yet waits in quarantine
(`EventsTrue`), and a pass drops only what it has promoted (`PromotedFirst`). An upgrade
breaks the first fact: an NFT contract may become something else while its events
stay. So `RoutingInv` excludes upgrades, as the run `routing` does. With upgrades, what
remains is `CodeInv`: the last row of a contract names its code. It needs the indexer
alone: a backfill's `run` stages with empty maps in place of the lookups, so it has no
stored row to carry on, and an upgrade it passes leaves none. `VerdictsAreSettled` says
under which of these conditions each verdict is settled, as `VerdictsSettle` does in the run.

**Enrichment.** `Delivery` follows a message from the queue to the row or the failures
of its batch (`Held`): a message that is still held is in the batch, among the
failures, or settled. `Walk` follows a drain's cursor: what it has under way is not
beyond it (`Reach`), and a key it has passed without failure has a row (`Passed`). Both
hold whatever else runs, since a row, once there, stays.

What the rows say is another matter. Worker and drains read a source, stamp the answer
and insert; an insert may land late, or after it was sent again. In a drain that runs
in the worker's place, as the note on `now_ms` asks (`~ Beside`), `Values` orders, for each key, the row and
all inserts on their way: a later version is never empty where an earlier one has a
value, unless its answer is the newer one (`Supersedes`), and a task that has its answer
will supersede all there is (`Prevails`). Such a drain has one attempt at a key, and
that is the newest of the key (`OneAttempt`, `SentIsKept`); so the row of a key it
counted stays (`CountedIsSo`). Beside the worker none of this is so: section 7.

**The fetcher.** A load ends because it was answered, and then somebody must have heard
it, or because its pool is exhausted. For the first, the invariant says that each load
has somebody waiting (`Awaited`). For the second a count of attempts is not enough: the
endpoints a load asked are those from its start on round the pool (`AskedInTurn`), and a
rotation visits none of them twice (`RotationDiffers`), so as many attempts as the pool
has nodes are all the nodes, whatever `cursor` other loads moved meanwhile.

**The registry of pools.** Two halves. The tables are a function of the set of stored
ledgers (`TablesFollow`): a row is what the newest stored ledger that has one says, so
the order and repetition of `Store` do not matter. And the chain tells each pool's story
from its creation on: it is created once and before all else (`CreatedOnce`), in a
transaction that announces it under its creator's name and nobody else's (`Sound`), and
writes that say different reserves have one between them that moved them
(`ReservesFollow`). From the first two: of the claims a gate accepts, each is the
creator's, and the creation's own claim passes the gate. From the last: a ledger that
added no row could not have said anything new, so the newest row is the state, even
where the newest ledger wrote the pool without moving its reserves. Shares need that an
empty pool has none, since a stored 0 may mean that the key is absent.

Two hypotheses are needed and are named. `argMax` compares ledgers: a router pool that
moved its reserves on two planes within one ledger has two rows of one version, and which
of them is served is open, so `ServedWithinPlane` asks for `StaysOnPlane`, and the run's
`ServedIsCurrent` for one plane. A configured pool that is restored keeps the supply of that moment
(section 7), so shares ask for `Archived \cap Configs = {}`.

**The seed.** Everything hangs on what a row says of its own version. An entry is, from
the ledger that changed it last, as that ledger left it (`ChainInv`), and a row holds
what the ledger of its version left (`Faithful`): so a row at least as new as the last
change is right. What is missing is known by its ledger: one that the present writer
stored has reached all rows of the keys it touched (`Covered`), and the exceptions are
those that were skipped, lie below the floor, came before the writer, or wait in a
re-parse. A running seed closes the gap up to `upto`, the smaller of its checkpoint and what was stored as
it began: each key it has read is right or has a correction (`Corrected`), which is what the
network had at the checkpoint (`Sound`); each correction is in a table still to come or
among the rows of the one at hand (`Pending`). Meanwhile the indexer's newer row
prevails over a pending correction, because versions order them; a closure at the checkpoint
never covers a holding that came later, for the same reason. `SettledInv` is what is
left when the last table is through. The same invariant says that `Verdict` can name
`ClosedButLiveConflict`, `DivergentOursNewer` or `DivergentSameLedger` for no row.

Proving these two found three places where the models allowed what cannot be: families of
pools that overlap when one of them is empty, a trade that left the shares unrelated to the reserves
(an equivalence that bound more loosely than was meant), and a key of two kinds. `ImagesOf` and its kin
became sets of positions, since nothing can be proved of a filtered sequence; `Latest`
takes the last as the fold does.

**Numbers.** `max(sequence)`, the next partition, the record of a batch that is next, the
last key of a chunk and the last write of a ledger are each the least or the greatest of
a set of numbers. That a set of naturals has a least element, and a bounded or finite one
a greatest, needs induction; the lemmas `Smallest`, `Greatest` and `GreatestOfFinite` get it from
the library's theorems on well-founded orders.

## 5. What is only checked

* Liveness (`Drains`, `ImplementsFairLog`, `RunEnds`, `StaleChainsEnd`, `CatchesUp`,
  `AttemptsEnd`, `Answers`): fairness and ENABLED are out of the prover's reach.
* Sums and folds: `NetIsFlow`, `RowsAreMovements` and `NothingLost` of `ValueFlow` and
  `PoolMovements`, the rows of `LedgerRows` and `AccountState`, the trees of `CallTrace`,
  the bucket list of `CheckpointRead`. They fold sequences or add up sets with the
  operators of the community modules; what such a fold computes for every input needs
  induction over data, which the provers at hand cannot instantiate.
* The lists (`WalkSeesAll`, `PagesFit`, `ShownIsTrue`). The keyset walks compare tuples
  of keys and page through them with filters of sequences, which is the same obstacle.
* `SacBalances` and `ContractCode` (in `RowsAreTrue`, `NothingMissing`) have no such
  obstacle, and no proof yet.
* `NothingIsLost`, `TablesTypeOK`, `PoolsTypeOK`, `NothingMissing` and `ReportsAreTrue` are
  conjunctions over several modules, of which those named in section 4 are proved.
* What is false in general has no theorem: `NoNftLost` beside a running pass, events
  after an upgrade, `FilesAreThere` in a shared directory, `RetryKeepsFetched`.

## 6. What is not modelled

Everywhere: wall-clock delays, the contents of rows beyond what a property tells
apart, logging, metrics, dashboards. `PROJECT.json` gives each component's gaps.

* **Ingestion.** The AWS CLI's own retries (one outcome); an `aws` subprocess that
  outlives a killed runner; targeted runs (`write_only`) as a process. A ledger file
  holds one ledger, as Galexie is configured.
* **`LedgerRows`.** Two transactions out of six kinds, at most one missing envelope;
  an NFT event's owners count as parties. Accounts rows, amounts and fees are not
  modelled; decoding of an event is data. **`CallTrace`.** A caught failure leaves no
  trace entry, so callers are claimed only where none was caught.
* **`AccountState`.** Amounts and signer sets are small sets; refunds are excluded
  from the part that claims balances (section 7).
* **`SacBalances`.** A restored entry is a `SetBalance`. The re-key runs after the
  last partition and beside no seed, as its notes prescribe.
* **`ContractCode`.** Metadata of the other members of a fleet, contract lists and
  statistics, the 45 s cache, the lookup of `sac_asset`. `Skipped` excludes a contract
  deployed and upgraded in one ledger, and an old range is stored again only from
  `Since` on (both in section 7).
* **`PoolRegistry`.** One creator, `Factory`; `Others` are foreign emitters and claims
  take the family of the pool they name. Values that do not parse, half a pair of
  reserves, the list of contracts that are no pools, and decimals are left out.
* **`PoolMovements`.** Silent tokens, renamed events, JSON that does not parse, pools
  that are not registered; `Other` occurs once an operation. `WritesBalances` is a
  full write, `PartitionOf` the ledgers whose facets are read once for all. A router's reserves move by what its calls move
  (in the code also by fees and rewards it sets apart); a restored instance and a
  pair's sync add a state row at most.
* **`ValueFlow`.** `state` stands for the kinds State and Restored; muxed topics, the
  memos table and two kinds of rejects that the code calls never observed are left
  out; `Gain` excludes refunds. **`NftRouting`.** A row is its contract and ledger.
* **`SnapshotSeed`.** The listing of gone pools, counters without an account, a tie of
  versions. The horizon up to which a seed settles is the smaller of its checkpoint
  and the cursor as it began. **`CheckpointRead`.** Two levels of buckets, spilled at
  any time (stellar-core's merge, with INITENTRY, is external); a manifest that is
  wrong or a bucket that is corrupt ends the read; native trustlines and the counts of
  capped dumps are left out.
* **`Enrichment`.** One worker at a time, as deployed. A drain runs in its place, or
  beside it (`Beside`, the part `beside`) with clocks that agree: skew is what the note
  on `now_ms` is about. What a value says (caps, URL schemes) is present or not.
* **API lists.** Pool charts and USD analytics, network statistics, the in-memory response cache, authentication and the edge lock.
  The over-fetch ceiling of the ranked lists and their dropping of malformed addresses
  are documented limits, not run.
* **`Search`.** Labels; a name and a symbol are one text; copies of pools.
  **`RuntimeFetch`.** Sponsors of signers, links of results, counts of markers.
  **`VerifiedSource`.** The aggregator's age; the limits of the unpacker are two
  flags, `fits` and `small`.
* **Infrastructure, web frontend, load tests, protocol watch**: deployment,
  presentation and tooling.

## 7. Where the documents and the code differ

Each was met while modelling. The first four are runs that expect a violation. Of the
others most were shown by TLC on the module named; their statements stay in the
modules, unused by a run, where a name is given.

1. `backfill_shared`: `docs/backfills.md:54-55` parallelises by disjoint ranges. Two
   that meet inside one archive partition share its folder under the default
   `--temp-dir`, and the first to finish removes it; the other panics and must be run
   again. Nothing wrong is stored (part `two`). Ranges aligned to partitions are safe.
2. `nft_race`: `docs/backfills.md:295-297` allows `nft-reclassify` beside the indexer.
   A row quarantined between the promotion and the DELETE is lost.
3. `tx_filters`: with a second filter on top the driver's window of positions may run
   empty before the page is full, and the list ends (`list_transactions.rs:549`).
4. `movements_seeded`: movements get the SAC map as it was read, the registry the one
   seeded with the ledger's own SACs (`stage.rs:1977`).

**Ingestion and maintenance.**

* `docs/backfills.md:15` fills a gap with `run --start <gap> --end <tip>`. The
  partition of the tip is never complete in the archive, so it is skipped and the run
  ends Ok with the gap (`sync.rs:217`). While it runs above the cursor, the indexer
  goes on from what it stores (`handler/mod.rs:247`) and skips what lies between.
* A container that stays warm keeps a contract's verdict though an upgrade and a
  rebuild changed it; `classification_cache.rs:30-32` asks callers to evict
  (`NftRouting`, `persist.rs:515`).
* `stage.rs:1950-1955` calls a deployment and an upgrade in one ledger impossible; the
  contract then keeps the old code until its next upgrade. An old range stored again
  before the contract-instance fill leaves an older instance that the fill skips
  (`ContractCode`).
* A backfill's open partition does not see its own SACs, so their balances are keyed
  on the contract until the re-key (`sink.rs:207`; `docs/backfills.md:496` knows).

**What a ledger becomes.**

* The identity of an account: a change of a trustline alone stores sequence number 0
  over a known one (`stage.rs:896`, against `account_states.rs:16-18`).
* The refund of a Soroban fee is outside `TransactionMeta` from protocol 23 on, so a
  native balance is the one before it until the next change (`docs/backfills.md:31-32`);
  earlier, the refund counts as value moved (`transaction.rs:184`, `stage.rs:2414`).
* An i128 that overflows drops one holder from a sum and stores the rest
  (`ledger_value.rs:140`, against `stage.rs:685`).
* The deployer map reads failed transactions too (`DeployersAlwaysSigned` of
  `LedgerRows`); the frames of a caught failure stay on the parser's stack
  (`CallersAlwaysTrue`) and the JSON of a call tree loses the order of children
  (`TreesKeepOrder` of `CallTrace`).
* A restored config pool shows its supply of that moment as its total for ever
  (`pool_config_factory.rs:250`, `ConfigSupplyIsZero`). Reserves are served from any
  plane, the schema overview says from the declared one (`ServedFromDeclaredPlane`).
* `soroban_pool_amounts.rs:338-340` writes zero legs so that a withdrawal that pays out
  nothing leaves a row, and its lines 56-58 count a state row for every pool event. A
  router's pool has none in a ledger whose transactions each left its reserves as they
  were (`stage.rs:1403`, `pool_state.rs:302`), so such a withdrawal, and calls of one
  transaction that cancel out, leave no row, live or refilled (`Unmoved` of
  `PoolMovements`). The sums of the rows do not suffer.
* The refill of movements adds rows where a leg was keyed otherwise, and writes
  withdrawals of equal amounts that the live writer leaves out
  (`soroban_pool_amounts.rs:12-14`, `AsTheWriter` of `PoolMovements`).
* A piece an account sends twice to one owner hides another's behind it
  (`balance_changes.rs:232`, `NamedIsMoved`); a circular path payment tags the fill of
  the recipient's own offer as the deposit (`muxed.rs:57`).

**Snapshots.**

* `bootstrap` reads its watermark after its fetch, so an older balance replaces a newer
  one (`bootstrap.rs:334`, `SnapshotIsWhole` of `AccountState`); and after a failure
  between its two inserts it never finds those accounts again (`bootstrap.rs:363`).
* The verdict of a difference in one same ledger blames the writer, though a refund
  makes it too (`verdict.rs:84-98`; part `refunds` of `MCTables`).

**Enrichment.**

* The note on `now_ms` (`enrich_and_persist/mod.rs:46-55`) keeps drains from the live
  worker's keys for the skew of their clocks. One clock does not help: the version is
  taken at the insert (`persist.rs:46`), so of two attempts at a key the one that
  fetched first and inserts last puts its older answer over a newer one (`ValuesKept`
  with `Beside`).
* `--retry-sentinels` rewrites whole rows and may clear a fetched collection name
  (`main.rs:479`, `RetryKeepsFetched`).
* A refused connection counts as permanent also for the project's own pool: an outage
  writes sentinels (`SentinelIsAnswered`) and caches "no name" for a day
  (`NoNameIsFact` of `NftFetcher`, `http_transient.rs:53`).

**The API.**

* A copy among the rows of a page takes the place of the peeked row and the list ends:
  transactions (`list_transactions.rs:421`), invocations (`list_invocations.rs:97`),
  ledgers beyond three copies (`ledgers/queries.rs:390`).
* Rows that a backfill writes below the head are counted towards LIMIT and then
  dropped: transactions (`list_transactions.rs:171`), activity (`NoneDropped` of
  `PoolActivity`), entity lists; the NFT transfers do so at the head too
  (`nfts/queries.rs:583`); and a filtered first page gets a 304 though rows were added
  below the head (`handlers.rs:88`).
* An idle poll of a filtered list runs its query every time (`IdlePollIsCheap` of
  `TxList`, against `conditional.rs:4-7`).
* A ledger list whose counts failed has the tag of one that has them; a ledger detail
  read around the landing of two ledgers is kept for long without its transactions
  (`KeptIsWhole` of `LedgerPages`).
* The events of a contract answer 500 for a backfilled ledger that lands between two
  reads (`list_events.rs:228`); the oldest transfer of a page walked backwards has no
  sender though it is no mint (`FromIsPreviousOwner` of `EntityPages`).
* An account that is not in `accounts` for a moment ends the list of accounts
  (`OnlyLostIsHidden` of `RankedLists`).
* Search takes LIMIT before it collapses copies, so a truncated bucket can be counted
  as whole (`SearchResultsTabs.tsx:130`); the statement on NFTs evaluates an unordered
  LIMIT twice, so with more matches than the limit some can fall out; `handlers.rs` and
  `directRouteFor.ts` disagree on where a single hit leads, and an asset without a
  route token is routed by its code in `routeForHit.ts`.
* `fetch_wasm` compares the entry's hash field where the module speaks of a verified
  blob; an account's sponsors may be read at two ledgers, so their count and entries
  can disagree. A verified record without a usable archive makes `/verification` a
  500, and decompiled and verified sources are cached long under the contract, which
  can be upgraded.

## 8. Plan

1. Proofs of the parts that do not fold: `SacBalances` (what a re-key keeps)
   and `ContractCode` (the fills).
2. Pool charts; the response cache and the edge lock.
3. Targeted runs in `BackfillRunner`.
