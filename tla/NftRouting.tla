----------------------------- MODULE NftRouting -----------------------------
(***************************************************************************)
(* Where the rows of an NFT-candidate event end up.  A contract's verdict  *)
(* (Token, Nft, Fungible or Other) follows from its code, which is often   *)
(* uploaded, deployed and used in different ledgers; the writer looks the  *)
(* verdict up before it stages a ledger, and a failed or early lookup      *)
(* sends the rows to a quarantine.  Two maintenance passes repair this:    *)
(* contract-type-rebuild (staging table and EXCHANGE) and nft-reclassify.  *)
(*                                                                         *)
(* A program is its verdict: hash and function list are abstracted.  The   *)
(* commit of a batch is one step (PartitionWriter has its parts).          *)
(***************************************************************************)
EXTENDS Naturals, Sequences

CONSTANTS
    Contracts,
    LedgerKinds,  \* the kinds of ledger that may close, see LedgerContents
    Writers,      \* "live": the indexer; "run": backfill-runner run
    LiveDuring,   \* the passes during which the writers go on
    MaxLedger,    \* bound: ledgers
    MaxBatch,     \* bound: ledgers `run` stages in one open writer
    MaxFailures     \* bound: failed lookups and failed passes

Programs == {"nft", "fungible", "other"}
Codes == Programs \cup {"sac"}
Definitive == {"token", "nft", "fungible"}
None == "none"
Tables == {"nfts", "changes"}   \* nfts and nft_ownership_changes

RoutingAssumption ==
    /\ LedgerKinds \subseteq {"upload", "deploy", "emit", "upgrade", "uploadDeploy", "deployEmit"}
    /\ Writers \subseteq {"live", "run"} /\ LiveDuring \subseteq {"rebuild", "reclassify"}
    /\ MaxLedger \in Nat /\ MaxBatch \in Nat \ {0} /\ MaxFailures \in Nat

VARIABLES
    \* The chain: its height, each contract's code, the uploaded programs.
    height, code, uploaded,
    \* ClickHouse: wasm_programs, soroban_contracts FINAL, type-3 assets, and
    \* the hot and pending NFT rows, a row being <<contract, ledger>>.
    programs, contracts, assets, hot, pending,
    cache,        \* the ClassificationCache of the warm container
    staged,       \* the ledgers staged in the open writer
    pass,         \* the running maintenance pass
    faults,
    isNft         \* history: the committed events of contracts whose code was an NFT's

chain == <<height, code, uploaded>>
store == <<programs, contracts, assets, hot, pending, isNft>>
routingVars == <<chain, store, cache, staged, pass, faults>>

NoRow == [type |-> None, hash |-> None]
RebuildSteps == {"verdicts", "build", "exchange", "assets"}
Idle == [pc |-> "idle", verdicts |-> {}, staging |-> <<>>, quiet |-> TRUE]

RoutingInit ==
    /\ height = 0 /\ code = [c \in Contracts |-> None] /\ uploaded = {}
    /\ programs = {} /\ contracts = [c \in Contracts |-> NoRow] /\ assets = {}
    /\ hot = [t \in Tables |-> {}] /\ pending = [t \in Tables |-> {}]
    /\ cache = [c \in Contracts |-> None]
    /\ staged = <<>> /\ pass = Idle /\ faults = 0 /\ isNft = {}

MayFault(failed) == failed => faults < MaxFailures
CountFault(failed) == faults' = faults + IF failed THEN 1 ELSE 0

-----------------------------------------------------------------------------
(* One ledger.                                                             *)

Only(c, p) == [d \in {c} |-> p]
Quiet == [up |-> {}, deploy |-> <<>>, upgrade |-> <<>>, emit |-> {}]
UploadDeploy(c, p) == [Quiet EXCEPT !.up = {p}, !.deploy = Only(c, p)]
DeployEmit(c, p) == [Quiet EXCEPT !.deploy = Only(c, p), !.emit = {c}]

\* What the next ledger of a kind may hold, given the chain so far.
LedgerContents(kind) ==
    LET fresh == {c \in Contracts : code[c] = None}
        live == Contracts \ fresh
    IN  CASE kind = "upload" -> {[Quiet EXCEPT !.up = {p}] : p \in Programs}
          [] kind = "deploy" -> {[Quiet EXCEPT !.deploy = Only(c, p)] :
                                   c \in fresh, p \in uploaded \cup {"sac"}}
          [] kind = "uploadDeploy" -> {UploadDeploy(c, p) : c \in fresh, p \in Programs}
          [] kind = "deployEmit" -> {DeployEmit(c, p) : c \in fresh, p \in uploaded}
          [] kind = "emit" -> {[Quiet EXCEPT !.emit = {c}] : c \in live}
          [] kind = "upgrade" -> {[Quiet EXCEPT !.upgrade = Only(c, p)] :
                                    c \in {d \in live : code[d] # "sac"}, p \in uploaded}

-----------------------------------------------------------------------------
(* Staging a ledger.                                                       *)

\* The code of each contract at the end of the ledger.
CodeAfter(x) ==
    [c \in Contracts |-> IF c \in DOMAIN x.upgrade THEN x.upgrade[c]
                         ELSE IF c \in DOMAIN x.deploy THEN x.deploy[c] ELSE code[c]]

\* fetch_prior_wasm_verdicts: the stored programs that decide a type.
PriorWasmVerdicts(failed) == IF failed THEN {} ELSE programs \ {"other"}

\* The contract_type of a deployment row.
DeployedType(p, x, prior) ==
    IF p = "sac" THEN "token"
    ELSE IF p \in (x.up \ {"other"}) \cup prior THEN p ELSE "other"

\* The contracts fetch_prior_contract_verdicts has to ask the store for.
MissingVerdicts(x) == {c \in x.emit \ DOMAIN x.deploy : cache[c] = None}

\* Its effect on the cache: extend_definitive, unless the query failed.
CacheAfter(x, failed) ==
    [c \in Contracts |->
       IF c \in MissingVerdicts(x) /\ ~ failed /\ contracts[c].type \in Definitive
       THEN contracts[c].type ELSE cache[c]]

\* Mutants of RouteFor: a contract without a verdict is not quarantined.
RouteForStrict(verdict) == IF verdict = "nft" THEN "hot" ELSE "drop"

\* route_for in stage/nfts.rs.
RouteFor(verdict) ==
    CASE verdict \in {"token", "fungible"} -> "drop"
      [] verdict = "nft" -> "hot"
      [] OTHER -> "pending"

\* build_wasm_upgrade_rows: the contracts whose stored row can be carried on.
Upgraded(x, rows) == {c \in DOMAIN x.upgrade : rows[c] # NoRow}

UpgradeRow(row, p) == [row EXCEPT !.hash = p]

\* prepare_with_sac_overrides and nft_rows, for what routing depends on.
StagedLedger(by, x, prior, verdict, rows) ==
    LET types == [c \in DOMAIN x.deploy |-> DeployedType(x.deploy[c], x, prior)]
        route(c) == RouteFor(IF c \in DOMAIN types THEN types[c] ELSE verdict[c])
        events(r) == {<<c, height + 1>> : c \in {d \in x.emit : route(d) = r}}
    IN  [by |-> by, programs |-> x.up,
         contracts |-> [c \in DOMAIN types \cup Upgraded(x, rows) |->
                          IF c \in DOMAIN types THEN [type |-> types[c], hash |-> x.deploy[c]]
                          ELSE UpgradeRow(rows[c], x.upgrade[c])],
         assets |-> {c \in DOMAIN types : types[c] = "fungible"},
         hot |-> events("hot"), pending |-> events("pending"),
         nft |-> {<<c, height + 1>> : c \in {d \in x.emit : CodeAfter(x)[d] = "nft"}}]

\* The writers go on, or were stopped for the pass that runs.
WritersRun ==
    \/ pass.pc \in {"idle", "rebuilt", "reclassified"}
    \/ (IF pass.pc \in RebuildSteps THEN "rebuild" ELSE "reclassify") \in LiveDuring

Closes(x) ==
    /\ WritersRun
    /\ height < MaxLedger
    /\ height' = height + 1
    /\ code' = CodeAfter(x)
    /\ uploaded' = uploaded \cup x.up
    /\ UNCHANGED <<store, pass>>

\* The ledgers of the open writer.
Batch == {staged[i] : i \in DOMAIN staged}

\* The live indexer stages one ledger and commits it.
StageLive(x, failedG1, failedG9) ==
    /\ "live" \in Writers /\ staged = <<>>
    /\ failedG1 => DOMAIN x.deploy # {}
    /\ failedG9 => MissingVerdicts(x) # {}
    /\ MayFault(failedG1 \/ failedG9) /\ CountFault(failedG1 \/ failedG9)
    /\ cache' = CacheAfter(x, failedG9)
    /\ staged' = <<StagedLedger("live", x, PriorWasmVerdicts(failedG1), cache', contracts)>>
    /\ Closes(x)

\* `run` stages with empty maps in place of the lookups, batch by batch.
StageRun(x) ==
    /\ "run" \in Writers /\ Len(staged) < MaxBatch
    /\ \A s \in Batch : s.by = "run"
    /\ staged' = Append(staged, StagedLedger("run", x, {}, [c \in Contracts |-> None],
                                             [c \in Contracts |-> NoRow]))
    /\ Closes(x)
    /\ UNCHANGED <<cache, faults>>

\* The row of a contract is that of the last staged ledger that has one.
RowAfter(c) ==
    LET having == {i \in DOMAIN staged : c \in DOMAIN staged[i].contracts}
    IN  IF having = {} THEN contracts[c]
        ELSE staged[CHOOSE i \in having : \A j \in having : j <= i].contracts[c]

Added(table, rows) == [t \in Tables |-> table[t] \cup rows]

Commit ==
    /\ WritersRun
    /\ staged # <<>>
    /\ programs' = programs \cup UNION {s.programs : s \in Batch}
    /\ contracts' = [c \in Contracts |-> RowAfter(c)]
    /\ assets' = assets \cup UNION {s.assets : s \in Batch}
    /\ hot' = Added(hot, UNION {s.hot : s \in Batch})
    /\ pending' = Added(pending, UNION {s.pending : s \in Batch})
    /\ isNft' = isNft \cup UNION {s.nft : s \in Batch}
    /\ staged' = <<>>
    /\ pass' = [pass EXCEPT !.quiet = FALSE]
    /\ UNCHANGED <<chain, cache, faults>>

\* A new container: the cache starts empty.
Recycle ==
    /\ staged = <<>> /\ cache # [c \in Contracts |-> None]
    /\ cache' = [c \in Contracts |-> None]
    /\ UNCHANGED <<chain, store, staged, pass, faults>>

-----------------------------------------------------------------------------
(* The maintenance passes.                                                 *)

\* The operator starts a pass; writers that are to be stopped have committed.
Begin(p) ==
    /\ pass.pc \in {"idle", "rebuilt", "reclassified"}
    /\ p \in LiveDuring \/ staged = <<>>
    /\ pass' = [Idle EXCEPT !.pc = IF p = "rebuild" THEN "verdicts" ELSE "promoteNfts"]
    /\ UNCHANGED <<chain, store, cache, staged, faults>>

RebuildVerdicts ==
    /\ pass.pc = "verdicts"
    /\ pass' = [pass EXCEPT !.pc = "build", !.verdicts = programs \ {"other"}]
    /\ UNCHANGED <<chain, store, cache, staged, faults>>

\* staging_insert_sql: only a program that decides overrides, never a SAC.
Rebuilt(row) == IF row.hash \in pass.verdicts THEN [row EXCEPT !.type = row.hash] ELSE row

RebuildStaging ==
    /\ pass.pc = "build"
    /\ pass' = [pass EXCEPT !.pc = "exchange",
                            !.staging = [c \in Contracts |-> Rebuilt(contracts[c])]]
    /\ UNCHANGED <<chain, store, cache, staged, faults>>

\* finalize: the staging table takes the place of the live one.
RebuildExchange ==
    /\ pass.pc = "exchange"
    /\ contracts' = pass.staging
    /\ pass' = [pass EXCEPT !.pc = "assets"]
    /\ UNCHANGED <<chain, programs, assets, hot, pending, isNft, cache, staged, faults>>

\* backfill_assets.
RebuildAssets ==
    /\ pass.pc = "assets"
    /\ assets' = assets \cup {c \in Contracts : contracts[c].type = "fungible"}
    /\ pass' = [Idle EXCEPT !.pc = "rebuilt", !.quiet = pass.quiet]
    /\ UNCHANGED <<chain, programs, contracts, hot, pending, isNft, cache, staged, faults>>

Typed(rows, types) == {r \in rows : contracts[r[1]].type \in types}

\* promote_or_count on a table.
Promote(t, from, to) ==
    /\ pass.pc = from
    /\ hot' = [hot EXCEPT ![t] = @ \cup Typed(pending[t], {"nft"})]
    /\ pass' = [pass EXCEPT !.pc = to]
    /\ UNCHANGED <<chain, programs, contracts, assets, pending, isNft, cache, staged, faults>>

\* drop_or_count on a pending table.
DropPending(t, from, to) ==
    /\ pass.pc = from
    /\ pending' = [pending EXCEPT ![t] = @ \ Typed(@, Definitive)]
    /\ pass' = [pass EXCEPT !.pc = to]
    /\ UNCHANGED <<chain, programs, contracts, assets, hot, isNft, cache, staged, faults>>

\* Mutant of DropLegacy: it clears the pending rows' types from the hot table.
DropLegacyNothing(t, from, to) ==
    /\ pass.pc = from
    /\ hot' = [hot EXCEPT ![t] = @ \ Typed(@, {"other"})]
    /\ pass' = [pass EXCEPT !.pc = to]
    /\ UNCHANGED <<chain, programs, contracts, assets, pending, isNft, cache, staged, faults>>

\* drop_or_count on a hot table: the false positives of an older pipeline.
DropLegacy(t, from, to) ==
    /\ pass.pc = from
    /\ hot' = [hot EXCEPT ![t] = @ \ Typed(@, {"token", "fungible"})]
    /\ pass' = [pass EXCEPT !.pc = to]
    /\ UNCHANGED <<chain, programs, contracts, assets, pending, isNft, cache, staged, faults>>

\* The order of nft_reclassify::execute.
Reclassify ==
    \/ Promote("nfts", "promoteNfts", "promoteChanges")
    \/ Promote("changes", "promoteChanges", "dropNfts")
    \/ DropPending("nfts", "dropNfts", "dropChanges")
    \/ DropPending("changes", "dropChanges", "legacyNfts")
    \/ DropLegacy("nfts", "legacyNfts", "legacyChanges")
    \/ DropLegacy("changes", "legacyChanges", "reclassified")

\* A statement of the pass fails and execute returns Err.
PassFails ==
    /\ pass.pc \notin {"idle", "rebuilt", "reclassified"}
    /\ MayFault(TRUE) /\ CountFault(TRUE)
    /\ pass' = Idle
    /\ UNCHANGED <<chain, store, cache, staged>>

-----------------------------------------------------------------------------
RoutingNext ==
    \/ \E kind \in LedgerKinds, g1, g9 \in BOOLEAN :
         \E x \in LedgerContents(kind) : StageLive(x, g1, g9)
    \/ \E kind \in LedgerKinds : \E x \in LedgerContents(kind) : StageRun(x)
    \/ Commit \/ Recycle
    \/ \E p \in {"rebuild", "reclassify"} : Begin(p)
    \/ RebuildVerdicts \/ RebuildStaging \/ RebuildExchange \/ RebuildAssets
    \/ Reclassify \/ PassFails

RoutingSpec == RoutingInit /\ [][RoutingNext]_routingVars

-----------------------------------------------------------------------------
Events == Contracts \X (1..MaxLedger)

RoutingTypeOK ==
    /\ height \in 0..MaxLedger
    /\ code \in [Contracts -> Codes \cup {None}] /\ uploaded \subseteq Programs
    /\ programs \subseteq uploaded
    /\ contracts \in [Contracts -> [type : Definitive \cup {"other", None},
                                    hash : Codes \cup {None}]]
    /\ assets \subseteq Contracts
    /\ hot \in [Tables -> SUBSET Events] /\ pending \in [Tables -> SUBSET Events]
    /\ cache \in [Contracts -> Definitive \cup {None}]
    /\ Len(staged) <= MaxBatch /\ faults \in 0..MaxFailures

(***************************************************************************)
(* The lookups fail open: whatever lookup or pass fails, and however the   *)
(* upload, the deployment and the event fall into batches, a committed     *)
(* event of an NFT contract is in the hot table or waits in quarantine     *)
(* (persist.rs:232-235 and 456-458).                                       *)
(***************************************************************************)
NoNftLost == \A t \in Tables : isNft \subseteq hot[t] \cup pending[t]

(***************************************************************************)
(* No other contract's event is ever taken for an NFT's.                   *)
(***************************************************************************)
NoFalseNft == \A t \in Tables : hot[t] \subseteq isNft

(***************************************************************************)
(* The two passes in their order settle a database nothing was written to  *)
(* meanwhile: no row of a decided contract stays in quarantine, and none   *)
(* of a token in the hot tables, with or without upgrades.                 *)
(***************************************************************************)
Settles ==
    pass.pc = "reclassified" /\ pass.quiet =>
      \A t \in Tables : /\ Typed(pending[t], Definitive) = {}
                        /\ Typed(hot[t], {"token", "fungible"}) = {}

(***************************************************************************)
(* After a rebuild every stored contract whose program is stored has the   *)
(* type of that program, and every fungible one its type-3 asset.          *)
(***************************************************************************)
RebuiltTypes ==
    pass.pc = "rebuilt" /\ pass.quiet =>
      \A c \in Contracts :
        /\ contracts[c].hash \in programs \ {"other"} => contracts[c].type = contracts[c].hash
        /\ contracts[c].type = "fungible" => c \in assets

(***************************************************************************)
(* The live indexer stores what a contract runs: an upgrade is never       *)
(* skipped, for its lookup of the stored row fails closed.                 *)
(***************************************************************************)
StoresCode ==
    staged = <<>> => \A c \in Contracts : contracts[c].hash = code[c]

(***************************************************************************)
(* EXCHANGE TABLES loses no contract: it runs with the writers stopped.    *)
(***************************************************************************)
KeepsContracts ==
    \A c \in Contracts : contracts[c] # NoRow => contracts'[c] # NoRow

(***************************************************************************)
(* A verdict a warm container holds is the stored one                      *)
(* (classification_cache.rs:27-32 says who has to see to it).              *)
(***************************************************************************)
CacheAgrees == \A c \in Contracts : cache[c] # None => cache[c] = contracts[c].type

(***************************************************************************)
(* What is stored and cached comes to the verdict of the code: the cache   *)
(* while nothing is upgraded, and through upgrades the code where the      *)
(* indexer alone writes.                                                   *)
(***************************************************************************)
VerdictsSettle ==
    /\ RebuiltTypes /\ Settles
    /\ "upgrade" \notin LedgerKinds => CacheAgrees
    /\ Writers \subseteq {"live"} => StoresCode

-----------------------------------------------------------------------------
(* What makes it inductive.                                                *)

ContractRows == [type : Definitive \cup {"other", None}, hash : Codes \cup {None}]
ReclassifySteps ==
    {"promoteNfts", "promoteChanges", "dropNfts", "dropChanges", "legacyNfts", "legacyChanges"}
Resting == {"idle", "rebuilt", "reclassified"}

StagedLedgers ==
    [by : {"live", "run"}, programs : SUBSET Programs,
     contracts : UNION {[D -> ContractRows] : D \in SUBSET Contracts}, assets : SUBSET Contracts,
     hot : SUBSET Events, pending : SUBSET Events, nft : SUBSET Events]

Typing ==
    /\ RoutingTypeOK
    /\ isNft \subseteq Events
    /\ staged \in Seq(StagedLedgers)
    /\ \A i \in DOMAIN staged :
         /\ staged[i].programs \subseteq uploaded
         /\ \A c \in DOMAIN staged[i].contracts : staged[i].contracts[c].hash # None
    /\ pass \in [pc : RebuildSteps \cup ReclassifySteps \cup Resting, verdicts : SUBSET Programs,
                 staging : {<<>>} \cup [Contracts -> ContractRows], quiet : BOOLEAN]

\* A row has the type its stored program decides.
DecidedType(row) == row.hash \in programs \ {"other"} => row.type = row.hash

\* What the staging table of a rebuild holds for a contract.
RebuiltFrom(row, old) ==
    /\ row.hash = old.hash
    /\ row.type # old.type => row.type = row.hash /\ row.hash \in Definitive
    /\ DecidedType(row)

\* A pass runs alone, and each of its steps leaves what the next relies on.
PassFollows ==
    /\ pass.pc \notin Resting => staged = <<>>
    /\ pass.pc = "build" => pass.verdicts = programs \ {"other"}
    /\ pass.pc = "exchange" =>
         /\ pass.staging \in [Contracts -> ContractRows]
         /\ \A c \in Contracts : RebuiltFrom(pass.staging[c], contracts[c])
    /\ pass.pc = "assets" => \A c \in Contracts : DecidedType(contracts[c])
    /\ pass.pc \in {"dropChanges", "legacyNfts", "legacyChanges"} =>
         Typed(pending["nfts"], Definitive) = {}
    /\ pass.pc \in {"legacyNfts", "legacyChanges"} => Typed(pending["changes"], Definitive) = {}
    /\ pass.pc = "legacyChanges" => Typed(hot["nfts"], {"token", "fungible"}) = {}

PassInv == Typing /\ PassFollows /\ RebuiltTypes /\ Settles

Verdict(p) == IF p = "sac" THEN "token" ELSE p

\* A row of contract c says what c runs, as far as it says anything.
TrueOf(c, row) == row.hash = code[c] /\ (row.type \in Definitive => row.type = Verdict(code[c]))

\* The row of a contract that was deployed is true.
ContractsTrue ==
    /\ \A c \in Contracts : contracts[c] # NoRow => code[c] # None /\ TrueOf(c, contracts[c])
    /\ CacheAgrees

\* An open writer has rows only for contracts the store has none for, and the
\* events of an NFT in the hot or the pending rows, those alone in the hot.
StagedTrue(s) ==
    /\ \A c \in DOMAIN s.contracts :
         contracts[c] = NoRow /\ code[c] # None /\ TrueOf(c, s.contracts[c])
    /\ s.hot \subseteq s.nft /\ s.nft \subseteq s.hot \cup s.pending
    /\ \A r \in s.pending : code[r[1]] # None /\ (code[r[1]] = "nft" => r \in s.nft)
    /\ \A r \in s.nft : code[r[1]] = "nft"

EventsTrue ==
    /\ NoNftLost /\ NoFalseNft
    /\ \A r \in isNft : code[r[1]] = "nft"
    /\ \A t \in Tables : \A r \in pending[t] :
         code[r[1]] # None /\ (code[r[1]] = "nft" => r \in isNft)

\* A pass drops what it has promoted, and nothing before.
PromotedFirst ==
    /\ pass.pc \in {"promoteChanges", "dropNfts"} =>
         Typed(pending["nfts"], {"nft"}) \subseteq hot["nfts"]
    /\ pass.pc \in {"dropNfts", "dropChanges"} =>
         Typed(pending["changes"], {"nft"}) \subseteq hot["changes"]

RoutingInv ==
    /\ PassInv
    /\ ContractsTrue /\ EventsTrue /\ PromotedFirst
    /\ \A i \in DOMAIN staged : StagedTrue(staged[i])

\* With the indexer alone, the last row of a contract says what it runs.
CodeInv ==
    /\ PassInv
    /\ Len(staged) <= 1 /\ \A c \in Contracts : RowAfter(c).hash = code[c]
=============================================================================
