-------------------------------- MODULE MCNfts --------------------------------
(***************************************************************************)
(* What becomes of an NFT: its events find their table (NftRouting), its   *)
(* key an enrichment row (Enrichment), its metadata a host that answers    *)
(* (NftFetcher).  The three share nothing but the rows, so the initial     *)
(* state chooses one of them, and its instance; `part` names it.           *)
(***************************************************************************)
EXTENDS NftRouting, Enrichment

CONSTANTS
    Parts,    \* the parts of this run
    c1, c2    \* a contract and a caller, two callers

VARIABLES
    part,
    container,   \* the cache of the parts `upgrades` and `fetcher`
    disputed,    \* the rows of the part `beside`
    node, gateway, contract, cursor, load, caller    \* NftFetcher

otherRouting ==
    <<height, code, uploaded, programs, contracts, assets, hot, pending, staged, pass, faults, isNft>>
otherEnrichment == <<base, inserts, queue, dlq, sent, worker, warm, drain, source, clock>>
fetcherOnly == <<node, gateway, contract, cursor, load, caller>>
nftVars ==
    <<part, cache, container, otherRouting, row, disputed, otherEnrichment, count, fetcherOnly>>

\* What a part does not use.
Off == <<>>
EnrichmentOff ==
    /\ base = Off /\ inserts = Off /\ queue = Off /\ dlq = Off /\ sent = Off
    /\ worker = Off /\ warm = Off /\ drain = Off /\ source = Off /\ clock = Off
RowsOff == row = [k \in Keys |-> Untried] /\ disputed = Off
FetcherOff ==
    /\ node = Off /\ gateway = Off /\ contract = Off /\ cursor = Off /\ load = Off /\ caller = Off

-----------------------------------------------------------------------------
(* Routing: both writers, the passes with the writers stopped; upgrades;   *)
(* and nft-reclassify while the live indexer goes on.                      *)

ASSUME RoutingAssumption

Ru == INSTANCE NftRouting WITH cache <- container,
    LedgerKinds <- {"upload", "uploadDeploy", "emit", "upgrade"},
    Writers <- {"live"}, LiveDuring <- {}, MaxLedger <- 4, MaxBatch <- 1, MaxFailures <- 1

ASSUME Ru!RoutingAssumption

InitRouting ==
    /\ \/ part \in {"routing", "reclassify_live"} /\ RoutingInit /\ container = Off
       \/ part = "upgrades" /\ Ru!RoutingInit /\ cache = container
    /\ RowsOff /\ EnrichmentOff /\ count = Off /\ FetcherOff

RoutingStep ==
    /\ \/ part \in {"routing", "reclassify_live"} /\ RoutingNext /\ UNCHANGED container
       \/ part = "upgrades" /\ Ru!RoutingNext /\ UNCHANGED cache
    /\ UNCHANGED <<part, row, disputed, otherEnrichment, count, fetcherOnly>>

-----------------------------------------------------------------------------
(* Enrichment: an asset and an NFT published by the indexer, two messages  *)
(* an invocation; the commands of `enrich` on two NFTs of a contract whose *)
(* messages were lost; both on one NFT, in turns; and side by side.        *)

\* The NFTs of the drain are tokens of one contract.
OneContract == [k \in {1, 2} |-> 9]

ASSUME EnrichmentAssumption

Ew == INSTANCE Enrichment WITH
    AssetKeys <- {1}, NftKeys <- {2}, ContractOf <- [k \in {2} |-> 9], BatchSize <- 2, ChunkSize <- 1,
    MaxReceive <- 2, Drains <- {}, Beside <- FALSE, MaxDrains <- 0, MaxMessages <- 2, MaxWrites <- 6,
    MaxFaults <- 1, MaxChanges <- 1

Eb == INSTANCE Enrichment WITH
    MaxMessages <- 1

Es == INSTANCE Enrichment WITH row <- disputed,
    NftKeys <- {1}, ContractOf <- [k \in {1} |-> 9], Drains <- {"Untried", "CollectionName"},
    Beside <- TRUE, MaxDrains <- 1, MaxMessages <- 1

ASSUME Ew!EnrichmentAssumption /\ Eb!EnrichmentAssumption /\ Es!EnrichmentAssumption

\* The other NFT, of which the indexer never sees a ledger.
Absent(k) == k \notin base /\ source[k] = "gone"

InitEnrichment ==
    /\ \/ part = "worker" /\ Ew!EnrichmentInit /\ disputed = Off
       \/ part = "drain" /\ EnrichmentInit /\ disputed = Off
       \/ part = "both" /\ Eb!EnrichmentInit /\ Absent(2) /\ disputed = Off
       \/ part = "beside" /\ Es!EnrichmentInit /\ row = [k \in Keys |-> Untried]
    /\ RoutingInit /\ container = Off /\ FetcherOff

EnrichmentIdle == UNCHANGED <<part, cache, container, otherRouting, fetcherOnly>>

EnrichmentStep ==
    /\ \/ part = "worker" /\ Ew!EnrichmentNext /\ UNCHANGED disputed
       \/ part = "drain" /\ EnrichmentNext /\ UNCHANGED disputed
       \/ part = "both" /\ Eb!EnrichmentNext /\ Absent(2)' /\ UNCHANGED disputed
       \/ part = "beside" /\ Es!EnrichmentNext /\ UNCHANGED row
    /\ EnrichmentIdle

-----------------------------------------------------------------------------
(* The fetcher: three nodes, two gateways, two concurrent tasks.           *)

Fe == INSTANCE NftFetcher WITH cache <- container, tally <- count,
    Nodes <- 3, Gateways <- 2, Tokens <- {"t1"}, Callers <- {c1, c2}, MaxCalls <- 2, MaxOutages <- 2

ASSUME Fe!FetcherAssumption

InitFetcher == part = "fetcher" /\ Fe!FetcherInit /\ RoutingInit /\ RowsOff /\ EnrichmentOff

FetcherIdle == UNCHANGED <<part, cache, otherRouting, row, disputed, otherEnrichment>>

FetcherStep == part = "fetcher" /\ Fe!FetcherNext /\ FetcherIdle

-----------------------------------------------------------------------------

Init == part \in Parts /\ (InitRouting \/ InitEnrichment \/ InitFetcher)

Next == RoutingStep \/ EnrichmentStep \/ FetcherStep

\* Lambda polls the queue and runs what it took, ClickHouse answers, a
\* command runs to its end, and every request has a timeout.
AnyReceive == \/ part = "worker" /\ (\E ms \in SUBSET queue : Ew!Receive(ms)) /\ UNCHANGED disputed
              \/ part = "both" /\ (\E ms \in SUBSET queue : Eb!Receive(ms)) /\ UNCHANGED disputed
              \/ part = "beside" /\ (\E ms \in SUBSET queue : Es!Receive(ms)) /\ UNCHANGED row
AnyWork == \/ part = "worker" /\ Ew!WorkerStep /\ UNCHANGED disputed
           \/ part = "both" /\ Eb!WorkerStep /\ UNCHANGED disputed
           \/ part = "beside" /\ Es!WorkerStep /\ UNCHANGED row
AnyLanding == \/ part = "worker" /\ (\E i \in inserts : Ew!Land(i)) /\ UNCHANGED disputed
              \/ part = "drain" /\ (\E i \in inserts : Land(i)) /\ UNCHANGED disputed
              \/ part = "both" /\ (\E i \in inserts : Eb!Land(i)) /\ UNCHANGED disputed
              \/ part = "beside" /\ (\E i \in inserts : Es!Land(i)) /\ UNCHANGED row
AnyDrain == \/ part = "drain" /\ DrainStep /\ UNCHANGED disputed
            \/ part = "both" /\ Eb!DrainStep /\ UNCHANGED disputed
            \/ part = "beside" /\ Es!DrainStep /\ UNCHANGED row

Fairness ==
    /\ WF_nftVars(AnyReceive /\ EnrichmentIdle)
    /\ WF_nftVars(AnyWork /\ EnrichmentIdle)
    /\ WF_nftVars(AnyLanding /\ EnrichmentIdle)
    /\ WF_nftVars(AnyDrain /\ EnrichmentIdle)
    /\ \A k \in Fe!Loads : WF_nftVars(part = "fetcher" /\ Fe!Ask(k) /\ FetcherIdle)

Spec == Init /\ [][Next]_nftVars /\ Fairness

-----------------------------------------------------------------------------

NftsTypeOK ==
    /\ part = "routing" => RoutingTypeOK
    /\ part = "upgrades" => Ru!RoutingTypeOK
    /\ part = "worker" => Ew!EnrichmentTypeOK
    /\ part = "drain" => EnrichmentTypeOK
    /\ part = "fetcher" => Fe!FetcherTypeOK

\* Nothing is lost between the parts.  The lookups fail open: whatever lookup
\* or pass fails, and however the upload, the deployment and the event fall
\* into batches, a committed event of an NFT contract is in the hot table or
\* waits in quarantine, and no other contract's event is taken for an NFT's
\* (persist.rs:232-235).  A published key has a row, or a message in the queue
\* or among the dead letters: no message is acknowledged before its row is
\* stored.  A task that waits for the load of another has a load to wait for.
\* (And every variable has its type, and the invariants that the proofs of
\* NftRoutingProofs and EnrichmentProofs rest on hold.)
NothingIsLost ==
    /\ NftsTypeOK
    /\ part = "routing" => RoutingInv /\ NoNftLost /\ NoFalseNft
    /\ part = "upgrades" => Ru!CodeInv /\ Ru!StoresCode
    /\ part = "reclassify_live" => NoNftLost
    /\ part = "worker" => Ew!EnrichmentInv /\ Ew!AckedIsTried
    /\ part = "drain" => EnrichmentInv
    /\ part = "both" => Eb!EnrichmentInv /\ Eb!AckedIsTried
    /\ part = "beside" => Es!EnrichmentInv /\ Es!AckedIsTried
    /\ part = "fetcher" => Fe!FetcherInv

\* A drain that reports no failure has covered every key it began with, and
\* what it reports as sentinels is what --retry-sentinels walks; a load ends
\* without an answer only when it has asked every endpoint of its pool; and
\* EXCHANGE TABLES, which the rebuild reports as done, has lost no contract.
ReportsAreTrue ==
    [][/\ part = "routing" => KeepsContracts
       /\ part = "drain" => DrainCovers /\ ReportAgrees
       /\ part = "both" => Eb!DrainCovers /\ Eb!ReportAgrees
       /\ part = "beside" => Es!DrainCovers
       /\ part = "fetcher" => Fe!AsksEveryEndpoint]_nftVars

\* The i-th published key or call, or the one command of `enrich`.
UnderWay(i) ==
    \/ part = "worker" /\ \E m \in queue : m.key = i
    \/ part \in {"drain", "both", "beside"} /\ drain.mode # "none"
    \/ part = "fetcher" /\ caller[<<c1, c2>>[i]].key # Fe!Empty

Over(i) ==
    \/ part = "worker" /\ (Ew!Tried(i) \/ i \in dlq)
    \/ part \in {"drain", "both", "beside"} /\ drain.mode = "none"
    \/ part = "fetcher" /\ caller[<<c1, c2>>[i]].got # Fe!Empty

\* A published key is settled in the end, a command of `enrich` comes to its
\* end, sources answering or not, and every call gets its result.  (No step
\* changes `part`.)
AttemptsEnd == \A i \in {1, 2} : UnderWay(i) ~> Over(i)

=============================================================================
