----------------------------- MODULE NftFetcher -----------------------------
(***************************************************************************)
(* The NFT metadata fetcher (enrichment-shared/nft_token_uri): a call asks *)
(* a Soroban RPC node for token_uri() or name(), going through the pool    *)
(* from a round-robin start until one answers; a token_uri in IPFS is then *)
(* fetched from the gateways, in order.  Answers are cached, and a name()  *)
(* that fails for good is cached as no name.  The worker retries what      *)
(* is_transient says and writes a sentinel for the rest.                   *)
(*                                                                         *)
(* A contract answers every node alike: its function gives a usable string *)
(* or fails, and the metadata it names is good or not.  Calls of one cache *)
(* key share one load (moka).                                              *)
(***************************************************************************)
EXTENDS Naturals, FiniteSets, Sequences

CONSTANTS
    Nodes,       \* RPC nodes, numbered from 0
    Gateways,    \* IPFS gateways, numbered from 0
    Tokens,      \* tokens of one contract
    Callers,     \* concurrent tasks: records, drain tasks, API requests
    MaxCalls, MaxOutages  \* bounds

Name == "name"
Empty == "empty"

FetcherAssumption ==
    /\ Nodes \in Nat \ {0} /\ Gateways \in Nat \ {0} /\ Tokens \cap {Name, Empty} = {}
    /\ {MaxCalls, MaxOutages} \subseteq Nat

Loads == Tokens \cup {Name}  \* cache and name_cache keys

\* What an endpoint can do to a request, "up" when it answers.
EndpointStates == {"up", "busy", "refused", "redirects"}

VARIABLES
    node, gateway,  \* the state of each endpoint
    contract,       \* what each function of the contract gives
    cursor,         \* the round-robin counter, modulo the pool
    cache,          \* cached results of the container
    load,           \* the loads in flight
    caller,         \* what each task waits for and got
    tally

fetcherVars == <<node, gateway, contract, cursor, cache, load, caller, tally>>

NoLoad == [pc |-> "none", start |-> 0, tried |-> 0, asked |-> {}]
Idle == [key |-> Empty, got |-> Empty, heard |-> FALSE]

FetcherInit ==
    /\ node = [n \in 0..(Nodes - 1) |-> "up"] /\ gateway = [g \in 0..(Gateways - 1) |-> "up"]
    /\ contract \in {f \in [Loads -> {"string", "fails", "badMetadata"}] : f[Name] # "badMetadata"}
    /\ cursor = 0 /\ cache = [k \in Loads |-> Empty] /\ load = [k \in Loads |-> NoLoad]
    /\ caller = [c \in Callers |-> Idle] /\ tally = [calls |-> 0, faults |-> 0]

\* An endpoint goes down, or comes back.
EndpointChanges(pool, e, s) ==
    /\ s # "up" => tally.faults < MaxOutages
    /\ tally' = [tally EXCEPT !.faults = @ + IF s # "up" THEN 1 ELSE 0]
    /\ \/ pool = "node" /\ e \in DOMAIN node /\ node' = [node EXCEPT ![e] = s] /\ gateway' = gateway
       \/ pool = "gateway" /\ e \in DOMAIN gateway
          /\ gateway' = [gateway EXCEPT ![e] = s] /\ node' = node
    /\ UNCHANGED <<contract, cursor, cache, load, caller>>

-----------------------------------------------------------------------------
(* Classification.                                                         *)

\* is_endpoint_fault: another endpoint might answer.
EndpointFault(fault) == fault \in {"busy", "refused", "redirects"}

\* is_transient: a later attempt might succeed.
TransientFault(fault) == fault = "busy"

\* resolve_collection_name makes a permanent failure a value, no name.
Folded(k, result) ==
    IF k = Name /\ result # "string" /\ ~ TransientFault(result) THEN "none" ELSE result

-----------------------------------------------------------------------------
(* A load.                                                                 *)

\* resolve, resolve_collection_name: a cached value, or a load, its own or
\* one in flight.  Every call moves the cursor.
Call(c, k) ==
    /\ caller[c].key = Empty /\ tally.calls < MaxCalls
    /\ tally' = [tally EXCEPT !.calls = @ + 1]
    /\ cursor' = (cursor + 1) % Nodes
    /\ IF cache[k] # Empty
       THEN /\ caller' = [caller EXCEPT ![c] = [key |-> k, got |-> cache[k], heard |-> TRUE]]
            /\ load' = load
       ELSE /\ caller' = [caller EXCEPT ![c] = [Idle EXCEPT !.key = k]]
            /\ load' = IF load[k].pc # "none" THEN load
                       ELSE [load EXCEPT ![k] = [NoLoad EXCEPT !.pc = "rpc", !.start = cursor]]
    /\ UNCHANGED <<node, gateway, contract, cache>>

\* Mutant of Finish: only one of the waiting tasks is woken.
FinishOne(k, result, heard) ==
    LET value == Folded(k, result)
        one == CHOOSE c \in Callers : caller[c].key = k /\ caller[c].got = Empty
    IN  /\ load' = [load EXCEPT ![k] = NoLoad]
        /\ cache' = IF value \in {"string", "none"} THEN [cache EXCEPT ![k] = value] ELSE cache
        /\ caller' = [caller EXCEPT ![one].got = value, ![one].heard = heard]

\* try_get_with: every task waiting for k gets the result, and successes are
\* cached.
Finish(k, result, heard) ==
    LET value == Folded(k, result)
    IN  /\ load' = [load EXCEPT ![k] = NoLoad]
        /\ cache' = IF value \in {"string", "none"} THEN [cache EXCEPT ![k] = value] ELSE cache
        /\ caller' = [c \in Callers |->
                        IF caller[c].key = k /\ caller[c].got = Empty
                        THEN [caller[c] EXCEPT !.got = value, !.heard = heard] ELSE caller[c]]

\* The node of an attempt.
Rotation(start, tried) == (start + tried) % Nodes

\* An attempt that found a fault: the next endpoint of a pool of n, or the end.
\* asked is history.
FailOver(k, n, endpoint, fault) ==
    IF EndpointFault(fault) /\ load[k].tried + 1 < n
    THEN /\ load' = [load EXCEPT ![k].tried = @ + 1, ![k].asked = @ \cup {endpoint}]
         /\ UNCHANGED <<cache, caller>>
    ELSE Finish(k, fault, FALSE)

\* simulate_with_failover and simulate_name_with_failover, one attempt.
AskNode(k) ==
    LET n == Rotation(load[k].start, load[k].tried)
    IN  /\ load[k].pc = "rpc"
        /\ CASE node[n] # "up" -> FailOver(k, Nodes, n, node[n])
             [] node[n] = "up" /\ (k = Name \/ contract[k] = "fails") -> Finish(k, contract[k], TRUE)
             [] OTHER -> /\ load' = [load EXCEPT ![k] = [NoLoad EXCEPT !.pc = "ipfs"]]
                         /\ UNCHANGED <<cache, caller>>
        /\ UNCHANGED <<node, gateway, contract, cursor, tally>>

\* fetch_metadata_with_failover, one gateway.
AskGateway(k) ==
    LET g == load[k].tried
    IN  /\ load[k].pc = "ipfs"
        /\ IF gateway[g] = "up" THEN Finish(k, contract[k], TRUE)
           ELSE FailOver(k, Gateways, g, gateway[g])
        /\ UNCHANGED <<node, gateway, contract, cursor, tally>>

\* The task uses its result and is free again.
Return(c) ==
    /\ caller[c].got # Empty
    /\ caller' = [caller EXCEPT ![c] = Idle]
    /\ UNCHANGED <<node, gateway, contract, cursor, cache, load, tally>>

Ask(k) == AskNode(k) \/ AskGateway(k)

FetcherNext ==
    \/ \E e \in DOMAIN node, s \in EndpointStates : EndpointChanges("node", e, s)
    \/ \E e \in DOMAIN gateway, s \in EndpointStates : EndpointChanges("gateway", e, s)
    \/ \E c \in Callers, k \in Loads : Call(c, k)
    \/ \E k \in Loads : Ask(k)
    \/ \E c \in Callers : Return(c)

\* Requests have timeouts: every attempt ends.
FetcherSpec ==
    FetcherInit /\ [][FetcherNext]_fetcherVars /\ \A k \in Loads : WF_fetcherVars(Ask(k))

-----------------------------------------------------------------------------
(* Properties.                                                             *)

Answers == {"string", "fails", "badMetadata", "none"}

FetcherTypeOK ==
    /\ cursor \in 0..(Nodes - 1) /\ \A k \in Tokens : cache[k] \in {Empty, "string"}
    /\ cache[Name] \in {Empty, "string", "none"}
    /\ \A k \in Loads : load[k].tried < IF load[k].pc = "ipfs" THEN Gateways ELSE Nodes
    /\ \A c \in Callers : caller[c].got \in {Empty} \cup Answers \cup EndpointStates

\* A task that waits has a load to wait for (try_get_with).
WaitsForLoad ==
    \A c \in Callers : caller[c].key # Empty /\ caller[c].got = Empty
                          => load[caller[c].key].pc # "none"

\* A load ends without an answer only when it has asked every endpoint of the
\* pool, so one that answers is always found (the failover loops).
AsksEveryEndpoint ==
    \A k \in Loads : load[k].pc # "none" /\ load'[k].pc = "none"
         => \/ \E c \in Callers : caller'[c].key = k /\ caller'[c].heard
            \/ Cardinality(load[k].asked) + 1 = IF load[k].pc = "rpc" THEN Nodes ELSE Gateways

\* "transient errors (Http 5xx / connect / timeout, SorobanRpc) bubble as
\* EnrichError::Transient so SQS retries": what is not retried was answered.
SentinelIsAnswered ==
    \A c \in Callers : caller[c].got \notin {Empty, "string", "busy"} => caller[c].heard

\* "`None` = the contract exports no usable name (a PERMANENT fact ...)".
NoNameIsFact == cache[Name] = "none" => contract[Name] # "string"

-----------------------------------------------------------------------------
(* What makes them inductive.                                              *)

LoadRecords == [pc : {"none", "rpc", "ipfs"}, start : 0..(Nodes - 1), tried : Nat, asked : SUBSET Nat]
CallerRecords == [key : Loads \cup {Empty}, got : {Empty} \cup Answers \cup EndpointStates, heard : BOOLEAN]

FetcherTypes ==
    /\ node \in [0..(Nodes - 1) -> EndpointStates] /\ gateway \in [0..(Gateways - 1) -> EndpointStates]
    /\ contract \in [Loads -> {"string", "fails", "badMetadata"}]
    /\ cursor \in 0..(Nodes - 1) /\ cache \in [Loads -> {Empty, "string", "none"}]
    /\ load \in [Loads -> LoadRecords] /\ caller \in [Callers -> CallerRecords]
    /\ \A k \in Tokens : cache[k] \in {Empty, "string"}

\* A load is somebody's, and has asked as many endpoints as it has tried:
\* those from its start on, round the pool, or the first gateways.
Awaited(k) == \E c \in Callers : caller[c].key = k /\ caller[c].got = Empty

EndpointOf(attempt, i) == IF attempt.pc = "rpc" THEN Rotation(attempt.start, i) ELSE i

AskedInTurn(attempt) ==
    /\ attempt.tried < IF attempt.pc = "rpc" THEN Nodes ELSE Gateways
    /\ attempt.asked = {EndpointOf(attempt, i) : i \in 0..(attempt.tried - 1)}
    /\ IsFiniteSet(attempt.asked) /\ Cardinality(attempt.asked) = attempt.tried

FetcherInv ==
    /\ FetcherTypes /\ WaitsForLoad
    /\ \A k \in Loads : load[k].pc # "none" => Awaited(k) /\ AskedInTurn(load[k])

=============================================================================
