------------------------------ MODULE LedgerRows ------------------------------
(***************************************************************************)
(* From one closed ledger to the rows that name its transactions: the      *)
(* indexer's parse_ledger (crates/indexer/src/handler/process.rs), which   *)
(* walks the transactions in apply order, and the staging of their rows    *)
(* (crates/db-clickhouse/src/persist/stage.rs).                            *)
(*                                                                         *)
(* A ledger brings its envelopes in hash order and their results in apply  *)
(* order; an envelope may be missing.  Every row names its transaction by  *)
(* its position, so what an account, an asset or a contract page lists,    *)
(* and which event has which identity, rests on the positions.             *)
(*                                                                         *)
(* An operation is a record of what its body declares, its changes hold    *)
(* and its result claims:                                                  *)
(*   kind      "pay", "route" (path payments and offers), "allow", "claim" *)
(*             (a claimable balance), "pool" (deposit and withdrawal),     *)
(*             "invoke", "ttl" or "plain" (no counterparty, no asset)      *)
(*   source    the override of the transaction's source, or None           *)
(*   to        the other account the body names, or None                   *)
(*   declared  the assets of the body; moved, those of its ledger changes  *)
(*   sellers   of the offers its result claims; pools, of the pools        *)
(*   contract  the contract it invokes, or None                            *)
(*   creates   the contracts it authorizes the creation of, with who       *)
(*             signed for each: the operation itself or an auth entry      *)
(*   events    its contract events: [contract, parties, asset], the last   *)
(*             two empty unless it is a token event               *)
(***************************************************************************)
EXTENDS Naturals, Sequences, FiniteSets, SequencesExt

CONSTANTS
    Kinds,       \* what a transaction may hold, without its hash and success
    Accounts,    \* G... addresses; a contract's address is none of them
    Deployable,  \* the contracts that may be created
    MaxTxs,      \* bound: transactions of the ledger
    MaxMissing   \* bound: envelopes absent from the ledger's set

None == "none"
NoAsset == <<>>    \* an asset is <<code, issuer>>, <<code>> in an allow_trust
NoEnvelope == [source |-> None, fee_source |-> None, meta |-> 0, fees |-> <<>>, ops |-> <<>>, calls |-> <<>>]
BeforeAllTxs == "before_all"
AfterAllTxs == "after_all"
AfterTx == "after_tx"

LedgerRowsAssumption ==
    /\ MaxTxs \in Nat \ {0} /\ MaxMissing \in Nat
    /\ None \notin Accounts /\ Accounts \cap Deployable = {}

VARIABLES
    applied,     \* the ledger's transactions in apply order: the chain
    created,     \* contract -> the position that created it, 0 for none: the chain
    tx_set,      \* the envelopes, in hash order; empty while the ledger is open
    phase,       \* "open", "parse", "stage", "done" or "failed"
    tx_index,    \* how many transactions the parse has passed
    parsed,      \* what the parse has collected
    stored       \* the staged rows, by table

rowsVars == <<applied, created, tx_set, phase, tx_index, parsed, stored>>

Positions == 1..Len(applied)

-----------------------------------------------------------------------------
(* The chain.                                                              *)

\* A transaction is applied: it succeeds or fails, and a contract that an
\* operation creates is new.  A failed one keeps its fee events only.
Apply(kind, hash, ok) ==
    LET new == UNION {{d.contract : d \in kind.ops[k].creates} : k \in DOMAIN kind.ops}
    IN  /\ phase = "open" /\ Len(applied) < MaxTxs
        /\ \A p \in Positions : applied[p].hash # hash
        /\ ok => \A d \in new : created[d] = 0
        /\ applied' = Append(applied, [hash |-> hash, ok |-> ok, kind |-> kind])
        /\ created' = [d \in Deployable |-> IF ok /\ d \in new THEN Len(applied) + 1 ELSE created[d]]
        /\ UNCHANGED <<tx_set, phase, tx_index, parsed, stored>>

\* The ledger closes, with the envelopes sorted by hash; some may be absent.
Close(missing) ==
    /\ phase = "open" /\ applied # <<>>
    /\ Cardinality(missing) <= MaxMissing
    /\ LET held == {applied[p] : p \in Positions \ missing}
       IN  tx_set' = SetToSortSeq(held, LAMBDA t, u : t.hash < u.hash)
    /\ phase' = "parse"
    /\ UNCHANGED <<applied, created, tx_index, parsed, stored>>

-----------------------------------------------------------------------------
(* The envelopes and the transaction rows.                                 *)

\* extract_envelopes: slot p holds the envelope whose hash is that of the
\* p-th result, or None.
Envelopes ==
    [p \in Positions |->
        LET found == {k \in DOMAIN tx_set : tx_set[k].hash = applied[p].hash}
        IN  IF found = {} THEN NoEnvelope ELSE tx_set[CHOOSE k \in found : TRUE].kind]

\* Only a fee-bump names a payer, and only its inner transaction has a hash
\* of its own.
IsFeeBump(env) == env.fee_source # None

\* extract_single_transaction: hash and success are the result's, everything
\* else the envelope's.
Extract(p) ==
    LET env == Envelopes[p]
    IN  [hash |-> applied[p].hash, ok |-> applied[p].ok, parse_error |-> env = NoEnvelope,
         source |-> env.source, fee_source |-> env.fee_source, inner |-> IsFeeBump(env)]

-----------------------------------------------------------------------------
(* Events and their identities.                                            *)

\* containers: a meta of version 3 has no transaction-level events; a failed
\* transaction's operations have none.
FeeEvents(p) == IF applied[p].kind.meta = 3 THEN <<>> ELSE applied[p].kind.fees
OpEvents(p, k) == IF applied[p].ok THEN applied[p].kind.ops[k].events ELSE <<>>

Of(stage, fees) == Cardinality({k \in DOMAIN fees : fees[k] = stage})

\* LedgerEvents::new: the ledger-wide counter of a stage as transaction p
\* starts, over every meta before it.
Start(stage, p) == FoldLeft(+, 0, [q \in 1..(p - 1) |-> Of(stage, FeeEvents(q))])

\* EventId: parts for what is not inside one operation of one transaction.
Largest == MaxTxs + 1

\* The event number of the k-th transaction-level event of p.
FeeId(p, k) ==
    LET fees == FeeEvents(p)
        before == Of(fees[k], SubSeq(fees, 1, k - 1))
    IN  CASE fees[k] = BeforeAllTxs -> <<0, 0, Start(BeforeAllTxs, p) + before>>
          [] fees[k] = AfterAllTxs -> <<Largest, 0, Start(AfterAllTxs, p) + before>>
          [] OTHER -> <<p, Largest, before>>

\* LedgerEvents::extract: the transaction's events, each with its id and the
\* container it came from.
EventsOf(p) ==
    LET fees == [k \in DOMAIN FeeEvents(p) |->
                    [id |-> FeeId(p, k), origin |-> <<p, 0, k>>,
                     contract |-> "native_sac", parties |-> {}, asset |-> NoAsset]]
        ops == [k \in DOMAIN applied[p].kind.ops |->
                    [n \in DOMAIN OpEvents(p, k) |->
                        LET e == OpEvents(p, k)[n]
                        IN  [id |-> <<p, k - 1, n - 1>>, origin |-> <<p, k, n>>,
                             contract |-> e.contract, parties |-> e.parties, asset |-> e.asset]]]
    IN  fees \o FlattenSeq(ops)

-----------------------------------------------------------------------------
(* Operations.                                                             *)

OpSource(op, source) == IF op.source = None THEN source ELSE op.source

\* op_meta_changes, present_entry: what the operation's own changes hold; a
\* failed transaction has none.
Moved(op, ok) == IF ok THEN op.moved ELSE {}

\* tx_op_results, claim_atoms: the offers a result claims; those of a failed
\* transaction were rolled back.
Claimed(op, ok) == IF ok THEN op.sellers ELSE {}

\* append_pool_claims: the pools crossed, next to the one the body names.
PoolsTouched(op, ok) == IF op.kind = "pool" \/ ok THEN op.pools ELSE {}

\* emit_asset_appearances: the body's assets; for claims and pools those of
\* the operation's changes, which a failed one has not; allow_trust names a
\* code, whose issuer is the operation's source.
Appearances(op, ok, source) ==
    CASE op.kind \in {"claim", "pool"} -> Moved(op, ok)
      [] op.kind = "allow" -> {Append(code, OpSource(op, source)) : code \in op.declared}
      [] OTHER -> op.declared

\* Mutant of Counterparties: the sellers of the offers taken are left out.
CounterpartiesNamed(op, ok) == {op.to} \ {None}

\* extract_counterparties: whom the body names, and whose offers it took.
Counterparties(op, ok) == ({op.to} \ {None}) \cup Claimed(op, ok)

\* extract_op_details: the details an operation's kind has.
Details(op, ok) ==
    [destination |-> IF op.kind \in {"pay", "route", "allow"} THEN op.to ELSE None,
     contract |-> op.contract,
     asset |-> IF op.kind = "pay" THEN op.declared ELSE {},
     pools |-> PoolsTouched(op, ok)]

\* OpTyped::from_details: what identifies an operation in its transaction.
Identity(op, ok) == [kind |-> op.kind, source |-> op.source, details |-> Details(op, ok)]

\* operation_rows: one row for the operations of one identity, at the
\* smallest of their indexes.
Folded(p, ops, ok) ==
    LET same(k) == {m \in DOMAIN ops : Identity(ops[m], ok) = Identity(ops[k], ok)}
    IN  {[position |-> p, index |-> CHOOSE m \in same(k) : \A n \in same(k) : m <= n,
          identity |-> Identity(ops[k], ok)] : k \in DOMAIN ops}

HasSoroban(ops) == \E k \in DOMAIN ops : ops[k].kind \in {"invoke", "ttl"}

-----------------------------------------------------------------------------
(* The parse.                                                              *)

Nothing == [transactions |-> <<>>, operations |-> <<>>, events |-> <<>>, calls |-> <<>>,
            deployments |-> <<>>]

\* parse_ledger's walk: a transaction without an envelope keeps its row and
\* nothing else.  Slot p is <<>> for what was skipped.
ParseTx ==
    LET p == tx_index + 1
        tx == Extract(p)
        env == Envelopes[p]
        skip == tx.parse_error
        made == {d \in Deployable : created[d] = p}
        add(q, x) == Append(q, IF skip THEN <<>> ELSE x)
    IN  /\ phase = "parse" /\ tx_index < Len(applied)
        /\ tx_index' = p
        /\ parsed' = [transactions |-> Append(parsed.transactions, tx),
                      operations |-> add(parsed.operations, env.ops),
                      events |-> add(parsed.events, EventsOf(p)),
                      calls |-> add(parsed.calls, env.calls),
                      deployments |-> add(parsed.deployments, SetToSeq(made))]
        /\ UNCHANGED <<applied, created, tx_set, phase, stored>>

\* credentials_signer, walk_auth_for_creates: who stands behind a creation.
Creations(op, source) ==
    {[contract |-> d.contract, by |-> IF d.signer = None THEN OpSource(op, source) ELSE d.signer] : d \in op.creates}

\* extract_op_source_per_contract, over every envelope of the ledger in
\* order and collected into one map: the last pair for a contract is kept.
DeployerOf(contract) ==
    LET read == {p \in Positions : Envelopes[p] # NoEnvelope}
        pairs(p) == FlattenSeq([k \in DOMAIN Envelopes[p].ops |->
                        SetToSeq(Creations(Envelopes[p].ops[k], Envelopes[p].source))])
        naming == {p \in read : \E k \in DOMAIN pairs(p) : pairs(p)[k].contract = contract}
        last == CHOOSE p \in naming : \A q \in naming : q <= p
        of == SelectSeq(pairs(last), LAMBDA pair : pair.contract = contract)
    IN  IF naming = {} THEN None ELSE Last(of).by

EndParse ==
    /\ phase = "parse" /\ tx_index = Len(applied)
    /\ phase' = "stage"
    /\ UNCHANGED <<applied, created, tx_set, tx_index, parsed, stored>>

-----------------------------------------------------------------------------
(* The staging.                                                            *)

\* The accounts of the transaction at p: its source, the payer of a
\* fee-bump, the operations' sources and counterparties, the G... parties of
\* token events (and the owners of NFT events) in a Soroban transaction, the
\* G... callers.
Participants(p) ==
    LET tx == parsed.transactions[p]
        ops == parsed.operations[p]
        events == parsed.events[p]
        calls == parsed.calls[p]
        named == {tx.source, tx.fee_source}
            \cup UNION {{ops[k].source} \cup Counterparties(ops[k], tx.ok) : k \in DOMAIN ops}
            \cup (IF HasSoroban(ops) THEN UNION {events[k].parties : k \in DOMAIN events} ELSE {})
            \cup {calls[k].caller : k \in DOMAIN calls}
    IN  named \cap Accounts

\* operation_asset_appearances: of its operations, and of its token events.
AssetsOf(p) ==
    LET tx == parsed.transactions[p]
        ops == parsed.operations[p]
        events == parsed.events[p]
    IN  UNION {Appearances(ops[k], tx.ok, tx.source) : k \in DOMAIN ops}
        \cup (IF HasSoroban(ops) THEN {events[k].asset : k \in DOMAIN events} \ {NoAsset} ELSE {})

\* contract_activity: an operation event, an invocation or an operation that
\* names the contract; the count and the first known caller of invocations.
Activity(p) ==
    LET ops == parsed.operations[p]
        events == parsed.events[p]
        calls == parsed.calls[p]
        of(con) == SelectSeq(calls, LAMBDA call : call.contract = con)
        known(con) == SelectSeq(of(con), LAMBDA call : call.caller # None)
        touched == ({events[k].contract : k \in {m \in DOMAIN events : events[m].origin[2] # 0}}
                    \cup {calls[k].contract : k \in DOMAIN calls}
                    \cup {ops[k].contract : k \in DOMAIN ops}) \ {None}
    IN  {[contract |-> con, position |-> p, count |-> Len(of(con)),
          caller |-> IF known(con) = <<>> THEN None ELSE known(con)[1].caller] : con \in touched}

\* soroban_events: an event of no contract is dropped.
EventRows(p) ==
    LET events == parsed.events[p]
    IN  {[id |-> events[k].id, contract |-> events[k].contract, position |-> p, origin |-> events[k].origin] :
            k \in {m \in DOMAIN events : events[m].contract # None}}

\* A deployment's deployer is the ledger-wide one, or else the source of the
\* transaction that created the contract.
Contracts(p) ==
    {[contract |-> parsed.deployments[p][k],
      deployer |-> LET by == DeployerOf(parsed.deployments[p][k])
                   IN  IF by = None THEN parsed.transactions[p].source ELSE by] :
        k \in DOMAIN parsed.deployments[p]}

Over(Rows(_)) == UNION {Rows(p) : p \in Positions}

AllEvents == FlattenSeq(parsed.events)
RepeatedId == \E j, k \in DOMAIN AllEvents : j # k /\ AllEvents[j].id = AllEvents[k].id

NoRows == [transactions |-> {}, hashes |-> {}, participants |-> {}, operations |-> {}, assets |-> {},
           events |-> {}, activity |-> {}, contracts |-> {}]

\* prepare_with_sac_overrides: the position of a transaction is its place in
\* the parse's list.  Two events of one id fail the ledger.
Stage ==
    LET position(p) == p
        txs == parsed.transactions
    IN  /\ phase = "stage"
        /\ phase' = IF RepeatedId THEN "failed" ELSE "done"
        /\ stored' =
            IF RepeatedId THEN NoRows
            ELSE [transactions |-> {[position |-> position(p), hash |-> txs[p].hash, source |-> txs[p].source,
                                     ok |-> txs[p].ok, operations |-> Len(parsed.operations[p]),
                                     soroban |-> HasSoroban(parsed.operations[p]),
                                     parse_error |-> txs[p].parse_error] : p \in Positions},
                  hashes |-> {<<txs[p].hash, "outer">> : p \in Positions}
                             \cup {<<txs[p].hash, "inner">> : p \in {q \in Positions : txs[q].inner}},
                  participants |-> Over(LAMBDA p : {<<acct, position(p)>> : acct \in Participants(p)}),
                  operations |-> Over(LAMBDA p : Folded(position(p), parsed.operations[p], txs[p].ok)),
                  assets |-> Over(LAMBDA p : {<<asset, position(p)>> : asset \in AssetsOf(p)}),
                  events |-> Over(EventRows),
                  activity |-> Over(Activity),
                  contracts |-> Over(Contracts)]
        /\ UNCHANGED <<applied, created, tx_set, tx_index, parsed>>

RowsInit ==
    /\ applied = <<>> /\ created = [d \in Deployable |-> 0] /\ tx_set = <<>>
    /\ phase = "open" /\ tx_index = 0 /\ parsed = Nothing /\ stored = NoRows

RowsNext ==
    \/ \E kind \in Kinds, hash \in 1..MaxTxs, ok \in BOOLEAN : Apply(kind, hash, ok)
    \/ \E missing \in SUBSET Positions : Close(missing)
    \/ ParseTx
    \/ EndParse
    \/ Stage

-----------------------------------------------------------------------------
(* Properties.                                                             *)

\* The ledger is staged whole or not at all: a parse never loses the slot of
\* a transaction, and its rows wait for the last one.
RowsTypeOK ==
    /\ phase \in {"open", "parse", "stage", "done", "failed"}
    /\ Len(parsed.transactions) = tx_index /\ Len(parsed.events) = tx_index /\ tx_index <= Len(applied)
    /\ phase # "done" => stored = NoRows

Kept == {p \in Positions : \E k \in DOMAIN tx_set : tx_set[k].hash = applied[p].hash}

\* Whatever order the envelopes came in, a stored transaction has the source
\* and the operations of the one that was applied at its position, and one
\* without an envelope has its row, its success and nothing else.
EnvelopesMatch ==
    phase = "done" =>
        /\ \A p \in Positions : \E t \in stored.transactions :
            /\ t.position = p /\ t.hash = applied[p].hash /\ t.ok = applied[p].ok
            /\ t.parse_error <=> p \notin Kept
            /\ p \in Kept => t.source = applied[p].kind.source /\ t.operations = Len(applied[p].kind.ops)
        /\ Cardinality(stored.transactions) = Len(applied)
        /\ \A r \in stored.operations \cup stored.activity : r.position \in Kept
        /\ \A e \in stored.events : e.position \in Kept

\* What the chain executed, in its order: the fees of all transactions, then
\* each one's operations and refund, then what follows them all.
Fees(p, stage) == SelectSeq([k \in DOMAIN FeeEvents(p) |-> <<p, 0, k>>], LAMBDA e : FeeEvents(p)[e[3]] = stage)
Execution ==
    LET each(Events(_)) == FlattenSeq([p \in Positions |-> Events(p)])
        inOps(p) == FlattenSeq([k \in DOMAIN applied[p].kind.ops |->
                        [n \in DOMAIN OpEvents(p, k) |-> <<p, k, n>>]])
    IN  each(LAMBDA p : Fees(p, BeforeAllTxs))
        \o each(LAMBDA p : inOps(p) \o Fees(p, AfterTx))
        \o each(LAMBDA p : Fees(p, AfterAllTxs))

IdLess(x, y) ==
    \/ x[1] < y[1]
    \/ x[1] = y[1] /\ x[2] < y[2]
    \/ x[1] = y[1] /\ x[2] = y[2] /\ x[3] < y[3]

\* Event identities follow the execution of the whole ledger, so those of
\* the stored events are those the network's RPC gives them also when
\* transactions between them were skipped, and no ledger fails over them.
IdsFollowExecution ==
    /\ phase # "failed"
    /\ phase = "done" =>
        LET rank(o) == CHOOSE k \in DOMAIN Execution : Execution[k] = o
        IN  /\ \A e, f \in stored.events : rank(e.origin) < rank(f.origin) => IdLess(e.id, f.id)
            /\ \A e \in stored.events :
                (e.id[1] = 0 => e.id[3] = rank(e.origin) - 1)

\* Every page that leads to a transaction by an account, an asset or a
\* contract finds all of those it belongs on: a successful transaction is on
\* the page of each account its operations involve and of each asset they
\* move; every operation is under a row of its identity; and a contract's
\* page does not list a transaction for its fee alone.
PagesAreComplete ==
    phase = "done" =>
        \A p \in Kept :
            LET kind == applied[p].kind
                ops == kind.ops
            IN  /\ {kind.source, kind.fee_source} \ {None} \subseteq {r[1] : r \in {q \in stored.participants : q[2] = p}}
                /\ \A k \in DOMAIN ops :
                    /\ ({ops[k].to, ops[k].source} \cap Accounts) \X {p} \subseteq stored.participants
                    /\ (applied[p].ok => ops[k].sellers \X {p} \subseteq stored.participants)
                    /\ (applied[p].ok /\ ops[k].kind \in {"claim", "pool"} => ops[k].moved \X {p} \subseteq stored.assets)
                    /\ \E r \in stored.operations :
                        r.position = p /\ r.index <= k /\ r.identity = Identity(ops[k], applied[p].ok)
                    /\ \A e \in Range(OpEvents(p, k)) :
                        /\ (e.contract # None => \E r \in stored.activity : r.contract = e.contract /\ r.position = p)
                        /\ (HasSoroban(ops) => (e.parties \cap Accounts) \X {p} \subseteq stored.participants)
                        /\ (HasSoroban(ops) /\ e.asset # NoAsset => <<e.asset, p>> \in stored.assets)
                /\ \A r \in stored.activity :
                    r.position = p /\ r.contract = "native_sac" =>
                        \E k \in DOMAIN ops :
                            \/ ops[k].contract = "native_sac"
                            \/ \E e \in Range(OpEvents(p, k)) : e.contract = "native_sac"
                            \/ \E call \in Range(kind.calls) : call.contract = "native_sac"

\* A contract's deployer signed for its creation: the signer of the entry
\* that authorizes it or the source of the operation, as long as no other
\* transaction of the ledger names the same contract.
Signers(p, contract) ==
    LET kind == applied[p].kind
        signed(op) == {d \in op.creates : d.contract = contract}
    IN  UNION {{IF d.signer = None THEN OpSource(kind.ops[k], kind.source) ELSE d.signer : d \in signed(kind.ops[k])} :
               k \in DOMAIN kind.ops}
Alone(contract) == \A p, q \in Kept : Signers(p, contract) # {} /\ Signers(q, contract) # {} => p = q

DeployersSigned ==
    phase = "done" =>
        \A r \in stored.contracts :
            /\ created[r.contract] \in Kept
            /\ Alone(r.contract) => r.deployer \in Signers(created[r.contract], r.contract)

\* What the source says of every ledger ("walks every successful envelope"):
\* the deployer signed for the transaction that created the contract.
DeployersAlwaysSigned ==
    phase = "done" =>
        \A r \in stored.contracts : r.deployer \in Signers(created[r.contract], r.contract)

=============================================================================
