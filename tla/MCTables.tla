------------------------------- MODULE MCTables -------------------------------
(***************************************************************************)
(* The tables of balances and the passes that repair them: accounts and    *)
(* trustlines (AccountState), the checkpoint seed (SnapshotSeed) and what  *)
(* contracts hold (SacBalances); and the rows of a parsed ledger           *)
(* (LedgerRows) and of a call trace (CallTrace); the reading of a          *)
(* checkpoint with the report on it (CheckpointRead); and what the tables  *)
(* say of a contract's code and metadata (ContractCode).  Each is checked  *)
(* by itself: the initial state chooses one of them, and its instance;     *)
(* `part` names it.  The seed of the part `claims` is the module's own;    *)
(* the other parts have their seeds in `job` and `ended`.                  *)
(***************************************************************************)
EXTENDS SnapshotSeed, TLC

CONSTANTS
    Parts,       \* the parts of this run
    a, b, d, lp, t, h  \* keys, assets, a pool, a token, a holder

VARIABLES
    part,
    job, ended,                                                         \* the running seed and what it settled
    open, balances,                                                     \* as several modules name them
    entry, lines, tx, states, closed, accounts, transaction_participants, ledgers, pass,  \* AccountState
    entries, sacs, cursor, partition, asset_sac, rekey,                 \* SacBalances
    applied, created, tx_set, phase, tx_index, parsed, stored,          \* LedgerRows
    envelope, tracing, active, trace, calls, caught, result,            \* CallTrace
    sequence, levels, archive, missed, faults, snapshot, report,        \* CheckpointRead
    history, db, through, torn, fill, spent                             \* ContractCode

accountOnly == <<entry, lines, tx, states, closed, accounts, transaction_participants, ledgers, pass>>
seedOnly == <<next, skipped, deployed, reparse, rows, defined, ended>>
sacOnly == <<entries, sacs, cursor, partition, asset_sac, rekey>>
ledgerOnly == <<applied, created, tx_set, phase, tx_index, parsed, stored>>
traceOnly == <<envelope, tracing, active, trace, calls, caught, result>>
readOnly == <<sequence, levels, archive, missed, faults, snapshot, report>>
codeOnly == <<history, db, through, torn, fill, spent>>
claimsOnly == <<seed, settled>>
shared == <<chain, open, balances, account_entry_state, job, used>>
allVars == <<part, claimsOnly, shared, accountOnly, seedOnly, sacOnly, ledgerOnly, traceOnly, readOnly,
               codeOnly>>

\* What a part does not use.
Off == <<>>
AccountOff ==
    /\ entry = Off /\ lines = Off /\ tx = Off /\ states = Off /\ closed = Off /\ accounts = Off
    /\ transaction_participants = Off /\ ledgers = Off /\ pass = Off
SeedOff ==
    /\ next = Off /\ skipped = Off /\ deployed = Off /\ reparse = Off /\ rows = Off
    /\ defined = Off /\ ended = Off
SacOff ==
    /\ entries = Off /\ sacs = Off /\ cursor = Off /\ partition = Off /\ asset_sac = Off /\ rekey = Off
LedgerOff ==
    /\ applied = Off /\ created = Off /\ tx_set = Off /\ phase = Off /\ tx_index = Off
    /\ parsed = Off /\ stored = Off
TraceOff ==
    /\ envelope = Off /\ tracing = Off /\ active = Off /\ trace = Off /\ calls = Off
    /\ caught = Off /\ result = Off
ReadOff ==
    /\ sequence = Off /\ levels = Off /\ archive = Off /\ missed = Off /\ faults = Off
    /\ snapshot = Off /\ report = Off
CodeOff ==
    /\ history = Off /\ db = Off /\ through = Off /\ torn = Off /\ fill = Off /\ spent = Off
ParserOff == LedgerOff /\ TraceOff /\ ReadOff /\ CodeOff
parserOnly == <<ledgerOnly, traceOnly, readOnly, codeOnly>>
SharedOff ==
    /\ chain = Off /\ open = Off /\ balances = Off /\ account_entry_state = Off
    /\ job = Off /\ used = Off
ClaimsOff == seed = Idle /\ settled = 0

-----------------------------------------------------------------------------
(* Accounts: three ledgers of two transactions; two of two transactions of *)
(* two changes; an account whose balance runs out, while repair-tier1      *)
(* runs; both passes; and fee refunds.                                     *)

AccountEntry(balance, seq, domain, signers) ==
    [balance |-> balance, seq |-> seq, domain |-> domain, signers |-> signers]

Rich == {AccountEntry(1, 1, "d", "s"), AccountEntry(2, 2, "", "t")}
Poor == {AccountEntry(1, 1, "d", "s"), AccountEntry(0, 2, "", "t")}

As == INSTANCE AccountState WITH
    Accounts <- {"a"}, Assets <- {"usd"}, Entries <- Rich, Amounts <- {0, 1},
    Kinds <- {"entry", "merge", "line", "unline", "refer"}, Passes <- {}, LiveDuring <- {},
    MaxLedger <- 3, MaxTx <- 2, MaxChanges <- 1, MaxPasses <- 0

Ac == INSTANCE AccountState WITH
    Accounts <- {"a"}, Assets <- {"usd"}, Entries <- Rich, Amounts <- {0, 1},
    Kinds <- {"entry", "merge", "line", "unline", "refer"}, Passes <- {}, LiveDuring <- {},
    MaxLedger <- 2, MaxTx <- 2, MaxChanges <- 2, MaxPasses <- 0

Ag == INSTANCE AccountState WITH
    Accounts <- {"a"}, Assets <- {"usd"}, Entries <- Poor, Amounts <- {0},
    Kinds <- {"entry", "merge", "line", "refund"}, Passes <- {"repair"}, LiveDuring <- {"repair"},
    MaxLedger <- 3, MaxTx <- 2, MaxChanges <- 1, MaxPasses <- 1

Ap == INSTANCE AccountState WITH
    Accounts <- {"a"}, Assets <- {"usd"}, Entries <- Rich, Amounts <- {0},
    Kinds <- {"entry", "merge", "line", "refer"}, Passes <- {"bootstrap", "repair"}, LiveDuring <- {},
    MaxLedger <- 3, MaxTx <- 1, MaxChanges <- 1, MaxPasses <- 2

Ar == INSTANCE AccountState WITH
    Accounts <- {"a"}, Assets <- {"usd"}, Entries <- Rich, Amounts <- {0},
    Kinds <- {"entry", "refund"}, Passes <- {}, LiveDuring <- {},
    MaxLedger <- 1, MaxTx <- 1, MaxChanges <- 1, MaxPasses <- 0

ASSUME /\ As!AccountStateAssumption /\ Ac!AccountStateAssumption /\ Ag!AccountStateAssumption
       /\ Ap!AccountStateAssumption /\ Ar!AccountStateAssumption

AccountsInit ==
    /\ \/ part = "accounts" /\ As!AccountInit
       \/ part = "changes" /\ Ac!AccountInit
       \/ part = "signing" /\ Ag!AccountInit
       \/ part = "passes" /\ Ap!AccountInit
       \/ part = "refunds" /\ Ar!AccountInit
    /\ ClaimsOff /\ chain = Off /\ job = Off /\ used = Off /\ SeedOff /\ SacOff /\ ParserOff

AccountsStep ==
    /\ \/ part = "accounts" /\ As!AccountNext
       \/ part = "changes" /\ Ac!AccountNext
       \/ part = "signing" /\ Ag!AccountNext
       \/ part = "passes" /\ Ap!AccountNext
       \/ part = "refunds" /\ Ar!AccountNext
    /\ UNCHANGED <<part, claimsOnly, chain, job, used, seedOnly, sacOnly, parserOnly>>

-----------------------------------------------------------------------------
(* The checkpoint seed: claimable balances with a skipped ledger; an       *)
(* account's balance with a re-parse; an account's counters; a pool.       *)

ASSUME SnapshotSeedAssumption

Sh == INSTANCE SnapshotSeed WITH seed <- job, settled <- ended,
    Native <- {a}, Lines <- {}, Claims <- {}, Pools <- {}, Amounts <- {1}, Counters <- {0},
    CHECKPOINT_FREQUENCY <- 2, Floor <- 0, MaxLedger <- 4, MaxSkips <- 1, MaxReparses <- 1, MaxSeeds <- 1

Ss == INSTANCE SnapshotSeed WITH seed <- job, settled <- ended,
    Native <- {a}, Lines <- {}, Claims <- {}, Pools <- {}, Amounts <- {0, 1}, Counters <- {0, 1},
    CHECKPOINT_FREQUENCY <- 2, Floor <- 0, MaxLedger <- 3, MaxSkips <- 1, MaxReparses <- 0, MaxSeeds <- 1

Sp == INSTANCE SnapshotSeed WITH seed <- job, settled <- ended,
    Native <- {}, Lines <- {}, Claims <- {}, Pools <- {lp}, Amounts <- {0, 1}, Counters <- {0},
    CHECKPOINT_FREQUENCY <- 2, Floor <- 0, MaxLedger <- 3, MaxSkips <- 1, MaxReparses <- 0, MaxSeeds <- 1

ASSUME Sh!SnapshotSeedAssumption /\ Ss!SnapshotSeedAssumption /\ Sp!SnapshotSeedAssumption

InitSeed ==
    /\ \/ part = "claims" /\ SeedInit /\ job = Off /\ ended = Off
       \/ part = "holdings" /\ Sh!SeedInit /\ ClaimsOff
       \/ part = "state" /\ Ss!SeedInit /\ ClaimsOff
       \/ part = "pool" /\ Sp!SeedInit /\ ClaimsOff
    /\ open = Off /\ balances = Off /\ AccountOff /\ SacOff /\ ParserOff

SeedStep ==
    /\ \/ part = "claims" /\ SeedNext /\ UNCHANGED <<job, ended>>
       \/ part = "holdings" /\ Sh!SeedNext /\ UNCHANGED claimsOnly
       \/ part = "state" /\ Ss!SeedNext /\ UNCHANGED claimsOnly
       \/ part = "pool" /\ Sp!SeedNext /\ UNCHANGED claimsOnly
    /\ UNCHANGED <<part, open, balances, accountOnly, sacOnly, parserOnly>>

-----------------------------------------------------------------------------
(* What contracts hold: the live indexer with a SAC and a token; its seed; *)
(* two partitions of a backfill with the re-key after them; and a          *)
(* partition beside the live indexer.                                      *)

Kl == INSTANCE SacBalances WITH seed <- job,
    Assets <- {a}, Tokens <- {t}, Holders <- {h}, Capacity <- 1, Partitions <- 0, Since <- 1,
    MaxAmount <- 1, MaxLedger <- 3, MaxTx <- 2, MaxSeeds <- 0, MaxRekeys <- 0

Ks == INSTANCE SacBalances WITH seed <- job,
    Assets <- {a}, Tokens <- {}, Holders <- {h}, Capacity <- 1, Partitions <- 0, Since <- 2,
    MaxAmount <- 1, MaxLedger <- 3, MaxTx <- 2, MaxSeeds <- 1, MaxRekeys <- 0

Kr == INSTANCE SacBalances WITH seed <- job,
    Assets <- {a}, Tokens <- {}, Holders <- {h}, Capacity <- 2, Partitions <- 2, Since <- 1,
    MaxAmount <- 1, MaxLedger <- 4, MaxTx <- 1, MaxSeeds <- 1, MaxRekeys <- 1

Kb == INSTANCE SacBalances WITH seed <- job,
    Assets <- {a}, Tokens <- {}, Holders <- {h}, Capacity <- 2, Partitions <- 1, Since <- 1,
    MaxAmount <- 1, MaxLedger <- 4, MaxTx <- 1, MaxSeeds <- 1, MaxRekeys <- 1

ASSUME /\ Kl!SacBalancesAssumption /\ Ks!SacBalancesAssumption
       /\ Kr!SacBalancesAssumption /\ Kb!SacBalancesAssumption

SacInit ==
    /\ \/ part = "sac_live" /\ Kl!SacInit
       \/ part = "sac_seed" /\ Ks!SacInit
       \/ part = "sac_rekey" /\ Kr!SacInit
       \/ part = "sac_beside" /\ Kb!SacInit
    /\ ClaimsOff /\ account_entry_state = Off /\ AccountOff /\ SeedOff /\ ParserOff

SacStep ==
    /\ \/ part = "sac_live" /\ Kl!SacNext
       \/ part = "sac_seed" /\ Ks!SacNext
       \/ part = "sac_rekey" /\ Kr!SacNext
       \/ part = "sac_beside" /\ Kb!SacNext
    /\ UNCHANGED <<part, claimsOnly, account_entry_state, accountOnly, seedOnly, parserOnly>>

-----------------------------------------------------------------------------
(* A ledger of two transactions out of six kinds: payments, a route across *)
(* offers and a pool, a claim with an allow_trust, an invocation with      *)
(* events, and the creation of a contract signed in two ways.              *)

Op(kind, source, to) ==
    [kind |-> kind, source |-> source, to |-> to, declared |-> {}, moved |-> {}, sellers |-> {},
     pools |-> {}, contract |-> "none", creates |-> {}, events |-> <<>>]
Event(contract, parties, asset) == [contract |-> contract, parties |-> parties, asset |-> asset]
Tx(source, payer, meta, fees, ops, called) ==
    [source |-> source, fee_source |-> payer, meta |-> meta, fees |-> fees, ops |-> ops, calls |-> called]

Pay == [Op("pay", "none", "b") EXCEPT !.declared = {<<"usd", "s">>}]
Route == [Op("route", "b", "a") EXCEPT !.declared = {<<"usd", "s">>, <<"xlm", "">>},
                                       !.sellers = {"s"}, !.pools = {"pool"}]
Claim == [Op("claim", "b", "none") EXCEPT !.moved = {<<"eur", "s">>}]
Allow == [Op("allow", "none", "a") EXCEPT !.declared = {<<"eur">>}]
Invoke == [Op("invoke", "none", "none") EXCEPT !.contract = "C",
              !.events = <<Event("T", {"b", "C"}, <<"T", "">>), Event("none", {}, <<>>),
                           Event("native_sac", {"s"}, <<"xlm", "">>)>>]
Create(by, signer) == [Op("invoke", by, "none") EXCEPT !.creates = {[contract |-> "D", signer |-> signer]}]

Lr == INSTANCE LedgerRows WITH
    Kinds <- {Tx("a", "none", 4, <<"before_all">>, <<Pay, Pay>>, <<>>),
              Tx("a", "b", 4, <<"before_all", "after_all">>, <<Route>>, <<>>),
              Tx("b", "none", 4, <<"before_all">>, <<Claim, Allow>>, <<>>),
              Tx("a", "none", 4, <<"before_all", "after_tx">>, <<Invoke>>,
                 <<[contract |-> "C", caller |-> "a"], [contract |-> "T", caller |-> "C"]>>),
              Tx("a", "none", 4, <<"before_all", "after_all">>, <<Create("b", "none")>>, <<>>),
              Tx("b", "none", 3, <<"before_all", "after_all">>, <<Create("none", "s")>>, <<>>)},
    Accounts <- {"a", "b", "s"}, Deployable <- {"D"}, MaxTxs <- 2, MaxMissing <- 1

ASSUME Lr!LedgerRowsAssumption

LedgerInit ==
    /\ part = "ledger" /\ Lr!RowsInit
    /\ ClaimsOff /\ SharedOff /\ AccountOff /\ SeedOff /\ SacOff /\ TraceOff /\ ReadOff /\ CodeOff

LedgerStep ==
    /\ part = "ledger" /\ Lr!RowsNext
    /\ UNCHANGED <<part, claimsOnly, shared, accountOnly, seedOnly, sacOnly, traceOnly, readOnly, codeOnly>>

-----------------------------------------------------------------------------
(* A trace of five entries, next to authorization trees of two and three   *)
(* levels, none, and a transaction without an invocation.                  *)

Node(contract, subs) == [contract |-> contract, subs |-> subs]
Tree == Node("C", <<Node("D", <<Node("E", <<>>), Node("C", <<>>)>>), Node("none", <<Node("C", <<>>)>>), Node("E", <<>>)>>)

Ct == INSTANCE CallTrace WITH
    Contracts <- {"C", "D"}, NoContract <- "none", NoOverride <- "none", MaxTrace <- 5,
    Envelopes <- {[source |-> "a",
                   ops |-> <<[invoke |-> FALSE, source |-> "s", auth |-> <<>>],
                             [invoke |-> TRUE, source |-> "b", auth |-> <<Tree, Node("D", <<>>)>>]>>],
                  [source |-> "a", ops |-> <<[invoke |-> TRUE, source |-> "none", auth |-> <<>>]>>],
                  [source |-> "a", ops |-> <<>>]}

ASSUME Ct!CallTraceAssumption

TraceInit ==
    /\ part = "trace" /\ Ct!TraceInit
    /\ ClaimsOff /\ SharedOff /\ AccountOff /\ SeedOff /\ SacOff /\ LedgerOff /\ ReadOff /\ CodeOff

TraceStep ==
    /\ part = "trace" /\ Ct!TraceNext
    /\ UNCHANGED <<part, claimsOnly, shared, accountOnly, seedOnly, sacOnly, ledgerOnly, readOnly, codeOnly>>

-----------------------------------------------------------------------------
(* A checkpoint after three ledgers, the first of them below the floor,    *)
(* with a ledger that was missed and a wrong answer of the archive; and    *)
(* three accounts and a type of entry that is not modelled, for samples.   *)

Rd == INSTANCE CheckpointRead WITH
    Keys <- {"acc", "line"}, KindOf <- [acc |-> "account", line |-> "trustline"],
    IdOf <- [acc |-> 0, line |-> 1], Hash <- [acc |-> 2, line |-> 1], Span <- 3, KEY_SLICES <- 2,
    Amounts <- {0, 1}, CHECKPOINT_FREQUENCY <- 4, LEDGER_FLOOR <- 2, SAMPLE_CAP <- 1,
    MaxLedger <- 4, MaxChanges <- 1, MaxMissed <- 1, MaxFaults <- 1

Many == [u |-> "account", v |-> "account", w |-> "account", x |-> "claimable", y |-> "other"]
Rs == INSTANCE CheckpointRead WITH
    Keys <- DOMAIN Many, KindOf <- Many,
    IdOf <- [u |-> 0, v |-> 4, w |-> 2, x |-> 3, y |-> 1],
    Hash <- [u |-> 2, v |-> 1, w |-> 3, x |-> 5, y |-> 4], Span <- 5, KEY_SLICES <- 2,
    Amounts <- {1}, CHECKPOINT_FREQUENCY <- 3, LEDGER_FLOOR <- 2, SAMPLE_CAP <- 1,
    MaxLedger <- 2, MaxChanges <- 4, MaxMissed <- 1, MaxFaults <- 0

ASSUME Rd!CheckpointReadAssumption /\ Rs!CheckpointReadAssumption

ReadInit ==
    /\ \/ part = "archive" /\ Rd!CheckpointInit
       \/ part = "samples" /\ Rs!CheckpointInit
    /\ open = Off /\ account_entry_state = Off /\ job = Off /\ used = Off
    /\ ClaimsOff /\ AccountOff /\ SeedOff /\ SacOff /\ LedgerOff /\ TraceOff /\ CodeOff

ReadStep ==
    /\ \/ part = "archive" /\ Rd!CheckpointNext
       \/ part = "samples" /\ Rs!CheckpointNext
    /\ UNCHANGED <<part, claimsOnly, open, account_entry_state, job, used, accountOnly, seedOnly, sacOnly,
                    ledgerOnly, traceOnly, codeOnly>>

-----------------------------------------------------------------------------

(* Contract code over three ledgers of two steps: deployed, referred to,   *)
(* upgraded and re-pointed, with a failed lookup or a torn write; two      *)
(* ledgers stored again, with a restored contract; metadata with the three *)
(* fills; and, over two ledgers of three steps, a proxy that asks another  *)
(* contract.                                                               *)

Program(spec, functions, upgradeable, asks) ==
    [spec |-> spec, functions |-> functions, upgradeable |-> upgradeable, asks |-> asks]

Cc == INSTANCE ContractCode WITH
    Contracts <- {"c"}, Tags <- {"g"}, Programs <- {"p", "q"},
    Interface <- [p |-> Program(TRUE, {"decimals", "name"}, TRUE, "own"),
                  q |-> Program(TRUE, {"owner_of"}, FALSE, "own")],
    Values <- {"x"}, Kinds <- {"upload", "deploy", "refer", "upgrade", "point"},
    Since <- 1, MaxLedger <- 3, MaxSteps <- 2, MaxFaults <- 1, MaxAgain <- 0, MaxFills <- 0

Ca == INSTANCE ContractCode WITH
    Contracts <- {"c"}, Tags <- {}, Programs <- {"p", "q"},
    Interface <- [p |-> Program(TRUE, {"decimals"}, TRUE, "own"), q |-> Program(TRUE, {}, FALSE, "own")],
    Values <- {"x"}, Kinds <- {"upload", "deploy", "sac", "upgrade", "spoof", "restore"},
    Since <- 1, MaxLedger <- 3, MaxSteps <- 2, MaxFaults <- 0, MaxAgain <- 2, MaxFills <- 0

Cm == INSTANCE ContractCode WITH
    Contracts <- {"c"}, Tags <- {}, Programs <- {"p", "q"},
    Interface <- [p |-> Program(TRUE, {"decimals", "name"}, TRUE, "own"), q |-> Program(FALSE, {}, FALSE, "own")],
    Values <- {"x", "bad"}, Kinds <- {"upload", "deploy", "upgrade", "name"},
    Since <- 2, MaxLedger <- 3, MaxSteps <- 2, MaxFaults <- 0, MaxAgain <- 0, MaxFills <- 3

Cx == INSTANCE ContractCode WITH
    Contracts <- {"c", "m"}, Tags <- {}, Programs <- {"p", "q"},
    Interface <- [p |-> Program(TRUE, {"name", "symbol"}, FALSE, "m"), q |-> Program(TRUE, {"name", "symbol"}, FALSE, "data")],
    Values <- {"x", "y"}, Kinds <- {"upload", "deploy", "name"},
    Since <- 1, MaxLedger <- 2, MaxSteps <- 3, MaxFaults <- 0, MaxAgain <- 0, MaxFills <- 1

ASSUME /\ Cc!ContractCodeAssumption /\ Ca!ContractCodeAssumption
       /\ Cm!ContractCodeAssumption /\ Cx!ContractCodeAssumption

CodeInit ==
    /\ \/ part = "code" /\ Cc!CodeInit
       \/ part = "again" /\ Ca!CodeInit
       \/ part = "metadata" /\ Cm!CodeInit
       \/ part = "proxy" /\ Cx!CodeInit
    /\ balances = Off /\ account_entry_state = Off /\ job = Off /\ used = Off
    /\ ClaimsOff /\ AccountOff /\ SeedOff /\ SacOff /\ LedgerOff /\ TraceOff /\ ReadOff

CodeStep ==
    /\ \/ part = "code" /\ Cc!CodeNext
       \/ part = "again" /\ Ca!CodeNext
       \/ part = "metadata" /\ Cm!CodeNext
       \/ part = "proxy" /\ Cx!CodeNext
    /\ UNCHANGED <<part, claimsOnly, balances, account_entry_state, job, used, accountOnly, seedOnly, sacOnly,
                    ledgerOnly, traceOnly, readOnly>>

-----------------------------------------------------------------------------

Init == part \in Parts /\ (AccountsInit \/ InitSeed \/ SacInit \/ LedgerInit \/ TraceInit \/ ReadInit
                             \/ CodeInit)
Next == AccountsStep \/ SeedStep \/ SacStep \/ LedgerStep \/ TraceStep \/ ReadStep \/ CodeStep
Spec == Init /\ [][Next]_allVars

\* The claimable balances of the part `claims` are interchangeable.
Symmetry == Permutations(Claims)

-----------------------------------------------------------------------------

\* The types; and of the seed, what its proof is by induction on.
TablesTypeOK ==
    /\ part = "signing" => Ag!AccountsTypeOK
    /\ part = "holdings" => Sh!SeedTypeOK /\ Sh!SnapshotInv
    /\ part = "claims" => SnapshotInv
    /\ part = "state" => Ss!SnapshotInv
    /\ part = "pool" => Sp!SnapshotInv
    /\ part = "sac_live" => Kl!SacTypeOK
    /\ part = "ledger" => Lr!RowsTypeOK
    /\ part = "trace" => Ct!TraceTypeOK
    /\ part = "archive" => Rd!CheckpointTypeOK
    /\ part = "code" => Cc!CodeTypeOK
    /\ part = "metadata" => Cm!CodeTypeOK

\* A row says what the network had at the end of the newest stored ledger
\* that touched it, whatever order, repetition and pass the rows came by, or since a
\* complete seed, whatever was missed: the
\* balances of accounts and trustlines, the signers and the deletion of an
\* account, and what a contract holds, under the asset its SAC wraps.  A
\* transaction's rows are its own, at its position, and its events have the
\* identities of their execution; each call has a row with its caller; and
\* a checkpoint that was read to its end is the network at that ledger, each
\* verdict on our rows deserved by a ledger that was missed or lies below the
\* floor.  A contract is shown with the code it runs, where it came from, and metadata
\* its functions return.
RowsAreTrue ==
    /\ part = "accounts" => As!BalancesAreChain
    /\ part = "changes" => Ac!BalancesAreChain
    /\ part = "passes" => Ap!BalancesAreChain
    /\ part = "refunds" => Ar!BalancesAreChain
    /\ part = "signing" => Ag!SigningIsCurrent
    /\ part = "holdings" => Sh!SeedSettles
    /\ part = "state" => Ss!SeedSettles
    /\ part = "pool" => Sp!SeedSettles
    /\ part = "sac_live" => Kl!RowsAreTrue /\ Kl!KeyedOnAsset
    /\ part = "sac_seed" => Ks!RowsAreTrue
    /\ part = "sac_rekey" => Kr!RowsAreTrue
    /\ part = "sac_beside" => Kb!RowsAreTrue
    /\ part = "ledger" => Lr!EnvelopesMatch /\ Lr!IdsFollowExecution /\ Lr!DeployersSigned
    /\ part = "trace" => Ct!CallersAreTrue /\ Ct!TreesKeepParents
    /\ part = "archive" => Rd!SnapshotIsTheNetwork /\ Rd!VerdictsAreDeserved
    /\ part = "samples" => Rs!SnapshotIsTheNetwork /\ Rs!VerdictsAreDeserved /\ Rs!SamplesAreReproducible
    /\ part = "code" => Cc!CodeIsCurrent /\ Cc!IdentityIsKept
    /\ part = "again" => Ca!CodeIsCurrent /\ Ca!IdentityIsKept
    /\ part = "metadata" => Cm!MetadataIsTrue
    /\ part = "proxy" => Cx!MetadataIsTrue

\* What was stored is found: under its asset or still under its SAC while
\* the re-key runs, under its asset after it, and when the seed of contracts'
\* holdings is through, all of it; and no row is there without the rows it
\* refers to, wherever a seed dies.  Every page that leads to a
\* transaction leads to it, every call is counted, and every row and every
\* live holding is in the report on a checkpoint.  After the three fills
\* every contract that answers has its metadata.
NothingMissing ==
    /\ part = "sac_live" => Kl!NothingMissing
    /\ part = "sac_seed" => Ks!SeedCompletes
    /\ part = "sac_rekey" => Kr!NothingLost /\ Kr!RekeyedIsComplete
    /\ part = "sac_beside" => Kb!NothingLost /\ Kb!RekeyedIsComplete
    /\ part = "claims" => RowsAreDefined
    /\ part = "ledger" => Lr!PagesAreComplete
    /\ part = "trace" => Ct!EveryCallOnce /\ Ct!TreesInOrder
    /\ part = "archive" => Rd!ReportAddsUp
    /\ part = "samples" => Rs!ReportAddsUp
    /\ part = "metadata" => Cm!FillsComplete

\* No pass makes a row wrong that was right: an insert of a seed, however
\* far the chain and the indexer have moved since its checkpoint.  Nor does
\* the swap of repair-tier1 with the indexer stopped, as docs/backfills.md
\* wants it; beside a writer it loses rows stored since its build, and each
\* of them comes back when its ledger is stored again.  A contract shown as
\* one that cannot be upgraded never runs other code later.
NeverWorse ==
    [][/\ part = "holdings" => Sh!InsertKeepsRight
       /\ part = "claims" => InsertKeepsRight
       /\ part = "passes" => Ap!RepairKeepsRows
       /\ part = "signing" => Ag!RepairKeepsRows
       /\ part = "code" => Cc!StaysAsShown
       /\ part = "again" => Ca!StaysAsShown]_allVars

=============================================================================
