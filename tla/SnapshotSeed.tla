---------------------------- MODULE SnapshotSeed ----------------------------
(***************************************************************************)
(* backfill-runner snapshot-seed.  The history archive publishes the whole *)
(* state of the network at a checkpoint; the seed compares our rows with   *)
(* it and inserts what is missing, closed or stale, while the indexer goes *)
(* on.  What makes that safe is the version of every row it inserts: the   *)
(* ledger that last changed the entry, or the checkpoint for an entry that *)
(* is gone.                                                                *)
(*                                                                         *)
(* Our rows are incomplete in three ways: the history has a floor, a       *)
(* ledger can be skipped, and the writer of before Deploy stamps no        *)
(* closure, knows no claimable balance and no sponsorship counter.         *)
(***************************************************************************)
EXTENDS Integers, FiniteSets, Sequences

CONSTANTS
    Native, Lines, Claims, Pools,  \* keys: accounts, trustlines, claimable balances, classic pools
    Amounts, Counters,
    CHECKPOINT_FREQUENCY,
    Floor,       \* the ledgers up to it are never stored
    MaxLedger, MaxSkips, MaxReparses, MaxSeeds  \* bounds

Keys == Native \cup Lines \cup Claims \cup Pools

SnapshotSeedAssumption ==
    /\ Amounts \subseteq Nat /\ Counters \subseteq Nat /\ 0 \in Counters
    /\ CHECKPOINT_FREQUENCY \in Nat \ {0} /\ Floor \in Nat
    /\ {MaxLedger, MaxSkips, MaxReparses, MaxSeeds} \subseteq Nat
    /\ (Native \cup Lines) \cap (Claims \cup Pools) = {} /\ Claims \cap Pools = {}

VARIABLES
    chain,     \* the state after each ledger: per key [live, amount, counters, since]
    next,      \* the next ledger of the live indexer
    skipped,   \* ledgers it left out
    deployed,  \* the height of the chain when the present writer was deployed, or -1
    reparse,   \* the ledgers a running re-parse has still to store
    rows,      \* balances, claimable_balance_holdings, newest pool snapshot; read with FINAL
    account_entry_state,  \* the counters; read with FINAL
    defined,   \* keys whose dimension rows (accounts, assets, liquidity_pools) are there
    seed,      \* the running seed
    settled,   \* the last complete seed's checkpoint, or what was stored as it began; 0
    used       \* [reparses, seeds]

indexVars == <<chain, next, skipped, deployed, reparse>>
tableVars == <<rows, account_entry_state, defined>>
seedVars == <<seed, settled>>
vars == <<indexVars, tableVars, seedVars, used>>

Absent == [live |-> FALSE, amount |-> 0, counters |-> 0, since |-> 0]
NoRow == [version |-> -1]
Idle == [pc |-> "idle"]
Height == Len(chain)
Touched(l) == {k \in Keys : chain[l][k].since = l}

SeedInit ==
    /\ chain = <<>> /\ next = Floor + 1 /\ skipped = {} /\ deployed = -1 /\ reparse = {}
    /\ rows = [k \in Keys |-> NoRow] /\ account_entry_state = [k \in Native |-> NoRow]
    /\ defined = {} /\ seed = Idle /\ settled = 0 /\ used = [reparses |-> 0, seeds |-> 0]

-----------------------------------------------------------------------------
(* The network and the indexer.                                            *)

Entry == IF Height = 0 THEN [k \in Keys |-> Absent] ELSE chain[Height]

Extend(state) ==
    /\ Height < MaxLedger
    /\ chain' = Append(chain, state)
    /\ UNCHANGED <<next, skipped, deployed, reparse, tableVars, seedVars, used>>

\* A ledger changes one entry, or none that is modelled.
ChangeEntry(k, amount, counters) ==
    /\ k \in Claims => Entry[k] = Absent
    /\ k \notin Native => counters = 0
    /\ Extend([Entry EXCEPT ![k] =
         [live |-> TRUE, amount |-> amount, counters |-> counters, since |-> Height + 1]])

\* A pool goes when it is empty.
RemoveEntry(k) ==
    /\ Entry[k].live /\ (k \in Pools => Entry[k].amount = 0)
    /\ Extend([Entry EXCEPT ![k] = [Absent EXCEPT !.since = Height + 1]])

QuietLedger == Extend(Entry)

\* ReplacingMergeTree: the greatest version, and of two the one inserted last.
Put(row, new) == IF new # NoRow /\ new.version >= row.version THEN new ELSE row

\* What the writer makes of a change: closures, claimable balances and
\* counters from the deployed one only, nothing of a removed pool.
RowOf(l, k) ==
    LET e == chain[l][k]
    IN  IF (k \in Claims /\ deployed < 0) \/ (k \in Pools /\ ~ e.live) THEN NoRow
        ELSE [version |-> l, amount |-> e.amount, closed |-> IF e.live \/ deployed < 0 THEN 0 ELSE l]

StateOf(l, k) ==
    IF ~ chain[l][k].live THEN NoRow
    ELSE [version |-> l, counters |-> IF deployed < 0 THEN 0 ELSE chain[l][k].counters]

StoreRows(l) ==
    /\ rows' = [k \in Keys |-> IF k \in Touched(l) THEN Put(rows[k], RowOf(l, k)) ELSE rows[k]]
    /\ account_entry_state' = [k \in Native |->
         IF k \in Touched(l) THEN Put(account_entry_state[k], StateOf(l, k)) ELSE account_entry_state[k]]
    /\ defined' = defined \cup {k \in Touched(l) : RowOf(l, k) # NoRow}

StoreNext ==
    /\ next <= Height
    /\ StoreRows(next) /\ next' = next + 1
    /\ UNCHANGED <<chain, skipped, deployed, reparse, seedVars, used>>

\* A backfill above the cursor, or a file that never came, leaves a gap.
SkipNext ==
    /\ next <= Height /\ Cardinality(skipped) < MaxSkips
    /\ skipped' = skipped \cup {next} /\ next' = next + 1
    /\ UNCHANGED <<chain, deployed, reparse, tableVars, seedVars, used>>

Deploy ==
    /\ deployed < 0 /\ deployed' = Height
    /\ UNCHANGED <<chain, next, skipped, reparse, tableVars, seedVars, used>>

\* run --reindex covers the whole range up to the tip.
StartReparse ==
    /\ reparse = {} /\ used.reparses < MaxReparses /\ seed.pc = "idle" /\ deployed >= 0
    /\ reparse' = (Floor + 1)..(next - 1)
    /\ used' = [used EXCEPT !.reparses = @ + 1]
    /\ UNCHANGED <<chain, next, skipped, deployed, tableVars, seedVars>>

Reparse(l) ==
    /\ StoreRows(l) /\ reparse' = reparse \ {l} /\ skipped' = skipped \ {l}
    /\ UNCHANGED <<chain, next, deployed, seedVars, used>>

-----------------------------------------------------------------------------
(* The snapshot: records, newest first, of which the first of a key counts. *)

Checkpoints == {c \in 1..Height : c % CHECKPOINT_FREQUENCY = CHECKPOINT_FREQUENCY - 1}

\* The records of a key up to checkpoint c: one for every ledger that changed it.
Records(c, k) == {l \in 1..c : k \in Touched(l)}

\* Mutant of FirstWins: a deleted entry is not a record.
FirstWinsLive(c, k) ==
    LET live == {l \in Records(c, k) : chain[l][k].live}
    IN  IF live = {} THEN Absent ELSE chain[CHOOSE l \in live : \A m \in live : m <= l][k]

FirstWins(c, k) ==
    IF Records(c, k) = {} THEN Absent
    ELSE chain[CHOOSE l \in Records(c, k) : \A m \in Records(c, k) : m <= l][k]

-----------------------------------------------------------------------------
(* The comparison of a row with the entry of the network.                  *)

Verdict(row, e, checkpoint) ==
    CASE row.version >= checkpoint -> "NewerThanCheckpoint"
      [] row.version < checkpoint /\ row.closed # 0 ->
           IF ~ e.live THEN "AlreadyClosed"
           ELSE IF e.since > row.version THEN "ClosedButLive" ELSE "ClosedButLiveConflict"
      [] row.version < checkpoint /\ row.closed = 0 /\ e.live /\ e.amount # row.amount ->
           IF e.since > row.version THEN "HealFromSnapshot"
           ELSE IF e.since < row.version THEN "DivergentOursNewer" ELSE "DivergentSameLedger"
      [] row.version < checkpoint /\ row.closed = 0 /\ e.live /\ e.amount = row.amount ->
           IF row.version < e.since THEN "Stale" ELSE "Agree"
      [] OTHER -> IF row.amount = 0 THEN "Closure" ELSE "Ghost"

LiveRow(e) == [version |-> e.since, amount |-> e.amount, closed |-> 0]

Correction(v, e, checkpoint) ==
    CASE v \in {"ClosedButLive", "HealFromSnapshot"} -> LiveRow(e)
      [] v \in {"Closure", "Ghost"} -> [version |-> checkpoint, amount |-> 0, closed |-> checkpoint]
      [] OTHER -> NoRow


Need(row, e) == row = NoRow \/ row.version < e.since

-----------------------------------------------------------------------------
(* The seed.                                                               *)

\* The first tombstone of a claimable balance tells when its writer began.
WriterCoverage(checkpoint) ==
    \E k \in Claims : rows[k] # NoRow /\ rows[k].closed # 0 /\ rows[k].closed <= checkpoint

\* The freshest checkpoint.  The operator deploys the writer first and has no
\* re-parse running; for claimable balances the seed sees to the first itself.
StartSeed(checkpoint) ==
    /\ seed.pc = "idle" /\ used.seeds < MaxSeeds /\ reparse = {}
    /\ \A c \in Checkpoints : c <= checkpoint
    /\ Native \cup Lines # {} => deployed >= 0 /\ checkpoint > deployed
    /\ Claims # {} => WriterCoverage(checkpoint)
    /\ seed' = [pc |-> "read", checkpoint |-> checkpoint, known |-> defined,
                upto |-> IF next <= checkpoint THEN next - 1 ELSE checkpoint,
                todo |-> Keys \ Pools, matched |-> {}, fix |-> [k \in Keys |-> NoRow]]
    /\ used' = [used EXCEPT !.seeds = @ + 1]
    /\ UNCHANGED <<indexVars, tableVars, settled>>

\* fold_our_row: what the verdict on a row of ours writes.
Fix(k, c) ==
    LET e == FirstWins(c, k)
    IN  IF rows[k] = NoRow THEN NoRow ELSE Correction(Verdict(rows[k], e, c), e, c)

\* A key slice is read, and each of its rows claims the entry of its key.
ReadRow(k) ==
    /\ seed.pc = "read" /\ k \in seed.todo
    /\ seed' = [seed EXCEPT !.todo = @ \ {k},
                  !.matched = IF rows[k] = NoRow THEN @ ELSE @ \cup {k},
                  !.fix[k] = Fix(k, seed.checkpoint)]
    /\ UNCHANGED <<indexVars, tableVars, settled, used>>

LiveAt(checkpoint) == {k \in Keys : FirstWins(checkpoint, k).live}

InsertOrder == <<"stubs", "pools", "balances", "claims", "entries">>

\* The rows for a table: a stub for what a missing holding refers to and is
\* not known, a pool with its own row, and the entry state of every account.
Writes(table, s) ==
    LET missing == (LiveAt(s.checkpoint) \ Pools) \ s.matched
    IN  CASE table = "stubs" -> missing \ s.known
          [] table = "pools" -> {k \in Pools : s.fix[k] # NoRow}
          [] table = "balances" -> {k \in Native \cup Lines : s.fix[k] # NoRow}
          [] table = "claims" -> {k \in Claims : s.fix[k] # NoRow}
          [] table = "entries" -> Native \cap LiveAt(s.checkpoint)

\* The live entries that are missing here: holdings and claimable balances no
\* row has claimed; pools by the newest snapshot of ours.
MissingHoldings(s) == ((Native \cup Lines) \cap LiveAt(s.checkpoint)) \ s.matched
MissingClaims(s) == (Claims \cap LiveAt(s.checkpoint)) \ s.matched
PoolsBehind(s) == {k \in Pools \cap LiveAt(s.checkpoint) : Need(rows[k], FirstWins(s.checkpoint, k))}

BuildCorrections ==
    /\ seed.pc = "read" /\ seed.todo = {}
    /\ LET fix == [k \in Keys |->
                     IF k \in MissingHoldings(seed) \cup MissingClaims(seed) \cup PoolsBehind(seed)
                     THEN LiveRow(FirstWins(seed.checkpoint, k)) ELSE seed.fix[k]]
           built == [seed EXCEPT !.fix = fix]
       IN  seed' = [pc |-> "insert", checkpoint |-> seed.checkpoint, upto |-> seed.upto, table |-> 1,
                    fix |-> fix, known |-> seed.known, matched |-> seed.matched,
                    todo |-> Writes(InsertOrder[1], built)]
    /\ UNCHANGED <<indexVars, tableVars, settled, used>>

\* Chunk by chunk.
InsertRow(k) ==
    /\ seed.pc = "insert" /\ k \in seed.todo
    /\ LET table == InsertOrder[seed.table]
           e == FirstWins(seed.checkpoint, k)
       IN  /\ rows' = IF table \in {"pools", "balances", "claims"}
                      THEN [rows EXCEPT ![k] = Put(@, seed.fix[k])] ELSE rows
           /\ account_entry_state' =
                IF table = "entries"
                THEN [account_entry_state EXCEPT ![k] =
                        Put(@, [version |-> e.since, counters |-> e.counters])]
                ELSE account_entry_state
           /\ defined' = IF table \in {"stubs", "pools"} THEN defined \cup {k} ELSE defined
    /\ seed' = [seed EXCEPT !.todo = @ \ {k}]
    /\ UNCHANGED <<indexVars, settled, used>>

NextTable ==
    /\ seed.pc = "insert" /\ seed.todo = {}
    /\ IF seed.table = Len(InsertOrder)
       THEN seed' = Idle /\ settled' = seed.upto
       ELSE /\ seed' = [seed EXCEPT !.table = @ + 1,
                          !.todo = Writes(InsertOrder[seed.table + 1], seed)]
            /\ UNCHANGED settled
    /\ UNCHANGED <<indexVars, tableVars, used>>

SeedDies ==
    /\ seed.pc # "idle" /\ seed' = Idle
    /\ UNCHANGED <<indexVars, tableVars, settled, used>>

SeedNext ==
    \/ \E k \in Keys, v \in Amounts, c \in Counters : ChangeEntry(k, v, c)
    \/ \E k \in Keys : RemoveEntry(k)
    \/ QuietLedger
    \/ StoreNext \/ SkipNext \/ Deploy \/ StartReparse
    \/ \E l \in reparse : Reparse(l)
    \/ \E c \in Checkpoints : StartSeed(c)
    \/ \E k \in Keys : ReadRow(k) \/ InsertRow(k)
    \/ BuildCorrections \/ NextTable \/ SeedDies

SeedSpec == SeedInit /\ [][SeedNext]_vars

-----------------------------------------------------------------------------
(* Properties.                                                             *)

\* The variables hold what their names say; a closure carries its own version.
SeedTypeOK ==
    /\ next \in (Floor + 1)..(MaxLedger + 1 + Floor) /\ skipped \subseteq (Floor + 1)..(next - 1)
    /\ reparse \subseteq (Floor + 1)..(next - 1)
    /\ \A k \in Keys : rows[k] # NoRow =>
         rows[k].version \in 1..Height /\ rows[k].closed \in {0, rows[k].version}
    /\ settled \in 0..Height

\* The row of a key says what the network has: the amount, or that it is gone.
Right(k) ==
    IF Entry[k].live THEN rows[k] # NoRow /\ rows[k].closed = 0 /\ rows[k].amount = Entry[k].amount
    ELSE rows[k] = NoRow \/ rows[k].closed # 0

\* The key was not changed after checkpoint c, or all changes are stored.
KnownSince(c, k) == \A l \in (c + 1)..Height : k \in Touched(l) => l < next /\ l \notin skipped /\ l > Floor

\* Whatever the tables lacked or said wrongly, once a seed is through every
\* holding is the network's, and stays so as long as the indexer stores the
\* later ledgers, the time of a re-parse apart: nothing hidden, nothing resurrected, nothing missed.
HoldingsSettle ==
    settled > 0 /\ reparse = {} => \A k \in Keys \ Pools : KnownSince(settled, k) => Right(k)

\* The same for the pools the network has.
PoolsSettle ==
    settled > 0 => \A k \in Pools : KnownSince(settled, k) /\ Entry[k].live => Right(k)

\* And for the counters of the accounts there are: the ones the earlier
\* writer left at their default too.
CountersSettle ==
    settled > 0 => \A k \in Native : KnownSince(settled, k) /\ Entry[k].live =>
        /\ account_entry_state[k] # NoRow
        /\ account_entry_state[k].counters = Entry[k].counters

\* The buckets an operator reads as defects of the writer stay empty on
\* correct data, whatever was missed, re-parsed or seeded before: an amount
\* that differs at the same ledger or a newer one of ours, a closure at or
\* above the ledger of a live entry.
SignalsAreDefects ==
    seed.pc = "read" => \A k \in seed.todo : rows[k] # NoRow =>
        Verdict(rows[k], FirstWins(seed.checkpoint, k), seed.checkpoint) \notin
            {"ClosedButLiveConflict", "DivergentOursNewer", "DivergentSameLedger"}

\* The seed settles all it is about, and reports no defect that is none.
SeedSettles == HoldingsSettle /\ PoolsSettle /\ CountersSettle /\ SignalsAreDefects

\* A row is never there without the accounts, assets and pools it refers to,
\* wherever the seed dies.
RowsAreDefined == \A k \in Keys : rows[k] # NoRow => k \in defined

\* No insert of a seed makes a row wrong that was right, however far the
\* chain and the indexer have moved since the checkpoint, as long as the
\* indexer has stored what the seed could not see.
InsertKeepsRight ==
    \A k \in Keys :
         InsertRow(k) /\ Right(k) /\ KnownSince(seed.checkpoint, k) /\ (k \in Pools => Entry[k].live)
         => Right(k)'

-----------------------------------------------------------------------------
(* What makes them inductive.                                              *)

KeyStates == [live : BOOLEAN, amount : Amounts \cup {0}, counters : Counters, since : Nat]
RowRecords == [version : Nat, amount : Amounts \cup {0}, closed : Nat]
StateRecords == [version : Nat, counters : Counters]

IndexInv ==
    /\ Height <= MaxLedger
    /\ next \in Nat /\ Floor < next /\ (next <= Height + 1 \/ next = Floor + 1)
    /\ skipped \subseteq (Floor + 1)..(next - 1)
    /\ reparse \subseteq (Floor + 1)..(next - 1)
    /\ deployed \in -1..Height
    /\ reparse # {} => deployed >= 0

\* An entry stays as it is from the ledger that last changed it on.
ChainInv ==
    /\ chain \in Seq([Keys -> KeyStates])
    /\ \A l \in 1..Height, k \in Keys :
         LET e == chain[l][k]
         IN  /\ e.since <= l
             /\ e.since = 0 => e = Absent
             /\ ~ e.live => e.amount = 0 /\ e.counters = 0
             /\ \A m \in 1..l : e.since <= m => chain[m][k] = e

\* A row says what its version's ledger left; a deletion without a closure is
\* of the earlier writer.
Faithful(k, row) ==
    row = NoRow \/
      /\ row \in RowRecords /\ row.version \in 1..Height
      /\ row.amount = chain[row.version][k].amount
      /\ row.closed # 0 => deployed >= 0
      /\ IF chain[row.version][k].live
         THEN row.closed = 0 /\ chain[row.version][k].since = row.version
         ELSE /\ row.closed \in {0, row.version} /\ k \notin Pools
              /\ row.closed = 0 =>
                   /\ chain[row.version][k].since = row.version
                   /\ k \notin Claims
                   /\ deployed < 0 \/ row.version <= deployed

RowsInv ==
    /\ rows \in [Keys -> RowRecords \cup {NoRow}] /\ \A k \in Keys : Faithful(k, rows[k])
    /\ account_entry_state \in [Native -> StateRecords \cup {NoRow}]
    /\ \A k \in Native : account_entry_state[k] # NoRow =>
         /\ account_entry_state[k].version \in 1..Height
         /\ chain[account_entry_state[k].version][k].since = account_entry_state[k].version
    /\ defined \subseteq Keys /\ RowsAreDefined

\* Ledger l has reached the rows of the keys it changed, by the present writer.
Covered(l) == \A k \in Touched(l) \ Pools :
    /\ rows[k] # NoRow /\ rows[k].version >= l
    /\ rows[k].version = l /\ ~ chain[l][k].live => rows[k].closed # 0
    /\ k \in Native /\ chain[l][k].live =>
         /\ account_entry_state[k] # NoRow /\ account_entry_state[k].version >= l
         /\ account_entry_state[k].version = l => account_entry_state[k].counters = chain[l][k].counters

StoredLedgers == ((Floor + 1)..(next - 1)) \ skipped

CoverageInv ==
    /\ (seed # Idle \/ settled > 0) /\ Keys \ Pools # {} => deployed >= 0
    /\ deployed >= 0 => \A l \in StoredLedgers : l > deployed => Covered(l)
    /\ \A k \in Claims : rows[k] # NoRow /\ rows[k].closed # 0 =>
         \A l \in StoredLedgers \ reparse : l > rows[k].closed => Covered(l)
    /\ seed # Idle => \A l \in StoredLedgers : l > seed.upto => Covered(l)
    /\ settled > 0 => \A l \in StoredLedgers : l > settled => Covered(l)
    /\ reparse # {} => \A l \in ((Floor + 1)..(next - 1)) \ reparse :
         l \notin skipped \/ l <= settled => Covered(l)
    /\ \A l \in StoredLedgers, k \in Pools : k \in Touched(l) /\ chain[l][k].live =>
         rows[k] # NoRow /\ rows[k].version >= l

\* The key is as it was when the indexer was at ledger l.
Rests(k, l) == Entry[k].since <= l

PoolShown(k) == Entry[k].live => rows[k] # NoRow /\ rows[k].version >= Entry[k].since
CountersShown(k) == Entry[k].live =>
    account_entry_state[k] = [version |-> Entry[k].since, counters |-> Entry[k].counters]

SettledInv == settled > 0 =>
    /\ settled < next /\ \E c \in Checkpoints : settled <= c
    /\ \A k \in Keys \ Pools : Rests(k, settled) => Right(k) \/ Entry[k].since \in reparse
    /\ \A k \in Pools : Rests(k, settled) => PoolShown(k)
    /\ \A k \in Native : Rests(k, settled) => CountersShown(k)

\* The correction of a key is what the network had at the checkpoint.
Sound(k, fix, c) ==
    \/ fix = NoRow
    \/ chain[c][k].live /\ fix = LiveRow(chain[c][k])
    \/ ~ chain[c][k].live /\ k \notin Pools /\ fix = [version |-> c, amount |-> 0, closed |-> c]

Corrected(k) == seed.fix[k] # NoRow /\ (rows[k] # NoRow => rows[k].version <= seed.fix[k].version)

Slot(k) == IF k \in Pools THEN 2 ELSE IF k \in Claims THEN 4 ELSE 3
Pending(k) == seed.table < Slot(k) \/ (seed.table = Slot(k) /\ k \in seed.todo)
Absentee(k) == k \notin Pools \cup seed.matched /\ chain[seed.checkpoint][k].live

SeedInv == seed # Idle =>
    /\ reparse = {} /\ seed.checkpoint \in Checkpoints /\ settled <= seed.checkpoint
    /\ seed.upto \in Nat /\ seed.upto <= seed.checkpoint /\ seed.upto < next
    /\ Native \cup Lines # {} => deployed < seed.checkpoint
    /\ seed.todo \subseteq Keys /\ seed.known \subseteq defined
    /\ seed.matched \subseteq Keys \ Pools /\ \A k \in seed.matched : rows[k] # NoRow
    /\ seed.fix \in [Keys -> RowRecords \cup {NoRow}]
    /\ \A k \in Keys : Sound(k, seed.fix[k], seed.checkpoint)

ReadInv == seed.pc = "read" =>
    /\ seed \in [pc : {"read"}, checkpoint : Nat, known : SUBSET Keys, upto : Nat, todo : SUBSET Keys,
                 matched : SUBSET Keys, fix : [Keys -> RowRecords \cup {NoRow}]]
    /\ seed.todo \cap (Pools \cup seed.matched) = {}
    /\ \A k \in Keys \ seed.matched : seed.fix[k] = NoRow
    /\ \A k \in Keys \ (Pools \cup seed.todo) : Rests(k, seed.upto) =>
         IF k \in seed.matched THEN Right(k) \/ Corrected(k) ELSE rows[k] = NoRow

InsertInv == seed.pc = "insert" =>
    /\ seed \in [pc : {"insert"}, checkpoint : Nat, upto : Nat, table : 1..5, fix : [Keys -> RowRecords \cup {NoRow}],
                 known : SUBSET Keys, matched : SUBSET Keys, todo : SUBSET Keys]
    /\ \A k \in seed.todo :
         /\ seed.table = 1 => Absentee(k)
         /\ seed.table = 2 => k \in Pools
         /\ seed.table = 3 => k \in Native \cup Lines
         /\ seed.table = 4 => k \in Claims
         /\ seed.table = 5 => k \in Native /\ chain[seed.checkpoint][k].live
         /\ seed.table \in 2..4 => seed.fix[k] # NoRow
    /\ \A k \in Keys \ Pools : seed.fix[k] # NoRow => k \in seed.matched \/ Absentee(k)
    /\ \A k \in Keys : Absentee(k) => k \in defined \/ (seed.table = 1 /\ k \in seed.todo)
    /\ \A k \in Keys : Rests(k, seed.upto) =>
         \/ IF k \in Pools THEN PoolShown(k) ELSE Right(k)
         \/ Corrected(k) /\ Pending(k)
    /\ \A k \in Native : Rests(k, seed.upto) => CountersShown(k) \/ seed.table < 5 \/ k \in seed.todo

SnapshotInv ==
    /\ IndexInv /\ ChainInv /\ RowsInv /\ CoverageInv /\ SettledInv
    /\ (seed = Idle \/ seed.pc \in {"read", "insert"}) /\ SeedInv /\ ReadInv /\ InsertInv
    /\ settled \in Nat

=============================================================================
