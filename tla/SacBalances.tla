---------------------------- MODULE SacBalances ----------------------------
(***************************************************************************)
(* Balances that contracts hold.  A contract holds a classic asset in the  *)
(* storage of the asset's SAC, and a SAC is no asset of its own: the       *)
(* balance has to be keyed on the asset it wraps, or nothing reads it.     *)
(* Which asset that is, a writer knows from asset_sac and from the SACs    *)
(* created in the ledger it stages.  A live writer has every earlier       *)
(* ledger in asset_sac; a backfill does not see its own open partition.    *)
(* Two passes put right what was missed: balance-seed reads the current    *)
(* entries from the RPC, the re-key copies the rows under the asset.       *)
(***************************************************************************)
EXTENDS Integers, FiniteSets, Sequences, SequencesExt

CONSTANTS
    Assets,     \* classic assets, each with a SAC that may be created
    Tokens,     \* contracts that are tokens of their own
    Holders,    \* contracts that hold
    Capacity, Partitions,   \* ledgers of a partition, partitions below the live indexer
    Since,      \* ledgers before it were stored by a writer without these balances
    MaxAmount, MaxLedger, MaxTx, MaxSeeds, MaxRekeys  \* bounds

Sac(a) == <<"sac", a>>
Contracts == Tokens \cup {Sac(a) : a \in Assets}
Keys == Assets \cup Contracts
LiveFrom == Capacity * Partitions + 1

SacBalancesAssumption ==
    {Capacity, Partitions, Since, MaxAmount, MaxLedger, MaxTx, MaxSeeds, MaxRekeys} \subseteq Nat

VARIABLES
    chain,     \* closed ledgers: sequences of changes, with the entries they left
    open,      \* the changes of the ledger that is being closed
    entries,   \* the storage entry of each contract and holder
    sacs,      \* assets whose SAC has been created
    cursor,    \* the last ledger the live indexer stored
    partition, \* of the backfill: [pc, next, rows, facets]
    balances,  \* newest row by holder and key
    asset_sac, \* assets with a facet: "reserved" or "deployed"
    seed, rekey,           \* the passes
    used                   \* [seeds, rekeys]

chainVars == <<chain, open, entries, sacs>>
storeVars == <<cursor, partition, balances, asset_sac>>
vars == <<chainVars, storeVars, seed, rekey, used>>

NoEntry == [live |-> FALSE, amount |-> 0, since |-> 0]
NoRow == [version |-> 0]
NoRows == [h \in Holders |-> [k \in Keys |-> NoRow]]
Height == Len(chain)

Idle == [pc |-> "idle"]

SacInit ==
    /\ chain = <<>> /\ open = <<>> /\ sacs = {}
    /\ entries = [c \in Contracts |-> [h \in Holders |-> NoEntry]]
    /\ cursor = LiveFrom - 1
    /\ partition = [p \in 1..Partitions |-> Idle]
    /\ balances = NoRows /\ asset_sac = [a \in Assets |-> "none"]
    /\ seed = Idle /\ rekey = Idle /\ used = [seeds |-> 0, rekeys |-> 0]

-----------------------------------------------------------------------------
(* The network.                                                            *)

Transact(change) ==
    /\ Height < MaxLedger /\ Len(open) < MaxTx
    /\ open' = Append(open, change)
    /\ UNCHANGED <<chain, storeVars, seed, rekey, used>>

CreateSac(a) ==
    /\ a \notin sacs
    /\ sacs' = sacs \cup {a} /\ UNCHANGED entries
    /\ Transact([kind |-> "deploy", asset |-> a])

\* A classic operation emits the SAC's events, whether it was created or not.
EmitEvent(a) ==
    /\ UNCHANGED <<sacs, entries>>
    /\ Transact([kind |-> "emit", asset |-> a])

Exists(c) == c \in Tokens \/ \E a \in sacs : c = Sac(a)

SetBalance(c, h, amount) ==
    /\ Exists(c)
    /\ entries' = [entries EXCEPT ![c][h] = [live |-> TRUE, amount |-> amount, since |-> Height + 1]]
    /\ UNCHANGED sacs
    /\ Transact([kind |-> "balance", contract |-> c, holder |-> h, live |-> TRUE, amount |-> amount])

RemoveBalance(c, h) ==
    /\ entries[c][h].live
    /\ entries' = [entries EXCEPT ![c][h] = [NoEntry EXCEPT !.since = Height + 1]]
    /\ UNCHANGED sacs
    /\ Transact([kind |-> "balance", contract |-> c, holder |-> h, live |-> FALSE, amount |-> 0])

CloseLedger ==
    /\ Height < MaxLedger
    /\ chain' = Append(chain, [changes |-> open, entries |-> entries]) /\ open' = <<>>
    /\ UNCHANGED <<entries, sacs, storeVars, seed, rekey, used>>

-----------------------------------------------------------------------------
(* What a ledger stages.                                                   *)

\* Assets whose SAC is created in ledger l: their identity is in the SAC's instance.
Carriers(l) == {a \in Assets : \E i \in DOMAIN chain[l].changes :
    chain[l].changes[i] = [kind |-> "deploy", asset |-> a]}
Emitters(l) == {a \in Assets : \E i \in DOMAIN chain[l].changes :
    chain[l].changes[i] = [kind |-> "emit", asset |-> a]}

\* fetch_sac_classic_map: created SACs only.
Known == {a \in Assets : asset_sac[a] = "deployed"}

KnownToken(c, known) == IF \E a \in known : c = Sac(a) THEN CHOOSE a \in known : c = Sac(a) ELSE c

BalanceRowsFirst(l, known) ==
    LET staged(h, k) == SelectSeq(chain[l].changes, LAMBDA c :
          c.kind = "balance" /\ c.holder = h /\ KnownToken(c.contract, known \cup Carriers(l)) = k)
    IN  IF l < Since THEN NoRows
        ELSE [h \in Holders |-> [k \in Keys |->
               IF staged(h, k) = <<>> THEN NoRow
               ELSE [version |-> l, amount |-> Head(staged(h, k)).amount,
                     closed |-> IF Head(staged(h, k)).live THEN 0 ELSE l]]]

\* The last change of a holder and key; its version is the ledger.
BalanceRows(l, known) ==
    LET staged(h, k) == SelectSeq(chain[l].changes, LAMBDA c :
          c.kind = "balance" /\ c.holder = h /\ KnownToken(c.contract, known \cup Carriers(l)) = k)
    IN  IF l < Since THEN NoRows
        ELSE [h \in Holders |-> [k \in Keys |->
               IF staged(h, k) = <<>> THEN NoRow
               ELSE [version |-> l, amount |-> Last(staged(h, k)).amount,
                     closed |-> IF Last(staged(h, k)).live THEN 0 ELSE l]]]

\* One facet per asset: a creation outweighs an event.
Facets(l) == [a \in Assets |->
    IF a \in Carriers(l) THEN "deployed" ELSE IF a \in Emitters(l) THEN "reserved" ELSE "none"]

\* max of both columns
MergeFacets(f, g) == [a \in Assets |->
    IF "deployed" \in {f[a], g[a]} THEN "deployed"
    ELSE IF "reserved" \in {f[a], g[a]} THEN "reserved" ELSE "none"]

PutLatest(row, new) == IF new # NoRow THEN new ELSE row

\* ReplacingMergeTree(last_updated_ledger)
Put(row, new) == IF new # NoRow /\ new.version >= row.version THEN new ELSE row
PutRows(rows, new) == [h \in Holders |-> [k \in Keys |-> Put(rows[h][k], new[h][k])]]

-----------------------------------------------------------------------------
(* The writers.                                                            *)

LiveStore ==
    /\ cursor < Height
    /\ cursor' = cursor + 1
    /\ balances' = PutRows(balances, BalanceRows(cursor + 1, Known))
    /\ asset_sac' = MergeFacets(asset_sac, Facets(cursor + 1))
    /\ UNCHANGED <<chainVars, partition, seed, rekey, used>>

OpenPartition(p) ==
    /\ partition[p].pc = "idle" /\ p * Capacity <= Height
    /\ partition' = [partition EXCEPT ![p] =
         [pc |-> "open", next |-> (p - 1) * Capacity + 1, rows |-> NoRows, facets |-> [a \in Assets |-> "none"]]]
    /\ UNCHANGED <<chainVars, cursor, balances, asset_sac, seed, rekey, used>>

\* The map is asked for per ledger, and shows what is committed.
StageLedger(p) ==
    LET l == partition[p].next
    IN  /\ partition[p].pc = "open" /\ l <= p * Capacity
        /\ partition' = [partition EXCEPT ![p].next = l + 1,
             ![p].rows = PutRows(@, BalanceRows(l, Known)), ![p].facets = MergeFacets(@, Facets(l))]
        /\ UNCHANGED <<chainVars, cursor, balances, asset_sac, seed, rekey, used>>

CommitPartition(p) ==
    /\ partition[p].pc = "open" /\ partition[p].next = p * Capacity + 1
    /\ balances' = PutRows(balances, partition[p].rows)
    /\ asset_sac' = MergeFacets(asset_sac, partition[p].facets)
    /\ partition' = [partition EXCEPT ![p] = [pc |-> "done"]]
    /\ UNCHANGED <<chainVars, cursor, seed, rekey, used>>

\* A failure before the commit: the partition is done again.
AbortPartition(p) ==
    /\ partition[p].pc = "open" /\ partition[p].next > (p - 1) * Capacity + 1
    /\ partition' = [partition EXCEPT ![p] = Idle]
    /\ UNCHANGED <<chainVars, cursor, balances, asset_sac, seed, rekey, used>>

Stored(l) == IF l < LiveFrom THEN partition[((l - 1) \div Capacity) + 1].pc = "done" ELSE l <= cursor
StoredLedgers == {l \in 1..Height : Stored(l)}

-----------------------------------------------------------------------------
(* balance-seed.                                                           *)

\* Contracts and holders that occur in the stored events; of SACs those with
\* a contract row.
SeedCandidates == {ch \in Contracts \X Holders :
    /\ ch[1] \in Tokens \/ \E l \in StoredLedgers : \E a \in Carriers(l) : ch[1] = Sac(a)
    /\ \E l \in StoredLedgers : \E i \in DOMAIN chain[l].changes :
         LET c == chain[l].changes[i] IN c.kind = "balance" /\ c.contract = ch[1] /\ c.holder = ch[2]}

StartSeed ==
    /\ seed.pc # "enumerated" /\ seed.pc # "fetched" /\ used.seeds < MaxSeeds
    /\ seed' = [pc |-> "enumerated", candidates |-> SeedCandidates]
    /\ used' = [used EXCEPT !.seeds = @ + 1]
    /\ UNCHANGED <<chainVars, storeVars, rekey>>

\* The RPC answers with the entries there are, as of its last ledger.
FetchEntries ==
    /\ seed.pc = "enumerated" /\ Height > 0
    /\ seed' = [pc |-> "fetched", entries |->
         [ch \in {x \in seed.candidates : chain[Height].entries[x[1]][x[2]].live} |->
            chain[Height].entries[ch[1]][ch[2]]]]
    /\ UNCHANGED <<chainVars, storeVars, rekey, used>>

SeedRows(found, known) == [h \in Holders |-> [k \in Keys |->
    LET of == {ch \in DOMAIN found : ch[2] = h /\ KnownToken(ch[1], known) = k}
    IN  IF of = {} THEN NoRow
        ELSE LET e == found[CHOOSE ch \in of : TRUE]
             IN  [version |-> e.since, amount |-> e.amount, closed |-> 0]]]

InsertSeed ==
    /\ seed.pc = "fetched"
    /\ balances' = PutRows(balances, SeedRows(seed.entries, Known))
    /\ seed' = [pc |-> "done", entries |-> seed.entries]
    /\ UNCHANGED <<chainVars, cursor, partition, asset_sac, rekey, used>>

-----------------------------------------------------------------------------
(* The re-key of rows under a SAC (docs/backfills.md, step 5a): after the  *)
(* backfill, first the copies, then the deletes; the indexer goes on.      *)

Orphan(h, a) == balances[h][Sac(a)]
Seen == {a \in Assets : asset_sac[a] # "none"}

RekeyInsert ==
    /\ rekey.pc # "inserted" /\ used.rekeys < MaxRekeys
    /\ \A p \in 1..Partitions : partition[p].pc = "done"
    /\ seed.pc \in {"idle", "done"}
    /\ balances' = [h \in Holders |-> [k \in Keys |->
         IF k \in Seen /\ balances[h][k].version < Orphan(h, k).version THEN Orphan(h, k) ELSE balances[h][k]]]
    /\ rekey' = [pc |-> "inserted"] /\ used' = [used EXCEPT !.rekeys = @ + 1]
    /\ UNCHANGED <<chainVars, cursor, partition, asset_sac, seed>>

\* Contract rows of SACs are those of stored creations.
RekeyDelete ==
    /\ rekey.pc = "inserted"
    /\ balances' = [h \in Holders |-> [k \in Keys |->
         IF \E l \in StoredLedgers : \E a \in Carriers(l) : k = Sac(a) THEN NoRow ELSE balances[h][k]]]
    /\ rekey' = [pc |-> "done"]
    /\ UNCHANGED <<chainVars, cursor, partition, asset_sac, seed, used>>

-----------------------------------------------------------------------------
SacNext ==
    \/ \E a \in Assets : CreateSac(a) \/ EmitEvent(a)
    \/ \E c \in Contracts, h \in Holders :
         RemoveBalance(c, h) \/ \E amount \in 0..MaxAmount : SetBalance(c, h, amount)
    \/ CloseLedger
    \/ LiveStore
    \/ \E p \in 1..Partitions :
         OpenPartition(p) \/ StageLedger(p) \/ CommitPartition(p) \/ AbortPartition(p)
    \/ StartSeed \/ FetchEntries \/ InsertSeed
    \/ RekeyInsert \/ RekeyDelete

SacSpec == SacInit /\ [][SacNext]_vars

-----------------------------------------------------------------------------
(* Properties.                                                             *)

SacTypeOK ==
    /\ cursor \in 0..(MaxLedger + LiveFrom)
    /\ \A h \in Holders, k \in Keys : balances[h][k].version \in 0..MaxLedger
    /\ \A a \in Assets : asset_sac[a] # "none" =>
         \E l \in StoredLedgers : a \in Carriers(l) \cup Emitters(l)

\* The contract whose entry a key stands for.
Holds(k) == IF k \in Assets THEN Sac(k) ELSE k

\* Every row says what the entry was at the end of its ledger, whoever wrote
\* it and whatever was written before.
RowsAreTrue ==
    \A h \in Holders, k \in Keys :
      LET row == balances[h][k]
      IN  row # NoRow =>
            LET e == chain[row.version].entries[Holds(k)][h]
            IN  row.amount = e.amount /\ (row.closed = 0 <=> e.live)

\* stage.rs: a contract-held balance is keyed on the asset its SAC wraps.
KeyedOnAsset == \A h \in Holders, a \in Assets : balances[h][Sac(a)] = NoRow

LastChange(c, h, l) == chain[l].entries[c][h].since
Contiguous == {l \in StoredLedgers : \A k \in 1..l : k \in StoredLedgers}

\* A live indexer that has stored all ledgers shows every entry as of the last.
NothingMissing ==
    \A c \in Contracts, h \in Holders, l \in Contiguous :
      balances[h][IF \E a \in Assets : c = Sac(a) THEN CHOOSE a \in Assets : c = Sac(a) ELSE c].version
        >= LastChange(c, h, l)

\* What was stored of a SAC is under its asset or still under the SAC: the
\* copies come before the deletes, and nothing new arrives between them.
NothingLost ==
    \A a \in Assets, h \in Holders, l \in Contiguous :
      \/ balances[h][a].version >= LastChange(Sac(a), h, l)
      \/ balances[h][Sac(a)].version >= LastChange(Sac(a), h, l)

\* After the re-key every balance is keyed on its asset and as of the last
\* contiguous ledger, and stays so.
RekeyedIsComplete == rekey.pc = "done" => KeyedOnAsset /\ NothingMissing

\* A complete seed leaves no entry it was told of behind, under the key that
\* is read, however the indexer went on meanwhile.
SeedCompletes ==
    seed.pc = "done" => \A ch \in DOMAIN seed.entries : \E k \in Keys \ {Sac(a) : a \in Assets} :
      Holds(k) = ch[1] /\ balances[ch[2]][k].version >= seed.entries[ch].since

=============================================================================
