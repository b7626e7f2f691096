---------------------------- MODULE PoolRegistry ----------------------------
(***************************************************************************)
(* Soroban liquidity pools: who created a pool (liquidity_pools), what it  *)
(* holds (pool_state_changes) and what it declares about itself            *)
(* (pool_instance_state).  All three are derived per ledger from the       *)
(* pool's own storage; an event that announces a pool is only a claim, and *)
(* each family of pools corroborates it in a way of its own:               *)
(*   Routers  the pool's instance names its router                         *)
(*   Old      a router pool of before that key existed                     *)
(*   Pairs    the pair's instance names its factory and its legs           *)
(*   Configs  no back-pointer: the factory lists the pool in its storage   *)
(* Ledgers are stored in any order and again (live, backfill, re-parse).   *)
(***************************************************************************)
EXTENDS Integers, Sequences

CONSTANTS
    Routers, Old, Pairs, Configs,  \* pools by family
    Factory,      \* the contract that creates the pools
    Others,       \* further emitters of events
    Planes, Tokens,                \* planes and share tokens of router pools
    Archived,     \* pools whose storage may expire and be restored
    MaxAmount, MaxLedger, MaxTx    \* bounds: reserves, ledgers, transactions of one

Pools == Routers \cup Old \cup Pairs \cup Configs
Amounts == 0..MaxAmount

PoolRegistryAssumption ==
    /\ Factory \notin Others
    /\ MaxAmount \in Nat /\ MaxLedger \in Nat /\ MaxTx \in Nat
    /\ Routers \cap Old = {} /\ Pairs \cap Configs = {}
    /\ (Routers \cup Old) \cap (Pairs \cup Configs) = {}

VARIABLES
    chain,     \* closed ledgers, each the transactions that matter
    open,      \* the transactions of the ledger that is being closed
    pool,      \* the storage of each pool, Undeployed before its creation
    stored,    \* ledgers the indexer has stored at least once
    liquidity_pools,      \* newest registry row of each pool
    pool_state_changes,   \* rows [pool, plane, ledger, reserves]
    pool_instance_state   \* newest row of each pool

chainVars == <<chain, open, pool>>
tableVars == <<stored, liquidity_pools, pool_state_changes, pool_instance_state>>
vars == <<chainVars, tableVars>>

Undeployed == [reserves |-> -2]
NoRow == [at |-> 0]
NoWrite == [change |-> "none"]
NoClaim == [legs |-> FALSE]
NoReserves == -1   \* a pair before its first deposit has no reserve key

PoolInit ==
    /\ chain = <<>> /\ open = <<>> /\ pool = [p \in Pools |-> Undeployed]
    /\ stored = {} /\ pool_state_changes = {}
    /\ liquidity_pools = [p \in Pools |-> NoRow]
    /\ pool_instance_state = [p \in Pools |-> NoRow]

-----------------------------------------------------------------------------
(* The network: one transaction writes one pool's storage, or announces a  *)
(* pool, or both.                                                          *)

Deployed == {p \in Pools : pool[p] # Undeployed}

Transact(write, claim, lists) ==
    /\ Len(chain) < MaxLedger /\ Len(open) < MaxTx
    /\ open' = Append(open, [write |-> write, claim |-> claim, lists |-> lists])
    /\ UNCHANGED <<chain, tableVars>>

Written(p, change, before, after) ==
    [pool |-> p, change |-> change, before |-> before, after |-> after,
     config |-> p \in Configs /\ change # "updated"]

\* The factory creates and initialises the pool in the transaction that announces it.
Deploy(p, plane, token) ==
    LET fresh == [reserves |-> IF p \in Pairs THEN NoReserves ELSE 0, shares |-> 0,
                  plane |-> IF p \in Routers \cup Old THEN plane ELSE p,
                  token |-> IF p \in Pairs THEN p ELSE token]
    IN  /\ p \notin Deployed
        /\ pool' = [pool EXCEPT ![p] = fresh]
        /\ Transact(Written(p, "created", NoReserves, fresh),
                    [pool |-> p, by |-> Factory, legs |-> TRUE],
                    IF p \in Configs THEN {p} ELSE {})

Update(p, after, config) ==
    /\ pool' = [pool EXCEPT ![p] = after]
    /\ Transact([Written(p, "updated", pool[p].reserves, after) EXCEPT !.config = config], NoClaim, {})

\* A deposit, a withdrawal or a swap: the shares are gone when the reserves are.
Trade(p, r, s) ==
    /\ p \in Deployed
    /\ r # pool[p].reserves
    /\ s = 0 <=> r = 0
    /\ Update(p, [pool[p] EXCEPT !.reserves = r, !.shares = s], FALSE)

\* A reward or a configuration call rewrites the entry with the same reserves;
\* a router pool's may move it to another plane or share token.
Touch(p, plane, token) ==
    /\ p \in Deployed
    /\ IF p \in Routers \cup Old THEN plane \in Planes /\ token \in Tokens
       ELSE plane = pool[p].plane /\ token = pool[p].token
    /\ Update(p, [pool[p] EXCEPT !.plane = plane, !.token = token], p \in Configs)

\* An archived entry comes back: its value, and no image of before.
Restore(p) ==
    /\ p \in Deployed \cap Archived
    /\ Transact(Written(p, "restored", NoReserves, pool[p]), NoClaim, {})
    /\ UNCHANGED pool

\* An event that names a pool, from a contract that did not create it.
\* legs tells whether it repeats the pool's legs, listed whether the emitter
\* keeps the pool in a list of its own.
Claim(by, p, legs, listed) ==
    /\ legs \/ p \in Pairs
    /\ listed => p \in Configs
    /\ Transact(NoWrite, [pool |-> p, by |-> by, legs |-> legs], IF listed THEN {p} ELSE {})
    /\ UNCHANGED pool

CloseLedger ==
    /\ open # <<>>
    /\ chain' = Append(chain, open) /\ open' = <<>>
    /\ UNCHANGED <<pool, tableVars>>

-----------------------------------------------------------------------------
(* What a ledger's transactions stage.                                     *)

\* The last of a set of positions, or of ledgers.
Latest(S) == CHOOSE i \in S : \A j \in S : j <= i

\* The positions of a pool's post-images, in apply order.
ImagesOf(p, txs) == {i \in DOMAIN txs : txs[i].write # NoWrite /\ txs[i].write.pool = p}

\* Each family is known by the shape of what it stores: the instance of a
\* router pool (with the image of before), the instance of a pair, and the
\* entries of a configured pool, one by one.
InstancesIn(p, txs) == IF p \in Routers \cup Old THEN ImagesOf(p, txs) ELSE {}
PairsIn(p, txs) == IF p \in Pairs THEN ImagesOf(p, txs) ELSE {}
EntriesIn(p, txs) == IF p \in Configs THEN ImagesOf(p, txs) ELSE {}

WritesOf(p, txs) == InstancesIn(p, txs) \cup PairsIn(p, txs) \cup EntriesIn(p, txs)

CreatedInLastWrite(p, txs) ==
    WritesOf(p, txs) # {} /\ txs[Latest(WritesOf(p, txs))].write.change = "created"

\* ORed over the ledger: a creation that is updated again is still a creation.
CreatedIn(p, txs) == \E i \in WritesOf(p, txs) : txs[i].write.change = "created"

\* The emitter wrote the pool into a list in its own storage, in this ledger.
Listed(by, p, txs) ==
    \E i \in DOMAIN txs : txs[i].claim # NoClaim /\ txs[i].claim.by = by /\ p \in txs[i].lists

\* The positions of the events that announce a pool.
Announced(p, txs) == {i \in DOMAIN txs : txs[i].claim # NoClaim /\ txs[i].claim.pool = p}

\* Each family has an event of its own: a router's names the pool's legs, a
\* pair factory's too, a configured pool's only the pool.
RouterClaims(p, txs) == IF p \in Routers \cup Old THEN Announced(p, txs) ELSE {}
PairClaims(p, txs) == IF p \in Pairs THEN Announced(p, txs) ELSE {}
ConfigClaims(p, txs) == IF p \in Configs THEN Announced(p, txs) ELSE {}

ClaimsOf(p, txs) == RouterClaims(p, txs) \cup PairClaims(p, txs) \cup ConfigClaims(p, txs)

\* The creator the last image of the pool's instance names.
Declares(p, by, txs) == WritesOf(p, txs) # {} /\ p \notin Old \cup Configs /\ by = Factory

\* Two emitters that both list the pool: nothing tells them apart.
Contested(p, txs) ==
    \E i, j \in ClaimsOf(p, txs) :
      LET a == txs[i].claim.by  b == txs[j].claim.by
      IN  a # b /\ Listed(a, p, txs) /\ Listed(b, p, txs)

RouterAccepts(c, txs) ==
    \/ c.pool \in Routers /\ Declares(c.pool, c.by, txs)
    \/ c.pool \in Old /\ CreatedIn(c.pool, txs)

PairAccepts(c, txs) ==
    c.pool \in Pairs /\ Declares(c.pool, c.by, txs) /\ CreatedIn(c.pool, txs) /\ c.legs

ConfigAccepts(c, txs) ==
    /\ c.pool \in Configs /\ Listed(c.by, c.pool, txs) /\ ~ Contested(c.pool, txs)
    /\ CreatedIn(c.pool, txs) /\ \E i \in WritesOf(c.pool, txs) : txs[i].write.config

Accepts(c, txs) == RouterAccepts(c, txs) \/ PairAccepts(c, txs) \/ ConfigAccepts(c, txs)

\* Rows of one ledger share a version: the last accepted one stays.  The legs
\* of a configured pool are those of its CONFIG.
RegistryRow(p, l) ==
    LET accepted == {i \in ClaimsOf(p, chain[l]) : Accepts(chain[l][i].claim, chain[l])}
        c == chain[l][Latest(accepted)].claim
    IN  IF accepted = {} THEN NoRow ELSE [at |-> l, by |-> c.by, legs |-> c.legs \/ p \in Configs]

\* A rewrite that left the reserves of a router pool alone is not a change;
\* a configured pool keeps them in entries of their own.
MovesReserves(w) ==
    /\ w.after.reserves # NoReserves
    /\ CASE w.pool \in Pairs -> TRUE
         [] w.pool \in Configs -> w.change # "updated" \/ ~ w.config
         [] OTHER -> w.before # w.after.reserves

\* The positions of the writes that move a pool's reserves.
MovesIn(p, txs) == {i \in WritesOf(p, txs) : MovesReserves(txs[i].write)}

ReserveRowsFirst(p, l) ==
    {[pool |-> p, plane |-> chain[l][i].write.after.plane, ledger |-> l,
      reserves |-> chain[l][i].write.after.reserves] :
        i \in {i \in MovesIn(p, chain[l]) : \A j \in MovesIn(p, chain[l]) : i <= j}}

\* One row per (pool, plane, ledger), of the last write.
ReserveRows(p, l) ==
    LET plane(i) == chain[l][i].write.after.plane
        lastOn(i) == Latest({j \in MovesIn(p, chain[l]) : plane(j) = plane(i)})
    IN  {[pool |-> p, plane |-> plane(i), ledger |-> l, reserves |-> chain[l][lastOn(i)].write.after.reserves] :
           i \in MovesIn(p, chain[l])}

\* Does the write say what the pool declares?  A configured pool's only with
\* its CONFIG, and a call that writes the CONFIG does not write the supply.
DeclaresState(w) == w.pool \in Configs => w.config
SharesIn(w) == IF w.pool \in Configs /\ w.change = "updated" THEN 0 ELSE w.after.shares

\* One row per (pool, ledger), of the last write.
InstanceRow(p, l) ==
    LET images == {i \in WritesOf(p, chain[l]) : DeclaresState(chain[l][i].write)}
        w == chain[l][Latest(images)].write
    IN  IF images = {} THEN NoRow
        ELSE [at |-> l, plane |-> w.after.plane, token |-> w.after.token, total_shares |-> SharesIn(w)]

\* ReplacingMergeTree(version): the greatest version, of equals the last inserted.
Put(row, new) == IF new # NoRow /\ new.at >= row.at THEN new ELSE row

Store(l) ==
    /\ stored' = stored \cup {l}
    /\ liquidity_pools' = [p \in Pools |-> Put(liquidity_pools[p], RegistryRow(p, l))]
    /\ pool_state_changes' = {r \in pool_state_changes : r.ledger # l} \cup UNION {ReserveRows(p, l) : p \in Pools}
    /\ pool_instance_state' = [p \in Pools |-> Put(pool_instance_state[p], InstanceRow(p, l))]
    /\ UNCHANGED chainVars

-----------------------------------------------------------------------------
(* What the API reads.                                                     *)

\* argMax(reserves, ledger_sequence) over a pool's rows of every plane.
NewestRows(p) ==
    LET of == {r \in pool_state_changes : r.pool = p}
    IN  {r \in of : \A q \in of : q.ledger <= r.ledger}
ServedReserves(p) == {r.reserves : r \in NewestRows(p)}

\* A stored 0 may mean that the key is absent: it is served for an empty pool only.
ServedShares(p) ==
    IF pool_instance_state[p] = NoRow THEN {}
    ELSE IF pool_instance_state[p].total_shares # 0 THEN {pool_instance_state[p].total_shares}
    ELSE {0} \cap ServedReserves(p)

-----------------------------------------------------------------------------
PoolNext ==
    \/ \E p \in Pools :
         \/ \E plane \in Planes, token \in Tokens : Deploy(p, plane, token)
         \/ \E r, s \in Amounts : Trade(p, r, s)
         \/ \E plane \in Planes \cup {p}, token \in Tokens \cup {p} : Touch(p, plane, token)
         \/ Restore(p)
         \/ \E by \in Others, legs, listed \in BOOLEAN : Claim(by, p, legs, listed)
    \/ CloseLedger
    \/ \E l \in DOMAIN chain : Store(l)

PoolSpec == PoolInit /\ [][PoolNext]_vars

-----------------------------------------------------------------------------
(* Properties.                                                             *)

Images == [reserves : Amounts \cup {NoReserves}, shares : Amounts,
           plane : Planes \cup Pools, token : Tokens \cup Pools]

PoolTypeOK ==
    /\ stored \subseteq DOMAIN chain
    /\ pool \in [Pools -> Images \cup {Undeployed}]
    /\ \A p \in Pools : liquidity_pools[p] # NoRow =>
         liquidity_pools[p].at \in stored /\ liquidity_pools[p].by \in Others \cup {Factory}
    /\ \A p \in Pools : pool_instance_state[p] # NoRow =>
         pool_instance_state[p].at \in stored /\ pool_instance_state[p].total_shares \in Amounts
    /\ \A r \in pool_state_changes : r.pool \in Pools /\ r.ledger \in stored /\ r.reserves \in Amounts

CreatedAt(p, l) == \E i \in DOMAIN chain[l] :
    chain[l][i].write # NoWrite /\ chain[l][i].write.pool = p /\ chain[l][i].write.change = "created"

\* The state of p after its last write in the ledgers up to l.
WrittenUpTo(p, l) == {k \in 1..l : WritesOf(p, chain[k]) # {}}
StateAt(p, l) ==
    LET k == Latest(WrittenUpTo(p, l))
    IN  chain[k][Latest(WritesOf(p, chain[k]))].write.after
Newest == Latest(stored)

\* Nothing that concerns p was left out below the newest stored ledger.
Complete(p) ==
    stored # {} /\ WrittenUpTo(p, Newest) # {} /\ WrittenUpTo(p, Newest) \subseteq stored

\* In no stored ledger did p move its reserves on two planes: the rows of one
\* ledger share the version that argMax compares.
StaysOnPlane(p) ==
    \A l \in stored : \A i, j \in MovesIn(p, chain[l]) :
      chain[l][i].write.after.plane = chain[l][j].write.after.plane

\* A pool's registry row names the contract that created it and the pool's own
\* legs; a pool that cannot be authenticated is at least attributed to a
\* contract that announced it in the ledger of its creation (the three gates
\* of stage.rs).
RowsAreGenuine ==
    \A p \in Pools : liquidity_pools[p] # NoRow =>
      /\ CreatedAt(p, liquidity_pools[p].at)
      /\ liquidity_pools[p].legs
      /\ p \in Old \/ liquidity_pools[p].by = Factory

\* Whatever is stored in between, in any order and again: a pool whose
\* creation is stored is in the registry, except for the one case that stage.rs
\* gives up, two contracts that both list a pool in the ledger of its creation.
CreationIsRegistered ==
    \A p \in Pools, l \in stored :
      CreatedAt(p, l) /\ ~ Contested(p, chain[l]) => liquidity_pools[p] # NoRow

\* What the registry says is so, and it says what it can (the three gates).
RegistryIsGenuine == RowsAreGenuine /\ CreationIsRegistered

\* Once a pool is attributed it stays attributed to the same contract.
AttributionIsFinal ==
    \A p \in Pools : liquidity_pools[p] # NoRow => liquidity_pools'[p] = liquidity_pools[p]

\* The reserves that are served are the pool's as of the newest stored ledger,
\* although a rewrite that moved nothing adds no row and a ledger keeps one.
ReservesCurrent ==
    \A p \in Pools : Complete(p) =>
      ServedReserves(p) = {StateAt(p, Newest).reserves} \ {NoReserves}

\* The total of the shares that is served is the pool's as of the newest
\* stored ledger, or none.
SharesTrue ==
    \A p \in Pools : Complete(p) => ServedShares(p) \subseteq {StateAt(p, Newest).shares}

\* The stored plane and share token are those the pool declares, although a
\* configured pool declares them in few of its writes.
DeclaredCurrent ==
    \A p \in Pools : Complete(p) =>
      /\ pool_instance_state[p].plane = StateAt(p, Newest).plane
      /\ pool_instance_state[p].token = StateAt(p, Newest).token

\* What a pool's page shows is what its storage says (queries of the API's
\* liquidity_pools module).
ServedIsCurrent == ReservesCurrent /\ SharesTrue /\ DeclaredCurrent

\* database-schema-overview.md: reads of pool_state_changes keep only rows
\* whose plane_id is the plane the pool declares.  The code has no such filter.
ServedFromDeclaredPlane ==
    \A p \in Pools : Complete(p) => \A r \in NewestRows(p) : r.plane = pool_instance_state[p].plane

\* stage.rs: for a configured pool the stored supply is structurally 0 forever.
ConfigSupplyIsZero ==
    \A p \in Configs : pool_instance_state[p] # NoRow => pool_instance_state[p].total_shares = 0

-----------------------------------------------------------------------------
(* What makes them inductive: the tables are what the stored ledgers say,  *)
(* and the ledgers, the one that is being closed last, tell a pool's story *)
(* from its creation on.                                                   *)

Changes == {"created", "updated", "restored"}
WriteRecords == [pool : Pools, change : Changes, before : Amounts \cup {NoReserves},
                 after : Images, config : BOOLEAN]
ClaimRecords == [pool : Pools, by : Others \cup {Factory}, legs : BOOLEAN]
TxRecords == [write : WriteRecords \cup {NoWrite}, claim : ClaimRecords \cup {NoClaim}, lists : SUBSET Pools]

ChainTypeOK ==
    /\ chain \in Seq(Seq(TxRecords)) /\ open \in Seq(TxRecords)
    /\ pool \in [Pools -> Images \cup {Undeployed}]

Heights == 1..(Len(chain) + 1)
Ledger(l) == IF l \in DOMAIN chain THEN chain[l] ELSE open
WriteAt(l, i) == Ledger(l)[i].write
Before(l, i, m, j) == l < m \/ (l = m /\ i < j)

\* What an image of pool p may say.
ImageSound(p, image) ==
    /\ p \in Pairs \cup Configs => image.plane = p
    /\ p \notin Pairs \cup Configs => image.plane \in Planes
    /\ p \in Pairs => image.token = p
    /\ p \notin Pairs => image.reserves # NoReserves
    /\ image.reserves \in {0, NoReserves} => image.shares = 0

\* A creation is announced by the factory, in the same transaction; and the
\* factory announces nothing else.
TxSound(t) ==
    /\ t.write # NoWrite =>
         /\ ImageSound(t.write.pool, t.write.after)
         /\ t.write.pool \in Configs /\ t.write.change # "updated" => t.write.config
         /\ t.write.change = "restored" => t.write.pool \in Archived
         /\ t.write.change = "created" =>
              /\ t.write.after.shares = 0
              /\ t.claim = [pool |-> t.write.pool, by |-> Factory, legs |-> TRUE]
              /\ t.write.pool \in Configs => t.write.pool \in t.lists
    /\ t.claim # NoClaim =>
         /\ t.claim.legs \/ t.claim.pool \in Pairs
         /\ t.claim.by = Factory =>
              t.write # NoWrite /\ t.write.pool = t.claim.pool /\ t.write.change = "created"

Sound ==
    /\ \A l \in Heights : \A i \in DOMAIN Ledger(l) : TxSound(Ledger(l)[i])
    /\ \A p \in Deployed : ImageSound(p, pool[p])

\* A pool is deployed by a creation, and only once; what wrote it comes later;
\* and a configured pool keeps its share token.
CreatedOnce ==
    /\ \A p \in Deployed : \E m \in Heights : \E j \in ImagesOf(p, Ledger(m)) :
         WriteAt(m, j).change = "created"
    /\ \A p \in Pools, l \in Heights : \A i \in ImagesOf(p, Ledger(l)) :
         /\ p \in Deployed
         /\ p \in Configs => WriteAt(l, i).after.token = pool[p].token
         /\ \A m \in Heights : \A j \in ImagesOf(p, Ledger(m)) :
              WriteAt(m, j).change = "created" =>
                /\ ~ Before(l, i, m, j)
                /\ WriteAt(l, i).change = "created" => l = m /\ i = j

\* No write of p after (l, i) and up to (m, j) moved its reserves.
Still(p, l, i, m, j) ==
    \A c \in Heights : \A d \in ImagesOf(p, Ledger(c)) :
      Before(l, i, c, d) /\ ~ Before(m, j, c, d) => ~ MovesReserves(WriteAt(c, d))

End == Len(chain) + 2

\* Between two writes that say different reserves one has moved them; before
\* the first that moved them there were none; and the pool holds what the
\* last one says.
ReservesFollow ==
    /\ \A p \in Pools, l \in Heights : \A i \in ImagesOf(p, Ledger(l)) :
         /\ Still(p, 0, 0, l, i) => WriteAt(l, i).after.reserves = NoReserves
         /\ Still(p, l, i, End, 0) => WriteAt(l, i).after.reserves = pool[p].reserves
         /\ \A m \in Heights : \A j \in ImagesOf(p, Ledger(m)) :
              Before(l, i, m, j) /\ Still(p, l, i, m, j) =>
                WriteAt(l, i).after.reserves = WriteAt(m, j).after.reserves
    /\ \A p \in Deployed : Still(p, 0, 0, End, 0) => pool[p].reserves = NoReserves

\* The row of the newest stored ledger that has one.
TablesFollow ==
    /\ stored \subseteq DOMAIN chain
    /\ liquidity_pools \in [Pools -> {NoRow} \cup {RegistryRow(p, l) : p \in Pools, l \in stored}]
    /\ pool_instance_state \in [Pools -> {NoRow} \cup {InstanceRow(p, l) : p \in Pools, l \in stored}]
    /\ \A p \in Pools : liquidity_pools[p] # NoRow =>
         liquidity_pools[p].at \in stored /\ liquidity_pools[p] = RegistryRow(p, liquidity_pools[p].at)
    /\ \A p \in Pools : pool_instance_state[p] # NoRow =>
         pool_instance_state[p].at \in stored /\ pool_instance_state[p] = InstanceRow(p, pool_instance_state[p].at)
    /\ \A p \in Pools, l \in stored :
         /\ RegistryRow(p, l) # NoRow => l <= liquidity_pools[p].at
         /\ InstanceRow(p, l) # NoRow => l <= pool_instance_state[p].at
    /\ pool_state_changes = UNION {ReserveRows(p, l) : p \in Pools, l \in stored}

RegistryInv ==
    /\ ChainTypeOK /\ Sound /\ CreatedOnce /\ ReservesFollow /\ TablesFollow

=============================================================================
