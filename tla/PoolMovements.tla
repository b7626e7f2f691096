--------------------------- MODULE PoolMovements ---------------------------
(***************************************************************************)
(* What the events of soroban pools say they moved: pool_movements         *)
(* (stage/soroban_pool_amounts.rs), one row per event and leg.             *)
(*                                                                         *)
(* Each family of pools tells it in its own way.  A router's event names   *)
(* its tokens; a pair's names amounts by position; a config pool's comes   *)
(* as one event per field, or as one map, and its withdrawal names         *)
(* amounts by position though the ledger seldom shows the positions: they  *)
(* are read off the pool's own payouts.  Tokens are keyed on the asset a   *)
(* SAC wraps, as in SacBalances.                                           *)
(*                                                                         *)
(* The writer stages a ledger from that ledger alone.  A pass re-derives   *)
(* the rows from the stored events, with the legs of the registry.         *)
(***************************************************************************)
EXTENDS Integers, FiniteSets, Sequences, SequencesExt

CONSTANTS
    Pools, FamilyOf,   \* "router", "pair", "map" or "field" by pool
    TokensOf,          \* the two tokens of a pool, in its own order
    Sacs,              \* tokens that are SACs
    Deployed,          \* SACs that asset_sac has before the first ledger
    WritesBalances,    \* whether the write is a full one
    Amounts, Fees,     \* of a movement, of a swap's commission (0: none)
    PartitionOf,       \* ledgers of a partition: its facets are read once it is closed
    MaxLedger, MaxOps, MaxEvents, MaxMoves  \* bounds: ledgers, operations, events of one, movements

VARIABLES
    ledger, op,     \* being executed
    events,         \* events of the pools, by the key <<ledger, operation, event>>
    state,          \* pool_state_changes: <<pool, ledger>>
    created,        \* the ledger that created a pool, 0 before
    payouts,        \* the pools' own transfers, of this ledger
    deployed,       \* the ledger that deployed a SAC, 0 before
    facets,         \* SACs that a read of asset_sac returns
    legs,           \* the registry: keyed tokens of a registered pool
    pool_movements, \* stored rows
    refill,         \* the pass
    moved           \* what the chain moved: signed amounts by position

chainVars == <<ledger, op, events, created, payouts, deployed, moved>>
vars == <<chainVars, state, facets, legs, pool_movements, refill>>

LegTokens == UNION {ToSet(TokensOf[p]) : p \in Pools}
Before == -1
Idle == [pc |-> "idle"]

MovementsInit ==
    /\ ledger = 1 /\ op = 1 /\ events = {} /\ state = {} /\ payouts = {} /\ moved = {}
    /\ created = [p \in Pools |-> 0]
    /\ deployed = [t \in Sacs |-> IF t \in Deployed THEN Before ELSE 0]
    /\ facets = Deployed
    /\ legs = [p \in Pools |-> <<>>]
    /\ pool_movements = {} /\ refill = Idle

-----------------------------------------------------------------------------
(* The chain: calls of pools, and the events each of them emits.           *)

Here == {e \in events : e.key[1] = ledger /\ e.key[2] = op}
Room(n) == ledger <= MaxLedger /\ Cardinality(Here) + n <= MaxEvents

\* The events of a call, numbered within the operation.
Emit(p, bodies) ==
    LET n == Cardinality(Here)
    IN  /\ Room(Len(bodies))
        /\ events' = events \cup {[key |-> <<ledger, op, n + i>>, pool |-> p, body |-> bodies[i]] :
                                      i \in DOMAIN bodies}

Body(form, name, field, a, b) == [form |-> form, name |-> name, field |-> field, a |-> a, b |-> b]

\* What a call moves: `a` through the first leg it names, `b` through the
\* second; `first` is the position of that first leg.
Signed(name, first, a, b) ==
    LET at(x, y) == IF first = 1 THEN <<x, y>> ELSE <<y, x>>
    IN  CASE name = "trade"      -> at(a, -b)
          [] name = "deposit"    -> at(a, b)
          [] name = "withdrawal" -> at(-a, -b)

Token(p, i) == TokensOf[p][i]

\* In front of a config pool's withdrawal of staked shares: "auto unbonded".
Bodies(p, name, first, a, b, staked) ==
    LET x == Token(p, first)  y == Token(p, 3 - first)
        m == Signed(name, first, a, b)
    IN  CASE FamilyOf[p] = "router" -> <<Body("router", name, "", <<x, a>>, <<y, b>>)>>
          [] FamilyOf[p] = "pair" ->
                 <<Body("pair", name, "", IF name = "trade" THEN m[1] ELSE a,
                                          IF name = "trade" THEN m[2] ELSE b)>>
          [] FamilyOf[p] = "map" -> <<Body("map", name, "", <<x, a>>, <<y, b>>)>>
          [] FamilyOf[p] = "field" ->
                 (IF staked THEN <<Body("field", name, "auto unbonded", <<x, 0>>, <<y, 0>>)>> ELSE <<>>) \o
                 <<Body("field", name, "sender", <<x, 0>>, <<y, 0>>),
                   Body("field", name, "a", <<x, a>>, <<y, 0>>), Body("field", name, "b", <<y, b>>, <<x, 0>>)>>

\* What a call pays out; a config pool's swap pays a commission as well.
Paid(p, name, first, a, b, fee) ==
    LET pay(i, n) == [pool |-> p, op |-> op, asset |-> Token(p, i), amount |-> n,
                      nth |-> <<Cardinality(Here), i, n>>]
    IN  CASE name = "trade" -> {pay(3 - first, b)} \cup
                 IF fee > 0 THEN {[pay(3 - first, fee) EXCEPT !.nth = <<Cardinality(Here), 3, fee>>]} ELSE {}
          [] name = "deposit"    -> {}
          [] name = "withdrawal" -> {pay(1, a), pay(2, b)}

Move(p, name, first, a, b, fee, staked) ==
    /\ created[p] # 0 /\ Cardinality(moved) < MaxMoves
    /\ name # "trade" => first = 1 /\ fee = 0
    /\ fee > 0 => FamilyOf[p] \in {"map", "field"}
    /\ staked => FamilyOf[p] = "field" /\ name = "withdrawal"
    /\ Emit(p, Bodies(p, name, first, a, b, staked))
    /\ payouts' = payouts \cup Paid(p, name, first, a, b, fee)
    /\ moved' = moved \cup {[key |-> <<ledger, op, Cardinality(Here) + IF staked THEN 2 ELSE 1>>,
                             pool |-> p, name |-> name, amounts |-> Signed(name, first, a, b)]}
    /\ UNCHANGED <<ledger, op, state, created, deployed, facets, legs, pool_movements, refill>>

\* A call that moves nothing: rewards, a sync, a skim.
Other(p) ==
    /\ created[p] # 0 /\ \A e \in Here : e.body.form # "other"
    /\ Emit(p, <<Body("other", "", "", 0, 0)>>)
    /\ UNCHANGED <<ledger, op, state, created, payouts, deployed, moved, facets, legs, pool_movements, refill>>

CreatePool(p) ==
    /\ ledger <= MaxLedger /\ created[p] = 0 /\ \A t \in Sacs \cap ToSet(TokensOf[p]) : deployed[t] # 0
    /\ created' = [created EXCEPT ![p] = ledger]
    /\ UNCHANGED <<ledger, op, events, state, payouts, deployed, moved, facets, legs, pool_movements, refill>>

DeploySac(t) ==
    /\ ledger <= MaxLedger /\ deployed[t] = 0 /\ deployed' = [deployed EXCEPT ![t] = ledger]
    /\ UNCHANGED <<ledger, op, events, state, created, payouts, moved, facets, legs, pool_movements, refill>>

NextOperation ==
    /\ op < MaxOps /\ Here # {} /\ op' = op + 1
    /\ UNCHANGED <<ledger, events, state, created, payouts, deployed, moved, facets, legs, pool_movements, refill>>

-----------------------------------------------------------------------------
(* Rows from events.                                                       *)

AssetOf(t, sac) == IF t \in sac THEN <<"asset", t>> ELSE <<"contract", t>>

Sorted(evs, Less(_, _)) ==
    [i \in 1..Cardinality(evs) |-> CHOOSE e \in evs : Cardinality({f \in evs : Less(f.key, e.key)}) = i - 1]

\* The events of one pool, in the order it emitted them.
InOrder(evs) ==
    Sorted(evs, LAMBDA x, y : \E i \in 1..3 : x[i] < y[i] /\ \A j \in 1..(i-1) : x[j] = y[j])

SameGroup(e, f) ==
    f.body.form = "field" /\ f.body.name = e.body.name /\ SubSeq(f.key, 1, 2) = SubSeq(e.key, 1, 2)

\* Mutant of Group: the next "sender" does not end a group.
GroupOn(s, i) ==
    IF s[i].body.form # "field" THEN {i}
    ELSE {j \in i..Len(s) : \A k \in (i+1)..j : SameGroup(s[i], s[k])}

\* The events that belong to the one at i: the fields that follow a "sender".
Group(s, i) ==
    IF s[i].body.form # "field" THEN {i}
    ELSE {j \in i..Len(s) : \A k \in (i+1)..j : SameGroup(s[i], s[k]) /\ s[k].body.field # "sender"}

\* A field that comes twice is read as the later one; NoField if it does not come.
NoField == <<>>
Field(s, g, f) ==
    LET at == {j \in g : s[j].body.field = f}
    IN  IF at = {} THEN NoField ELSE s[CHOOSE j \in at : \A k \in at : k <= j].body.a

ByPosition(known, a, b) == IF Len(known) = 2 THEN <<<<known[1], a>>, <<known[2], b>>>> ELSE <<>>

\* The asset of the one payout of an amount.
PaidIn(n, paid) ==
    LET hits == {t \in paid : t.amount = n}
    IN  IF Cardinality(hits) = 1 THEN {t.asset : t \in hits} ELSE {}

\* phoenix_legs: a and b are the fields, each a token and an amount.
ConfigLegs(name, a, b, known, paid, sac) ==
    IF NoField \in {a, b} THEN <<>>
    ELSE CASE name = "trade"   -> <<<<AssetOf(a[1], sac), a[2]>>, <<AssetOf(b[1], sac), -b[2]>>>>
           [] name = "deposit" -> <<<<AssetOf(a[1], sac), a[2]>>, <<AssetOf(b[1], sac), b[2]>>>>
           [] name = "withdrawal" /\ Len(known) = 2 -> ByPosition(known, -a[2], -b[2])
           [] OTHER ->
                 LET x == PaidIn(a[2], paid)  y == PaidIn(b[2], paid)
                 IN  IF a[2] # b[2] /\ {} \notin {x, y}
                     THEN <<<<CHOOSE t \in x : TRUE, -a[2]>>, <<CHOOSE t \in y : TRUE, -b[2]>>>> ELSE <<>>

\* The legs of the event at i, as keyed assets with signed amounts; none
\* for an event that moves nothing or that cannot be read.
LegsOf(s, i, known, paid, sac) ==
    LET e == s[i].body
        sign == IF e.name = "withdrawal" THEN -1 ELSE 1
    IN  CASE e.form = "other" -> <<>>
          [] e.form = "router" ->
                 <<<<AssetOf(e.a[1], sac), sign * e.a[2]>>,
                   <<AssetOf(e.b[1], sac), (IF e.name = "trade" THEN -1 ELSE sign) * e.b[2]>>>>
          [] e.form = "pair" -> ByPosition(known, sign * e.a, sign * e.b)
          [] e.form = "map"  -> ConfigLegs(e.name, e.a, e.b, known, paid, sac)
          [] e.form = "field" /\ e.field = "sender" ->
                 ConfigLegs(e.name, Field(s, Group(s, i), "a"), Field(s, Group(s, i), "b"), known, paid, sac)
          [] OTHER -> <<>>

\* Refused whole when it names a token that the pool, if its legs are known,
\* does not hold.
Held(found, known) == known = <<>> \/ \A i \in DOMAIN found : found[i][1] \in ToSet(known)

\* soroban_pool_amount_rows, of one pool's events; paid is by operation.
AmountRows(p, evs, known, paid, sac) ==
    LET s == InOrder(evs)
    IN  UNION {LET found == LegsOf(s, i, known, paid[s[i].key[2]], sac)
               IN  IF ~Held(found, known) THEN {}
                   ELSE {[key |-> s[i].key, pool |-> p, kind |-> s[i].body.name,
                          asset |-> found[n][1], amount |-> found[n][2]] : n \in DOMAIN found} :
               i \in {j \in DOMAIN s : s[j].body.form # "field" \/ s[j].body.field = "sender"}}

EventsOf(p, l) == {e \in events : e.pool = p /\ e.key[1] = l}

-----------------------------------------------------------------------------
(* The writer.                                                             *)

\* Whether the writer reads asset_sac for a ledger.  A full write does for
\* any balance of a contract, and a pool that is paid has one.
Needed(evs, new) ==
    \/ WritesBalances \/ new # {}
    \/ \E e \in evs : e.body.form # "other"

SacMap == IF Needed({e \in events : e.key[1] = ledger}, {p \in Pools : created[p] = ledger}) THEN facets ELSE {}

\* The map seeded with the SACs this very ledger deploys: the registry's.
SeededMap == SacMap \cup {t \in Sacs : deployed[t] = ledger}

Keyed(p, sac) == <<AssetOf(Token(p, 1), sac), AssetOf(Token(p, 2), sac)>>

\* The payouts of a pool in an operation.  A SAC's transfer names its asset.
PaidBy(p) ==
    [o \in 1..MaxOps |->
        {[t EXCEPT !.asset = AssetOf(t.asset, Sacs)] : t \in {x \in payouts : x.pool = p /\ x.op = o}}]

NonePaid == [o \in 1..MaxOps |-> {}]

\* The legs the ledger shows: a pair's own instance, or a registration.
KnownHere(p) ==
    CASE FamilyOf[p] = "pair"  -> Keyed(p, SacMap)
      [] created[p] = ledger   -> Keyed(p, SeededMap)
      [] OTHER                 -> <<>>

\* What the calls of an operation, a transaction of its own, come to.
Net(p, o, i) == MapThenSumSet(LAMBDA m : m.amounts[i], {m \in moved : m.pool = p /\ m.key[1] = ledger /\ m.key[2] = o})

\* Whether this ledger stages a row of the pool's reserves.  A router's pool
\* does if it was created, or if a transaction moved them: its instance is
\* compared with the image before.  The others do when they write them, a
\* pair for the first time with its first deposit.
StagesState(p) ==
    CASE FamilyOf[p] = "router" -> created[p] = ledger \/ \E o \in 1..MaxOps, i \in 1..2 : Net(p, o, i) # 0
      [] FamilyOf[p] = "pair"   -> \E m \in moved : m.pool = p /\ m.key[1] = ledger
      [] OTHER                  -> created[p] = ledger \/ \E m \in moved : m.pool = p /\ m.key[1] = ledger

\* Mutant of StagedRows: the pools of the registry.
StagedRowsRegistered ==
    UNION {AmountRows(p, EventsOf(p, ledger), KnownHere(p), PaidBy(p), SacMap) : p \in {q \in Pools : legs[q] # <<>>}}

\* The pools are those with a state row of this ledger, registered or not.
StagedRows ==
    UNION {AmountRows(p, EventsOf(p, ledger), KnownHere(p), PaidBy(p), SacMap) :
               p \in {q \in Pools : StagesState(q)}}

\* Staging a closed ledger and storing it.
StoreLedger ==
    /\ ledger <= MaxLedger /\ refill = Idle
    /\ pool_movements' = pool_movements \cup StagedRows
    /\ state' = state \cup {<<p, ledger>> : p \in {q \in Pools : StagesState(q)}}
    /\ legs' = [p \in Pools |-> IF created[p] = ledger THEN Keyed(p, SeededMap) ELSE legs[p]]
    /\ facets' = IF ledger % PartitionOf = 0 THEN {t \in Sacs : deployed[t] # 0} ELSE facets
    /\ ledger' = ledger + 1 /\ op' = 1 /\ payouts' = {}
    /\ UNCHANGED <<events, created, deployed, moved, refill>>

-----------------------------------------------------------------------------
(* The pass (backfill-runner/soroban_pool_amounts.rs): the registry and the *)
(* map are read once, then the pools are taken one by one.                  *)

Stored(p) == {e \in events : e.pool = p /\ e.key[1] < ledger /\ <<p, e.key[1]>> \in state}

BeginRefill ==
    /\ refill = Idle /\ ledger > MaxLedger
    /\ refill' = [pc |-> "pools", legs |-> legs, sac |-> facets,
                  due |-> {p \in Pools : \E l \in 1..(ledger - 1) : <<p, l>> \in state}]
    /\ UNCHANGED <<chainVars, state, facets, legs, pool_movements>>

\* The buffer of events is decoded at the end of a ledger only.
Cuts(evs) == {{e \in evs : e.key[1] = l} : l \in {e.key[1] : e \in evs}}

RefillRows(p) ==
    UNION {AmountRows(p, c, refill.legs[p], NonePaid, refill.sac) : c \in Cuts(Stored(p))}

RefillPool(p) ==
    /\ refill.pc = "pools" /\ p \in refill.due
    /\ pool_movements' = pool_movements \cup RefillRows(p)
    /\ refill' = [refill EXCEPT !.due = @ \ {p}, !.pc = IF refill.due = {p} THEN "done" ELSE "pools"]
    /\ UNCHANGED <<chainVars, state, facets, legs>>

\* Before a re-derivation: the operator empties the table.
Truncate ==
    /\ refill = Idle /\ ledger > MaxLedger /\ pool_movements # {}
    /\ pool_movements' = {}
    /\ UNCHANGED <<chainVars, state, facets, legs, refill>>

MovementsNext ==
    \/ \E p \in Pools : CreatePool(p) \/ Other(p) \/ RefillPool(p)
    \/ \E p \in Pools, name \in {"trade", "deposit", "withdrawal"}, first \in 1..2, a, b \in Amounts,
          fee \in Fees, staked \in BOOLEAN : Move(p, name, first, a, b, fee, staked)
    \/ \E t \in Sacs : DeploySac(t)
    \/ NextOperation \/ StoreLedger \/ BeginRefill \/ Truncate

MovementsSpec == MovementsInit /\ [][MovementsNext]_vars

-----------------------------------------------------------------------------

Row(r) ==
    /\ r.key \in (1..MaxLedger) \X (1..MaxOps) \X (1..MaxEvents) /\ r.pool \in Pools
    /\ r.kind \in {"trade", "deposit", "withdrawal"} /\ r.asset \in {"asset", "contract"} \X LegTokens

MovementsTypeOK ==
    /\ ledger \in 1..(MaxLedger + 1) /\ op \in 1..MaxOps
    /\ state \subseteq Pools \X (1..MaxLedger) /\ facets \subseteq Sacs
    /\ \A p \in Pools : Len(legs[p]) \in {0, 2}
    /\ \A r \in pool_movements : Row(r)
    /\ refill = Idle \/ refill.due \subseteq Pools

Names(t) == {<<"asset", t>>, <<"contract", t>>}
IsLeg(r, m, i) ==
    r.key = m.key /\ r.pool = m.pool /\ r.kind = m.name /\ r.amount = m.amounts[i] /\ r.asset \in Names(Token(m.pool, i))

\* Every row says what the pool moved: the event, the leg, the amount and
\* its sign.  Fields of two calls do not mix, whatever else the operation
\* holds, and a payout is not taken for another one.
RowsAreMovements == \A r \in pool_movements : \E m \in moved, i \in 1..2 : IsLeg(r, m, i)

\* An event has rows for both legs or for none (push).
WholeOrNothing ==
    \A m \in moved : (\E r \in pool_movements : r.key = m.key /\ r.pool = m.pool) =>
                         \A i \in 1..2 : \E r \in pool_movements : IsLeg(r, m, i)

\* One row per event and leg, whoever wrote it: the asset is part of the
\* key, so a leg that was keyed in two ways would be counted twice.
OneRowPerLeg ==
    \A r, s \in pool_movements : r.key = s.key /\ r.pool = s.pool /\ (\E t \in LegTokens : {r.asset, s.asset} \subseteq Names(t))
                                    => r = s

\* The assets of a pool's rows are the legs the registry gives it: the two
\* key a token alike (contract_token_asset_id).
RowsNameLegs == \A r \in pool_movements : r.asset \in ToSet(legs[r.pool])

\* The amounts of a config pool's withdrawal cannot be told apart.
Ambiguous(m) ==
    /\ FamilyOf[m.pool] \in {"map", "field"} /\ m.name = "withdrawal"
    /\ \E i \in 1..2 : Cardinality({t \in payouts : t.pool = m.pool /\ t.op = m.key[2] /\ t.amount = -m.amounts[i]}) # 1

\* Nothing of a router's pool is stored in a ledger whose transactions each
\* left its reserves as they found them: calls that cancel out, a withdrawal
\* that pays out nothing.
Unmoved(p) ==
    FamilyOf[p] = "router" /\ created[p] # ledger /\ \A o \in 1..MaxOps, i \in 1..2 : Net(p, o, i) = 0

\* A ledger is stored with every movement of a pool, but for withdrawals
\* whose legs cannot be told apart and for pools whose reserves stayed.
EveryMoveIsStored ==
    \A m \in moved : m.key[1] = ledger /\ ~Ambiguous(m) /\ ~Unmoved(m.pool) =>
        \A i \in 1..2 : \E r \in pool_movements' : IsLeg(r, m, i)

\* Whatever is left out, the rows of a ledger add up to what each pool's
\* reserves moved by.
RowsAddUp ==
    \A p \in Pools : (\A m \in moved : m.pool = p /\ m.key[1] = ledger => ~Ambiguous(m)) =>
        \A i \in 1..2 :
            MapThenSumSet(LAMBDA r : r.amount, {r \in pool_movements' :
                r.pool = p /\ r.key[1] = ledger /\ r.asset \in Names(Token(p, i))})
              = MapThenSumSet(LAMBDA o : Net(p, o, i), 1..MaxOps)

NothingLost == StoreLedger => EveryMoveIsStored /\ RowsAddUp

\* The pass gives every movement back, after the table was emptied.
Rederived == refill.pc = "done" => \A m \in moved, i \in 1..2 : \E r \in pool_movements : IsLeg(r, m, i)

\* "a backfilled row is byte-identical to the one the live writer would have
\* produced" (backfill-runner/soroban_pool_amounts.rs).
AsTheWriter ==
    \A p \in Pools : RefillPool(p) /\ pool_movements # {} => pool_movements' = pool_movements
=============================================================================
