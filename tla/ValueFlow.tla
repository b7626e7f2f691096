----------------------------- MODULE ValueFlow -----------------------------
(***************************************************************************)
(* What one transaction moved, derived twice.  The ledger entries it       *)
(* changed give the value of each asset that the transaction lists show    *)
(* (xdr-parser/ledger_value.rs, net_settled.rs, stage.rs).  The token      *)
(* events it emitted give the transfers that an account's page nets into   *)
(* its balance changes (xdr-parser/event_filters.rs, asset_transfers.rs,   *)
(* value_flow.rs, api/accounts/balance_changes.rs).                        *)
(*                                                                         *)
(* The network's part is the movement itself: entries, their change        *)
(* records and the events.  Every prefix of a transaction is one too.      *)
(***************************************************************************)
EXTENDS Integers, SequencesExt

CONSTANTS
    Accounts, Contracts, Pools, Claims,  \* who can hold an asset
    Native, Credits,   \* classic assets, each with its asset contract
    Token,             \* a contract that is its own asset, fungible or not
    Start,             \* [Holders -> [Assets -> balance]] before the transaction
    Pieces, FirstOwner, \* the token's pieces and [Pieces -> owner] before it
    Registered,        \* classic assets whose contract the registry knows
    Envelopes,         \* operations: [dest, delivers, hops, id, memo, invoke]
    Steps,             \* which steps the transaction may take
    Amounts, Authored, \* amounts moved, and those a contract writes unasked
    Width,             \* integers are within -Width..Width - 1
    MaxSteps, MaxCopies  \* bounds

Holders == Accounts \cup Contracts \cup Pools \cup Claims
Classic == {Native} \cup Credits
Assets == Classic \cup {Token}
Issuer == "issuer"  \* of every credit; holds none of it
NoOne == "none"     \* the end a mint or a burn lacks
Addresses == Holders \cup {Issuer}

VARIABLES
    balance, owner,  \* the network's own account
    live,            \* ledger entries that exist
    changes,         \* change records of the transaction's meta
    events,          \* its contract events
    ops,             \* its operations; the last one is under way
    refunded,        \* fees it paid back
    steps,
    net,             \* stored value of each asset
    copies           \* stored transfers, with their copies

network == <<balance, owner, live, changes, events, ops, refunded, steps>>
stored == <<net, copies>>
flowVars == <<network, stored>>

Open == net = <<>>  \* not staged yet
op == ops[Len(ops)]
Fits(n) == n \in (-Width)..(Width - 1)
SumOver(S, f(_)) == FoldFunction(+, 0, [x \in S |-> f(x)])
Larger(a, b) == IF a > b THEN a ELSE b

-----------------------------------------------------------------------------
(* The network: entries and their change records.                          *)

Entry(h, a) ==
    CASE h \in Pools                     -> [type |-> "pool", holder |-> h, asset |-> NoOne]
      [] h \in Claims                    -> [type |-> "claim", holder |-> h, asset |-> NoOne]
      [] a = Token \/ h \in Contracts    -> [type |-> "data", holder |-> h, asset |-> a]
      [] a = Native                      -> [type |-> "account", holder |-> h, asset |-> a]
      [] OTHER                           -> [type |-> "trust", holder |-> h, asset |-> a]

\* The balances an entry carries: a pool has one for each of its reserves.
EntryBalances(e, b) ==
    [a \in {x \in Assets : Entry(e.holder, x) = e /\ (e.type = "claim" => b[e.holder][x] > 0)}
        |-> b[e.holder][a]]

Change(kind, e, b) == [kind |-> kind, entry |-> e, holds |-> EntryBalances(e, b)]

\* An entry that goes takes its balance along; contract data stays at zero.
MayGo(e) ==
    /\ e.type \in {"account", "trust", "claim"}
    /\ e.type # "claim" => "Remove" \in Steps

\* A before-image, which may be a restored one, and what follows it.
Written(e, old, new, gone) ==
    IF e \notin live THEN <<Change("created", e, new)>>
    ELSE <<Change("state", e, old), Change(IF gone THEN "removed" ELSE "updated", e, new)>>

Move(from, to, a, n) ==
    [h \in Holders |-> [balance[h] EXCEPT ![a] = @ - (IF h = from THEN n ELSE 0)
                                                  + (IF h = to THEN n ELSE 0)]]

-----------------------------------------------------------------------------
(* The network: events.  An asset's contract names the asset in its last   *)
(* topic; a mint or a clawback may name the admin first.                   *)

SacOf(a) == [sac |-> a]
TokenContract == [sac |-> Token]

Topics(from, to, admin, label) ==
    (IF admin /\ NoOne \in {from, to} THEN <<Issuer>> ELSE <<>>)
    \o SelectSeq(<<from, to>>, LAMBDA x : x # NoOne) \o label

VerbOf(from, to) ==
    CASE from = NoOne -> "mint" [] to = NoOne -> "clawback" [] OTHER -> "transfer"

\* `deposit` marks the transfer that carries out what the operation asked for.
Event(verb, emitter, topics, payload, n, deposit) ==
    [verb |-> verb, emitter |-> emitter, topics |-> topics, payload |-> payload, n |-> n,
     memo |-> op.memo, deposit |-> deposit, op |-> Len(ops),
     pos |-> Len(SelectSeq(events, LAMBDA e : e.op = Len(ops)))]

\* The end the event leaves out is the issuer's.
EventEnd(h) == IF h = Issuer THEN NoOne ELSE h

Step(kind) ==
    /\ Open /\ kind \in Steps /\ steps < MaxSteps
    /\ steps' = steps + 1 /\ UNCHANGED stored

\* A classic asset moves between any two holders.
Pay(from, to, a, n, gone, admin, deposit) ==
    /\ Step("Pay") /\ {from, to} # {Issuer}
    /\ IF deposit THEN /\ to = op.dest /\ a = op.delivers
                      /\ \A e \in ToSet(events) : e.op = Len(ops) => ~e.deposit
       ELSE a \in op.hops
    /\ from # Issuer => balance[from][a] >= n /\ Entry(from, a) \in live
    /\ Issuer \in {from, to} => a \in Credits
    /\ to # Issuer => Fits(balance[to][a] + n)
    /\ {from, to} \cap Claims # {} => from # to
    \* a claim is created whole and claimed whole
    /\ from \in Claims => gone
    /\ to \in Claims => Entry(to, a) \notin live
    /\ gone => /\ from # Issuer /\ from # to /\ balance[from][a] = n
               /\ MayGo(Entry(from, a))
    /\ LET new == Move(from, to, a, n)
           takes == IF from = Issuer THEN <<>>
                    ELSE Written(Entry(from, a), balance, new, gone)
           gives == IF to = Issuer \/ to = from THEN <<>>
                    ELSE Written(Entry(to, a), balance, new, FALSE)
       IN  /\ balance' = new /\ changes' = changes \o takes \o gives
           /\ live' = (live \ (IF gone THEN {Entry(from, a)} ELSE {}))
                      \cup (IF to = Issuer THEN {} ELSE {Entry(to, a)})
    /\ LET f == EventEnd(from)
           t == EventEnd(to)
       IN  events' = Append(events, Event(VerbOf(f, t), SacOf(a), Topics(f, t, admin, <<a>>),
                                          "amount", n, deposit))
    /\ UNCHANGED <<owner, ops, refunded>>

\* The token moves a piece, or an amount of its own.
MovePiece(p, to) ==
    /\ Step("MovePiece") /\ {owner[p], to} # {NoOne}
    /\ owner' = [owner EXCEPT ![p] = to]
    /\ events' = Append(events, Event(VerbOf(owner[p], to), TokenContract,
                                      Topics(owner[p], to, FALSE, <<>>), "piece", p, FALSE))
    /\ UNCHANGED <<balance, live, changes, ops, refunded>>

MoveToken(from, to, n) ==
    /\ Step("MoveToken") /\ from # to /\ balance[from][Token] >= n /\ Fits(balance[to][Token] + n)
    /\ LET new == Move(from, to, Token, n)
       IN  /\ balance' = new
           /\ changes' = changes \o Written(Entry(from, Token), balance, new, FALSE)
                                 \o Written(Entry(to, Token), balance, new, FALSE)
    /\ live' = live \cup {Entry(from, Token), Entry(to, Token)}
    /\ events' = Append(events, Event("transfer", TokenContract, <<from, to>>, "amount", n, FALSE))
    /\ UNCHANGED <<owner, ops, refunded>>

\* A contract writes what it likes under its own keys, and need not tell.
Author(h, n) ==
    /\ Step("Author") /\ n # balance[h][Token]
    /\ LET new == [balance EXCEPT ![h][Token] = n]
       IN  balance' = new /\ changes' = changes \o Written(Entry(h, Token), balance, new, FALSE)
    /\ live' = live \cup {Entry(h, Token)}
    /\ UNCHANGED <<owner, events, ops, refunded>>

\* A contract may emit a credit's label, a payload that moves nothing, or a
\* token verb over other topics.
Noise(from, to, label, payload) ==
    /\ Step("Noise") /\ from # to
    /\ events' = Append(events, Event("transfer", TokenContract, <<from, to>> \o label, payload, 1, FALSE))
    /\ UNCHANGED <<balance, owner, live, changes, ops, refunded>>

\* The unused resource fee comes back, before protocol 23 in the same meta.
Refund(h, n) ==
    /\ Step("Refund")
    /\ LET new == Move(NoOne, h, Native, n)
       IN  balance' = new /\ changes' = changes \o Written(Entry(h, Native), balance, new, FALSE)
    /\ Entry(h, Native) \in live /\ refunded' = [refunded EXCEPT ![h] = @ + n]
    /\ UNCHANGED <<owner, live, events, ops>>

NextOperation(o) ==
    /\ Step("NextOperation") /\ ops' = Append(ops, o)
    /\ UNCHANGED <<balance, owner, live, changes, events, refunded>>

-----------------------------------------------------------------------------
(* From the entries: the value of each asset.                              *)

\* SAC-held and account-held balances are different keys until they resolve.
KeyOf(e, a) == [holder |-> e.holder, asset |-> a, wrapped |-> e.type = "data" /\ a # Token]

\* A removed entry names its holder, and its asset unless it is a pool or a claim.
RemovedKey(e, k) ==
    CASE e.type \in {"pool", "claim"}    -> k.holder = e.holder
      [] e.type \in {"account", "trust"} -> k = KeyOf(e, e.asset)
      [] OTHER                           -> FALSE

\* Mutant: an entry that is created again starts from zero.
RecordAnew(acc, c) ==
    [k \in {KeyOf(c.entry, a) : a \in DOMAIN c.holds} |->
        [initial |-> IF k \in DOMAIN acc /\ c.kind # "created" THEN acc[k].initial
                     ELSE IF c.kind = "created" THEN 0 ELSE c.holds[k.asset],
         last |-> c.holds[k.asset]]] @@ acc

Record(acc, c) ==
    IF c.kind = "removed"
    THEN [k \in {x \in DOMAIN acc : RemovedKey(c.entry, x)} |-> [acc[k] EXCEPT !.last = 0]] @@ acc
    ELSE [k \in {KeyOf(c.entry, a) : a \in DOMAIN c.holds} |->
             [initial |-> IF k \in DOMAIN acc THEN acc[k].initial
                          ELSE IF c.kind = "created" THEN 0 ELSE c.holds[k.asset],
              last |-> c.holds[k.asset]]] @@ acc

Telescoped == FoldLeft(Record, <<>>, changes)

\* A difference outside the width is dropped.
LedgerBalanceDeltas ==
    LET acc == Telescoped
        deltas == {[key |-> k, n |-> acc[k].last - acc[k].initial] : k \in DOMAIN acc}
    IN  {d \in deltas : d.n # 0 /\ Fits(d.n)}

\* A contract's balance of an asset the registry does not know is dropped.
Resolved(a) ==
    {d \in LedgerBalanceDeltas : d.key.asset = a /\ (d.key.wrapped => a \in Registered)}

\* Mutant: a sum that does not fit is stored.
ReduceUnchecked(deltas) ==
    {Larger(SumOver({d \in deltas : d.n > 0}, LAMBDA d : d.n),
            SumOver({d \in deltas : d.n < 0}, LAMBDA d : -d.n))}

Reduce(deltas) ==
    LET gained == SumOver({d \in deltas : d.n > 0}, LAMBDA d : d.n)
        lost   == SumOver({d \in deltas : d.n < 0}, LAMBDA d : -d.n)
    IN  IF Fits(gained) /\ Fits(lost) THEN {Larger(gained, lost)} ELSE {}

\* An asset with no delta has no row; a sum that does not fit has no amount.
NetSettled == [a \in Assets |-> [row |-> Resolved(a) # {}, amount |-> Reduce(Resolved(a))]]

-----------------------------------------------------------------------------
(* From the events: the transfers.                                         *)

\* A second address selects the shape with the admin.
OperandAfterOptionalAdmin(t) ==
    IF Len(t) >= 2 /\ t[2] \in Addresses THEN [who |-> t[2], label |-> 3]
    ELSE [who |-> t[1], label |-> 2]

ParseTokenEvent(e) ==
    LET t == e.topics
        operand == OperandAfterOptionalAdmin(t)
    IN  CASE e.verb = "transfer" -> [from |-> t[1], to |-> t[2], label |-> 3]
          [] e.verb = "mint"     -> [from |-> NoOne, to |-> operand.who, label |-> operand.label]
          [] e.verb = "clawback" -> [from |-> operand.who, to |-> NoOne, label |-> operand.label]

EventAsset(e) ==
    LET i == ParseTokenEvent(e).label
    IN  IF i <= Len(e.topics) /\ e.topics[i] \in Classic THEN e.topics[i] ELSE Token

\* A labelled asset must come from its own contract, and a payload must move something.
Accepted(e) ==
    /\ EventAsset(e) \in Classic => e.emitter = SacOf(EventAsset(e))
    /\ e.payload \in {"amount", "piece"}

\* The recipient's sub-account: the event names it in a contract call; in a
\* classic operation that field may be a memo, and the envelope names it.
RecipientId(e, to, o) ==
    CASE o.invoke                                                -> e.memo
      [] ~o.invoke /\ to = o.dest /\ EventAsset(e) = o.delivers -> o.id
      [] OTHER                                                   -> {}

Transfer(e) ==
    LET token == ParseTokenEvent(e)
    IN  [op |-> e.op, pos |-> e.pos, asset |-> EventAsset(e), from |-> token.from, to |-> token.to,
         amount |-> IF e.payload = "amount" THEN {e.n} ELSE {},
         toId |-> RecipientId(e, token.to, ops[e.op])]

Transfers == {Transfer(e) : e \in {x \in ToSet(events) : Accepted(x)}}

Stage ==
    /\ Open /\ steps > 0
    /\ net' = NetSettled /\ copies' = [t \in Transfers |-> 1]
    /\ UNCHANGED network

StoreAgain(t) ==
    /\ copies[t] < MaxCopies /\ copies' = [copies EXCEPT ![t] = @ + 1]
    /\ UNCHANGED <<network, net>>

Merge(t) ==
    /\ copies[t] > 1 /\ copies' = [copies EXCEPT ![t] = 1]
    /\ UNCHANGED <<network, net>>

Init ==
    /\ balance = Start /\ owner = FirstOwner
    /\ live = {Entry(h, a) : <<h, a>> \in {x \in Holders \X Assets :
                                 x[1] \in Claims \/ x[2] = Token => Start[x[1]][x[2]] > 0}}
    /\ changes = <<>> /\ events = <<>> /\ ops \in {<<o>> : o \in Envelopes}
    /\ refunded = [h \in Holders |-> 0] /\ steps = 0
    /\ net = <<>> /\ copies = <<>>

Next ==
    \/ \E from, to \in Addresses, a \in Classic, n \in Amounts, gone, admin, deposit \in BOOLEAN :
          /\ admin => Issuer \in {from, to}
          /\ Pay(from, to, a, n, gone, admin, deposit)
    \/ \E p \in Pieces, to \in Accounts \cup {NoOne} : MovePiece(p, to)
    \/ \E from, to \in Accounts, n \in Amounts : MoveToken(from, to, n)
    \/ \E h \in Accounts, n \in Authored : Author(h, n)
    \/ \E from, to \in Accounts : \/ \E a \in Classic : Noise(from, to, <<a>>, "amount")
                               \/ Noise(from, to, <<>>, "other")
    \/ \E h \in Accounts, n \in Amounts : Refund(h, n)
    \/ \E o \in Envelopes : NextOperation(o)
    \/ Stage
    \/ \E t \in DOMAIN copies : StoreAgain(t) \/ Merge(t)

FlowSpec == Init /\ [][Next]_flowVars

-----------------------------------------------------------------------------
(* The account page: balance changes.                                      *)

Way(h, t) == (IF t.to = h THEN 1 ELSE 0) - (IF t.from = h THEN 1 ELSE 0)
SignedAmount(h, t) == Way(h, t) * (IF t.amount = {} THEN 1 ELSE CHOOSE n \in t.amount : TRUE)

\* Pieces are grouped by their new owner, and apart from amounts.
GroupOf(t) ==
    [asset |-> t.asset, piece |-> t.amount = {}, owner |-> IF t.amount = {} THEN t.to ELSE NoOne]

\* One of the copies of each transfer.
Edges(h) == {t \in DOMAIN copies : h \in {t.from, t.to}}

Delta(h, g) == SumOver({t \in Edges(h) : GroupOf(t) = g}, LAMBDA t : SignedAmount(h, t))

\* The pieces the transaction moved to an owner, whoever moved them.
MovedPieces(g) ==
    {e.n : e \in {x \in ToSet(events) : x.payload = "piece" /\ ParseTokenEvent(x).to = g.owner}}

\* Named when there are as many of them as the account moved.
NamedPieces(h, g) ==
    LET moved == MovedPieces(g)
    IN  IF g.piece /\ Cardinality(moved) \in {Delta(h, g), -Delta(h, g)} THEN moved ELSE {}

BalanceChanges(h) ==
    {[asset |-> g.asset, piece |-> g.piece, owner |-> g.owner, delta |-> Delta(h, g),
      named |-> NamedPieces(h, g)] :
         g \in {x \in {GroupOf(t) : t \in Edges(h)} : Delta(h, x) # 0}}

-----------------------------------------------------------------------------
(* Properties.                                                             *)

FlowTypeOK ==
    /\ \A h \in Holders, a \in Classic : balance[h][a] \in 0..Width - 1
    /\ \A p \in Pieces : owner[p] \in Holders \cup {NoOne}
    /\ \A c \in ToSet(changes) : c.kind \in {"state", "created", "updated", "removed"}
    /\ ~Open => /\ \A a \in Assets : \A n \in net[a].amount : n \in 0..Width - 1
               /\ \A t \in DOMAIN copies : copies[t] \in 1..MaxCopies

\* What the transaction's operations did to a holder.
Gain(h, a) == balance[h][a] - Start[h][a] - (IF a = Native THEN refunded[h] ELSE 0)

\* The value of an asset is what its losers lost or its gainers gained,
\* whichever is more; a value outside the width is left empty
\* (stage.rs, ledger_deltas_net_settled).
NetIsFlow ==
    ~Open => \A a \in Assets :
        LET gained == SumOver({h \in Holders : Gain(h, a) > 0}, LAMBDA h : Gain(h, a))
            lost   == SumOver({h \in Holders : Gain(h, a) < 0}, LAMBDA h : -Gain(h, a))
        IN  /\ net[a].row = (gained + lost > 0)
            /\ net[a].amount = IF Fits(gained) /\ Fits(lost) THEN {Larger(gained, lost)} ELSE {}

\* The amounts an account's page shows are what the transaction did to its
\* balances, whatever else was emitted and however often it was stored
\* (balance_changes.rs, fetch_balance_changes).
CellsAreGains ==
    ~Open => \A h \in Holders :
        LET cells == {c \in BalanceChanges(h) : ~c.piece}
        IN  \A a \in Assets : {c.delta : c \in {x \in cells : x.asset = a}} = {Gain(h, a)} \ {0}

Owned(f, h) == Cardinality({p \in Pieces : f[p] = h})

\* Its pieces add up to those it owns more or less than before.
PiecesAddUp ==
    ~Open => \A h \in Accounts :
        SumOver({c \in BalanceChanges(h) : c.piece}, LAMBDA c : c.delta)
            = Owned(owner, h) - Owned(FirstOwner, h)

\* A piece that is named is one the account parted with or received.
NamedIsMoved ==
    ~Open => \A h \in Accounts : \A c \in BalanceChanges(h) : \A p \in c.named :
        \E e \in ToSet(events) : /\ e.payload = "piece" /\ e.n = p
                                 /\ h \in {ParseTokenEvent(e).from, ParseTokenEvent(e).to}

\* A sub-account is named on the transfer that carries out the operation,
\* and a memo is never taken for one (asset_transfers/muxed.rs).
OnlyDepositNamed ==
    \A t \in DOMAIN copies :
        LET o == ops[t.op]
            e == CHOOSE x \in ToSet(events) : x.op = t.op /\ x.pos = t.pos
        IN  t.toId = IF o.invoke THEN o.memo ELSE IF e.deposit THEN o.id ELSE {}

=============================================================================
