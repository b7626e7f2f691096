---------------------------- MODULE AccountState ----------------------------
(***************************************************************************)
(* What the store says of accounts and their classic holdings.  Ledgers    *)
(* change account entries and trustlines transaction by transaction; the   *)
(* parser folds each transaction to one state per account                  *)
(* (xdr-parser/state/account_states.rs), staging folds a ledger's states   *)
(* to rows (db-clickhouse/persist/stage.rs), and ClickHouse keeps per key  *)
(* the row of the newest ledger, whatever the order the ledgers come in.   *)
(* Two passes rewrite the rows: backfill-runner bootstrap and              *)
(* repair-tier1.                                                           *)
(*                                                                         *)
(* Amounts, signer sets and domains are small sets; the commit of a ledger *)
(* is one step (PartitionWriter has its parts).                            *)
(***************************************************************************)
EXTENDS Integers, FiniteSets, Functions, SequencesExt

CONSTANTS
    Accounts,
    Assets,      \* classic assets other than the native one
    Entries,     \* values an account entry may take
    Amounts,     \* values a trustline may take
    Kinds,       \* kinds of change that happen, see Change
    Passes,      \* the maintenance passes that run
    LiveDuring,  \* those that run while ledgers are being stored
    MaxLedger, MaxTx, MaxChanges,  \* bounds: ledgers, transactions in one, changes in one
    MaxPasses    \* bound: passes started

NativeAsset == "native"
Unseen == -1       \* no balance or sequence number was observed
NoDomain == ""     \* an empty home_domain, or none
NoSigners == ""
Gone == [balance |-> Unseen, seq |-> Unseen, domain |-> NoDomain, signers |-> NoSigners]
Key == Accounts \X (Assets \cup {NativeAsset})

AccountStateAssumption ==
    /\ NativeAsset \notin Assets /\ Gone \notin Entries
    /\ Entries \subseteq [balance : Nat, seq : Nat \ {0}, domain : STRING, signers : STRING \ {NoSigners}]
    /\ Amounts \subseteq Nat
    /\ Kinds \subseteq {"entry", "merge", "line", "unline", "refer", "refund"}
    /\ Passes \subseteq {"bootstrap", "repair"} /\ LiveDuring \subseteq Passes
    /\ {MaxLedger, MaxTx, MaxChanges, MaxPasses} \subseteq Nat

VARIABLES
    entry, lines,   \* the chain: account entries, and the trustlines that exist
    tx,             \* the transaction being applied: [accum, refers, changes]
    states,         \* the ExtractedAccountStates of the open ledger, per account
    open,           \* the open ledger: [txs, named, touched, refunded]
    closed,         \* the closed ledgers: [rows, entry, lines, touched]
    accounts, balances, account_entry_state, transaction_participants,  \* ClickHouse, FINAL
    ledgers,
    pass

chain == <<entry, lines, tx, states, open, closed>>
store == <<accounts, balances, account_entry_state, transaction_participants, ledgers>>
accountVars == <<chain, store, pass>>

NoAccum == [native |-> Unseen, removed |-> FALSE, seq |-> Unseen, domain |-> NoDomain,
            signers |-> NoSigners, created |-> FALSE, lines |-> <<>>, dropped |-> {}]
NoTx == [accum |-> [a \in Accounts |-> NoAccum], refers |-> {}, changes |-> 0]
NoStates == [a \in Accounts |-> <<>>]
NewLedger == [txs |-> 0, named |-> {}, touched |-> {}, refunded |-> FALSE]
NoRow == [version |-> Unseen]
IdlePass == [pc |-> "idle", found |-> <<>>, got |-> <<>>, started |-> 0]

AccountInit ==
    /\ entry = [a \in Accounts |-> Gone] /\ lines = [a \in Accounts |-> <<>>]
    /\ tx = NoTx /\ states = NoStates /\ open = NewLedger /\ closed = <<>>
    /\ accounts = [a \in Accounts |-> NoRow] /\ balances = [k \in Key |-> NoRow]
    /\ account_entry_state = [a \in Accounts |-> NoRow]
    /\ transaction_participants = [a \in Accounts |-> {}]
    /\ ledgers = {} /\ pass = IdlePass

Height == Len(closed)

-----------------------------------------------------------------------------
(* A change of an entry, and what the parser accumulates of it.  The two   *)
(* passes of extract_account_states write disjoint fields.                 *)

\* An entry that is there: everything is overwritten, but an empty domain
\* does not overwrite one.
EntrySeen(acc, e, creation) ==
    [acc EXCEPT !.native = e.balance, !.removed = FALSE, !.seq = e.seq, !.signers = e.signers,
                !.domain = IF e.domain = NoDomain THEN @ ELSE e.domain,
                !.created = @ \/ creation]

EntryRemoved(acc) == [acc EXCEPT !.native = 0, !.removed = TRUE]

LineSeen(acc, x, v) == [acc EXCEPT !.lines = (x :> v) @@ @, !.dropped = @ \ {x}]

LineRemoved(acc, x) == [acc EXCEPT !.lines = Restrict(@, DOMAIN @ \ {x}), !.dropped = @ \cup {x}]

Change(kind, a, x, seen) ==
    /\ kind \in Kinds /\ Height < MaxLedger /\ tx.changes < MaxChanges /\ open.txs < MaxTx
    /\ ~ open.refunded
    /\ tx' = [tx EXCEPT !.accum[a] = seen, !.changes = @ + 1]
    /\ open' = [open EXCEPT !.touched = @ \cup {<<a, x>>}]
    /\ UNCHANGED <<states, closed, store, pass>>

\* An operation or a sequence number changes an entry, or creates one.
ChangeEntry(a, e) ==
    /\ e # entry[a]
    /\ Change("entry", a, NativeAsset, EntrySeen(tx.accum[a], e, entry[a] = Gone))
    /\ entry' = [entry EXCEPT ![a] = e] /\ UNCHANGED lines

\* account_merge: the account must have no trustline left.
Merge(a) ==
    /\ entry[a] # Gone /\ lines[a] = <<>>
    /\ Change("merge", a, NativeAsset, EntryRemoved(tx.accum[a]))
    /\ entry' = [entry EXCEPT ![a] = Gone] /\ UNCHANGED lines

SetLine(a, x, v) ==
    /\ entry[a] # Gone
    /\ Change("line", a, x, LineSeen(tx.accum[a], x, v))
    /\ lines' = [lines EXCEPT ![a] = (x :> v) @@ @] /\ UNCHANGED entry

\* A trustline goes when it holds nothing.
DropLine(a, x) ==
    /\ x \in DOMAIN lines[a] /\ lines[a][x] = 0
    /\ Change("unline", a, x, LineRemoved(tx.accum[a], x))
    /\ lines' = [lines EXCEPT ![a] = Restrict(@, DOMAIN @ \ {x})] /\ UNCHANGED entry

\* The transaction names an account and changes nothing of it.
Refer(a) ==
    /\ "refer" \in Kinds /\ Height < MaxLedger /\ open.txs < MaxTx /\ ~ open.refunded
    /\ a \notin tx.refers
    /\ tx' = [tx EXCEPT !.refers = @ \cup {a}]
    /\ UNCHANGED <<entry, lines, states, open, closed, store, pass>>

Observed == {a \in Accounts : tx.accum[a] # NoAccum}

EndTx ==
    /\ tx # NoTx
    /\ states' = [a \in Accounts |->
                    IF a \in Observed THEN Append(states[a], tx.accum[a]) ELSE states[a]]
    /\ open' = [open EXCEPT !.txs = @ + 1, !.named = @ \cup Observed \cup tx.refers]
    /\ tx' = NoTx
    /\ UNCHANGED <<entry, lines, closed, store, pass>>

\* From protocol 23 on the unused fee of a Soroban transaction comes back
\* when all transactions have run, outside the TransactionMeta that is read.
Refund(a) ==
    /\ "refund" \in Kinds /\ tx = NoTx /\ ~ open.refunded
    /\ <<a, NativeAsset>> \in open.touched /\ entry[a] # Gone
    /\ entry' = [entry EXCEPT ![a].balance = @ + 1]
    /\ open' = [open EXCEPT !.touched = @ \cup {<<a, NativeAsset>>}, !.refunded = TRUE]
    /\ UNCHANGED <<lines, tx, states, closed, store, pass>>

-----------------------------------------------------------------------------
(* Staging a ledger.                                                       *)

\* Of the states of a ledger that show a thing, in the order of its transactions, the last.
Latest(ss) == Last(ss)

BalanceShown(st, x) ==
    IF x = NativeAsset THEN st.native # Unseen ELSE x \in DOMAIN st.lines \cup st.dropped

\* Mutant of BalanceRow: a removed trustline reads like an empty one.
BalanceRowOpen(l, st, x) ==
    CASE x = NativeAsset -> [version |-> l, amount |-> st.native, closed |-> IF st.removed THEN l ELSE 0]
      [] x \in DOMAIN st.lines -> [version |-> l, amount |-> st.lines[x], closed |-> 0]
      [] OTHER -> [version |-> l, amount |-> 0, closed |-> 0]

\* Mutant of BalanceRow: a holding counts as closed from the next ledger on.
BalanceRowNext(l, st, x) == [BalanceRowOpen(l, st, x) EXCEPT !.closed = IF st.removed THEN l + 1 ELSE 0]

\* closed_at_ledger tells a holding that is gone from an empty one.
BalanceRow(l, st, x) ==
    CASE x = NativeAsset -> [version |-> l, amount |-> st.native, closed |-> IF st.removed THEN l ELSE 0]
      [] x \in DOMAIN st.lines -> [version |-> l, amount |-> st.lines[x], closed |-> 0]
      [] OTHER -> [version |-> l, amount |-> 0, closed |-> l]

BalanceRows(l) ==
    [k \in Key |->
       LET Shows(st) == BalanceShown(st, k[2])
       IN  IF \E i \in DOMAIN states[k[1]] : Shows(states[k[1]][i])
           THEN BalanceRow(l, Latest(SelectSeq(states[k[1]], Shows)), k[2]) ELSE NoRow]

EntryStateRows(l) ==
    [a \in Accounts |->
       LET Shows(st) == st.signers # NoSigners /\ ~ st.removed
       IN  IF \E i \in DOMAIN states[a] : Shows(states[a][i])
           THEN [version |-> l, signers |-> Latest(SelectSeq(states[a], Shows)).signers] ELSE NoRow]

\* merge_account_state_overrides and the row of every account in account_keys.
AccountRows(l) ==
    [a \in Accounts |->
       LET HasSeq(st) == st.seq # Unseen
           HasDomain(st) == st.domain # NoDomain
           Some(Shows(_)) == \E i \in DOMAIN states[a] : Shows(states[a][i])
       IN  IF a \notin open.named THEN NoRow
           ELSE [version |-> l, first_seen |-> l,
                 seq |-> IF Some(HasSeq) THEN Latest(SelectSeq(states[a], HasSeq)).seq ELSE 0,
                 domain |-> IF Some(HasDomain) THEN Latest(SelectSeq(states[a], HasDomain)).domain ELSE NoDomain]]

CloseLedger ==
    /\ tx = NoTx /\ open.txs > 0
    /\ LET l == Height + 1
       IN  closed' = Append(closed,
             [balances |-> BalanceRows(l), entry_state |-> EntryStateRows(l),
              accounts |-> AccountRows(l), named |-> open.named,
              entry |-> entry, lines |-> lines, touched |-> open.touched])
    /\ states' = NoStates /\ open' = NewLedger
    /\ UNCHANGED <<entry, lines, tx, store, pass>>

-----------------------------------------------------------------------------
(* The store.                                                              *)

\* ReplacingMergeTree: the greatest version, and of two the one inserted last.
Replaces(old, new) == new # NoRow /\ new.version >= old.version

Put(table, rows) == [k \in DOMAIN table |-> IF Replaces(table[k], rows[k]) THEN rows[k] ELSE table[k]]

MayStore ==
    \/ pass.pc = "idle"
    \/ (IF pass.pc = "exchange" THEN "repair" ELSE "bootstrap") \in LiveDuring

\* The indexer, a backfill, or a repetition of either stores a ledger.
StoreLedger(l) ==
    /\ MayStore
    /\ LET c == closed[l]
       IN  /\ balances' = Put(balances, c.balances)
           /\ account_entry_state' = Put(account_entry_state, c.entry_state)
           /\ accounts' = Put(accounts, c.accounts)
           /\ transaction_participants' = [a \in Accounts |->
                transaction_participants[a] \cup IF a \in c.named THEN {l} ELSE {}]
    /\ ledgers' = ledgers \cup {l}
    /\ UNCHANGED <<chain, pass>>

-----------------------------------------------------------------------------
(* The account page of the API.                                            *)

\* An account is gone when its native holding is closed, however little it holds.
Deleted(a) == balances[<<a, NativeAsset>>] # NoRow /\ balances[<<a, NativeAsset>>].closed # 0

\* The holdings listed: not those of amount 0, those that are not closed.
Listed(a) == {x \in Assets \cup {NativeAsset} : balances[<<a, x>>] # NoRow /\ balances[<<a, x>>].closed = 0}

\* What the entry says beyond the balance: not shown of an account that is gone.
Sponsorship(a) == IF Deleted(a) THEN NoRow ELSE account_entry_state[a]

-----------------------------------------------------------------------------
(* backfill-runner bootstrap, over a window that ends at the last stored   *)
(* ledger: accounts without a sequence number are fetched from a node.     *)

StartPass(name) == name \in Passes /\ pass.pc = "idle" /\ pass.started < MaxPasses /\ ledgers # {}

Skeletons ==
    {a \in Accounts : transaction_participants[a] # {} /\ accounts[a] # NoRow /\ accounts[a].seq = 0}

Discover ==
    /\ StartPass("bootstrap") /\ Skeletons # {}
    /\ pass' = [pass EXCEPT !.pc = "fetch", !.started = @ + 1,
                  !.found = [a \in Skeletons |-> accounts[a].first_seen]]
    /\ UNCHANGED <<chain, store>>

\* getLedgerEntries answers from the network's last ledger, in one or more
\* requests; an account that is gone is missing from the answer.
Fetch ==
    /\ pass.pc = "fetch"
    /\ LET now == closed[Height].entry
       IN  pass' = [pass EXCEPT !.pc = "stage",
                      !.got = [a \in {b \in DOMAIN pass.found : now[b] # Gone} |-> now[a]]]
    /\ UNCHANGED <<chain, store>>

Versions == {accounts[a].version : a \in Accounts}
MaxVersion == CHOOSE v \in Versions : \A u \in Versions : u <= v

\* stage_account_snapshots: above the window and above every stored row.
\* The window ends at or below the greatest stored ledger.
Watermark == MaxVersion + 1

StageAccounts ==
    /\ pass.pc = "stage"
    /\ accounts' = Put(accounts, [a \in Accounts |->
         IF a \notin DOMAIN pass.got THEN NoRow
         ELSE [version |-> Watermark, first_seen |-> pass.found[a],
               seq |-> pass.got[a].seq, domain |-> pass.got[a].domain]])
    /\ pass' = [pass EXCEPT !.pc = "stageNative",
                  !.got = [a \in DOMAIN @ |-> [balance |-> @[a].balance, version |-> Watermark]]]
    /\ UNCHANGED <<chain, balances, account_entry_state, transaction_participants, ledgers>>

StageNative ==
    /\ pass.pc = "stageNative"
    /\ balances' = Put(balances, [k \in Key |->
         IF k[2] # NativeAsset \/ k[1] \notin DOMAIN pass.got THEN NoRow
         ELSE [version |-> pass.got[k[1]].version, amount |-> pass.got[k[1]].balance, closed |-> 0]])
    /\ pass' = [IdlePass EXCEPT !.started = pass.started]
    /\ UNCHANGED <<chain, accounts, account_entry_state, transaction_participants, ledgers>>

-----------------------------------------------------------------------------
(* backfill-runner repair-tier1: first_seen_ledger, by EXCHANGE TABLES.    *)

FirstOf(s) == CHOOSE l \in s : \A m \in s : l <= m

\* Mutant of BuildAccounts: the rebuilt rows get a version of their own, as
\* those of bootstrap do.
BuildAccountsStamped ==
    /\ StartPass("repair")
    /\ pass' = [pass EXCEPT !.pc = "exchange", !.started = @ + 1,
         !.got = [a \in Accounts |->
           IF accounts[a] = NoRow \/ transaction_participants[a] = {} THEN accounts[a]
           ELSE [accounts[a] EXCEPT !.first_seen = FirstOf(transaction_participants[a]),
                                    !.version = Watermark]]]
    /\ UNCHANGED <<chain, store>>

BuildAccounts ==
    /\ StartPass("repair")
    /\ pass' = [pass EXCEPT !.pc = "exchange", !.started = @ + 1,
         !.got = [a \in Accounts |->
           IF accounts[a] = NoRow \/ transaction_participants[a] = {} THEN accounts[a]
           ELSE [accounts[a] EXCEPT !.first_seen = FirstOf(transaction_participants[a])]]]
    /\ UNCHANGED <<chain, store>>

ExchangeAccounts ==
    /\ pass.pc = "exchange"
    /\ accounts' = pass.got
    /\ pass' = [IdlePass EXCEPT !.started = pass.started]
    /\ UNCHANGED <<chain, balances, account_entry_state, transaction_participants, ledgers>>

\* A pass dies: what it has inserted stays, a staging table is dropped later.
PassDies ==
    /\ pass.pc # "idle"
    /\ pass' = [IdlePass EXCEPT !.started = pass.started]
    /\ UNCHANGED <<chain, store>>

AccountNext ==
    \/ \E a \in Accounts :
         \/ \E e \in Entries : ChangeEntry(a, e)
         \/ Merge(a) \/ Refer(a) \/ Refund(a)
         \/ \E x \in Assets : DropLine(a, x) \/ \E v \in Amounts : SetLine(a, x, v)
    \/ EndTx \/ CloseLedger
    \/ \E l \in 1..Height : StoreLedger(l)
    \/ Discover \/ Fetch \/ StageAccounts \/ StageNative
    \/ BuildAccounts \/ ExchangeAccounts \/ PassDies

AccountSpec == AccountInit /\ [][AccountNext]_accountVars

-----------------------------------------------------------------------------
(* Properties.                                                             *)

\* The variables hold what their names say.
AccountsTypeOK ==
    /\ \A a \in Accounts : entry[a] = Gone => lines[a] = <<>>
    /\ ledgers \subseteq 1..Height
    /\ \A a \in Accounts : transaction_participants[a] \subseteq ledgers
    /\ \A k \in Key : balances[k] = NoRow \/ balances[k].closed \in {0, balances[k].version}
    /\ pass.pc \in {"idle", "fetch", "stage", "stageNative", "exchange"}

Touching(k) == {l \in ledgers : k \in closed[l].touched}

\* The holding k at the end of ledger l.
Holds(l, k) ==
    LET c == closed[l]
    IN  IF k[2] = NativeAsset THEN c.entry[k[1]] # Gone ELSE k[2] \in DOMAIN c.lines[k[1]]

AmountAt(l, k) ==
    IF ~ Holds(l, k) THEN 0
    ELSE IF k[2] = NativeAsset THEN closed[l].entry[k[1]].balance ELSE closed[l].lines[k[1]][k[2]]

\* Every holding a stored ledger touched has a row, and the row is the
\* holding as it was after the newest of these ledgers, or later where
\* bootstrap has been: with its amount, and closed exactly if it was gone.
\* Two transactions of a ledger, a merge and a re-creation, ledgers stored
\* twice or backwards must not bring back an older state.
BalancesAreChain ==
    \A k \in Key : Touching(k) # {} =>
      /\ balances[k] # NoRow
      /\ \E l \in 1..Height :
           /\ \A m \in Touching(k) : m <= l
           /\ balances[k].amount = AmountAt(l, k)
           /\ (k[2] \in Listed(k[1])) = Holds(l, k)

\* The signers and counters shown for an account are those after the newest
\* stored ledger that wrote its entry: a removed signer does not come back,
\* and an account that is gone, and no other, shows as deleted.
SigningIsCurrent ==
    \A a \in Accounts :
      LET writing == {l \in ledgers : closed[l].entry_state[a] # NoRow \/ <<a, NativeAsset>> \in closed[l].touched}
          newest == CHOOSE l \in writing : \A m \in writing : m <= l
      IN  writing # {} =>
            /\ Deleted(a) = ~ Holds(newest, <<a, NativeAsset>>)
            /\ ~ Deleted(a) => /\ Sponsorship(a) # NoRow
                              /\ Sponsorship(a).signers = closed[newest].entry[a].signers

\* An account row with a sequence number has its native balance, while no
\* pass runs: both come from the same account entry.
SnapshotIsWhole ==
    pass.pc = "idle" =>
      \A a \in Accounts : accounts[a] # NoRow /\ accounts[a].seq > 0 => balances[<<a, NativeAsset>>] # NoRow

\* The row of an account is the one a swap puts in its place, but for
\* first_seen_ledger.
KeptBySwap(a) ==
    /\ accounts'[a] # NoRow
    /\ [accounts'[a] EXCEPT !.first_seen = 0] = [accounts[a] EXCEPT !.first_seen = 0]
    /\ accounts'[a].first_seen <= accounts[a].first_seen

\* It is gone, and storing the ledger that wrote it again brings it back.
ComesBack(a) ==
    LET l == accounts[a].version
    IN  l \in ledgers /\ Replaces(accounts'[a], closed[l].accounts[a])

\* A swap changes first_seen_ledger alone, and with the writers stopped to the
\* first ledger that names the account.  What a swap beside a writer loses,
\* and it does lose rows stored since the build, is not lost for good.
RepairKeepsRows ==
    ExchangeAccounts => \A a \in Accounts : accounts[a] # NoRow =>
      IF "repair" \in LiveDuring THEN KeptBySwap(a) \/ ComesBack(a)
      ELSE /\ KeptBySwap(a)
           /\ transaction_participants[a] # {} =>
                accounts'[a].first_seen = FirstOf(transaction_participants[a])
=============================================================================
