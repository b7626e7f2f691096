----------------------------- MODULE ContractCode -----------------------------
(***************************************************************************)
(* What the explorer says of a contract's code.  The network deploys a     *)
(* contract with a program of its own, with a reference to a tag of an     *)
(* owner contract (CAP-85), or as a Stellar asset contract; upgrades it;   *)
(* re-points tags; and changes instance storage.  The indexer stores each  *)
(* ledger's programs, contracts, references and instances, and the token   *)
(* metadata it reads by running the contract over what is stored; three    *)
(* one-off fills supply what older indexers did not store.                 *)
(*                                                                         *)
(* A column that may be NULL is a set of at most one value, and so is what *)
(* FINAL (or argMax) returns for a key.  A program's bytes are the program *)
(* and decimals, name and symbol are one value.                            *)
(***************************************************************************)
EXTENDS Naturals, Sequences, FiniteSets, SequencesExt

CONSTANTS
    Contracts,
    Tags,            \* the tags of the owner of executables
    Programs,
    Interface,       \* what parse_wasm_program reads of a program, see Fields
    Values,          \* what metadata functions return; "bad" is no standard value
    Kinds,           \* what the network does
    Since,           \* the first ledger of the indexer that stores bytes and instances
    MaxLedger,       \* bound: ledgers
    MaxSteps,        \* bound: what the network does in a ledger
    MaxFaults,       \* bound: failed lookups and writes that stop half-way
    MaxAgain,        \* bound: ledgers stored again
    MaxFills         \* bound: runs of the fills

VARIABLES
    chain,      \* the network, as of the open ledger
    open,       \* the changes and events of the open ledger, and how many steps made them
    history,    \* the closed ledgers: what was in each, and the network after it
    db,         \* the tables
    through,    \* the last ledger stored whole
    torn,       \* a write of the next ledger stopped half-way
    fill,       \* the running fill, and how far the three have got in order
    spent       \* the bounds used up

codeVars == <<chain, open, history, db, through, torn, fill, spent>>

Fills == <<"instances", "code", "metadata">>
Tables == {"soroban_contracts", "wasm_programs", "contract_executable_refs", "contract_instances",
           "soroban_contract_metadata", "assets"}

\* A program: whether it has an interface section, and the functions in it;
\* whether it imports the upgrade function; whose instance its metadata
\* functions read: its own, another contract's, or contract data.
Fields == {"spec", "functions", "upgradeable", "asks"}

ContractCodeAssumption ==
    /\ DOMAIN Interface = Programs
    /\ \A p \in Programs :
         /\ DOMAIN Interface[p] = Fields
         /\ ~Interface[p].spec => Interface[p].functions = {}
    /\ Kinds \subseteq {"upload", "deploy", "refer", "sac", "upgrade", "spoof", "point", "name", "restore"}
    /\ Since \in 1..(MaxLedger + 1) /\ MaxLedger \in Nat /\ MaxSteps \in Nat
    /\ MaxFaults \in Nat /\ MaxAgain \in Nat /\ MaxFills \in Nat

Wasm(p) == [kind |-> "wasm", of |-> p]
Ref(t) == [kind |-> "ref", of |-> t]
Sac == [kind |-> "sac", of |-> "asset"]
NoCode == [kind |-> "none", of |-> "none"]
Codes == {Wasm(p) : p \in Programs} \cup {Ref(t) : t \in Tags}

The(set) == CHOOSE x \in set : TRUE
Idle == [pass |-> "idle", rows |-> <<>>, complete |-> FALSE, done |-> 0]

CodeInit ==
    /\ chain = [code |-> [c \in Contracts |-> NoCode], name |-> [c \in Contracts |-> "none"],
                tag |-> [t \in Tags |-> {}], uploaded |-> {}]
    /\ open = [steps |-> 0, items |-> <<>>] /\ history = <<>>
    /\ db = [soroban_contracts |-> [c \in Contracts |-> {}],
             wasm_programs |-> [p \in Programs |-> {}],
             contract_executable_refs |-> [t \in Tags |-> {}],
             contract_instances |-> [c \in Contracts |-> {}],
             soroban_contract_metadata |-> [c \in Contracts |-> {}],
             assets |-> {}]
    /\ through = 0 /\ torn = FALSE
    /\ fill = Idle
    /\ spent = [faults |-> 0, again |-> 0, fills |-> 0]

-----------------------------------------------------------------------------
(* The network.                                                            *)

InstanceItem(change, c, code, name) ==
    [of |-> "instance", change |-> change, contract |-> c, code |-> code, name |-> name]
CodeItem(change, p) == [of |-> "code", change |-> change, program |-> p]
TagItem(change, t, p) == [of |-> "tag", change |-> change, tag |-> t, program |-> p]
UpdateEvent(type, c, code) == [of |-> "event", type |-> type, contract |-> c, code |-> code]

\* One step of the open ledger, with the changes and events it leaves.
Happens(kind, items, after) ==
    /\ kind \in Kinds /\ open.steps < MaxSteps /\ Len(history) < MaxLedger
    /\ open' = [steps |-> open.steps + 1, items |-> open.items \o items]
    /\ chain' = after
    /\ UNCHANGED <<history, db, through, torn, fill, spent>>

\* The programs a contract runs: its own, or what its reference resolves to.
Runs(ch, c) ==
    CASE ch.code[c].kind = "wasm" -> {ch.code[c].of}
      [] ch.code[c].kind = "ref" -> ch.tag[ch.code[c].of]
      [] OTHER -> {}

Runnable(code) == IF code.kind = "wasm" THEN code.of \in chain.uploaded ELSE chain.tag[code.of] # {}

Upload(p) ==
    /\ p \notin chain.uploaded
    /\ Happens("upload", <<CodeItem("created", p)>>, [chain EXCEPT !.uploaded = @ \cup {p}])

Deploy(c, code, v) ==
    /\ chain.code[c] = NoCode
    /\ \/ code = Sac /\ v = "none"
       \/ code \in Codes /\ Runnable(code) /\ v \in Values
    /\ Happens(CASE code = Sac -> "sac" [] code.kind = "ref" -> "refer" [] OTHER -> "deploy",
               <<InstanceItem("created", c, code, v)>>,
               [chain EXCEPT !.code[c] = code, !.name[c] = v])

\* The code a contract runs replaces the contract's code: the instance
\* changes and the host emits executable_update.
Upgrade(c, code) ==
    /\ \E p \in Runs(chain, c) : Interface[p].upgradeable
    /\ code \in Codes /\ code # chain.code[c] /\ Runnable(code)
    /\ Happens("upgrade",
               <<InstanceItem("state", c, chain.code[c], chain.name[c]),
                 InstanceItem("updated", c, code, chain.name[c]), UpdateEvent("System", c, code)>>,
               [chain EXCEPT !.code[c] = code])

\* A contract may emit an event of the same shape.
Spoof(c, code) ==
    /\ Runs(chain, c) # {} /\ code \in Codes
    /\ Happens("spoof", <<UpdateEvent("Contract", c, code)>>, chain)

\* The owner points a tag at an uploaded program, or at another one.
Point(t, p) ==
    /\ p \in chain.uploaded /\ chain.tag[t] # {p}
    /\ Happens("point",
               IF chain.tag[t] = {} THEN <<TagItem("created", t, p)>>
               ELSE <<TagItem("state", t, The(chain.tag[t])), TagItem("updated", t, p)>>,
               [chain EXCEPT !.tag[t] = {p}])

\* A contract writes its instance storage.
SetName(c, v) ==
    /\ Runs(chain, c) # {} /\ v \in Values \ {chain.name[c]}
    /\ Happens("name",
               <<InstanceItem("state", c, chain.code[c], chain.name[c]),
                 InstanceItem("updated", c, chain.code[c], v)>>,
               [chain EXCEPT !.name[c] = v])

\* An archived contract is brought back, with its own program.
Restore(c) ==
    /\ chain.code[c].kind = "wasm"
    /\ Happens("restore",
               <<CodeItem("restored", chain.code[c].of),
                 InstanceItem("restored", c, chain.code[c], chain.name[c])>>, chain)

CloseLedger ==
    /\ Len(history) < MaxLedger
    /\ history' = Append(history, [items |-> open.items, chain |-> chain])
    /\ open' = [steps |-> 0, items |-> <<>>]
    /\ UNCHANGED <<chain, db, through, torn, fill, spent>>

-----------------------------------------------------------------------------
(* Reading a ledger.                                                       *)

\* State is a value before its change.
Kept(item) == item.of # "event" /\ item.change # "state"

\* Of a sequence the last item of a key, if any.
LastOf(items, ofKey) ==
    LET k == SelectLastInSeq(items, LAMBDA i : i \in ofKey) IN IF k = 0 THEN {} ELSE {items[k]}

extract_wasm_programs(items) ==
    {i.program : i \in {j \in ToSet(items) : j.of = "code" /\ Kept(j)}}

extract_contract_deployments(items, c) ==
    {i \in ToSet(items) : i.of = "instance" /\ i.change = "created" /\ i.contract = c}

\* contract_instances: the last instance of the ledger.
extract_contract_instances(items, c) ==
    LastOf(items, {i \in ToSet(items) : i.of = "instance" /\ Kept(i) /\ i.contract = c})

\* build_executable_ref_rows: the last target of the ledger.
extract_executable_ref_targets(items, t) ==
    LastOf(items, {i \in ToSet(items) : i.of = "tag" /\ Kept(i) /\ i.tag = t})

\* The last executable_update that the host emitted.
executable_update(items, c) ==
    LastOf(items, {i \in ToSet(items) : i.of = "event" /\ i.type = "System" /\ i.contract = c})

classify(functions) ==
    IF functions \cap {"owner_of", "token_uri", "approve_for_all", "get_approved", "is_approved_for_all"} # {}
    THEN "nft"
    ELSE IF functions \cap {"decimals", "allowance", "total_supply"} # {} THEN "fungible" ELSE "other"

\* The verdict that replaces a parser's "other".
Decisive(p) == Interface[p].spec /\ classify(Interface[p].functions) # "other"

-----------------------------------------------------------------------------
(* The rows of a ledger.                                                   *)

\* ReplacingMergeTree: the higher version, of equal ones the later row.
Merge(old, new) ==
    IF new = {} \/ \E o \in old, n \in new : o.version > n.version THEN old ELSE new

ContractType(code, items, d, verdicts) ==
    LET known == extract_wasm_programs(items) \cup IF verdicts THEN {p \in Programs : d.wasm_programs[p] # {}} ELSE {}
    IN  CASE code.kind = "sac" -> "token"
          [] code.kind = "wasm" /\ code.of \in known /\ Decisive(code.of) -> classify(Interface[code.of].functions)
          [] OTHER -> "other"

\* The columns of a contract's code: a program or a reference.
WasmOf(code) == IF code.kind = "wasm" THEN {code.of} ELSE {}
RefOf(code) == IF code.kind = "ref" THEN {code.of} ELSE {}

DeployRows(l, d, verdicts, c) ==
    {[wasm |-> WasmOf(i.code), ref |-> RefOf(i.code), is_sac |-> i.code.kind = "sac",
      version |-> l, deployed |-> l, type |-> ContractType(i.code, history[l].items, d, verdicts)] :
     i \in extract_contract_deployments(history[l].items, c)}

\* The row that was there, read back, with the code it was upgraded to: each
\* kind of code clears the other.  Without a row there is nothing to carry
\* over and the update is skipped.
build_wasm_upgrade_rows(l, d, c) ==
    {[row EXCEPT !.wasm = WasmOf(e.code), !.ref = RefOf(e.code), !.version = l] :
     row \in d.soroban_contracts[c], e \in executable_update(history[l].items, c)}

\* A contract deployed with a fungible verdict is an asset.
FungibleAssets(l, d, verdicts) ==
    {c \in Contracts : \E r \in DeployRows(l, d, verdicts, c) : ~r.is_sac /\ r.type = "fungible"}

RefRows(l, t) == {[program |-> i.program, version |-> l] : i \in extract_executable_ref_targets(history[l].items, t)}

InstanceRows(l, c) ==
    {[code |-> i.code, name |-> i.name, version |-> l] : i \in extract_contract_instances(history[l].items, c)}

\* A row of wasm_programs, with or without its bytes.  The table has no
\* version: the later row wins.
program_row(p, bytes) == [interface |-> IF Interface[p].spec THEN {Interface[p]} ELSE {}, bytes |-> bytes]

-----------------------------------------------------------------------------
(* Token metadata: running the contract's own functions.                   *)

declares(interface) == UNION {i.functions : i \in interface} \cap {"decimals", "name", "symbol"}
has_metadata(declared) == "decimals" \in declared \/ {"name", "symbol"} \subseteq declared

\* What the functions of contract c return over entries: instances, and the
\* programs with bytes.  A run that asks for contract data, or for an
\* instance that is not stored, or whose value is not of its type, gives no
\* answer.
read_metadata(instances, bytes, c) ==
    LET own == instances[c]
        p == WasmOf(The(own).code)
        asked == IF Interface[The(p)].asks = "own" THEN c ELSE Interface[The(p)].asks
    IN  IF own = {} \/ p = {} \/ ~(p \subseteq bytes) \/ Interface[The(p)].asks = "data" THEN {}
        ELSE {i.name : i \in instances[asked]} \ {"bad", "none"}

\* The instances and the bytes a ledger's runs see: its own, then the tables'.
SeenInstances(l, d) ==
    [c \in Contracts |-> IF InstanceRows(l, c) # {} THEN InstanceRows(l, c) ELSE d.contract_instances[c]]
StoredBytes(d) == {p \in Programs : \E r \in d.wasm_programs[p] : r.bytes}
SeenBytes(l, d) == extract_wasm_programs(history[l].items) \cup StoredBytes(d)

\* The program of a contract whose instance changed: of its last instance
\* that runs one.
ChangedHash(l, c) ==
    {i.code.of : i \in LastOf(history[l].items, {j \in ToSet(history[l].items) :
                           j.of = "instance" /\ Kept(j) /\ j.contract = c /\ j.code.kind = "wasm"})}

DeclaredBy(l, d, p) ==
    IF p \in extract_wasm_programs(history[l].items)
    THEN declares(program_row(p, TRUE).interface)
    ELSE declares(UNION {r.interface : r \in d.wasm_programs[p]})

ledger_metadata_writes(l, d, c) ==
    IF \E p \in ChangedHash(l, c) : has_metadata(DeclaredBy(l, d, p))
    THEN {[value |-> v, version |-> l] : v \in read_metadata(SeenInstances(l, d), SeenBytes(l, d), c)}
    ELSE {}

-----------------------------------------------------------------------------
(* Storing a ledger.                                                       *)

\* The tables with a ledger's rows in them.  An indexer from before Since
\* stored neither bytes nor instances, and ran nothing.
Stored(l, d, verdicts, current) ==
    LET PutContract(c) == Merge(Merge(d.soroban_contracts[c], DeployRows(l, d, verdicts, c)),
                                build_wasm_upgrade_rows(l, d, c))
        PutProgram(p) == IF p \in extract_wasm_programs(history[l].items)
                         THEN {program_row(p, current)} ELSE d.wasm_programs[p]
        PutRef(t) == Merge(d.contract_executable_refs[t], RefRows(l, t))
        PutInstance(c) == Merge(d.contract_instances[c], IF current THEN InstanceRows(l, c) ELSE {})
        PutMetadata(c) == Merge(d.soroban_contract_metadata[c],
                                IF current THEN ledger_metadata_writes(l, d, c) ELSE {})
    IN  [soroban_contracts |-> [c \in Contracts |-> PutContract(c)],
         wasm_programs |-> [p \in Programs |-> PutProgram(p)],
         contract_executable_refs |-> [t \in Tags |-> PutRef(t)],
         contract_instances |-> [c \in Contracts |-> PutInstance(c)],
         soroban_contract_metadata |-> [c \in Contracts |-> PutMetadata(c)],
         assets |-> d.assets \cup FungibleAssets(l, d, verdicts)]

\* The next ledger.  A failed lookup of verdicts leaves deploys at "other";
\* a failed read of rows or metadata is a write of no table.
Store(verdicts) ==
    /\ through < Len(history) /\ (~verdicts => spent.faults < MaxFaults)
    /\ db' = Stored(through + 1, db, verdicts, through + 1 >= Since)
    /\ through' = through + 1 /\ torn' = FALSE
    /\ spent' = [spent EXCEPT !.faults = @ + IF verdicts THEN 0 ELSE 1]
    /\ UNCHANGED <<chain, open, history, fill>>

\* The write stops after some of the tables; the ledger will be stored again.
StoreStops ==
    /\ through < Len(history) /\ spent.faults < MaxFaults
    /\ LET new == Stored(through + 1, db, TRUE, through + 1 >= Since)
           changed == {table \in Tables : new[table] # db[table]}
       IN  \E written \in SUBSET changed \ {{}} :
               db' = [table \in Tables |-> IF table \in written THEN new[table] ELSE db[table]]
    /\ torn' = TRUE /\ spent' = [spent EXCEPT !.faults = @ + 1]
    /\ UNCHANGED <<chain, open, history, through, fill>>

\* backfill-runner run stores a ledger again, while the live indexer goes on.
StoreAgain(l) ==
    /\ l \in Since..through /\ spent.again < MaxAgain
    /\ db' = Stored(l, db, TRUE, TRUE)
    /\ spent' = [spent EXCEPT !.again = @ + 1]
    /\ UNCHANGED <<chain, open, history, through, torn, fill>>

-----------------------------------------------------------------------------
(* The fills: each reads what is missing, asks the network or runs the     *)
(* contracts, and inserts; the indexer goes on meanwhile.                  *)

Newest == history[Len(history)].chain
\* The last ledger that changed a contract's instance.
LastModified(c) == SelectLastInSeq(history, LAMBDA e : extract_contract_instances(e.items, c) # {})

\* contract-instance-backfill: the contracts without an instance row, those
\* the RPC returns, each at its last-modified ledger.
MissingInstances(d) ==
    {c \in Contracts : d.soroban_contracts[c] # {} /\ d.contract_instances[c] = {}}
FetchedInstances(returned) ==
    [c \in Contracts |-> IF c \in returned
                         THEN {[code |-> Newest.code[c], name |-> Newest.name[c], version |-> LastModified(c)]}
                         ELSE {}]

\* wasm-code-backfill: the programs known only by hash.
MissingBytes(d) ==
    {p \in Programs : \/ d.wasm_programs[p] # {}
                      \/ \E c \in Contracts : \E r \in d.soroban_contracts[c] : p \in r.wasm
                      \/ \E t \in Tags : \E r \in d.contract_executable_refs[t] : p = r.program}
        \ StoredBytes(d)

\* contract-metadata-backfill: every contract whose row names a program with
\* metadata, run over the tables, at the ledger of its instance.
ComputedMetadata(d) ==
    [c \in Contracts |->
        IF \E r \in d.soroban_contracts[c] : ~r.is_sac /\ \E p \in r.wasm :
              p \in StoredBytes(d) /\ has_metadata(declares(UNION {q.interface : q \in d.wasm_programs[p]}))
        THEN {[value |-> v, version |-> The(d.contract_instances[c]).version] :
              v \in read_metadata(d.contract_instances, StoredBytes(d), c)}
        ELSE {}]

\* Run only after the indexer that stores instances is deployed.
StartFill(pass, rows, complete) ==
    /\ fill.pass = "idle" /\ spent.fills < MaxFills /\ through + 1 >= Since /\ history # <<>>
    /\ fill' = [fill EXCEPT !.pass = pass, !.rows = rows, !.complete = complete]
    /\ spent' = [spent EXCEPT !.fills = @ + 1]
    /\ UNCHANGED <<chain, open, history, db, through, torn>>

\* The RPC may leave some out; the pass reports them and may be run again.
ReadInstances(returned) ==
    /\ returned \subseteq MissingInstances(db)
    /\ StartFill("instances", FetchedInstances(returned), returned = MissingInstances(db))

ReadCode(returned) ==
    /\ returned \subseteq MissingBytes(db)
    /\ StartFill("code", [p \in Programs |-> IF p \in returned THEN {program_row(p, TRUE)} ELSE {}],
                 returned = MissingBytes(db))

ReadMetadata == StartFill("metadata", ComputedMetadata(db), TRUE)

\* The insert.
FinishFill ==
    /\ fill.pass # "idle"
    /\ db' = CASE fill.pass = "instances" ->
                    [db EXCEPT !.contract_instances = [c \in Contracts |-> Merge(@[c], fill.rows[c])]]
               [] fill.pass = "code" ->
                    [db EXCEPT !.wasm_programs = [p \in Programs |-> IF fill.rows[p] = {} THEN @[p] ELSE fill.rows[p]]]
               [] fill.pass = "metadata" ->
                    [db EXCEPT !.soroban_contract_metadata = [c \in Contracts |-> Merge(@[c], fill.rows[c])]]
    /\ fill' = [Idle EXCEPT !.done = fill.done + IF fill.complete /\ fill.done < 3 /\ Fills[fill.done + 1] = fill.pass
                                                 THEN 1 ELSE 0]
    /\ UNCHANGED <<chain, open, history, through, torn, spent>>

CodeNext ==
    \/ \E p \in Programs : Upload(p)
    \/ \E c \in Contracts, code \in Codes \cup {Sac}, v \in Values \cup {"none"} : Deploy(c, code, v)
    \/ \E c \in Contracts, code \in Codes : Upgrade(c, code) \/ Spoof(c, code)
    \/ \E t \in Tags, p \in Programs : Point(t, p)
    \/ \E c \in Contracts, v \in Values : SetName(c, v)
    \/ \E c \in Contracts : Restore(c)
    \/ CloseLedger
    \/ \E verdicts \in BOOLEAN : Store(verdicts)
    \/ StoreStops
    \/ \E l \in 1..MaxLedger : StoreAgain(l)
    \/ \E returned \in SUBSET Contracts : ReadInstances(returned)
    \/ \E returned \in SUBSET Programs : ReadCode(returned)
    \/ ReadMetadata \/ FinishFill

CodeSpec == CodeInit /\ [][CodeNext]_codeVars

-----------------------------------------------------------------------------
(* What the API answers of a contract.                                     *)

\* What a reference resolves to, as of now.
Referenced(row) == {r.program : r \in UNION {db.contract_executable_refs[t] : t \in row.ref}}

\* Whether a contract can be upgraded: unknown without code of its own,
\* unless it is a Stellar asset contract, and without an interface.
map_upgradeable(row) ==
    IF row.wasm = {} THEN {FALSE : s \in {row.is_sac} \cap {TRUE}}
    ELSE {i.upgradeable : i \in UNION {r.interface : r \in UNION {db.wasm_programs[p] : p \in row.wasm}}}

fetch_contract(c) ==
    {[wasm_hash |-> IF row.wasm # {} THEN row.wasm ELSE Referenced(row), tag |-> row.ref,
      upgradeable |-> map_upgradeable(row), deployed |-> row.deployed, type |-> row.type] :
     row \in db.soroban_contracts[c]}

\* The functions of the code it runs.
fetch_wasm_interface(c) ==
    {UNION {i.functions : i \in UNION {r.interface : r \in UNION {db.wasm_programs[p] : p \in answer.wasm_hash}}} :
     answer \in fetch_contract(c)}

-----------------------------------------------------------------------------

CodeTypeOK ==
    /\ \A c \in Contracts : \A r \in db.soroban_contracts[c] :
         /\ r.wasm \subseteq Programs /\ r.ref \subseteq Tags /\ r.deployed <= r.version
         /\ Cardinality(r.wasm) + Cardinality(r.ref) + (IF r.is_sac THEN 1 ELSE 0) = 1
         /\ r.type \in {"token", "nft", "fungible", "other"}
    /\ \A c \in Contracts : Cardinality(db.soroban_contracts[c]) <= 1
    /\ \A c \in Contracts : Cardinality(db.contract_instances[c]) <= 1
    /\ \A c \in Contracts : \A r \in db.contract_instances[c] : r.version \in 1..Len(history)
    /\ \A c \in Contracts : \A r \in db.soroban_contract_metadata[c] : r.value \in Values \ {"bad"}
    /\ through \in 0..Len(history) /\ fill.done \in 0..3

At(l) == history[l].chain
DeployedAt(c) == {l \in 1..Len(history) : extract_contract_deployments(history[l].items, c) # {}}
UpgradedAt(c) == {l \in 1..Len(history) : executable_update(history[l].items, c) # {}}

\* An upgrade in the ledger of the deployment has no row to build on, and
\* the contract keeps the code it was deployed with until the next upgrade.
Skipped(c) == \E l \in DeployedAt(c) \cap UpgradedAt(c) : ~\E m \in UpgradedAt(c) : m \in l + 1..through

\* The contract page names the code that the contract runs as of the last
\* stored ledger, whether its own or what its reference resolves to by then,
\* and the interface shown is of that code.
CodeIsCurrent ==
    (through > 0 /\ ~torn) => \A c \in Contracts :
        IF At(through).code[c] = NoCode THEN fetch_contract(c) = {}
        ELSE \/ Skipped(c)
             \/ LET p == Runs(At(through), c) IN
                /\ {a.wasm_hash : a \in fetch_contract(c)} = {p}
                /\ {a.tag : a \in fetch_contract(c)} = {RefOf(At(through).code[c])}
                /\ fetch_wasm_interface(c) = {UNION {Interface[q].functions : q \in p}}

\* No upgrade, retry or second storing of a ledger loses where a contract
\* comes from, and its type is what the program it was deployed with declares,
\* unless a lookup failed; a contract of type fungible is an asset.
IdentityIsKept ==
    \A c \in Contracts : \A a \in fetch_contract(c) :
        /\ a.deployed \in DeployedAt(c)
        /\ LET code == The(extract_contract_deployments(history[a.deployed].items, c)).code
               declared == CASE code = Sac -> "token"
                             [] code.kind = "wasm" -> classify(Interface[code.of].functions)
                             [] OTHER -> "other"
           IN  a.type = declared \/ (a.type = "other" /\ spent.faults > 0)
        /\ a.type = "fungible" /\ ~torn => c \in db.assets

\* A contract that the page shows as one that cannot be upgraded never runs
\* other code later.
StaysAsShown ==
    \A c \in Contracts : \A a \in fetch_contract(c) :
        a.upgradeable = {FALSE} => \A b \in fetch_contract(c)' : b.wasm_hash = a.wasm_hash

\* A contract whose metadata comes from its own instance storage.
ReadsItself(ch, c) ==
    \E p \in WasmOf(ch.code[c]) : Interface[p].asks = "own" /\ has_metadata(Interface[p].functions)
Answers(ch, c) == ReadsItself(ch, c) /\ ch.name[c] # "bad"
HasBytes(l, p) == \E k \in Since..l : p \in extract_wasm_programs(history[k].items)

\* The metadata stored for a contract is what its functions returned at the
\* ledger it is stamped with, and no later ledger stored by then changed it;
\* where the functions read another contract, it is what that contract said
\* at that ledger or later.
MetadataIsTrue ==
    \A c \in Contracts : \A r \in db.soroban_contract_metadata[c] :
        LET p == The(WasmOf(At(r.version).code[c])) IN
        IF Interface[p].asks = "own"
        THEN /\ r.value = At(r.version).name[c]
             /\ \A l \in r.version + 1..through :
                  extract_contract_instances(history[l].items, c) = {} \/ l < Since \/ ~Answers(At(l), c)
                      \/ ~\A q \in WasmOf(At(l).code[c]) : HasBytes(l, q)
        ELSE \E l \in r.version..Len(history) : r.value = At(l).name[Interface[p].asks]

\* Once the three fills are through, in their order, a contract that answers
\* (now, and as of the ledgers the network is ahead, which the RPC knows) has
\* its metadata, whatever was stored, changed and upgraded meanwhile.
FillsComplete ==
    (fill.done = 3 /\ ~torn /\ through > 0) => \A c \in Contracts :
        ~Skipped(c) /\ (\A l \in through..Len(history) : Answers(At(l), c)) => db.soroban_contract_metadata[c] # {}

=============================================================================
