------------------------------- MODULE TxList -------------------------------
(***************************************************************************)
(* GET /v1/transactions: the list, its filters and its conditional GET     *)
(* (api/transactions/{handlers,queries/list_transactions}.rs), read by one *)
(* client while an indexer writes ledgers.                                 *)
(*                                                                         *)
(* A request is three reads of the store at different times: the head      *)
(* probe of a first page, the scan (rows of `transactions`, or positions   *)
(* of an index), and the page, whose rows need their ledger row.  Rows of  *)
(* a ledger become visible table by table, the ledger row last; a write    *)
(* that is retried leaves a second copy until ClickHouse merges it away.   *)
(***************************************************************************)
EXTENDS Keyset

CONSTANTS
    Chain,       \* the network's ledgers: sequences of [source, contracts, types]
    Indexed,     \* ledgers in the store from the start
    Backfilled,  \* ledgers a backfill writes; the others are written live, in order
    Partition,   \* ledgers per table partition
    Filters,     \* filters the client uses: [source, contract, type], Unset for none
    Limit,       \* rows per page
    MaxCopies, MaxRequests  \* bounds

Unset == "any"
None == 0  \* no head, no tag
Overfetch == 4

Sequence == 1..Len(Chain)
Position == UNION {{<<l, a>> : a \in 1..Len(Chain[l])} : l \in Sequence}
Tx(p) == Chain[p[1]][p[2]]

VARIABLES
    transactions,          \* copies of the rows of each ledger
    operations, activity,  \* ledgers whose index rows are visible
    ledgers,               \* ledger rows
    req,                   \* the request under way
    page,                  \* the page the client shows
    came,                  \* the page it followed `next` from, when it did so last
    walk,                  \* a walk from a first page by `next` alone
    count

store == <<transactions, operations, activity, ledgers>>
client == <<req, page, came, walk, count>>
txListVars == <<store, client>>

HeadOf(s) == IF s = {} THEN None ELSE CHOOSE l \in s : \A k \in s : k <= l
PartitionOf(l) == l \div Partition

NoFilter == [source |-> Unset, contract |-> Unset, type |-> Unset]
NoPage == [rows |-> <<>>, next |-> NoCursor, prev |-> NoCursor, filter |-> NoFilter,
           tag |-> None, head |-> None, first |-> FALSE]
NoRequest == [pc |-> "none", filter |-> NoFilter, cursor |-> NoCursor, dir |-> "next",
              head |-> None, found |-> <<>>, due |-> {}]
NoWalk == [going |-> FALSE, due |-> {}, seen |-> <<>>]

TxListInit ==
    /\ transactions = [l \in Sequence |-> IF l \in Indexed THEN 1 ELSE 0]
    /\ operations = Indexed /\ activity = Indexed /\ ledgers = Indexed
    /\ req = NoRequest /\ page = NoPage /\ came = NoPage /\ walk = NoWalk
    /\ count = 0

-----------------------------------------------------------------------------
(* The writer: the rows of a ledger, then its ledger row.                  *)

Writable(l) ==
    /\ l \notin ledgers
    /\ l \in Backfilled \/ \A k \in Sequence \ Backfilled : k < l => k \in ledgers

LandTransactions(l) ==
    /\ Writable(l) /\ transactions[l] < MaxCopies
    /\ transactions' = [transactions EXCEPT ![l] = @ + 1]
    /\ UNCHANGED <<operations, activity, ledgers, client>>

LandIndexes(l) ==
    /\ Writable(l)
    /\ \/ l \notin operations /\ operations' = operations \cup {l} /\ activity' = activity
       \/ l \notin activity /\ activity' = activity \cup {l} /\ operations' = operations
    /\ UNCHANGED <<transactions, ledgers, client>>

LandLedger(l) ==
    /\ Writable(l) /\ transactions[l] > 0 /\ l \in operations \cap activity
    /\ ledgers' = ledgers \cup {l}
    /\ UNCHANGED <<transactions, operations, activity, client>>

MergeCopies(l) ==
    /\ transactions[l] > 1
    /\ transactions' = [transactions EXCEPT ![l] = 1]
    /\ UNCHANGED <<operations, activity, ledgers, client>>

-----------------------------------------------------------------------------
(* The statements.  `head` is the probed one, or None: then the query      *)
(* takes the head itself.                                                  *)

Statement(f) == CASE f.contract # Unset -> "B" [] f.type # Unset -> "C" [] OTHER -> "A"

FromSource(f, p) == f.source \in {Unset, Tx(p).source}
OfType(f, p) == f.type = Unset \/ f.type \in Tx(p).types
OfContract(f, p) == f.contract = Unset \/ f.contract \in Tx(p).contracts
Matches(f, p) == FromSource(f, p) /\ OfType(f, p) /\ OfContract(f, p)

HeadMax(head) == IF head = None THEN HeadOf(ledgers) ELSE head

\* The one partition statements A and C read: the cursor's, or the head's.
InReach(f, cursor, head, p) ==
    /\ p[1] <= HeadMax(head)
    /\ \/ Statement(f) = "B"
       \/ PartitionOf(p[1]) = PartitionOf(IF cursor = NoCursor THEN HeadMax(head) ELSE cursor[1])

\* Statement A reads `transactions` as stored: a second copy is a row.
WithCopies(s) == FlattenSeq([i \in DOMAIN s |-> [c \in 1..transactions[s[i][1]] |-> s[i]]])

TransactionRows(f, cursor, dir, head) ==
    LET rows == {p \in Position : transactions[p[1]] > 0 /\ InReach(f, cursor, head, p) /\ FromSource(f, p)}
        down == FetchesDown("desc", dir)
    IN  Take(WithCopies(InOrder(Past(rows, cursor, down), down)), FetchLimit(Limit))

ContractPositions(f, cursor, dir, head) ==
    Scan({p \in Position : p[1] \in activity /\ InReach(f, cursor, head, p) /\ OfContract(f, p)},
         cursor, "desc", dir, Limit * Overfetch)

OpTypePositions(f, cursor, dir, head) ==
    Scan({p \in Position : p[1] \in operations /\ InReach(f, cursor, head, p) /\ OfType(f, p)},
         cursor, "desc", dir, Limit * Overfetch)

Found(f, cursor, dir, head) ==
    CASE Statement(f) = "A" -> TransactionRows(f, cursor, dir, head)
      [] Statement(f) = "B" -> ContractPositions(f, cursor, dir, head)
      [] Statement(f) = "C" -> OpTypePositions(f, cursor, dir, head)

\* Statements B and C filter what they found, and only then cut to the page.
PageAtPositions(f, found, dir) ==
    Scan({p \in ToSet(found) : /\ transactions[p[1]] > 0 /\ FromSource(f, p)
                               /\ f.type # Unset => p[1] \in operations /\ OfType(f, p)},
         NoCursor, "desc", dir, FetchLimit(Limit))

\* A row without its ledger row is dropped, then the copies of a row.
ListRows(f, found, dir) ==
    LET raw == IF Statement(f) = "A" THEN found ELSE PageAtPositions(f, found, dir)
    IN  InOrder({p \in ToSet(raw) : p[1] \in ledgers}, FetchesDown("desc", dir))

PageFor(f, found, cursor, dir) ==
    FinalizePage(ListRows(f, found, dir), Limit, dir, cursor # NoCursor)

-----------------------------------------------------------------------------
(* The client.                                                             *)

Ask(f, cursor, dir, head) ==
    /\ count < MaxRequests /\ count' = count + 1
    /\ req' = [NoRequest EXCEPT !.pc = "scan", !.filter = f, !.cursor = cursor, !.dir = dir, !.head = head]
    /\ UNCHANGED <<store, page, came, walk>>

\* A first page: the head is probed, and a probe that fails is passed over.
FirstPage(f) ==
    /\ req = NoRequest
    /\ \E head \in {None, HeadOf(ledgers)} : Ask(f, NoCursor, "next", head)

FollowCursor(dir) ==
    /\ req = NoRequest /\ Onward(page, dir) # NoCursor
    /\ Ask(page.filter, Onward(page, dir), dir, None)

\* A poll of the first page sends its tag back.
Satisfied(tag) == tag # None /\ tag = HeadOf(ledgers)

NotModified ==
    /\ req = NoRequest /\ page.first /\ count < MaxRequests /\ count' = count + 1
    /\ Satisfied(page.tag)
    /\ UNCHANGED <<store, req, page, came, walk>>

Poll ==
    /\ req = NoRequest /\ page.first /\ page.tag # None
    /\ ~Satisfied(page.tag) /\ Ask(page.filter, NoCursor, "next", HeadOf(ledgers))

\* Rows that are whole in the store, and that the request reaches.
Due(f, cursor, dir, head) ==
    Past({p \in Position : p[1] \in ledgers /\ InReach(f, cursor, head, p) /\ Matches(f, p)},
         cursor, FetchesDown("desc", dir))

ScanStore ==
    /\ req.pc = "scan"
    /\ req' = [req EXCEPT !.pc = "page",
                          !.found = Found(req.filter, req.cursor, req.dir, req.head),
                          !.due = Due(req.filter, req.cursor, req.dir, req.head)]
    /\ UNCHANGED <<store, page, came, walk, count>>

\* The tag names the newest row of the body, or the probed head of an empty one.
TagFor(rows, head) == IF head = None THEN None ELSE IF rows = <<>> THEN head ELSE Head(rows)[1]

Respond ==
    LET first == req.cursor = NoCursor
        new == PageFor(req.filter, req.found, req.cursor, req.dir)
    IN  /\ req.pc = "page"
        /\ page' = [rows |-> new.rows, next |-> new.next, prev |-> new.prev, filter |-> req.filter,
                    tag |-> IF first THEN TagFor(new.rows, req.head) ELSE None,
                    head |-> req.head, first |-> first]
        /\ came' = IF ~first /\ req.dir = "next" THEN page ELSE NoPage
        /\ walk' = IF first THEN [going |-> TRUE, due |-> req.due, seen |-> new.rows]
                   ELSE IF req.dir = "next" /\ walk.going THEN [walk EXCEPT !.seen = @ \o new.rows]
                   ELSE NoWalk
        /\ req' = NoRequest
        /\ UNCHANGED <<store, count>>

TxListNext ==
    \/ \E l \in Sequence : LandTransactions(l) \/ LandIndexes(l) \/ LandLedger(l) \/ MergeCopies(l)
    \/ \E f \in Filters : FirstPage(f)
    \/ \E dir \in Directions : FollowCursor(dir)
    \/ NotModified \/ Poll \/ ScanStore \/ Respond

TxListSpec == TxListInit /\ [][TxListNext]_txListVars

-----------------------------------------------------------------------------

TxListTypeOK ==
    /\ transactions \in [Sequence -> 0..MaxCopies]
    /\ {operations, activity, ledgers} \subseteq SUBSET Sequence
    /\ req.pc \in {"none", "scan", "page"} /\ ToSet(req.found) \cup req.due \subseteq Position
    /\ ToSet(page.rows) \subseteq Position /\ Len(page.rows) <= Limit
    /\ page.tag \in Sequence \cup {None}
    /\ ToSet(walk.seen) \subseteq Position /\ count \in 0..MaxRequests

\* A page leaves out no row between the cursor it was asked with and its far
\* end, and it ends the list only when no row is left: fetch_list with
\* finalize_page, whatever ledgers land between the request's reads.
DensePage == Respond => Dense(page', req.due, req.dir, FetchesDown("desc", req.dir))

\* A client that starts at a first page and follows `next` to the end has
\* seen every row the first page could reach, once each, newest first, while
\* new ledgers kept coming.
WalkSeesAll ==
    /\ walk.going /\ page.next = NoCursor => walk.due \subseteq ToSet(walk.seen)
    /\ \A i, j \in DOMAIN walk.seen : i < j => Less(walk.seen[j], walk.seen[i])

\* `prev` right after `next` gives the page the client came from.
SamePage == Respond /\ req.dir = "prev" /\ came # NoPage => page'.rows = came.rows

\* A 304 is only given for a body that a 200 would repeat.
NotModifiedIsTrue ==
    page.first /\ Satisfied(page.tag) =>
        LET found == Found(page.filter, NoCursor, "next", HeadOf(ledgers))
            fresh == PageFor(page.filter, found, NoCursor, "next")
        IN  <<fresh.rows, fresh.next>> = <<page.rows, page.next>>

\* Until a ledger lands, a poll of a tagged page is answered by the probe.
IdlePollIsCheap ==
    page.first /\ page.tag # None /\ page.head = HeadOf(ledgers) => Satisfied(page.tag)

=============================================================================
