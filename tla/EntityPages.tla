---------------------------- MODULE EntityPages ----------------------------
(***************************************************************************)
(* The lists of one entity, each keyed on a position in the chain: the     *)
(* transactions of an account or an asset, the invocations and the events  *)
(* of a contract, the transfers of an NFT (api/accounts/queries.rs,        *)
(* api/assets/queries.rs, api/contracts/queries/list_{invocations,events}, *)
(* api/nfts/queries.rs).  One client reads one of them while ledgers land. *)
(*                                                                         *)
(* A page is a seek of the entity's rows and then a read of the headers of *)
(* their transactions, which need the ledger row; the events read a third  *)
(* time when a header is missing.  A ledger becomes visible table by       *)
(* table, the ledger row last.                                             *)
(***************************************************************************)
EXTENDS Keyset, Functions

CONSTANTS
    List,        \* "transactions", "invocations", "events" or "transfers"
    Rows,        \* the entity's rows: [key, tx, owner]; a key starts with its ledger
    Height,      \* the last ledger
    Indexed,     \* ledgers in the store from the start
    Backfilled,  \* ledgers a backfill writes; the others are written live, in order
    Lost,        \* indexed ledgers whose transactions are missing
    Sorts,       \* the orders the client asks for
    Limit, MaxCopies, MaxRequests  \* bounds

None == 0  \* no head, no owner

Sequence == 1..Height
LedgerOf(k) == k[1]
Keys == {r.key : r \in Rows}
RowAt(k) == CHOOSE r \in Rows : r.key = k

VARIABLES
    copies,        \* copies of the entity's rows of each ledger
    transactions,  \* ledgers whose transactions are visible
    ledgers,       \* ledger rows
    req,           \* the request under way
    page,          \* the page the client shows
    came,          \* the page it followed `next` from, when it did so last
    walk,          \* a walk from a first page by `next` alone
    count

store == <<copies, transactions, ledgers>>
client == <<req, page, came, walk, count>>
entityVars == <<store, client>>

HeadOf(s) == IF s = {} THEN None ELSE CHOOSE l \in s : \A k \in s : k <= l

NoRequest == [pc |-> "none", sort |-> "desc", cursor |-> NoCursor, dir |-> "next",
              keys |-> <<>>, missing |-> {}, due |-> {}]
NoPage == [rows |-> <<>>, next |-> NoCursor, prev |-> NoCursor, from |-> <<>>,
           sort |-> "desc", failed |-> {}]
NoWalk == [going |-> FALSE, due |-> {}, seen |-> <<>>]

EntityInit ==
    /\ copies = [l \in Sequence |-> IF l \in Indexed THEN 1 ELSE 0]
    /\ transactions = Indexed \ Lost /\ ledgers = Indexed
    /\ req = NoRequest /\ page = NoPage /\ came = NoPage /\ walk = NoWalk
    /\ count = 0

-----------------------------------------------------------------------------
(* The writers: the rows of a ledger, in any order, then its ledger row.   *)

Writable(l) ==
    /\ l \notin ledgers
    /\ l \in Backfilled \/ \A k \in Sequence \ Backfilled : k < l => k \in ledgers

LandRows(l) ==
    /\ Writable(l) /\ copies[l] < MaxCopies
    /\ copies' = [copies EXCEPT ![l] = @ + 1]
    /\ UNCHANGED <<transactions, ledgers, client>>

LandTransactions(l) ==
    /\ Writable(l) /\ l \notin transactions
    /\ transactions' = transactions \cup {l}
    /\ UNCHANGED <<copies, ledgers, client>>

LandLedger(l) ==
    /\ Writable(l) /\ copies[l] > 0 /\ l \in transactions
    /\ ledgers' = ledgers \cup {l}
    /\ UNCHANGED <<copies, transactions, client>>

MergeCopies(l) ==
    /\ copies[l] > 1
    /\ copies' = [copies EXCEPT ![l] = 1]
    /\ UNCHANGED <<transactions, ledgers, client>>

-----------------------------------------------------------------------------
(* The seek of the entity's rows.                                          *)

Visible == {k \in Keys : copies[LedgerOf(k)] > 0}

\* No row of a ledger above the newest ledger row; the transfers have no
\* such condition.
InReach(k) == List = "transfers" \/ LedgerOf(k) <= HeadOf(ledgers)

\* LIMIT 1 BY before LIMIT: a page of distinct keys.
DistinctKeys(cursor, sort, dir) ==
    Scan({k \in Visible : InReach(k)}, cursor, sort, dir, FetchLimit(Limit))

\* LIMIT in the subquery, LIMIT 1 BY around it: the copies count.
InvocationKeys(cursor, sort, dir) ==
    LET down   == FetchesDown(sort, dir)
        sorted == InOrder(Past({k \in Visible : InReach(k)}, cursor, down), down)
        stored == FlattenSeq([i \in DOMAIN sorted |-> [c \in 1..copies[LedgerOf(sorted[i])] |-> sorted[i]]])
    IN  InOrder(ToSet(Take(stored, FetchLimit(Limit))), down)

FetchKeys(cursor, sort, dir) ==
    IF List = "invocations" THEN InvocationKeys(cursor, sort, dir) ELSE DistinctKeys(cursor, sort, dir)

\* The transactions read: the header of a key, joined with its ledger row.
HasHeader(k) == LedgerOf(k) \in ledgers /\ (List = "transfers" \/ RowAt(k).tx \in transactions)

\* The rows of the ledgers that have landed.
Due(cursor, down) == Past({k \in Keys : LedgerOf(k) \in ledgers}, cursor, down)

-----------------------------------------------------------------------------
(* The previous owner of an NFT, as the window gives it.                   *)

\* The owner in the next older row of the fetch, whichever way it ran.
From(rows, down) ==
    [i \in DOMAIN rows |->
        LET older == IF down THEN i + 1 ELSE i - 1
        IN  IF older \in DOMAIN rows THEN RowAt(rows[older]).owner ELSE None]

\* What each row of a page shows, by its key.
FromByKey(rows, down, shown) ==
    [k \in ToSet(shown) |-> From(rows, down)[CHOOSE i \in DOMAIN rows : rows[i] = k]]

-----------------------------------------------------------------------------
(* The client.                                                             *)

Ask(sort, cursor, dir) ==
    /\ req = NoRequest /\ count < MaxRequests /\ count' = count + 1
    /\ req' = [NoRequest EXCEPT !.pc = "keys", !.sort = sort, !.cursor = cursor, !.dir = dir]
    /\ UNCHANGED <<store, page, came, walk>>

FirstPage(sort) == Ask(sort, NoCursor, "next")

FollowCursor(dir) == Onward(page, dir) # NoCursor /\ Ask(page.sort, Onward(page, dir), dir)

\* A page of the keys that have their header; `failed` holds the ledgers
\* for which the request fails instead.
Answer(keys, due, failed) ==
    LET down == FetchesDown(req.sort, req.dir)
        rows == SelectSeq(keys, HasHeader)
        new  == FinalizePage(rows, Limit, req.dir, req.cursor # NoCursor)
        first == req.cursor = NoCursor
    IN  /\ page' = IF failed # {} THEN [page EXCEPT !.failed = failed]
                   ELSE [rows |-> new.rows, next |-> new.next, prev |-> new.prev,
                         from |-> IF List = "transfers" THEN FromByKey(rows, down, new.rows) ELSE <<>>,
                         sort |-> req.sort, failed |-> {}]
        /\ came' = IF failed # {} THEN came ELSE IF ~first /\ req.dir = "next" THEN page ELSE NoPage
        /\ walk' = IF failed # {} THEN walk
                   ELSE IF first THEN [going |-> TRUE, due |-> due, seen |-> new.rows]
                   ELSE IF req.dir = "next" /\ walk.going THEN [walk EXCEPT !.seen = @ \o new.rows]
                   ELSE NoWalk
        /\ req' = NoRequest
        /\ UNCHANGED <<store, count>>

\* fetch_transfers: the seek and the joins are one statement.
FetchTransfers ==
    /\ req.pc = "keys" /\ List = "transfers"
    /\ Answer(FetchKeys(req.cursor, req.sort, req.dir), Due(req.cursor, FetchesDown(req.sort, req.dir)), {})

SeekKeys ==
    /\ req.pc = "keys" /\ List # "transfers"
    /\ req' = [req EXCEPT !.pc = "headers", !.keys = FetchKeys(req.cursor, req.sort, req.dir),
                          !.due = Due(req.cursor, FetchesDown(req.sort, req.dir))]
    /\ UNCHANGED <<store, page, came, walk, count>>

Missing == {k \in ToSet(req.keys) : ~HasHeader(k)}

\* A key without a header is passed over; the events ask once more.
ReadHeaders ==
    /\ req.pc = "headers"
    /\ IF List = "events" /\ Missing # {}
       THEN /\ req' = [req EXCEPT !.pc = "landed", !.missing = Missing,
                                  !.keys = SelectSeq(req.keys, HasHeader)]
            /\ UNCHANGED <<store, page, came, walk, count>>
       ELSE Answer(req.keys, req.due, {})

\* The missing rows whose ledger row is there: the page fails for them.
Broken(missing) == {k \in missing : LedgerOf(k) \in ledgers}

CheckLanded ==
    /\ req.pc = "landed"
    /\ Answer(req.keys, req.due, Broken(req.missing))

EntityNext ==
    \/ \E l \in Sequence : LandRows(l) \/ LandTransactions(l) \/ LandLedger(l) \/ MergeCopies(l)
    \/ \E sort \in Sorts : FirstPage(sort)
    \/ \E dir \in Directions : FollowCursor(dir)
    \/ FetchTransfers \/ SeekKeys \/ ReadHeaders \/ CheckLanded

EntitySpec == EntityInit /\ [][EntityNext]_entityVars

-----------------------------------------------------------------------------

EntityTypeOK ==
    /\ copies \in [Sequence -> 0..MaxCopies]
    /\ {transactions, ledgers} \subseteq SUBSET Sequence
    /\ req.pc \in {"none", "keys", "headers", "landed"}
    /\ ToSet(req.keys) \cup req.missing \cup req.due \subseteq Keys
    /\ ToSet(page.rows) \subseteq Keys /\ Len(page.rows) <= Limit
    /\ ToSet(walk.seen) \subseteq Keys /\ count \in 0..MaxRequests

Answered == req.pc # "none" /\ req' = NoRequest /\ page'.failed = {}

\* A page leaves out no row of a ledger that had landed, between its cursor
\* and its far end, and it ends the list only when none is left: the seek,
\* the header reads and finalize_page, whatever lands between them.
DensePage ==
    Answered => LET down == FetchesDown(req.sort, req.dir)
                    due  == IF List = "transfers" THEN Due(req.cursor, down) ELSE req.due
                IN  Dense(page', due, req.dir, down)

\* A client that follows `next` from a first page to the end has seen every
\* row of the ledgers there at the start, once each and in the order it asked for.
WalkSeesAll ==
    /\ walk.going /\ page.next = NoCursor => walk.due \subseteq ToSet(walk.seen)
    /\ \A i, j \in DOMAIN walk.seen : i < j =>
           IF page.sort = "desc" THEN Less(walk.seen[j], walk.seen[i]) ELSE Less(walk.seen[i], walk.seen[j])

\* `prev` right after `next` gives the page the client came from.
SamePage == Answered /\ req.dir = "prev" /\ came # NoPage => page'.rows = came.rows

\* Only a ledger that lacks its transactions fails a page of events.
NoFalseAlarm == \A k \in page.failed : LedgerOf(k) \in Lost

\* The row before a transfer, of those that have landed.
Older(k) == {j \in Keys : LedgerOf(j) \in ledgers /\ Less(j, k)}
PreviousOwner(k) ==
    IF Older(k) = {} THEN None ELSE RowAt(CHOOSE j \in Older(k) : \A i \in Older(k) : ~Less(j, i)).owner

\* A transfer shows the previous owner or none, never somebody else.
FromIsNeverWrong == \A k \in DOMAIN page.from : page.from[k] \in {None, PreviousOwner(k)}

\* A transfer shows no previous owner on the mint row only.
FromIsPreviousOwner == \A k \in DOMAIN page.from : page.from[k] = PreviousOwner(k)

=============================================================================
