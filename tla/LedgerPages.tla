----------------------------- MODULE LedgerPages -----------------------------
(***************************************************************************)
(* GET /v1/ledgers and /v1/ledgers/:sequence (api/ledgers/{handlers,       *)
(* queries}.rs), read by one client while the indexer adds ledgers.        *)
(*                                                                         *)
(* The list reads `ledgers` as stored, copies and all: it over-fetches,    *)
(* collapses the copies and cuts to the page; the counts of successful     *)
(* transactions are a second read, and a page goes out without them when   *)
(* that fails.  The detail reads header and transactions at the same time  *)
(* and is cached long once a later ledger exists.                          *)
(***************************************************************************)
EXTENDS Keyset

CONSTANTS
    LastLedger,  \* the network's ledgers are 1..LastLedger
    Indexed,     \* the first so many are stored from the start
    TxCount,     \* transactions in each ledger
    Limit,       \* rows per page
    MaxCopies, MaxRequests, MaxFaults  \* bounds

LEDGER_OVERFETCH == 3
None == 0
Sequence == 1..LastLedger

VARIABLES
    copies,        \* rows of each ledger in `ledgers`
    transactions,  \* ledgers whose transactions are visible
    req,           \* the list request under way
    page,          \* the page the client shows
    walk,          \* a walk by `next` alone: [sort, due, seen]
    sent,          \* the first body sent under each tag
    detail,        \* the detail request under way
    kept,          \* details some cache holds for long
    count

listVars == <<req, page, walk, sent>>
detailVars == <<detail, kept>>
ledgerPagesVars == <<copies, transactions, listVars, detailVars, count>>

NoRequest == [pc |-> "none", sort |-> "desc", cursor |-> NoCursor, dir |-> "next",
              head |-> None, rows |-> <<>>, due |-> {}]
NoPage == [rows |-> <<>>, next |-> NoCursor, prev |-> NoCursor, counts |-> {}, sort |-> "desc",
           tag |-> None, first |-> FALSE]
NoWalk == [going |-> FALSE, due |-> {}, seen |-> <<>>]
NoDetail == [pc |-> "none", of |-> None, header |-> <<>>, txs |-> <<>>]

LedgerPagesInit ==
    /\ copies = [l \in Sequence |-> IF l <= Indexed THEN 1 ELSE 0]
    /\ transactions = 1..Indexed
    /\ req = NoRequest /\ page = NoPage /\ walk = NoWalk /\ sent = [l \in Sequence |-> NoPage]
    /\ detail = NoDetail /\ kept = {} /\ count = [requests |-> 0, faults |-> 0]

Stored == {l \in Sequence : copies[l] > 0}
HeadNow == IF Stored = {} THEN None ELSE CHOOSE l \in Stored : \A k \in Stored : k <= l

-----------------------------------------------------------------------------
(* The writer: transactions, then the ledger row; a retry adds a copy.     *)

LandTransactions(l) ==
    /\ l = HeadNow + 1 /\ l \notin transactions
    /\ transactions' = transactions \cup {l}
    /\ UNCHANGED <<copies, listVars, detailVars, count>>

LandLedger(l) ==
    /\ l \in transactions /\ copies[l] < MaxCopies
    /\ copies' = [copies EXCEPT ![l] = @ + 1]
    /\ UNCHANGED <<transactions, listVars, detailVars, count>>

MergeCopies(l) ==
    /\ copies[l] > 1
    /\ copies' = [copies EXCEPT ![l] = 1]
    /\ UNCHANGED <<transactions, listVars, detailVars, count>>

-----------------------------------------------------------------------------
(* The list.                                                               *)

WithCopies(s) == FlattenSeq([i \in DOMAIN s |-> [c \in 1..copies[s[i][1]] |-> s[i]]])

dedup_consecutive(raw) ==
    LET firsts == {i \in DOMAIN raw : i = 1 \/ raw[i] # raw[i - 1]}
    IN  [n \in 1..Cardinality(firsts) |-> raw[CHOOSE i \in firsts : Cardinality({j \in firsts : j <= i}) = n]]

\* Three times the page is read, so that up to three copies fill it.
FetchedRows(cursor, sort, dir) ==
    LET down == FetchesDown(sort, dir)
        ordered == WithCopies(InOrder(Past({<<l>> : l \in Stored}, cursor, down), down))
    IN  Take(dedup_consecutive(Take(ordered, FetchLimit(Limit) * LEDGER_OVERFETCH)), FetchLimit(Limit))

Ask(sort, cursor, dir, head) ==
    /\ req = NoRequest /\ count.requests < MaxRequests
    /\ count' = [count EXCEPT !.requests = @ + 1]
    /\ req' = [NoRequest EXCEPT !.pc = "rows", !.sort = sort, !.cursor = cursor, !.dir = dir, !.head = head]
    /\ UNCHANGED <<copies, transactions, page, walk, sent, detailVars>>

\* Only the newest-first first page probes the head, to tag its response.
FirstPage(sort) ==
    \E head \in {None} \cup (IF sort = "desc" THEN {HeadNow} ELSE {}) : Ask(sort, NoCursor, "next", head)

FollowCursor(dir) == Onward(page, dir) # NoCursor /\ Ask(page.sort, Onward(page, dir), dir, None)

ReadRows ==
    /\ req.pc = "rows"
    /\ req' = [req EXCEPT !.pc = "counts", !.rows = FetchedRows(req.cursor, req.sort, req.dir),
                          !.due = Past({<<l>> : l \in Stored}, req.cursor, FetchesDown(req.sort, req.dir))]
    /\ UNCHANGED <<copies, transactions, page, walk, sent, detailVars, count>>

\* The ledgers a count comes back for: those with transactions.
fetch_successful_counts(rows) == {k \in ToSet(rows) : TxCount > 0 /\ k[1] \in transactions}

BodyHead(rows) == Head(rows)[1]

\* The page goes out, with the counts or without.
Respond ==
    \E failed \in BOOLEAN :
        LET new == FinalizePage(req.rows, Limit, req.dir, req.cursor # NoCursor)
            tag == IF req.head = None THEN None ELSE IF new.rows = <<>> THEN req.head ELSE BodyHead(new.rows)
            body == [rows |-> new.rows, next |-> new.next, prev |-> new.prev, sort |-> req.sort,
                     counts |-> IF failed THEN {} ELSE fetch_successful_counts(new.rows),
                     tag |-> tag, first |-> req.cursor = NoCursor]
        IN  /\ req.pc = "counts"
            /\ failed => count.faults < MaxFaults
            /\ count' = [count EXCEPT !.faults = @ + IF failed THEN 1 ELSE 0]
            /\ page' = body
            /\ walk' = IF req.cursor = NoCursor THEN [going |-> TRUE, due |-> req.due, seen |-> new.rows]
                       ELSE IF req.dir = "next" /\ walk.going THEN [walk EXCEPT !.seen = @ \o new.rows]
                       ELSE NoWalk
            /\ sent' = IF tag # None /\ sent[tag] = NoPage THEN [sent EXCEPT ![tag] = body] ELSE sent
            /\ req' = NoRequest
            /\ UNCHANGED <<copies, transactions, detailVars>>

-----------------------------------------------------------------------------
(* The detail: header and transactions are read side by side.              *)

NextOf(l) ==
    LET later == {k \in Stored : k > l}
    IN  IF later = {} THEN None ELSE CHOOSE k \in later : \A j \in later : k <= j

AskDetail(l) ==
    /\ detail = NoDetail /\ count.requests < MaxRequests
    /\ count' = [count EXCEPT !.requests = @ + 1]
    /\ detail' = [NoDetail EXCEPT !.pc = "reading", !.of = l]
    /\ UNCHANGED <<copies, transactions, listVars, kept>>

\* fetch_by_sequence: <<>> until it ran, then the next ledger, if any.
ReadHeader ==
    /\ detail.pc = "reading" /\ detail.header = <<>>
    /\ detail' = [detail EXCEPT !.header = <<[found |-> detail.of \in Stored, next |-> NextOf(detail.of)]>>]
    /\ UNCHANGED <<copies, transactions, listVars, kept, count>>

\* fetch_transactions joins the ledger row: no row, no transactions.
ReadTransactions ==
    /\ detail.pc = "reading" /\ detail.txs = <<>>
    /\ detail' = [detail EXCEPT !.txs = <<IF detail.of \in Stored \cap transactions THEN TxCount ELSE 0>>]
    /\ UNCHANGED <<copies, transactions, listVars, kept, count>>

\* Not found, short while the ledger is the head, long afterwards.
RespondDetail ==
    LET header == detail.header[1]
    IN  /\ detail.header # <<>> /\ detail.txs # <<>>
        /\ kept' = IF header.found /\ header.next # None
                   THEN kept \cup {[of |-> detail.of, next |-> header.next, txs |-> detail.txs[1]]} ELSE kept
        /\ detail' = NoDetail
        /\ UNCHANGED <<copies, transactions, listVars, count>>

LedgerPagesNext ==
    \/ \E l \in Sequence : LandTransactions(l) \/ LandLedger(l) \/ MergeCopies(l) \/ AskDetail(l)
    \/ \E sort \in SortOrders : FirstPage(sort)
    \/ \E dir \in Directions : FollowCursor(dir)
    \/ ReadRows \/ Respond \/ ReadHeader \/ ReadTransactions \/ RespondDetail

LedgerPagesSpec == LedgerPagesInit /\ [][LedgerPagesNext]_ledgerPagesVars

-----------------------------------------------------------------------------

LedgerPagesTypeOK ==
    /\ copies \in [Sequence -> 0..MaxCopies] /\ transactions \subseteq Sequence
    /\ Len(req.rows) <= FetchLimit(Limit) /\ Len(page.rows) <= Limit
    /\ page.tag \in Sequence \cup {None} /\ DOMAIN sent = Sequence

\* Unmerged copies or not, a page of the list leaves out no ledger between its
\* cursor and its far end, and ends the list only at its end.
DensePage == Respond => Dense(page', req.due, req.dir, FetchesDown(req.sort, req.dir))

\* The walk from a first page shows every ledger there was, once, in order.
WalkShowsLedgers ==
    /\ walk.going /\ page.next = NoCursor => walk.due \subseteq ToSet(walk.seen)
    /\ \A i, j \in DOMAIN walk.seen :
           i < j => IF page.sort = "desc" THEN Less(walk.seen[j], walk.seen[i]) ELSE Less(walk.seen[i], walk.seen[j])

\* The tag is strong: what is sent under one tag is sent under it every time.
SameTagSameBody == page.tag # None => page = sent[page.tag]

\* What is cached for long has the transactions of its ledger.
KeptIsWhole == \A k \in kept : k.txs = TxCount

\* What is cached for long links to the ledger that follows.
KeptIsLinked == \A k \in kept : k.next = k.of + 1

=============================================================================
