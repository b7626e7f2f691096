------------------------------- MODULE Keyset -------------------------------
(***************************************************************************)
(* Keyset pagination, as every list endpoint of the API uses it            *)
(* (api/common/{cursor,extractors,pagination}.rs).  A key is a tuple of    *)
(* numbers compared from the left; a cursor is the key of a row the client *)
(* has seen, together with the direction to walk.                          *)
(***************************************************************************)
EXTENDS Naturals, Sequences, FiniteSets, SequencesExt

Directions == {"next", "prev"}
SortOrders == {"asc", "desc"}

\* The cursor of a request without one.
NoCursor == <<>>

\* The order of the keys: the tuple comparison of the SQL.
Less(p, q) ==
    \E i \in DOMAIN p : p[i] < q[i] /\ \A j \in 1..(i - 1) : p[j] = q[j]

\* Whether a fetch reads from the greatest key down.
FetchesDown(sort, dir) == (sort = "desc") = (dir = "next")

\* The keys strictly past the cursor, in the order of the fetch.
Past(keys, cursor, down) ==
    {k \in keys : cursor = NoCursor \/ IF down THEN Less(k, cursor) ELSE Less(cursor, k)}

InOrder(keys, down) ==
    SetToSortSeq(keys, LAMBDA p, q : IF down THEN Less(q, p) ELSE Less(p, q))

Take(s, n) == SubSeq(s, 1, IF n < Len(s) THEN n ELSE Len(s))

Scan(keys, cursor, sort, dir, n) ==
    LET down == FetchesDown(sort, dir) IN Take(InOrder(Past(keys, cursor, down), down), n)

\* Mutant of FetchLimit: no row is peeked at.
FetchLimitNoPeek(limit) == limit

\* The extra row that tells whether a page follows.
FetchLimit(limit) == limit + 1

\* The page of the rows shown, with its two cursors.
Page(shown, goesOn, goesBack) ==
    [rows |-> shown,
     next |-> IF goesOn /\ shown # <<>> THEN Last(shown) ELSE NoCursor,
     prev |-> IF goesBack /\ shown # <<>> THEN Head(shown) ELSE NoCursor]

\* Mutant of FinalizePage: the peeked row is shown too.
FinalizePageUntrimmed(rows, limit, dir, has_predecessor) ==
    LET excess == Len(rows) > limit
    IN  IF dir = "next" THEN Page(rows, excess, has_predecessor) ELSE Page(Reverse(rows), TRUE, excess)

\* A page has a next one when a row is left, and always after a walk back;
\* it has a previous one when the request had a cursor, or a row is left.
FinalizePage(rows, limit, dir, has_predecessor) ==
    LET excess == Len(rows) > limit
        kept   == Take(rows, limit)
    IN  IF dir = "next" THEN Page(kept, excess, has_predecessor) ELSE Page(Reverse(kept), TRUE, excess)

\* The cursor the client walks on with in a direction.
Onward(page, dir) == IF dir = "next" THEN page.next ELSE page.prev

(***************************************************************************)
(* A page is dense over the rows that were due past its cursor: it shows   *)
(* all of them up to its far end, and all of them when it offers no cursor *)
(* to walk on with.                                                        *)
(***************************************************************************)
Dense(page, due, dir, down) ==
    LET shown == ToSet(page.rows)
        far   == IF dir = "next" THEN Last(page.rows) ELSE Head(page.rows)
    IN  \A k \in due :
            k \in shown \/ /\ Onward(page, dir) # NoCursor
                           /\ IF down THEN Less(k, far) ELSE Less(far, k)

=============================================================================
