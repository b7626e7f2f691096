---------------------------- MODULE PoolActivity ----------------------------
(***************************************************************************)
(* What moved through a pool, page by page                                 *)
(* (api/liquidity_pools/queries/list_{,soroban_}pool_activity.rs).  A      *)
(* stored row is one leg of a movement; a request reads leg rows in        *)
(* rounds, pairs them into movements, keeps those of the event it asks     *)
(* for, and joins the page with its transactions.                          *)
(*                                                                         *)
(* A round may end in the middle of a movement, and rows may have copies   *)
(* that a merge removes between two rounds.  A classic pool is read by a   *)
(* number of rows that doubles; a soroban pool by spans of ledgers that    *)
(* double, each of them by a number of rows.                               *)
(***************************************************************************)
EXTENDS Keyset, Integers, Functions

CONSTANTS
    Kind,        \* "classic" or "soroban"
    Movements,   \* [key, amounts, declared]: amounts by leg, of those stored
    Legs,        \* legs of the pool
    Height, Indexed, Backfilled,  \* ledgers, as in EntityPages
    Again,       \* ledgers that may be stored again
    Filters,     \* the events asked for; Every asks for all of them
    Window, Span, \* rows and ledgers of a first round
    Limit, MaxCopies, MaxRequests  \* bounds

Every == "every"
Sequence == 1..Height
LedgerOf(k) == k[1]
Keys == {m.key : m \in Movements}
At(k) == CHOOSE m \in Movements : m.key = k

VARIABLES
    copies,        \* copies of the rows of each ledger
    transactions,  \* ledgers whose transactions are visible
    ledgers,       \* ledger rows
    req, page, came, walk, count

store == <<copies, transactions, ledgers>>
activityVars == <<store, req, page, came, walk, count>>

HeadOf(s) == IF s = {} THEN 0 ELSE CHOOSE l \in s : \A k \in s : k <= l

NoRequest == [pc |-> "none", filter |-> Every, cursor |-> NoCursor, dir |-> "next", after |-> NoCursor,
              window |-> Window, span |-> Span, lo |-> 0, hi |-> 0, tip |-> 0,
              rows |-> <<>>, got |-> <<>>, due |-> {}]
NoPage == [rows |-> <<>>, next |-> NoCursor, prev |-> NoCursor, filter |-> Every, legs |-> <<>>]
NoWalk == [going |-> FALSE, due |-> {}, seen |-> <<>>]

ActivityInit ==
    /\ copies = [l \in Sequence |-> IF l \in Indexed THEN 1 ELSE 0]
    /\ transactions = Indexed /\ ledgers = Indexed
    /\ req = NoRequest /\ page = NoPage /\ came = NoPage /\ walk = NoWalk /\ count = 0

-----------------------------------------------------------------------------
(* The writers: the tables of a ledger become visible one by one, its      *)
(* ledger row last.  The live indexer goes in order.                       *)

MayLand(l) == l \in Backfilled \/ \A k \in Sequence \ Backfilled : k < l => k \in ledgers

LandRows(l) ==
    /\ MayLand(l) /\ copies[l] < IF l \in Again THEN MaxCopies ELSE 1
    /\ copies' = [copies EXCEPT ![l] = @ + 1]
    /\ UNCHANGED <<transactions, ledgers, req, page, came, walk, count>>

LandTransactions(l) ==
    /\ MayLand(l) /\ l \notin transactions
    /\ transactions' = transactions \cup {l}
    /\ UNCHANGED <<copies, ledgers, req, page, came, walk, count>>

LandLedger(l) ==
    /\ copies[l] > 0 /\ l \in transactions /\ l \notin ledgers
    /\ ledgers' = ledgers \cup {l}
    /\ UNCHANGED <<copies, transactions, req, page, came, walk, count>>

MergeCopies(l) ==
    /\ copies[l] > 1 /\ copies' = [copies EXCEPT ![l] = 1]
    /\ UNCHANGED <<transactions, ledgers, req, page, came, walk, count>>

-----------------------------------------------------------------------------
(* Movements from leg rows.                                                *)

FromSigns(amounts) ==
    CASE \A i \in DOMAIN amounts : amounts[i] > 0 -> "deposit"
      [] \A i \in DOMAIN amounts : amounts[i] < 0 -> "withdrawal"
      [] OTHER                                    -> "trade"

\* A classic movement is named by its signs, once every leg is there; a
\* soroban one by what the pool declared.
EventOf(k, legs) ==
    CASE Kind = "soroban" -> At(k).declared
      [] legs = Legs      -> FromSigns(At(k).amounts)
      [] OTHER            -> "none"

Matches(filter, event) == filter = Every \/ filter = event

\* Mutant of PairLegs: the last movement is kept, however the read ended.
PairLegsAll(rows, truncated) ==
    LET keys == FoldLeft(LAMBDA s, r : IF s # <<>> /\ Last(s) = r.key THEN s ELSE Append(s, r.key), <<>>, rows)
    IN  [i \in DOMAIN keys |->
            [key |-> keys[i], legs |-> {r.leg : r \in {x \in ToSet(rows) : x.key = keys[i]}}]]

\* Adjacent rows of a key make a movement; the last one of a read that was
\* cut off may lack legs, and is read again.
PairLegs(rows, truncated) ==
    LET keys  == FoldLeft(LAMBDA s, r : IF s # <<>> /\ Last(s) = r.key THEN s ELSE Append(s, r.key), <<>>, rows)
        whole == IF truncated THEN Take(keys, Len(keys) - 1) ELSE keys
    IN  [i \in DOMAIN whole |->
            [key |-> whole[i], legs |-> {r.leg : r \in {x \in ToSet(rows) : x.key = whole[i]}}]]

\* The stored rows of the keys in the order of the fetch, copies included.
\* The rows of a movement come in any order: only those of the last one can
\* be cut, and that one is dropped.
StoredRows(keys, down) ==
    FlattenSeq([i \in 1..Cardinality(keys) |->
        LET k == InOrder(keys, down)[i]
        IN  FlattenSeq([c \in 1..copies[LedgerOf(k)] |->
                SelectSeq([leg \in 1..Cardinality(Legs) |-> [key |-> k, leg |-> leg]],
                          LAMBDA r : r.leg \in DOMAIN At(k).amounts)])])

Down(dir) == FetchesDown("desc", dir)

\* The rows of one round: past the last whole movement, below the fence.
RoundRows(keys) == Take(StoredRows(Past(keys, req.after, Down(req.dir)), Down(req.dir)), req.window)

Stored == {k \in Keys : copies[LedgerOf(k)] > 0}

Lesser(a, b) == IF a < b THEN a ELSE b

\* Mutant of Grown: every round reads as much.
GrownNot(n) == n

\* A round that does not suffice is followed by one twice as large.
Grown(n) == 2 * n

NextSpan(r) ==
    LET span == Grown(r.span)
    IN  IF Down(r.dir) THEN [r EXCEPT !.span = span, !.hi = r.lo, !.lo = r.lo - span]
        ELSE [r EXCEPT !.span = span, !.lo = r.hi, !.hi = Lesser(r.hi + span, r.tip)]

-----------------------------------------------------------------------------
(* A request.                                                              *)

Due(filter, cursor, dir) ==
    Past({k \in Keys : LedgerOf(k) \in ledgers /\ Matches(filter, EventOf(k, DOMAIN At(k).amounts))},
         cursor, Down(dir))

Ask(filter, cursor, dir) ==
    /\ req = NoRequest /\ count < MaxRequests /\ count' = count + 1
    /\ req' = [NoRequest EXCEPT !.pc = IF Kind = "classic" THEN "window" ELSE "tip", !.filter = filter,
                                !.cursor = cursor, !.dir = dir, !.after = cursor,
                                !.due = Due(filter, cursor, dir)]
    /\ UNCHANGED <<store, page, came, walk>>

FirstPage(filter) == Ask(filter, NoCursor, "next")
FollowCursor(dir) == Onward(page, dir) # NoCursor /\ Ask(page.filter, Onward(page, dir), dir)

\* What a round leaves: the movements kept, and where the next one resumes.
Kept(batch) ==
    IF Kind = "soroban" THEN batch
    ELSE SelectSeq(batch, LAMBDA m : Matches(req.filter, EventOf(m.key, m.legs)))

\* Mutant of Resume: past the movement that was cut.
ResumeAtLastRow(batch) == IF req.rows = <<>> THEN req.after ELSE Last(req.rows).key

Resume(batch) == IF batch = <<>> THEN req.after ELSE Last(batch).key

Read(keys) ==
    /\ req' = [req EXCEPT !.pc = "rows", !.rows = RoundRows(keys)]
    /\ UNCHANGED <<store, page, came, walk, count>>

ReadWindow ==
    req.pc = "window" /\ Read({k \in Stored : LedgerOf(k) <= HeadOf(ledgers)})

PairWindow ==
    /\ req.pc = "rows" /\ Kind = "classic"
    /\ LET exhausted == Len(req.rows) < req.window
           batch     == PairLegs(req.rows, ~exhausted)
           got       == req.got \o Kept(batch)
       IN  req' = [req EXCEPT !.after = Resume(batch), !.got = got, !.window = Grown(req.window),
                              !.rows = <<>>,
                              !.pc = IF exhausted \/ Len(got) >= FetchLimit(Limit) THEN "enrich"
                                     ELSE "window"]
    /\ UNCHANGED <<store, page, came, walk, count>>

\* The fence of a soroban pool is read once, and the first span ends at it
\* or at the cursor.
ReadTip ==
    /\ req.pc = "tip"
    /\ LET tip == HeadOf(ledgers)
           at  == IF req.cursor = NoCursor THEN tip ELSE LedgerOf(req.cursor)
       IN  req' = [req EXCEPT !.pc = "span", !.tip = tip,
                              !.lo = IF Down(req.dir) THEN at - Span ELSE at - 1,
                              !.hi = IF Down(req.dir) THEN Lesser(at, tip) ELSE Lesser(at - 1 + Span, tip)]
    /\ UNCHANGED <<store, page, came, walk, count>>

\* The filter is part of the statement: the event is stored.
ReadSpan ==
    /\ req.pc = "span"
    /\ Read({k \in Stored : /\ req.lo < LedgerOf(k) /\ LedgerOf(k) <= req.hi
                            /\ Matches(req.filter, At(k).declared)})

GroupSpan ==
    /\ req.pc = "rows" /\ Kind = "soroban"
    /\ LET truncated == Len(req.rows) >= req.window
           batch     == PairLegs(req.rows, truncated)
           got       == req.got \o batch
           on        == [req EXCEPT !.after = Resume(batch), !.got = got, !.rows = <<>>, !.pc = "span"]
       IN  req' = IF \/ Len(got) >= FetchLimit(Limit)
                     \/ ~truncated /\ IF Down(req.dir) THEN req.lo < 0 ELSE req.hi >= req.tip
                  THEN [on EXCEPT !.pc = "enrich"]
                  ELSE IF truncated THEN [on EXCEPT !.window = Grown(req.window)]
                  ELSE NextSpan(on)
    /\ UNCHANGED <<store, page, came, walk, count>>

HasHeader(k) == LedgerOf(k) \in transactions /\ LedgerOf(k) \in ledgers

\* A movement whose transaction is not there is dropped from the page.
Enrich ==
    /\ req.pc = "enrich"
    /\ LET shown == SelectSeq(Take(req.got, FetchLimit(Limit)), LAMBDA m : HasHeader(m.key))
           new   == FinalizePage([i \in DOMAIN shown |-> shown[i].key], Limit, req.dir, req.cursor # NoCursor)
           first == req.cursor = NoCursor
       IN  /\ page' = [rows |-> new.rows, next |-> new.next, prev |-> new.prev, filter |-> req.filter,
                       legs |-> [k \in ToSet(new.rows) |->
                                    (CHOOSE m \in ToSet(shown) : m.key = k).legs]]
           /\ came' = IF ~first /\ req.dir = "next" THEN page ELSE NoPage
           /\ walk' = IF first THEN [going |-> TRUE, due |-> req.due, seen |-> new.rows]
                      ELSE IF req.dir = "next" /\ walk.going THEN [walk EXCEPT !.seen = @ \o new.rows]
                      ELSE NoWalk
    /\ req' = NoRequest
    /\ UNCHANGED <<store, count>>

Reading == ReadWindow \/ PairWindow \/ ReadTip \/ ReadSpan \/ GroupSpan \/ Enrich

ActivityNext ==
    \/ \E l \in Sequence : LandRows(l) \/ LandTransactions(l) \/ LandLedger(l) \/ MergeCopies(l)
    \/ \E filter \in Filters : FirstPage(filter)
    \/ \E dir \in Directions : FollowCursor(dir)
    \/ Reading

\* The server goes on with a request it has begun.
ActivitySpec == ActivityInit /\ [][ActivityNext]_activityVars /\ WF_activityVars(Reading)

-----------------------------------------------------------------------------

ActivityTypeOK ==
    /\ copies \in [Sequence -> 0..MaxCopies] /\ {transactions, ledgers} \subseteq SUBSET Sequence
    /\ req.pc \in {"none", "window", "tip", "span", "rows", "enrich"}
    /\ {m.key : m \in ToSet(req.got)} \cup req.due \subseteq Keys
    /\ ToSet(page.rows) \subseteq Keys /\ Len(page.rows) <= Limit
    /\ count \in 0..MaxRequests

\* A movement that is shown has every leg that was stored for it: a round
\* that ends inside a movement reads it again (pair_legs, group_movements).
WholeMovements == \A k \in DOMAIN page.legs : page.legs[k] = DOMAIN At(k).amounts

Answered == req.pc # "none" /\ req' = NoRequest

\* A page leaves out nothing of the event it was asked for, between its
\* cursor and its far end, whatever was merged or landed between its rounds.
DensePage == Answered => Dense(page', req.due, req.dir, Down(req.dir))

\* A client that follows `next` from a first page to the end has seen every
\* movement that was there at the start, once each, newest first.
WalkSeesAll ==
    /\ walk.going /\ page.next = NoCursor => walk.due \subseteq ToSet(walk.seen)
    /\ \A i, j \in DOMAIN walk.seen : i < j => Less(walk.seen[j], walk.seen[i])

\* `prev` right after `next` gives the page the client came from.
SamePage == Answered /\ req.dir = "prev" /\ came # NoPage => page'.rows = came.rows

\* A row of the seek always has its transaction (enrich_activity).
NoneDropped == req.pc = "enrich" => \A m \in ToSet(req.got) : HasHeader(m.key)

\* A request is answered: its rounds come to an end.
Answers == (req.pc # "none") ~> (req.pc = "none")

=============================================================================
