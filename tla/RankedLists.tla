---------------------------- MODULE RankedLists ----------------------------
(***************************************************************************)
(* The lists whose order moves while a client walks them: assets by their  *)
(* holders, pools by their last activity, accounts by the last ledger      *)
(* seen, the participants of a pool by their shares and NFTs by their mint *)
(* (api/assets/queries.rs, api/accounts/queries.rs, api/nfts/queries.rs,   *)
(* api/liquidity_pools/queries/list_{pools, participants}.rs); and         *)
(* contracts, by their id alone (api/contracts/queries.rs).  A cursor is a *)
(* rank and an id.                                                         *)
(*                                                                         *)
(* The ranks of assets, accounts and soroban pools are read from a copy    *)
(* that is rebuilt every two minutes; a page is a seek by rank and then a  *)
(* read of what its rows show, with the ranks moving in between.           *)
(***************************************************************************)
EXTENDS Keyset, Integers

CONSTANTS
    List,      \* "assets", "pools", "accounts", "participants", "contracts" or "nfts"
    Items,     \* the ids
    Classic,   \* pools whose own row carries their last activity
    Start,     \* [Items -> rank at the start]
    MaxRank,
    Overfetch, \* stored rows of an asset that the seek allows for
    Limit,
    MaxVersions, MaxMoves, MaxSwaps, MaxRequests  \* bounds

Unranked == -1  \* an asset without an aggregate

VARIABLES
    live,      \* the rank of each item
    copy,      \* the ranks of the rebuilt copy
    versions,  \* stored rows of each asset
    resolved,  \* items whose address is in `accounts`
    req, page,
    walk,      \* ids seen on a walk from a first page by `next` alone
    steady,    \* items whose rank has not moved since that first page
    count, moves, swaps

store == <<live, copy, versions, resolved>>
client == <<req, page, walk>>
rankedVars == <<store, client, steady, count, moves, swaps>>

NoRequest == [pc |-> "none", cursor |-> NoCursor, dir |-> "next", keys |-> <<>>]
NoPage == [rows |-> <<>>, next |-> NoCursor, prev |-> NoCursor]
NoWalk == [going |-> FALSE, seen |-> <<>>]

RankedInit ==
    /\ live = Start /\ copy = Start
    /\ versions = [i \in Items |-> 1] /\ resolved = Items
    /\ req = NoRequest /\ page = NoPage /\ walk = NoWalk
    /\ steady = {} /\ count = 0 /\ moves = 0 /\ swaps = 0

-----------------------------------------------------------------------------
(* The rank a list is read by.                                             *)

Later(a, b) == IF a < b THEN b ELSE a

\* A soroban pool's own row is its registration.
ActivityLedger(i) == IF i \in Classic THEN live[i] ELSE Later(Start[i], copy[i])

RankOf(i) ==
    CASE List \in {"assets", "accounts"} -> copy[i]
      [] List = "pools"                  -> ActivityLedger(i)
      [] List \in {"participants", "nfts"} -> live[i]
      [] List = "contracts"              -> 0

\* A participant has shares; a contract is listed once it is stored.
Listed == {i \in Items : List \in {"participants", "contracts"} => live[i] > 0}
Key(i) == <<RankOf(i), i>>

-----------------------------------------------------------------------------
(* What moves under the reader.                                            *)

\* Items that keep their key through a step.
Settle == steady' = {i \in steady : i \in Listed' /\ Key(i)' = Key(i)}

\* Ledgers of activity only rise, and a contract is stored once; holders and
\* shares go either way; the first mint of an NFT (0: none stored) is found,
\* and an earlier one by a backfill.
Move(i, r) ==
    /\ moves < MaxMoves /\ moves' = moves + 1
    /\ r # live[i]
    /\ List \in {"pools", "accounts", "contracts"} => r > live[i]
    /\ List = "nfts" => r > 0 /\ (live[i] = 0 \/ r < live[i])
    /\ live' = [live EXCEPT ![i] = r]
    /\ UNCHANGED <<copy, versions, resolved, client, count, swaps>>
    /\ Settle

\* The copy is computed anew and swapped in.
RefreshCopy ==
    /\ List \in {"assets", "pools", "accounts"} /\ copy # live /\ copy' = live
    /\ UNCHANGED <<live, versions, resolved, client, count, moves, swaps>>
    /\ Settle

\* An asset is stored again; ClickHouse merges the rows some time later.
StoreAgain(i) ==
    /\ List = "assets" /\ versions[i] < MaxVersions
    /\ versions' = [versions EXCEPT ![i] = @ + 1]
    /\ UNCHANGED <<live, copy, resolved, client, steady, count, moves, swaps>>

MergeVersions(i) ==
    /\ versions[i] > 1
    /\ versions' = [versions EXCEPT ![i] = 1]
    /\ UNCHANGED <<live, copy, resolved, client, steady, count, moves, swaps>>

\* A rebuild of `accounts` swaps a table in that lacks one of them.
SwapAccounts(i) ==
    /\ List \in {"accounts", "participants"} /\ swaps < MaxSwaps /\ swaps' = swaps + 1
    /\ resolved' = resolved \ {i}
    /\ UNCHANGED <<live, copy, versions, client, steady, count, moves>>

-----------------------------------------------------------------------------
(* The reads of a page.                                                    *)

\* The first of each run of equal keys, up to the page.
DedupConsecutive(raw, limit) ==
    LET firsts == {i \in DOMAIN raw : i > 1 => raw[i - 1] # raw[i]}
    IN  Take([j \in 1..Cardinality(firsts) |->
                 raw[CHOOSE i \in firsts : Cardinality({k \in firsts : k <= i}) = j]], limit)

\* The seek of the assets reads stored rows, more of them than it needs.
SeekAssets(cursor, dir) ==
    LET down   == FetchesDown("desc", dir)
        sorted == InOrder(Past({Key(i) : i \in Items}, cursor, down), down)
        stored == FlattenSeq([j \in DOMAIN sorted |-> [v \in 1..versions[sorted[j][2]] |-> sorted[j]]])
    IN  DedupConsecutive(Take(stored, FetchLimit(Limit) * Overfetch), FetchLimit(Limit))

SeekKeys(cursor, dir) ==
    IF List = "assets" THEN SeekAssets(cursor, dir)
    ELSE Scan({Key(i) : i \in Listed}, cursor, "desc", dir, FetchLimit(Limit))

\* The key a row's cursor carries: the rank it was selected by.
CursorKey(k) == k

-----------------------------------------------------------------------------
(* The client.                                                             *)

Ask(cursor, dir) ==
    /\ req = NoRequest /\ count < MaxRequests /\ count' = count + 1
    /\ req' = [NoRequest EXCEPT !.pc = "seek", !.cursor = cursor, !.dir = dir]
    /\ UNCHANGED <<store, page, walk, steady, moves, swaps>>

FirstPage == Ask(NoCursor, "next")

FollowCursor(dir) == Onward(page, dir) # NoCursor /\ Ask(Onward(page, dir), dir)

\* The rows of `keys` that are shown, as a page.
Answer(keys) ==
    LET rows  == [j \in DOMAIN keys |-> CursorKey(keys[j])]
        new   == FinalizePage(rows, Limit, req.dir, req.cursor # NoCursor)
        ids   == [j \in DOMAIN new.rows |-> new.rows[j][2]]
    IN  /\ page' = new
        /\ walk' = IF req.cursor = NoCursor THEN [going |-> TRUE, seen |-> ids]
                   ELSE IF req.dir = "next" /\ walk.going THEN [walk EXCEPT !.seen = @ \o ids]
                   ELSE NoWalk
        /\ req' = NoRequest
        /\ UNCHANGED <<store, count, moves, swaps>>

SteadyFrom == IF req.cursor = NoCursor THEN Listed ELSE steady

\* The seek and what the rows show are one statement.
InOneStatement(list) ==
    /\ req.pc = "seek" /\ List = list
    /\ steady' = SteadyFrom
    /\ Answer(SeekKeys(req.cursor, req.dir))

FetchPools == InOneStatement("pools")
FetchNfts == InOneStatement("nfts")

\* The counts, deployers and mirrored assets are read after the page: none of
\* them adds a row to it or takes one away.
FetchContracts == InOneStatement("contracts")

Seek ==
    /\ req.pc = "seek" /\ List \in {"assets", "accounts", "participants"}
    /\ req' = [req EXCEPT !.pc = "rows", !.keys = SeekKeys(req.cursor, req.dir)]
    /\ steady' = SteadyFrom
    /\ walk' = IF req.cursor = NoCursor THEN NoWalk ELSE walk
    /\ UNCHANGED <<store, page, count, moves, swaps>>

\* The columns of the assets, in the order of the seek: every key of it came
\* from `assets`, so none is missed.
HydrateAssets ==
    /\ req.pc = "rows" /\ List = "assets"
    /\ steady' = steady
    /\ Answer(req.keys)

\* The addresses of accounts and participants: a row without one is left out.
ReadRows ==
    /\ req.pc = "rows" /\ List # "assets"
    /\ steady' = steady
    /\ Answer(SelectSeq(req.keys, LAMBDA k : k[2] \in resolved))

RankedNext ==
    \/ \E i \in Items : \/ \E r \in 0..MaxRank : Move(i, r)
                        \/ StoreAgain(i) \/ MergeVersions(i) \/ SwapAccounts(i)
    \/ RefreshCopy
    \/ FirstPage \/ \E dir \in Directions : FollowCursor(dir)
    \/ FetchPools \/ FetchNfts \/ FetchContracts
    \/ Seek \/ HydrateAssets \/ ReadRows

RankedSpec == RankedInit /\ [][RankedNext]_rankedVars

-----------------------------------------------------------------------------

RankedTypeOK ==
    /\ {live, copy} \subseteq [Items -> Unranked..MaxRank] /\ versions \in [Items -> 1..MaxVersions]
    /\ resolved \cup steady \subseteq Items
    /\ req.pc \in {"none", "seek", "rows"} /\ Len(req.keys) <= Limit + 1
    /\ \A k \in ToSet(page.rows) : k[1] \in Unranked..MaxRank /\ k[2] \in Items
    /\ Len(page.rows) <= Limit /\ ToSet(walk.seen) \subseteq Items

Ended == walk.going /\ req = NoRequest /\ page.next = NoCursor

\* A walk by `next` to the end shows every item whose rank did not move
\* exactly once, however the others moved past it, while `accounts` is whole.
WalkSeesSteady ==
    /\ Ended /\ resolved = Items => steady \subseteq ToSet(walk.seen)
    /\ \A i, j \in DOMAIN walk.seen : i < j /\ walk.seen[i] \in steady => walk.seen[i] # walk.seen[j]

\* A row that has lost its address is left out of the list, and no other is.
OnlyLostIsHidden == Ended => steady \cap resolved \subseteq ToSet(walk.seen)

\* A walk shows no pool, no account and no contract twice: their ranks only
\* rise, away from the walk, or never move.
NoneTwice == \A i, j \in DOMAIN walk.seen : i < j => walk.seen[i] # walk.seen[j]

=============================================================================
