------------------------------- MODULE MCLists -------------------------------
(***************************************************************************)
(* The endpoints that read, one after the other: the lists, and what the   *)
(* API asks of other services at request time.  They share the requests,   *)
(* the lists also the store and the pagination of Keyset, and nothing      *)
(* else, so the initial state chooses the one that is asked, and its       *)
(* instance; `part` names it.                                              *)
(***************************************************************************)
EXTENDS Integers, Sequences

CONSTANT Parts  \* the parts of this run

VARIABLES
    part,
    copies, transactions, ledgers, req, page, came, walk, count,  \* as several modules name them
    operations, activity,                                         \* TxList
    sent, detail, kept,                                           \* LedgerPages
    live, copy, versions, resolved, steady, moves, swaps,         \* RankedLists
    history, at, hash, jobs, faults,                              \* RuntimeFetch
    records, served, used,                                        \* VerifiedSource
    store                                                         \* Search

txListOnly == <<operations, activity>>
ledgerPagesOnly == <<sent, detail, kept>>
rankedOnly == <<live, copy, versions, resolved, steady, moves, swaps>>
outsideOnly == <<history, at, hash, jobs, faults, records, served, used, store>>
listsOnly == <<copies, transactions, ledgers, page, came, walk, count,
               txListOnly, ledgerPagesOnly, rankedOnly>>
listVars == <<part, copies, transactions, ledgers, req, page, came, walk, count,
              txListOnly, ledgerPagesOnly, rankedOnly, outsideOnly>>

\* What a part does not use.
Off == <<>>
TxListOff == operations = Off /\ activity = Off
LedgerPagesOff == sent = Off /\ detail = Off /\ kept = Off
RankedOff ==
    /\ live = Off /\ copy = Off /\ versions = Off /\ resolved = Off
    /\ steady = Off /\ moves = Off /\ swaps = Off
FetchOff == history = Off /\ at = Off /\ hash = Off /\ jobs = Off /\ faults = Off
SourceOff == records = Off /\ served = Off
SearchOff == store = Off
ListsOff ==
    /\ copies = Off /\ transactions = Off /\ ledgers = Off /\ page = Off /\ came = Off
    /\ walk = Off /\ count = Off /\ TxListOff /\ LedgerPagesOff /\ RankedOff

-----------------------------------------------------------------------------
(* GET /transactions, unfiltered and with each filter; and for one account *)
(* in a contract with more calls than a page over-fetches.                 *)

Transfer(source, contracts, types) == [source |-> source, contracts |-> contracts, types |-> types]

Chain == <<
    <<Transfer("a", {"k"}, {"pay"})>>,
    <<Transfer("a", {"k"}, {"pay"}), Transfer("b", {}, {"swap"})>>,
    <<Transfer("b", {"k"}, {"pay", "swap"}), Transfer("a", {"k"}, {"swap"})>>,
    <<Transfer("b", {}, {"pay"}), Transfer("a", {}, {"pay"})>> >>

BusyChain == <<
    <<Transfer("b", {"k"}, {"pay"})>>,
    <<Transfer("a", {"k"}, {"pay"}), Transfer("a", {"k"}, {"pay"})>>,
    <<Transfer("a", {"k"}, {"pay"}), Transfer("a", {"k"}, {"pay"}), Transfer("b", {"k"}, {"pay"})>>,
    <<Transfer("a", {}, {"pay"})>> >>

Filter(source, contract, type) == [source |-> source, contract |-> contract, type |-> type]
Any == "any"

Tx == INSTANCE TxList WITH
    Chain <- Chain, Indexed <- {1, 2}, Backfilled <- {}, Partition <- 2,
    Filters <- {Filter(Any, Any, Any), Filter("a", Any, Any), Filter(Any, "k", Any), Filter(Any, Any, "pay")},
    Limit <- 1, MaxCopies <- 1, MaxRequests <- 5

BusyTx == INSTANCE TxList WITH
    Chain <- BusyChain, Indexed <- {1, 2, 3}, Backfilled <- {}, Partition <- 2,
    Filters <- {Filter("b", "k", Any)}, Limit <- 1, MaxCopies <- 1, MaxRequests <- 4

TransactionsInit ==
    /\ \/ part = "transactions" /\ Tx!TxListInit
       \/ part = "busy_contract" /\ BusyTx!TxListInit
    /\ copies = Off /\ LedgerPagesOff /\ RankedOff

TransactionsStep ==
    /\ \/ part = "transactions" /\ Tx!TxListNext
       \/ part = "busy_contract" /\ BusyTx!TxListNext
    /\ UNCHANGED <<part, copies, ledgerPagesOnly, rankedOnly>>

-----------------------------------------------------------------------------
(* GET /ledgers and GET /ledgers/:sequence.                                *)

Lg == INSTANCE LedgerPages WITH
    LastLedger <- 3, Indexed <- 1, TxCount <- 2, Limit <- 1,
    MaxCopies <- 2, MaxRequests <- 4, MaxFaults <- 0

LedgersInit ==
    /\ part = "ledgers" /\ Lg!LedgerPagesInit
    /\ ledgers = Off /\ came = Off /\ TxListOff /\ RankedOff

LedgersStep ==
    /\ part = "ledgers" /\ Lg!LedgerPagesNext
    /\ UNCHANGED <<part, ledgers, came, txListOnly, rankedOnly>>

-----------------------------------------------------------------------------
(* The lists of one entity: transactions both ways, events with a ledger   *)
(* whose transactions are missing, and the transfers of an NFT.            *)

Row(key, tx) == [key |-> key, tx |-> tx, owner |-> 0]
Transferred(key, tx, owner) == [key |-> key, tx |-> tx, owner |-> owner]

\* One or two positions a ledger.
Positions == {Row(<<1, 1>>, 1), Row(<<2, 1>>, 2), Row(<<2, 2>>, 2), Row(<<3, 1>>, 3), Row(<<4, 1>>, 4)}

\* Events by rpc id; a fee refund (9) comes after the events of its ledger.
Events == {Row(<<1, 1, 1>>, 1), Row(<<2, 1, 1>>, 2), Row(<<2, 9, 0>>, 2), Row(<<3, 1, 1>>, 3), Row(<<3, 1, 2>>, 3)}

\* A mint, two transfers in a ledger, and one back to an earlier owner.
Transfers ==
    {Transferred(<<1, 1>>, 1, 1), Transferred(<<2, 1>>, 2, 2), Transferred(<<2, 2>>, 2, 3),
     Transferred(<<3, 1>>, 3, 1), Transferred(<<4, 1>>, 4, 4)}

Et == INSTANCE EntityPages WITH
    List <- "transactions", Rows <- Positions, Height <- 4, Indexed <- {1, 2}, Backfilled <- {},
    Lost <- {}, Sorts <- {"asc", "desc"}, Limit <- 1, MaxCopies <- 2, MaxRequests <- 5

Ev == INSTANCE EntityPages WITH
    List <- "events", Rows <- Events, Height <- 3, Indexed <- {1}, Backfilled <- {},
    Lost <- {1}, Sorts <- {"desc"}, Limit <- 1, MaxCopies <- 2, MaxRequests <- 7

Nt == INSTANCE EntityPages WITH
    List <- "transfers", Rows <- Transfers, Height <- 4, Indexed <- {1, 2}, Backfilled <- {},
    Lost <- {}, Sorts <- {"desc"}, Limit <- 1, MaxCopies <- 2, MaxRequests <- 6

EntityInit ==
    /\ \/ part = "entity_transactions" /\ Et!EntityInit
       \/ part = "contract_events" /\ Ev!EntityInit
       \/ part = "nft_transfers" /\ Nt!EntityInit
    /\ TxListOff /\ LedgerPagesOff /\ RankedOff

EntityStep ==
    /\ \/ part = "entity_transactions" /\ Et!EntityNext
       \/ part = "contract_events" /\ Ev!EntityNext
       \/ part = "nft_transfers" /\ Nt!EntityNext
    /\ UNCHANGED <<part, txListOnly, ledgerPagesOnly, rankedOnly>>

-----------------------------------------------------------------------------
(* The lists whose ranks move.  Two items of one rank; one asset without   *)
(* an aggregate, one pool and account without activity.                    *)

Ra == INSTANCE RankedLists WITH
    List <- "assets", Items <- 1..4, Classic <- {1, 3}, Start <- <<2, 1, 1, -1>>, MaxRank <- 3,
    Overfetch <- 2, Limit <- 1, MaxVersions <- 2, MaxMoves <- 1, MaxSwaps <- 0, MaxRequests <- 4

Rp == INSTANCE RankedLists WITH
    List <- "pools", Items <- 1..4, Classic <- {1, 3}, Start <- <<1, 1, 2, 0>>, MaxRank <- 3,
    Overfetch <- 2, Limit <- 1, MaxVersions <- 1, MaxMoves <- 2, MaxSwaps <- 0, MaxRequests <- 5

Rc == INSTANCE RankedLists WITH
    List <- "accounts", Items <- 1..4, Classic <- {1, 3}, Start <- <<1, 1, 2, 0>>, MaxRank <- 3,
    Overfetch <- 2, Limit <- 1, MaxVersions <- 1, MaxMoves <- 2, MaxSwaps <- 1, MaxRequests <- 5

Rs == INSTANCE RankedLists WITH
    List <- "participants", Items <- 1..4, Classic <- {1, 3}, Start <- <<2, 1, 1, 3>>, MaxRank <- 3,
    Overfetch <- 2, Limit <- 1, MaxVersions <- 1, MaxMoves <- 1, MaxSwaps <- 1, MaxRequests <- 5

\* Contracts 2 and 4 are stored at the start.
Rk == INSTANCE RankedLists WITH
    List <- "contracts", Items <- 1..4, Classic <- {}, Start <- <<0, 1, 0, 1>>, MaxRank <- 1,
    Overfetch <- 2, Limit <- 1, MaxVersions <- 1, MaxMoves <- 2, MaxSwaps <- 0, MaxRequests <- 5

\* Two minted in one ledger, and one whose mint is not stored yet.
Rn == INSTANCE RankedLists WITH
    List <- "nfts", Items <- 1..4, Classic <- {}, Start <- <<2, 2, 0, 3>>, MaxRank <- 3,
    Overfetch <- 2, Limit <- 1, MaxVersions <- 1, MaxMoves <- 2, MaxSwaps <- 0, MaxRequests <- 5

RankedInit ==
    /\ \/ part = "assets" /\ Ra!RankedInit
       \/ part = "contracts" /\ Rk!RankedInit
       \/ part = "nfts" /\ Rn!RankedInit
       \/ part = "pools" /\ Rp!RankedInit
       \/ part = "accounts" /\ Rc!RankedInit
       \/ part = "participants" /\ Rs!RankedInit
    /\ copies = Off /\ transactions = Off /\ ledgers = Off /\ came = Off /\ TxListOff /\ LedgerPagesOff

RankedStep ==
    /\ \/ part = "assets" /\ Ra!RankedNext
       \/ part = "contracts" /\ Rk!RankedNext
       \/ part = "nfts" /\ Rn!RankedNext
       \/ part = "pools" /\ Rp!RankedNext
       \/ part = "accounts" /\ Rc!RankedNext
       \/ part = "participants" /\ Rs!RankedNext
    /\ UNCHANGED <<part, copies, transactions, ledgers, came, txListOnly, ledgerPagesOnly>>

-----------------------------------------------------------------------------
(* The activity of a pool: classic, soroban, and a soroban request whose   *)
(* first rounds hold nothing but copies of one movement.                   *)

Movement(key, a, b, declared) == [key |-> key, amounts |-> <<a, b>>, declared |-> declared]

\* Two operations in one ledger; a deposit, a withdrawal, and a dust swap.
Classic ==
    {Movement(<<1, 1, 1>>, 1, -1, "trade"), Movement(<<2, 1, 1>>, 0, -1, "trade"),
     Movement(<<2, 1, 2>>, -1, -1, "withdrawal"), Movement(<<3, 1, 1>>, 1, 1, "deposit"),
     Movement(<<4, 1, 1>>, -1, 1, "trade")}

\* One-sided deposits; quiet ledgers between the events.
Soroban ==
    {Movement(<<1, 1, 1, 1>>, 1, 0, "deposit"), Movement(<<3, 1, 1, 1>>, 1, -1, "trade"),
     Movement(<<3, 1, 1, 2>>, -1, 1, "trade"), Movement(<<5, 1, 1, 1>>, 0, -1, "withdrawal"),
     Movement(<<6, 1, 1, 1>>, 1, -1, "trade")}

Pc == INSTANCE PoolActivity WITH
    Kind <- "classic", Movements <- Classic, Legs <- {1, 2}, Height <- 4, Indexed <- {1, 2, 3},
    Backfilled <- {}, Again <- {2, 3}, Filters <- {"every", "trade"}, Window <- 3, Span <- 1,
    Limit <- 2, MaxCopies <- 2, MaxRequests <- 4

Ps == INSTANCE PoolActivity WITH
    Kind <- "soroban", Movements <- Soroban, Legs <- {1, 2}, Height <- 6, Indexed <- 1..5,
    Backfilled <- {}, Again <- {3, 5}, Filters <- {"every", "trade"}, Window <- 3, Span <- 1,
    Limit <- 2, MaxCopies <- 2, MaxRequests <- 4

Pr == INSTANCE PoolActivity WITH
    Kind <- "soroban", Movements <- Soroban, Legs <- {1, 2}, Height <- 6, Indexed <- 1..6,
    Backfilled <- {}, Again <- {1, 5}, Filters <- {"withdrawal", "deposit"}, Window <- 2, Span <- 1,
    Limit <- 1, MaxCopies <- 3, MaxRequests <- 1

ActivityInit ==
    /\ \/ part = "classic_activity" /\ Pc!ActivityInit
       \/ part = "soroban_activity" /\ Ps!ActivityInit
       \/ part = "rounds" /\ Pr!ActivityInit
    /\ TxListOff /\ LedgerPagesOff /\ RankedOff

ActivityIdle == UNCHANGED <<part, txListOnly, ledgerPagesOnly, rankedOnly>>

ActivityStep ==
    /\ \/ part = "classic_activity" /\ Pc!ActivityNext
       \/ part = "soroban_activity" /\ Ps!ActivityNext
       \/ part = "rounds" /\ Pr!ActivityNext
    /\ ActivityIdle

Reading == part = "rounds" /\ Pr!Reading /\ ActivityIdle /\ UNCHANGED outsideOnly

-----------------------------------------------------------------------------
(* Code to decompile, and the sponsors of an account.                      *)

Fd == INSTANCE RuntimeFetch WITH
    Code <- {"p", "q"}, Stored <- {"p"}, Account <- "a", Lines <- <<>>, Sponsors <- {},
    Kinds <- {"rust", "wat"}, Endpoints <- 2, KEYS_PER_CALL <- 2, Slots <- 1,
    MaxLedger <- 2, MaxFaults <- 1, MaxRequests <- 2

Fs == INSTANCE RuntimeFetch WITH
    Code <- {}, Stored <- {}, Account <- "a", Lines <- <<"t", "u">>, Sponsors <- {"s"},
    Kinds <- {"sponsors"}, Endpoints <- 2, KEYS_PER_CALL <- 2, Slots <- 1,
    MaxLedger <- 3, MaxFaults <- 1, MaxRequests <- 1

FetchInit ==
    /\ \/ part = "decompile" /\ Fd!FetchInit
       \/ part = "sponsors" /\ Fs!FetchInit
    /\ ListsOff /\ SourceOff /\ SearchOff /\ used = Off

FetchStep ==
    /\ \/ part = "decompile" /\ Fd!FetchNext
       \/ part = "sponsors" /\ Fs!FetchNext
    /\ UNCHANGED <<part, listsOnly, records, served, used, store>>

-----------------------------------------------------------------------------
(* What verifiers say of a program: a copy abroad before one at home, a    *)
(* format not known, an archive without its sha256, none at all.           *)

Link(own, format) == [own |-> own, format |-> format]
Said(status, links, sha) == [status |-> status, links |-> links, sha |-> sha]

Vs == INSTANCE VerifiedSource WITH
    Verifiers <- <<"v", "w">>, Programs <- {"p", "q"}, Archives <- {"z", "y"},
    Records <- {Said("unverified", <<Link(TRUE, TRUE)>>, {"y"}), Said("mismatched", <<Link(TRUE, TRUE)>>, {"z"}),
                Said("verified", <<>>, {}), Said("verified", <<Link(FALSE, TRUE), Link(TRUE, TRUE)>>, {"z"}),
                Said("verified", <<Link(TRUE, FALSE)>>, {"z"}), Said("verified", <<Link(FALSE, TRUE)>>, {"z"}),
                Said("verified", <<Link(TRUE, TRUE)>>, {})},
    MaxChanges <- 2, MaxRequests <- 1, MaxFaults <- 1

SourceInit == part = "verified" /\ Vs!SourceInit /\ ListsOff /\ FetchOff /\ SearchOff

SourceStep ==
    /\ part = "verified" /\ Vs!SourceNext
    /\ UNCHANGED <<part, listsOnly, history, at, hash, jobs, faults, store>>

-----------------------------------------------------------------------------
(* A search: by a hash, by an address, by a text or two, by a code with    *)
(* its issuer; an issuer without a row, a token known by its symbol only,  *)
(* more tokens of one name than travel with a statement.                   *)

Query(shape, text, starts, needles, wanted, prefix) ==
    [shape |-> shape, text |-> text, starts |-> starts, needles |-> needles, hash |-> wanted,
     prefix |-> prefix, code |-> "usd", issuer |-> 1, full |-> shape = "pair"]
Text(needle) == Query("text", needle, {}, <<needle>>, "none", "none")

Asset(key, family, code, issuer, contract) ==
    [key |-> key, family |-> family, code |-> code, issuer |-> issuer, contract |-> contract]
Token(key, contract) == Asset(key, "soroban", "none", 0, contract)
Nft(id, contract) == [id |-> id, contract |-> contract]
Pool(legs, id, newest) == [legs |-> legs, hash |-> id, newest |-> newest]
Indexed(own, inner, prefixes, ledger) == [hash |-> own, inner |-> inner, prefixes |-> prefixes, ledger |-> ledger]

Sr == INSTANCE Search WITH
    Queries <- {Query("hash", "addr", {}, <<>>, "h", "8"), Query("hash", "addr", {}, <<>>, "i", "9"),
                Query("address", "addr", {1, 2}, <<"addr">>, "none", "none"),
                Query("address", "addr", {11, 12, 13}, <<"addr">>, "none", "none"),
                Text("duck"), Text("sd"), Text("xlm"), Text("usd"),
                Query("text", "usd", {}, <<"usd", "usd">>, "none", "none"),
                Query("text", "usd", {}, <<"xlm", "usd">>, "none", "none"),
                Query("pair", "addr", {}, <<"usd">>, "none", "none")},
    Includes <- {{"transaction", "pool"}, {"account", "contract"}, {"asset"}, {"contract", "nft"}, {"pool"}},
    Accounts <- {1, 2}, Contracts <- {11, 12, 13},
    Assets <- {Asset(1, "native", "none", 0, 0), Asset(2, "classic", "usd", 1, 0), Asset(3, "classic", "eusd", 2, 0),
               Token(4, 11), Token(5, 12), Asset(6, "classic", "usd", 2, 0), Token(7, 13)},
    Nfts <- {Nft(1, 11), Nft(2, 12)},
    Pools <- {Pool(<<2, 3>>, "h", 1), Pool(<<2, 7>>, "g", 2), Pool(<<1, 2>>, "x", 3)},
    Transactions <- {Indexed("h", "i", {"8", "9"}, 1), Indexed("j", "none", {"8"}, 2), Indexed("k", "none", {"9"}, 3)},
    Rows <- [id \in {1, 2, 11, 12, 13} |-> IF id = 2 THEN 0 ELSE 1],
    Name <- [c \in {11, 12, 13} |-> IF c = 12 THEN "duck" ELSE "eusd"],
    NftName <- [n \in {Nft(1, 11), Nft(2, 12)} |-> IF n.id = 1 THEN "usd" ELSE "none"], Renames <- {"usd"},
    Late <- {Token(7, 13), Pool(<<1, 2>>, "x", 3), Indexed("k", "none", {"9"}, 3)},
    How <- [usd |-> [usd |-> 0, eusd |-> 2, XLM |-> 3, duck |-> 3, none |-> 3],
            xlm |-> [usd |-> 3, eusd |-> 3, XLM |-> 0, duck |-> 3, none |-> 3],
            duck |-> [usd |-> 3, eusd |-> 3, XLM |-> 3, duck |-> 0, none |-> 3],
            sd |-> [usd |-> 2, eusd |-> 2, XLM |-> 3, duck |-> 3, none |-> 3],
            addr |-> [usd |-> 3, eusd |-> 3, XLM |-> 3, duck |-> 3, none |-> 3]],
    Limit <- 2, MAX_TOKEN_IDS_AS_PARAM <- 1, MaxCopies <- 2, MaxWrites <- 1

SearchInit == part = "search" /\ Sr!SearchInit /\ ListsOff /\ FetchOff /\ SourceOff

SearchStep ==
    /\ part = "search" /\ Sr!SearchNext
    /\ UNCHANGED <<part, listsOnly, history, at, hash, jobs, faults, records, served>>

ASSUME
    /\ Fd!RuntimeFetchAssumption /\ Fs!RuntimeFetchAssumption
    /\ Vs!VerifiedSourceAssumption /\ Sr!SearchAssumption

-----------------------------------------------------------------------------

ListPartsInit == TransactionsInit \/ LedgersInit \/ EntityInit \/ RankedInit \/ ActivityInit
ListPartsStep == TransactionsStep \/ LedgersStep \/ EntityStep \/ RankedStep \/ ActivityStep

OutsideOff == FetchOff /\ SourceOff /\ SearchOff /\ used = Off
Init == part \in Parts /\ ((ListPartsInit /\ OutsideOff) \/ FetchInit \/ SourceInit \/ SearchInit)

Next == (ListPartsStep /\ UNCHANGED outsideOnly) \/ FetchStep \/ SourceStep \/ SearchStep

\* The server goes on with a request it has begun.
Spec == Init /\ [][Next]_listVars /\ WF_listVars(Reading)

-----------------------------------------------------------------------------

ListsTypeOK ==
    /\ part = "transactions" => Tx!TxListTypeOK
    /\ part = "ledgers" => Lg!LedgerPagesTypeOK
    /\ part = "entity_transactions" => Et!EntityTypeOK
    /\ part = "nft_transfers" => Nt!EntityTypeOK
    /\ part = "assets" => Ra!RankedTypeOK
    /\ part = "classic_activity" => Pc!ActivityTypeOK
    /\ part = "decompile" => Fd!FetchTypeOK
    /\ part = "sponsors" => Fs!FetchTypeOK
    /\ part = "verified" => Vs!SourceTypeOK
    /\ part = "search" => Sr!SearchTypeOK

\* A client that walks a list by `next` from its first page to its end has
\* seen all that was there when it started, once and in order, whatever was
\* written, merged or ranked anew between its requests; in a list whose
\* ranks move, all whose rank stayed, and no pool or account twice.
WalkSeesAll ==
    /\ part = "transactions" => Tx!WalkSeesAll
    /\ part = "busy_contract" => BusyTx!WalkSeesAll
    /\ part = "ledgers" => Lg!WalkShowsLedgers
    /\ part = "entity_transactions" => Et!WalkSeesAll
    /\ part = "classic_activity" => Pc!WalkSeesAll
    /\ part = "soroban_activity" => Ps!WalkSeesAll
    /\ part = "assets" => Ra!WalkSeesSteady
    /\ part = "pools" => Rp!WalkSeesSteady /\ Rp!NoneTwice
    /\ part = "accounts" => Rc!WalkSeesSteady /\ Rc!NoneTwice
    /\ part = "participants" => Rs!WalkSeesSteady
    /\ part = "contracts" => Rk!WalkSeesSteady /\ Rk!NoneTwice
    /\ part = "nfts" => Rn!WalkSeesSteady

\* A page leaves out no row between the cursor it was asked with and its far
\* end, and offers no cursor only when no row is left (fetch_list and its
\* like with finalize_page), whatever lands or merges between its reads; and
\* `prev` right after `next` gives the page the client came from.
PagesFit ==
    [][/\ part = "transactions" => Tx!DensePage /\ Tx!SamePage
       /\ part = "ledgers" => Lg!DensePage
       /\ part = "entity_transactions" => Et!DensePage /\ Et!SamePage
       /\ part = "contract_events" => Ev!DensePage
       /\ part = "classic_activity" => Pc!DensePage /\ Pc!SamePage
       /\ part = "soroban_activity" => Ps!DensePage /\ Ps!SamePage]_listVars

\* What a response says is so: a 304 is only given for a body that a 200
\* would repeat and bodies under one tag are equal, a movement has all its
\* legs, the sender of a transfer is the owner before it or is left open, a
\* ledger kept for long links to the one after it, and only a ledger that has
\* lost its transactions fails the events.  A source is decompiled from the
\* program named beside it; that a program or an account is gone, every
\* endpoint said; no more decompilations run than there are slots, whoever
\* gave up; the sponsors listed were sponsors.  A verification status is
\* known, its recipe fits its archive, and only files that a verifier
\* vouched for are shown.  What a search shows matches what was typed, leads
\* to itself, holds all when there are fewer than the limit, and what is
\* called so before what only contains it.
ShownIsTrue ==
    /\ part = "transactions" => Tx!NotModifiedIsTrue
    /\ part = "classic_activity" => Pc!WholeMovements
    /\ part = "soroban_activity" => Ps!WholeMovements
    /\ part = "nft_transfers" => Nt!FromIsNeverWrong
    /\ part = "ledgers" => Lg!SameTagSameBody /\ Lg!KeptIsLinked
    /\ part = "contract_events" => Ev!NoFalseAlarm
    /\ part = "decompile" => Fd!SourceIsOfHash /\ Fd!GoneIsAgreed /\ Fd!OverrunsBounded
    /\ part = "sponsors" => Fs!GoneIsAgreed /\ Fs!SponsorsAreTrue
    /\ part = "verified" => Vs!StatusIsKnown /\ Vs!RecipeFits /\ Vs!OnlyVerifiedFiles
    /\ part = "search" => Sr!HitsAreMatches /\ Sr!RoutesAreOwn /\ Sr!FewIsAll /\ Sr!ExactFirst

\* A request for the activity of a pool is answered: its rounds come to an
\* end (list_soroban_pool_activity).
Answers == (part = "rounds" /\ req.pc # "none") ~> (part = "rounds" /\ req.pc = "none")

=============================================================================
