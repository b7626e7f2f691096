-------------------------------- MODULE Search --------------------------------
(***************************************************************************)
(* GET /search.  The shape of the query decides which of six buckets are   *)
(* read, all at once and each with up to three statements, while the       *)
(* indexer and the enrichment write.  A bucket has at most Limit rows; the *)
(* page counts the hits, and takes fewer than Limit for all there are.     *)
(*                                                                         *)
(* Texts are compared by the constant How: how a needle is found in a      *)
(* text.  A contract has one text for its name and its symbol.             *)
(***************************************************************************)
EXTENDS Integers, Sequences, FiniteSetsExt

CONSTANTS
    Queries,        \* what a visitor may type, see SearchAssumption
    Includes,       \* the sets of buckets that ?type= may ask for
    Accounts, Contracts,  \* addresses, numbers in the order of their StrKeys
    Assets, Nfts, Pools, Transactions,  \* records
    Rows,           \* the first number of rows of each address
    Name, NftName,  \* the first texts of contracts and NFTs, "none" without
    Renames,        \* the texts they may take later
    Late,           \* the assets, pools and transactions that are stored later
    How,            \* 0 equal, 1 at the start, 2 inside, 3 not at all
    Limit, MAX_TOKEN_IDS_AS_PARAM,
    MaxCopies,      \* bound: rows of one address that are not merged
    MaxWrites       \* bound: writes

VARIABLES
    store,  \* what the tables hold
    req,    \* the request
    used    \* writes so far

searchVars == <<store, req, used>>

Buckets == {"transaction", "contract", "asset", "account", "nft", "pool"}

\* A query: its shape, the key of How it is compared by, the addresses that
\* start with it, the needles it has for pools, the hash it may be, the asset
\* it may name, and whether it is a whole address.
SearchAssumption ==
    /\ \A q \in Queries :
         /\ q.shape \in {"hash", "pair", "address", "text"}
         /\ q.text \in DOMAIN How /\ \A k \in DOMAIN q.needles : q.needles[k] \in DOMAIN How
    /\ \A inc \in Includes : inc \subseteq Buckets
    /\ Accounts \subseteq Int /\ Contracts \subseteq Int /\ Limit \in Nat \ {0}
    /\ {MAX_TOKEN_IDS_AS_PARAM, MaxCopies, MaxWrites} \subseteq Nat

\* The tables.  An address may have several rows until they are merged; a
\* transaction is stored by its index row, its own row and its ledger's.
FirstStore ==
    [accounts |-> [a \in Accounts |-> Rows[a]], contracts |-> [c \in Contracts |-> Rows[c]],
     name |-> Name, nft |-> NftName, holders |-> [a \in Assets |-> 0],
     assets |-> Assets \ Late, pools |-> Pools \ Late,
     index |-> Transactions \ Late, transactions |-> Transactions \ Late, ledgers |-> Transactions \ Late]

NoWork == [ids |-> {}, assets |-> {}, tokens |-> <<>>, candidates |-> {}]
NoRequest == [pc |-> "idle", query |-> "none", reads |-> [b \in Buckets |-> "off"], work |-> NoWork,
              rows |-> [b \in Buckets |-> 0], hits |-> [b \in Buckets |-> {}], seen |-> {}]

SearchInit == store = FirstStore /\ req = NoRequest /\ used = 0

-----------------------------------------------------------------------------
(* What is written meanwhile.                                              *)

\* The stores that one write leads to: a row of an address more, or its rows
\* merged; a name; more holders; a row of an asset, of a pool, of a transaction.
Written(s) ==
    {[s EXCEPT !.accounts[a] = n] : a \in Accounts, n \in 1..MaxCopies}
      \cup {[s EXCEPT !.contracts[c] = n] : c \in Contracts, n \in 1..MaxCopies}
      \cup {[s EXCEPT !.name[c] = t] : c \in Contracts, t \in Renames}
      \cup {[s EXCEPT !.nft[n] = t] : n \in Nfts, t \in Renames}
      \cup {[s EXCEPT !.holders[a] = 1] : a \in Assets}
      \cup {[s EXCEPT !.assets = @ \cup {a}] : a \in Assets}
      \cup {[s EXCEPT !.pools = @ \cup {p}] : p \in Pools}
      \cup {[s EXCEPT !.index = @ \cup {t}] : t \in Transactions}
      \cup {[s EXCEPT !.transactions = @ \cup {t}] : t \in Transactions}
      \cup {[s EXCEPT !.ledgers = @ \cup {t}] : t \in Transactions}

Write ==
    /\ used < MaxWrites /\ used' = used + 1
    /\ store' \in Written(store) \ {store}
    /\ req' = IF req.pc = "open" THEN [req EXCEPT !.seen = @ \cup {store'}] ELSE req

-----------------------------------------------------------------------------
(* The query and its buckets.                                              *)

\* classify, and the gates of the buckets: a hash is looked up among
\* transactions and pools only; accounts need an address.
Fires(q, b) ==
    CASE b = "transaction" -> q.shape = "hash"
      [] b = "account" -> q.shape = "address"
      [] b = "pool" -> q.shape = "hash" \/ (~q.full /\ q.needles # <<>>)
      [] OTHER -> q.shape # "hash"

Ask(q, include) ==
    /\ req.pc = "idle"
    /\ req' = [req EXCEPT !.pc = "open", !.query = q, !.seen = {store},
                          !.reads = [b \in Buckets |-> IF b \in include /\ Fires(q, b) THEN "first" ELSE "off"]]
    /\ UNCHANGED <<store, used>>

Reading(b, which) == req.pc = "open" /\ req.reads[b] = which
Found(needle, text) == How[needle][text] < 3

\* A bucket is done with hits out of so many rows, or goes on.
Done(b, hits, rows) ==
    [req EXCEPT !.reads[b] = "done", !.hits[b] = hits, !.rows[b] = rows]
OnWith(b, which, work, rows) ==
    [req EXCEPT !.reads[b] = which, !.work = work, !.rows[b] = rows]

\* The first Limit rows of an order; LIMIT without an order takes any rows.
Top(set, Before(_, _)) == {x \in set : Cardinality({y \in set : Before(y, x)}) < Limit}

AnyPage(set) ==
    {page \in SUBSET set : Cardinality(page) = IF Cardinality(set) < Limit THEN Cardinality(set) ELSE Limit}

\* The addresses of the first Limit rows with a prefix, in order of address;
\* copies of one address are neighbours, and are made one afterwards.
RowsOf(copies, set) == MapThenSumSet(LAMBDA a : copies[a], set)
Matching(copies, q) == {a \in DOMAIN copies : copies[a] > 0 /\ a \in q.starts}
PrefixPage(copies, q) ==
    LET set == Matching(copies, q)
    IN  {a \in set : RowsOf(copies, {x \in set : x < a}) < Limit}
PrefixRows(copies, q) ==
    LET n == RowsOf(copies, Matching(copies, q)) IN IF n < Limit THEN n ELSE Limit

-----------------------------------------------------------------------------
(* Accounts, contracts and NFTs.                                           *)

search_accounts ==
    /\ Reading("account", "first")
    /\ req' = Done("account", PrefixPage(store.accounts, req.query), PrefixRows(store.accounts, req.query))

Labelled(ids) == {[id |-> c, label |-> store.name[c]] : c \in ids}

\* An address is sought as one, with the names in a second read; anything
\* else in the names, in no order.
search_contracts ==
    \/ /\ Reading("contract", "first") /\ req.query.shape = "address"
       /\ req' = OnWith("contract", "names", [req.work EXCEPT !.ids = PrefixPage(store.contracts, req.query)],
                        PrefixRows(store.contracts, req.query))
    \/ /\ Reading("contract", "names")
       /\ req' = Done("contract", Labelled(req.work.ids), req.rows["contract"])
    \/ /\ Reading("contract", "first") /\ req.query.shape # "address"
       /\ \E page \in AnyPage({c \in Contracts : Found(req.query.text, store.name[c])}) :
            req' = Done("contract", Labelled(page), Cardinality(page))

\* The statement names its page twice, for the NFTs and for their contracts;
\* each time it is evaluated anew, and an NFT whose contract only one of the
\* two has falls out.
search_nfts ==
    /\ Reading("nft", "first")
    /\ LET named == {n \in Nfts : Found(req.query.text, store.nft[n])}
       IN  \E page, again \in AnyPage(named) :
             req' = Done("nft", {n \in page : \E m \in again : m.contract = n.contract /\ store.contracts[m.contract] > 0},
                         Cardinality(page))

-----------------------------------------------------------------------------
(* Assets.                                                                 *)

\* The code an asset is shown by, and its symbol: those of a token are in
\* the metadata of its contract.
Shown(a) == IF a.family = "native" THEN "XLM" ELSE a.code
SymbolOf(s, a) == IF a.contract # 0 /\ s.contracts[a.contract] > 0 THEN s.name[a.contract] ELSE "none"

\* Equal before at the start before inside; the more holders the better; the
\* key of the table at last.
Tier(s, q, a) == Min({How[q.text][Shown(a)], How[q.text][SymbolOf(s, a)]})
Better(s, q, a, b) ==
    \/ Tier(s, q, a) < Tier(s, q, b)
    \/ /\ Tier(s, q, a) = Tier(s, q, b)
       /\ s.holders[a] > s.holders[b] \/ (s.holders[a] = s.holders[b] /\ a.key < b.key)
AssetMatches(s, q, a) ==
    /\ a \in s.assets
    /\ IF q.shape = "pair" THEN a.code = q.code /\ a.issuer = q.issuer /\ s.accounts[a.issuer] > 0
       ELSE Tier(s, q, a) < 3

\* asset_route_token: a contract, if its row was there; else code and issuer;
\* else native, if it is.
Route(row, issuers) ==
    LET a == row.asset
    IN  CASE row.contract -> "contract"
          [] ~row.contract /\ a.code # "none" /\ a.issuer \in issuers -> "pair"
          [] OTHER -> IF a.family = "native" THEN "native" ELSE "nowhere"

search_assets ==
    \/ /\ Reading("asset", "first")
       /\ LET q == req.query
              found == {a \in Assets : AssetMatches(store, q, a)}
              page == IF q.shape = "pair" THEN found ELSE Top(found, LAMBDA a, b : Better(store, q, a, b))
              row(a) == [asset |-> a, contract |-> a.contract # 0 /\ store.contracts[a.contract] > 0]
          IN  req' = OnWith("asset", "issuers", [req.work EXCEPT !.assets = {row(a) : a \in page}], Cardinality(page))
    \/ /\ Reading("asset", "issuers")
       /\ LET known == {i \in Accounts : store.accounts[i] > 0}
          IN  req' = Done("asset", {[asset |-> w.asset, route |-> Route(w, known)] : w \in req.work.assets}, req.rows["asset"])

-----------------------------------------------------------------------------
(* Pools.                                                                  *)

\* The tokens a needle names.  As many as fit travel with the statement;
\* otherwise it reads them itself.
TokensOf(s, needle) == {c \in Contracts : Found(needle, s.name[c])}
Fit(tokens) == Cardinality(tokens) <= MAX_TOKEN_IDS_AS_PARAM
leg_matches(s, needle, tokens, leg) ==
    \/ \E a \in s.assets : a.key = leg /\ Found(needle, Shown(a))
    \/ \E a \in Assets : a.key = leg /\ a.family = "soroban"
         /\ IF Fit(tokens) THEN a.contract \in tokens
            ELSE a.contract \in TokensOf(s, needle) /\ s.contracts[a.contract] > 0

\* Each needle on a leg, and two legs if there are two needles.
asset_codes_predicate(s, q, tokens, p) ==
    LET legs(k) == {i \in DOMAIN p.legs : leg_matches(s, q.needles[k], tokens[k], p.legs[i])}
    IN  /\ \A k \in DOMAIN q.needles : legs(k) # {}
        /\ Cardinality(UNION {legs(k) : k \in DOMAIN q.needles}) >= Len(q.needles)

\* soroban_token_ids reads one more than fit.
search_pools ==
    LET q == req.query
        read == req.work.tokens
    IN  \/ /\ Reading("pool", "first") /\ q.shape = "hash"
           /\ LET found == {p \in store.pools : p.hash = q.hash}
              IN  req' = Done("pool", found, Cardinality(found))
        \/ /\ Reading("pool", "first") /\ q.shape # "hash" /\ Len(read) < Len(q.needles)
           /\ LET all == TokensOf(store, q.needles[Len(read) + 1])
              IN  \E some \in SUBSET all :
                    /\ Cardinality(some) = Min({Cardinality(all), MAX_TOKEN_IDS_AS_PARAM + 1})
                    /\ req' = [req EXCEPT !.work.tokens = Append(@, some)]
        \/ /\ Reading("pool", "first") /\ q.shape # "hash" /\ Len(read) = Len(q.needles)
           /\ LET found == {p \in store.pools : asset_codes_predicate(store, q, read, p)}
                  page == Top(found, LAMBDA a, b : a.newest > b.newest)
              IN  req' = Done("pool", page, Cardinality(page))

-----------------------------------------------------------------------------
(* Transactions.                                                           *)

HasHash(t, hash) == hash \in {t.hash, t.inner}
\* lookup_hash_ledgers: those with the first bytes of the hash, as their own
\* or of the transaction inside.
Candidates(s, q) == {t.ledger : t \in {x \in s.index : q.prefix \in x.prefixes}}

\* The newest candidate first, until the row of one has the whole hash.
search_transactions ==
    \/ /\ Reading("transaction", "first")
       /\ req' = OnWith("transaction", "rows", [req.work EXCEPT !.candidates = Candidates(store, req.query)], 0)
    \/ /\ Reading("transaction", "rows") /\ req.work.candidates = {}
       /\ req' = Done("transaction", {}, 0)
    \/ /\ Reading("transaction", "rows") /\ req.work.candidates # {}
       /\ LET ledger == Max(req.work.candidates)
              found == {t \in store.transactions : t.ledger = ledger /\ HasHash(t, req.query.hash)}
          IN  IF found # {} /\ \E t \in store.ledgers : t.ledger = ledger
              THEN \E t \in found : req' = Done("transaction", {t}, 1)
              ELSE req' = [req EXCEPT !.work.candidates = @ \ {ledger}]

-----------------------------------------------------------------------------

\* The buckets are one answer, and one of them that fails fails it.
Respond ==
    /\ req.pc = "open" /\ \A b \in Buckets : req.reads[b] \in {"off", "done"}
    /\ req' = [req EXCEPT !.pc = "done"]
    /\ UNCHANGED <<store, used>>

ReadFails(b) ==
    /\ req.pc = "open" /\ req.reads[b] \notin {"off", "done"}
    /\ req' = [NoRequest EXCEPT !.pc = "failed"]
    /\ UNCHANGED <<store, used>>

SearchNext ==
    \/ \E q \in Queries, include \in Includes : Ask(q, include)
    \/ /\ \/ search_accounts \/ search_contracts \/ search_nfts
          \/ search_assets \/ search_pools \/ search_transactions
       /\ UNCHANGED <<store, used>>
    \/ Write \/ Respond
    \/ \E b \in Buckets : ReadFails(b)

SearchSpec == SearchInit /\ [][SearchNext]_searchVars

-----------------------------------------------------------------------------

SearchTypeOK ==
    /\ used \in 0..MaxWrites /\ store.assets \subseteq Assets /\ store.pools \subseteq Pools
    /\ req.pc \in {"idle", "open", "done", "failed"}
    /\ \A b \in Buckets : req.rows[b] \in 0..Limit /\ Cardinality(req.hits[b]) <= req.rows[b]

Answered(b) == req.pc = "done" /\ req.reads[b] = "done"
Seen == req.seen
Needles == DOMAIN req.query.needles

\* Some leg is found by each needle, of its own, by the newest or by an
\* earlier state of the names.
OwnLegs(p, states) ==
    \E own \in [Needles -> DOMAIN p.legs] :
        /\ \A k, m \in Needles : k # m => own[k] # own[m]
        /\ \A k \in Needles : \E a \in Assets, s \in states :
             /\ a.key = p.legs[own[k]]
             /\ \/ Found(req.query.needles[k], Shown(a)) /\ a \in s.assets
                \/ a.family = "soroban" /\ Found(req.query.needles[k], s.name[a.contract])

\* An asset is called what was typed, or is the one named in full.
Called(s, q, a) ==
    {How[q.text][IF a.family = "native" THEN "XLM" ELSE a.code]}
      \cup {How[q.text][s.name[c]] : c \in {a.contract} \cap {c \in Contracts : s.contracts[c] > 0}}
Asked(s, q, a) ==
    /\ a \in s.assets
    /\ IF q.shape = "pair" THEN <<a.code, a.issuer>> = <<q.code, q.issuer>> /\ s.accounts[a.issuer] > 0
       ELSE Called(s, q, a) # {3}

\* What is shown is what was asked for, at some point of the request: the
\* transaction that has the whole hash, the pool with a leg for each needle,
\* a contract by a name that it had.
HitsAreMatches ==
    /\ Answered("transaction") => \A t \in req.hits["transaction"] : req.query.hash \in {t.hash, t.inner}
    /\ Answered("pool") => \A p \in req.hits["pool"] :
         IF req.query.shape = "hash" THEN p.hash = req.query.hash ELSE OwnLegs(p, Seen)
    /\ Answered("contract") => \A c \in req.hits["contract"] :
         /\ \E s \in Seen : s.name[c.id] = c.label
         /\ IF req.query.shape = "address" THEN c.id \in req.query.starts ELSE Found(req.query.text, c.label)
    /\ Answered("asset") => \A h \in req.hits["asset"] : \E s \in Seen : Asked(s, req.query, h.asset)

\* A link leads to the asset it stands on, or nowhere: never to XLM in place
\* of a token, and nowhere only without the row of its issuer or contract.
RoutesAreOwn ==
    Answered("asset") => \A h \in req.hits["asset"] :
        /\ h.route = "native" => h.asset.family = "native"
        /\ h.route = "nowhere" =>
             \E s \in Seen : IF h.asset.issuer = 0 THEN s.contracts[h.asset.contract] = 0 ELSE s.accounts[h.asset.issuer] = 0

\* A bucket that read fewer rows than it may has everything that matched all
\* through the request.  (The page counts hits, which are fewer.)
FewIsAll ==
    \A b \in Buckets : Answered(b) /\ req.rows[b] < Limit =>
        CASE b = "account" -> \A a \in Accounts : (\A s \in Seen : a \in Matching(s.accounts, req.query)) => a \in req.hits[b]
          [] b = "contract" -> \A c \in Contracts :
               (\A s \in Seen : IF req.query.shape = "address" THEN c \in Matching(s.contracts, req.query)
                                ELSE Found(req.query.text, s.name[c]))
                 => \E h \in req.hits[b] : h.id = c
          [] b = "asset" -> \A a \in Assets :
               (\A s \in Seen : Asked(s, req.query, a)) => \E h \in req.hits[b] : h.asset = a
          [] b = "nft" -> \A n \in Nfts :
               (\A s \in Seen : Found(req.query.text, s.nft[n]) /\ s.contracts[n.contract] > 0) => n \in req.hits[b]
          [] b = "pool" -> \A p \in Pools :
               (\A s \in Seen : /\ p \in s.pools
                                /\ IF req.query.shape = "hash" THEN p.hash = req.query.hash
                                   ELSE OwnLegs(p, {s}))
                 => p \in req.hits[b]
          [] b = "transaction" -> \A t \in Transactions :
               (\A s \in Seen : t \in s.index \cap s.transactions \cap s.ledgers) /\ req.query.hash \in {t.hash, t.inner}
                 => req.hits[b] # {}

\* An asset that is called what was typed is not left out for one whose name
\* only contains it.
ExactFirst ==
    Answered("asset") /\ req.query.shape # "pair" =>
        \A a \in Assets :
            (\A s \in Seen : a \in s.assets /\ 0 \in Called(s, req.query, a))
              /\ (~\E h \in req.hits["asset"] : h.asset = a)
            => \A h \in req.hits["asset"] : \E s \in Seen : 0 \in Called(s, req.query, h.asset)

=============================================================================
