------------------------- MODULE PoolRegistryProofs -------------------------
(***************************************************************************)
(* Proofs about PoolRegistry, for any number of pools, emitters, planes,   *)
(* ledgers and transactions.  The argument is in two halves.  Every table  *)
(* is a function of the ledgers stored so far (TablesFollow), so the order *)
(* and the repetition of Store do not matter.  And the chain tells each    *)
(* pool's story from its creation on: it is created once, before anything  *)
(* else is written of it (CreatedOnce), and between two writes that say    *)
(* different reserves one has moved them (ReservesFollow), so that a row   *)
(* that was not added could not have said anything new.                    *)
(***************************************************************************)
EXTENDS PoolRegistry, WellFoundedInduction, TLAPS

\* A set of numbers that is bounded and not empty has a greatest element: the
\* one that is the least away from the bound.
LEMMA Greatest ==
    ASSUME NEW n \in Nat, NEW T \in SUBSET (0..n), T # {}
    PROVE  \E m \in T : \A x \in T : x <= m
<1> DEFINE Above == {ss \in Nat \X Nat : ss[1] < ss[2]}
           U == {n - x : x \in T}
<1>1. IsWellFoundedOn(Above, Nat)
  BY NatLessThanWellFounded DEF OpToRel
<1>2. U \in SUBSET Nat /\ U # {}
  <2>1. \A x \in T : x \in 0..n /\ n - x \in Nat
    OBVIOUS
  <2> QED
    BY <2>1
<1>3. PICK u \in U : \A v \in U : ~ (<<v, u>> \in Above)
  <2> HIDE DEF U, Above
  <2> QED
    BY <1>1, <1>2, WFMin
<1>4. PICK m \in T : u = n - m
  OBVIOUS
<1>5. ASSUME NEW x \in T PROVE x <= m
  <2>1. ~ (n - x < n - m)
    BY <1>2, <1>3, <1>4
  <2> QED
    BY <2>1
<1> QED
  BY <1>5

LEMMA Distinct ==
    ASSUME PoolRegistryAssumption
    PROVE  /\ \A w \in WriteRecords : w # NoWrite
           /\ \A c \in ClaimRecords : c # NoClaim
           /\ \A image \in Images : image # Undeployed
<1>1. ASSUME NEW w \in WriteRecords PROVE w # NoWrite
  BY <1>1 DEF WriteRecords, NoWrite, Changes
<1>2. ASSUME NEW c \in ClaimRecords PROVE c # NoClaim
  <2>1. "pool" \in DOMAIN c
    BY <1>2 DEF ClaimRecords
  <2>2. "pool" \notin DOMAIN NoClaim
    BY DEF NoClaim
  <2> QED
    BY <2>1, <2>2
<1>3. ASSUME NEW image \in Images PROVE image # Undeployed
  <2>1. image.reserves \in Amounts \cup {NoReserves}
    BY <1>3 DEF Images
  <2>2. image.reserves >= -1
    BY <2>1 DEF Amounts, NoReserves, PoolRegistryAssumption
  <2> QED
    BY <2>2 DEF Undeployed
<1> QED
  BY <1>1, <1>2, <1>3

LEMMA Families ==
    ASSUME PoolRegistryAssumption, NEW p \in Pools
    PROVE  (p \in Routers \cup Old) <=> ~ (p \in Pairs \cup Configs)
BY DEF PoolRegistryAssumption, Pools

LEMMA ImageFields ==
    ASSUME NEW image \in Images, NEW a, NEW b
    PROVE  /\ [image EXCEPT !.reserves = a, !.shares = b] =
                [reserves |-> a, shares |-> b, plane |-> image.plane, token |-> image.token]
           /\ [image EXCEPT !.plane = a, !.token = b] =
                [reserves |-> image.reserves, shares |-> image.shares, plane |-> a, token |-> b]
<1>1. image = [reserves |-> image.reserves, shares |-> image.shares, plane |-> image.plane, token |-> image.token]
  BY DEF Images
<1>2. DOMAIN image = {"reserves", "shares", "plane", "token"}
  BY <1>1
<1>3. [image EXCEPT !.reserves = a, !.shares = b] =
        [reserves |-> a, shares |-> b, plane |-> image.plane, token |-> image.token]
  <2> DEFINE next == [image EXCEPT !.reserves = a, !.shares = b]
  <2>1. /\ next = [x \in DOMAIN image |-> next[x]]
        /\ next.reserves = a /\ next.shares = b /\ next.plane = image.plane /\ next.token = image.token
    BY <1>2
  <2> HIDE DEF next
  <2> QED
    BY <1>2, <2>1
<1>4. [image EXCEPT !.plane = a, !.token = b] =
        [reserves |-> image.reserves, shares |-> image.shares, plane |-> a, token |-> b]
  <2> DEFINE next == [image EXCEPT !.plane = a, !.token = b]
  <2>1. /\ next = [x \in DOMAIN image |-> next[x]]
        /\ next.reserves = image.reserves /\ next.shares = image.shares /\ next.plane = a /\ next.token = b
    BY <1>2
  <2> HIDE DEF next
  <2> QED
    BY <1>2, <2>1
<1> QED
  BY <1>3, <1>4

LEMMA WritesAreImages ==
    ASSUME NEW p \in Pools, NEW txs
    PROVE  WritesOf(p, txs) = ImagesOf(p, txs) /\ ClaimsOf(p, txs) = Announced(p, txs)
BY DEF WritesOf, InstancesIn, PairsIn, EntriesIn, ClaimsOf, RouterClaims, PairClaims, ConfigClaims, Pools

LEMMA LedgerTypes ==
    ASSUME ChainTypeOK
    PROVE  /\ Len(chain) \in Nat /\ Len(open) \in Nat
           /\ DOMAIN chain = 1..Len(chain) /\ DOMAIN open = 1..Len(open)
           /\ Len(chain) + 1 \in Heights /\ Ledger(Len(chain) + 1) = open
           /\ \A l \in DOMAIN chain : l \in Heights /\ Ledger(l) = chain[l]
           /\ \A l \in Heights : Ledger(l) \in Seq(TxRecords)
<1>1. /\ Len(chain) \in Nat /\ Len(open) \in Nat
      /\ DOMAIN chain = 1..Len(chain) /\ DOMAIN open = 1..Len(open)
  BY DEF ChainTypeOK
<1>2. \A l \in DOMAIN chain : chain[l] \in Seq(TxRecords)
  BY DEF ChainTypeOK
<1> QED
  BY <1>1, <1>2 DEF ChainTypeOK, Heights, Ledger

-----------------------------------------------------------------------------
(* What a transaction adds to the story.                                   *)

\* A write that goes with the storage it was made in.
Fits(w) ==
    /\ pool' = [pool EXCEPT ![w.pool] = w.after]
    /\ w.change = "created" => w.pool \notin Deployed
    /\ w.change = "created" => MovesReserves(w) \/ w.after.reserves = NoReserves
    /\ w.change # "created" =>
         /\ w.pool \in Deployed
         /\ MovesReserves(w) \/ w.after.reserves = pool[w.pool].reserves
         /\ w.pool \in Configs => w.after.token = pool[w.pool].token

Grows(t) ==
    /\ t \in TxRecords /\ TxSound(t)
    /\ open' = Append(open, t)
    /\ UNCHANGED <<chain, tableVars>>
    /\ t.write = NoWrite => pool' = pool
    /\ t.write # NoWrite => Fits(t.write)

LEMMA DeployGrows ==
    ASSUME PoolRegistryAssumption, ChainTypeOK, Sound,
           NEW p \in Pools, NEW plane \in Planes, NEW token \in Tokens, Deploy(p, plane, token)
    PROVE  \E t : Grows(t)
<1> DEFINE fresh == [reserves |-> IF p \in Pairs THEN NoReserves ELSE 0, shares |-> 0,
                     plane |-> IF p \in Routers \cup Old THEN plane ELSE p,
                     token |-> IF p \in Pairs THEN p ELSE token]
           w == Written(p, "created", NoReserves, fresh)
           c == [pool |-> p, by |-> Factory, legs |-> TRUE]
           t == [write |-> w, claim |-> c, lists |-> IF p \in Configs THEN {p} ELSE {}]
<1>1. fresh \in Images
  BY DEF Images, Amounts, PoolRegistryAssumption
<1>2. /\ w = [pool |-> p, change |-> "created", before |-> NoReserves, after |-> fresh, config |-> p \in Configs]
      /\ w \in WriteRecords /\ w # NoWrite
  <2>1. w = [pool |-> p, change |-> "created", before |-> NoReserves, after |-> fresh, config |-> p \in Configs]
    BY DEF Written
  <2> HIDE DEF fresh, w
  <2>2. w \in WriteRecords
    BY <1>1, <2>1 DEF WriteRecords, Changes
  <2> QED
    BY <2>1, <2>2, Distinct
<1>3. c \in ClaimRecords /\ c # NoClaim
  <2>1. c \in ClaimRecords
    BY DEF ClaimRecords
  <2> QED
    BY <2>1, Distinct
<1>4. ImageSound(p, fresh)
  BY Families DEF ImageSound, NoReserves, PoolRegistryAssumption
<1>5. /\ p \notin Deployed /\ pool' = [pool EXCEPT ![p] = fresh]
      /\ open' = Append(open, t) /\ UNCHANGED <<chain, tableVars>>
  BY DEF Deploy, Transact
<1>6. t \in TxRecords
  <2> HIDE DEF w, c, fresh
  <2> QED
    BY <1>2, <1>3 DEF TxRecords
<1>7. TxSound(t)
  <2>1. t.write = w /\ t.claim = c /\ (p \in Configs => p \in t.lists)
    OBVIOUS
  <2>2. c.legs /\ c.by = Factory /\ c.pool = p /\ fresh.shares = 0
    OBVIOUS
  <2> HIDE DEF w, fresh, t
  <2>3. w.pool = p /\ w.change = "created" /\ w.after = fresh /\ (p \in Configs => w.config)
    BY <1>2
  <2>4. c = [pool |-> p, by |-> Factory, legs |-> TRUE]
    OBVIOUS
  <2> HIDE DEF c
  <2> QED
    BY <1>2, <1>4, <2>1, <2>2, <2>3, <2>4 DEF TxSound
<1>8. Fits(w)
  <2>1. fresh.reserves = IF p \in Pairs THEN NoReserves ELSE 0
    OBVIOUS
  <2> HIDE DEF w, fresh
  <2>2. MovesReserves(w) \/ w.after.reserves = NoReserves
    <3>1. CASE p \in Pairs
      BY <1>2, <2>1, <3>1
    <3>2. CASE p \notin Pairs
      BY <1>2, <2>1, <3>2 DEF MovesReserves, NoReserves
    <3> QED
      BY <3>1, <3>2
  <2> QED
    BY <1>2, <1>5, <2>2 DEF Fits
<1>9. t.write = w
  OBVIOUS
<1> HIDE DEF t, w, c, fresh
<1> QED
  BY <1>2, <1>5, <1>6, <1>7, <1>8, <1>9 DEF Grows

\* The writes of a deployed pool.
LEMMA UpdateGrows ==
    ASSUME PoolRegistryAssumption, ChainTypeOK, Sound,
           NEW p \in Deployed, NEW after \in Images, NEW config \in BOOLEAN, ImageSound(p, after),
           Update(p, after, config),
           p \in Configs => after.token = pool[p].token,
           MovesReserves([pool |-> p, change |-> "updated", before |-> pool[p].reserves,
                          after |-> after, config |-> config])
             \/ after.reserves = pool[p].reserves
    PROVE  \E t : Grows(t)
<1> DEFINE w == [pool |-> p, change |-> "updated", before |-> pool[p].reserves, after |-> after, config |-> config]
           t == [write |-> w, claim |-> NoClaim, lists |-> {}]
<1>1. p \in Pools /\ pool[p] \in Images
  BY DEF Deployed, ChainTypeOK
<1>2. w \in WriteRecords
  BY <1>1 DEF WriteRecords, Changes, Images
<1>3. /\ pool' = [pool EXCEPT ![p] = after]
      /\ open' = Append(open, t) /\ UNCHANGED <<chain, tableVars>>
  <2>1. [Written(p, "updated", pool[p].reserves, after) EXCEPT !.config = config] = w
    BY DEF Written
  <2> HIDE DEF w
  <2> QED
    BY <2>1 DEF Update, Transact
<1>4. t.write = w /\ t.claim = NoClaim /\ t.lists = {}
  OBVIOUS
<1>5. t \in TxRecords
  <2> HIDE DEF w
  <2> QED
    BY <1>2 DEF TxRecords
<1>6. TxSound(t)
  <2>1. w.pool = p /\ w.after = after /\ w.change = "updated"
    OBVIOUS
  <2> HIDE DEF w, t
  <2> QED
    BY <1>4, <2>1 DEF TxSound
<1>7. Fits(w)
  BY <1>1, <1>3 DEF Fits
<1>8. w # NoWrite
  BY <1>2, Distinct
<1> HIDE DEF t, w
<1> QED
  BY <1>3, <1>4, <1>5, <1>6, <1>7, <1>8 DEF Grows

LEMMA TradeGrows ==
    ASSUME PoolRegistryAssumption, ChainTypeOK, Sound,
           NEW p \in Pools, NEW r \in Amounts, NEW s \in Amounts, Trade(p, r, s)
    PROVE  \E t : Grows(t)
<1> DEFINE after == [pool[p] EXCEPT !.reserves = r, !.shares = s]
<1>1. p \in Deployed /\ pool[p] \in Images /\ r # pool[p].reserves /\ (s = 0 <=> r = 0)
  BY DEF Trade, Deployed, ChainTypeOK
<1>2. after = [reserves |-> r, shares |-> s, plane |-> pool[p].plane, token |-> pool[p].token]
  BY <1>1, ImageFields
<1>3. r # NoReserves
  BY DEF Amounts, NoReserves, PoolRegistryAssumption
<1>4. Update(p, after, FALSE)
  BY DEF Trade
<1> HIDE DEF after
<1>5. after \in Images
  BY <1>1, <1>2 DEF Images
<1>6. ImageSound(p, after)
  <2>1. ImageSound(p, pool[p])
    BY <1>1 DEF Sound
  <2> QED
    BY <1>1, <1>2, <1>3, <2>1 DEF ImageSound
<1>7. MovesReserves([pool |-> p, change |-> "updated", before |-> pool[p].reserves, after |-> after, config |-> FALSE])
  BY <1>1, <1>2, <1>3 DEF MovesReserves
<1> QED
  BY <1>1, <1>2, <1>4, <1>5, <1>6, <1>7, UpdateGrows

LEMMA TouchGrows ==
    ASSUME PoolRegistryAssumption, ChainTypeOK, Sound,
           NEW p \in Pools, NEW plane \in Planes \cup {p}, NEW token \in Tokens \cup {p}, Touch(p, plane, token)
    PROVE  \E t : Grows(t)
<1> DEFINE after == [pool[p] EXCEPT !.plane = plane, !.token = token]
<1>1. /\ p \in Deployed /\ pool[p] \in Images
      /\ IF p \in Routers \cup Old THEN plane \in Planes /\ token \in Tokens
         ELSE plane = pool[p].plane /\ token = pool[p].token
  BY DEF Touch, Deployed, ChainTypeOK
<1>2. after = [reserves |-> pool[p].reserves, shares |-> pool[p].shares, plane |-> plane, token |-> token]
  BY <1>1, ImageFields
<1>3. Update(p, after, p \in Configs)
  BY DEF Touch
<1> HIDE DEF after
<1>4. after \in Images
  BY <1>1, <1>2 DEF Images
<1>5. (p \in Routers \cup Old) <=> ~ (p \in Pairs \cup Configs)
  BY Families
<1>6. ImageSound(p, after)
  <2>1. ImageSound(p, pool[p])
    BY <1>1 DEF Sound
  <2> QED
    BY <1>1, <1>2, <1>5, <2>1 DEF ImageSound
<1>7. p \in Configs => after.token = pool[p].token
  BY <1>1, <1>2, <1>5
<1>8. after.reserves = pool[p].reserves
  BY <1>2
<1>9. CASE p \in Configs
  <2>1. (p \in Configs) = TRUE
    BY <1>9
  <2>2. Update(p, after, TRUE)
    BY <1>3, <2>1
  <2> QED
    BY <1>1, <1>4, <1>6, <1>7, <1>8, <2>2, UpdateGrows
<1>10. CASE p \notin Configs
  <2>1. (p \in Configs) = FALSE
    BY <1>10
  <2>2. Update(p, after, FALSE)
    BY <1>3, <2>1
  <2> QED
    BY <1>1, <1>4, <1>6, <1>7, <1>8, <2>2, UpdateGrows
<1> QED
  BY <1>9, <1>10

LEMMA RestoreGrows ==
    ASSUME PoolRegistryAssumption, ChainTypeOK, Sound, NEW p \in Pools, Restore(p)
    PROVE  \E t : Grows(t)
<1> DEFINE w == Written(p, "restored", NoReserves, pool[p])
           t == [write |-> w, claim |-> NoClaim, lists |-> {}]
<1>1. /\ p \in Deployed \cap Archived /\ pool[p] \in Images /\ pool' = pool
      /\ open' = Append(open, t) /\ UNCHANGED <<chain, tableVars>>
  BY DEF Restore, Transact, Deployed, ChainTypeOK
<1>2. w = [pool |-> p, change |-> "restored", before |-> NoReserves, after |-> pool[p], config |-> p \in Configs]
  BY DEF Written
<1>3. t.write = w /\ t.claim = NoClaim /\ t.lists = {}
  OBVIOUS
<1> HIDE DEF w
<1>4. w \in WriteRecords /\ w # NoWrite
  <2>1. w \in WriteRecords
    BY <1>1, <1>2 DEF WriteRecords, Changes
  <2> QED
    BY <2>1, Distinct
<1>5. t \in TxRecords
  BY <1>4 DEF TxRecords
<1> HIDE DEF t
<1>6. TxSound(t)
  <2>1. ImageSound(p, pool[p])
    BY <1>1 DEF Sound
  <2>2. w.pool = p /\ w.change = "restored" /\ w.after = pool[p] /\ (p \in Configs => w.config)
    BY <1>2
  <2> QED
    BY <1>1, <1>3, <2>1, <2>2 DEF TxSound
<1>7. Fits(w)
  <2>1. pool' = [pool EXCEPT ![p] = pool[p]]
    BY <1>1 DEF ChainTypeOK
  <2> QED
    BY <1>1, <1>2, <2>1 DEF Fits
<1> QED
  BY <1>1, <1>3, <1>4, <1>5, <1>6, <1>7 DEF Grows

LEMMA ClaimGrows ==
    ASSUME PoolRegistryAssumption, ChainTypeOK, Sound,
           NEW by \in Others, NEW p \in Pools, NEW legs \in BOOLEAN, NEW listed \in BOOLEAN, Claim(by, p, legs, listed)
    PROVE  \E t : Grows(t)
<1> DEFINE c == [pool |-> p, by |-> by, legs |-> legs]
           t == [write |-> NoWrite, claim |-> c, lists |-> IF listed THEN {p} ELSE {}]
<1>1. /\ legs \/ p \in Pairs
      /\ open' = Append(open, t) /\ UNCHANGED <<chain, tableVars>> /\ pool' = pool
  BY DEF Claim, Transact
<1>2. c \in ClaimRecords /\ c # NoClaim
  <2>1. c \in ClaimRecords
    BY DEF ClaimRecords
  <2> QED
    BY <2>1, Distinct
<1>3. t.write = NoWrite /\ t.claim = c /\ t \in TxRecords
  <2> HIDE DEF c
  <2> QED
    BY <1>2 DEF TxRecords
<1>4. c.pool = p /\ c.legs = legs /\ c.by # Factory
  BY DEF PoolRegistryAssumption
<1> HIDE DEF c, t
<1>5. TxSound(t)
  BY <1>1, <1>3, <1>4 DEF TxSound
<1> QED
  BY <1>1, <1>3, <1>5 DEF Grows

\* A step adds a transaction, closes the ledger or stores one.
LEMMA StepKinds ==
    ASSUME PoolRegistryAssumption, ChainTypeOK, Sound, PoolNext
    PROVE  (\E t : Grows(t)) \/ CloseLedger \/ (\E l \in DOMAIN chain : Store(l))
<1>1. ASSUME NEW p \in Pools, NEW plane \in Planes, NEW token \in Tokens, Deploy(p, plane, token)
      PROVE  \E t : Grows(t)
  BY <1>1, DeployGrows
<1>2. ASSUME NEW p \in Pools, NEW r \in Amounts, NEW s \in Amounts, Trade(p, r, s)
      PROVE  \E t : Grows(t)
  BY <1>2, TradeGrows
<1>3. ASSUME NEW p \in Pools, NEW plane \in Planes \cup {p}, NEW token \in Tokens \cup {p}, Touch(p, plane, token)
      PROVE  \E t : Grows(t)
  BY <1>3, TouchGrows
<1>4. ASSUME NEW p \in Pools, Restore(p)
      PROVE  \E t : Grows(t)
  BY <1>4, RestoreGrows
<1>5. ASSUME NEW p \in Pools, NEW by \in Others, NEW legs \in BOOLEAN, NEW listed \in BOOLEAN, Claim(by, p, legs, listed)
      PROVE  \E t : Grows(t)
  BY <1>5, ClaimGrows
<1> QED
  BY <1>1, <1>2, <1>3, <1>4, <1>5 DEF PoolNext
-----------------------------------------------------------------------------
(* How the story reads after a step: what was told is told as before, and  *)
(* one transaction comes last.                                             *)

Now == Len(chain) + 1
Here == Len(open) + 1

LEMMA Told ==
    ASSUME PoolRegistryAssumption, ChainTypeOK, NEW p, NEW l \in Heights, NEW i \in ImagesOf(p, Ledger(l))
    PROVE  /\ l \in Nat /\ 1 <= l /\ l <= Now /\ l < End
           /\ i \in Nat /\ 1 <= i /\ i \in DOMAIN Ledger(l) /\ Ledger(l)[i] \in TxRecords
           /\ WriteAt(l, i) \in WriteRecords /\ WriteAt(l, i).pool = p /\ p \in Pools
<1>1. Len(chain) \in Nat /\ Ledger(l) \in Seq(TxRecords)
  BY LedgerTypes
<1>2. i \in DOMAIN Ledger(l) /\ Ledger(l)[i].write # NoWrite /\ Ledger(l)[i].write.pool = p
  BY DEF ImagesOf
<1>3. Ledger(l)[i] \in TxRecords /\ i \in Nat /\ 1 <= i
  BY <1>1, <1>2
<1>4. Ledger(l)[i].write \in WriteRecords
  BY <1>2, <1>3 DEF TxRecords
<1>5. Ledger(l)[i].write.pool \in Pools
  BY <1>4 DEF WriteRecords
<1> QED
  BY <1>1, <1>2, <1>3, <1>4, <1>5 DEF Heights, Now, End, WriteAt

LEMMA GrownLedgers ==
    ASSUME ChainTypeOK, NEW t, Grows(t)
    PROVE  /\ Heights' = Heights /\ End' = End /\ Now \in Heights /\ Now \in Nat /\ Here \in Nat /\ Now < End
           /\ \A l \in Heights : l # Now => Ledger(l)' = Ledger(l)
           /\ Ledger(Now) = open /\ Ledger(Now)' = Append(open, t)
<1>1. /\ Len(chain) \in Nat /\ Len(open) \in Nat /\ Ledger(Now) = open
      /\ DOMAIN chain = 1..Len(chain) /\ Now \notin DOMAIN chain /\ Now \in Heights
  BY LedgerTypes DEF Now
<1>2. chain' = chain /\ open' = Append(open, t)
  BY DEF Grows
<1>3. Heights' = Heights /\ End' = End /\ Now < End
  BY <1>1, <1>2 DEF Heights, End, Now
<1>4. ASSUME NEW l \in Heights, l # Now PROVE Ledger(l)' = Ledger(l)
  <2>1. l \in DOMAIN chain
    BY <1>4, <1>1 DEF Heights, Now
  <2> QED
    BY <1>2, <2>1 DEF Ledger
<1>5. Ledger(Now)' = Append(open, t)
  <2>1. ASSUME NEW l, l = Now PROVE Ledger(l)' = Append(open, t)
    BY <1>1, <1>2, <2>1 DEF Ledger
  <2> QED
    BY <1>1, <1>2 DEF Now, Ledger
<1> QED
  BY <1>1, <1>3, <1>4, <1>5 DEF Now, Here

LEMMA GrownStory ==
    ASSUME PoolRegistryAssumption, ChainTypeOK, NEW t, Grows(t)
    PROVE  /\ \A p : \A l \in Heights : \A i \in ImagesOf(p, Ledger(l)) :
                /\ i \in ImagesOf(p, Ledger(l))' /\ WriteAt(l, i)' = WriteAt(l, i)
                /\ Before(l, i, Now, Here) /\ ~ Before(Now, Here, l, i)
           /\ \A p : \A l \in Heights : \A i \in ImagesOf(p, Ledger(l))' :
                \/ i \in ImagesOf(p, Ledger(l))
                \/ l = Now /\ i = Here /\ t.write # NoWrite /\ t.write.pool = p
           /\ \A l, i : l = Now /\ i = Here =>
                /\ WriteAt(l, i)' = t.write
                /\ t.write # NoWrite => i \in ImagesOf(t.write.pool, Ledger(l))'
<1>1. /\ Heights' = Heights /\ Now \in Heights /\ Now \in Nat /\ Here \in Nat
      /\ \A l \in Heights : l # Now => Ledger(l)' = Ledger(l)
      /\ Ledger(Now) = open
  BY GrownLedgers
<1>2. \A l : l = Now => Ledger(l)' = Append(open, t) /\ Ledger(l) = open
  BY LedgerTypes DEF Ledger, Now, Grows
<1>3. /\ open \in Seq(TxRecords) /\ t \in TxRecords /\ DOMAIN open = 1..Len(open)
      /\ Len(open) \in Nat
  BY LedgerTypes DEF ChainTypeOK, Grows
<1>4. /\ DOMAIN Append(open, t) = 1..Here /\ Append(open, t)[Here] = t
      /\ \A i \in DOMAIN open : Append(open, t)[i] = open[i]
  BY <1>3 DEF Here
<1>5. ASSUME NEW p, NEW l \in Heights, NEW i \in ImagesOf(p, Ledger(l))
      PROVE  /\ i \in ImagesOf(p, Ledger(l))' /\ WriteAt(l, i)' = WriteAt(l, i)
             /\ Before(l, i, Now, Here) /\ ~ Before(Now, Here, l, i)
  <2>1. l \in Nat /\ l <= Now /\ i \in Nat /\ i \in DOMAIN Ledger(l)
    BY Told
  <2>2. CASE l # Now
    <3>1. Ledger(l)' = Ledger(l)
      BY <1>1, <2>2
    <3> QED
      BY <1>1, <2>1, <2>2, <3>1 DEF ImagesOf, WriteAt, Before
  <2>3. CASE l = Now
    <3>1. Ledger(l)' = Append(open, t) /\ Ledger(l) = open
      BY <1>2, <2>3
    <3>2. i \in 1..Here /\ i < Here /\ Append(open, t)[i] = open[i]
      BY <1>3, <1>4, <2>1, <3>1 DEF Here
    <3> QED
      BY <1>1, <1>4, <2>1, <2>3, <3>1, <3>2 DEF ImagesOf, WriteAt, Before
  <2> QED
    BY <2>2, <2>3
<1>6. ASSUME NEW p, NEW l \in Heights, NEW i \in ImagesOf(p, Ledger(l))'
      PROVE  \/ i \in ImagesOf(p, Ledger(l))
             \/ l = Now /\ i = Here /\ t.write # NoWrite /\ t.write.pool = p
  <2>1. CASE l # Now
    <3>1. Ledger(l)' = Ledger(l)
      BY <1>1, <2>1
    <3> QED
      BY <3>1 DEF ImagesOf
  <2>2. CASE l = Now
    <3>1. Ledger(l)' = Append(open, t) /\ Ledger(l) = open
      BY <1>2, <2>2
    <3>2. i \in 1..Here /\ Append(open, t)[i].write # NoWrite /\ Append(open, t)[i].write.pool = p
      BY <1>4, <3>1 DEF ImagesOf
    <3>3. CASE i = Here
      BY <1>4, <2>2, <3>2, <3>3
    <3>4. CASE i # Here
      <4>1. i \in DOMAIN open
        BY <1>3, <3>2, <3>4 DEF Here
      <4> QED
        BY <1>4, <3>1, <3>2, <4>1 DEF ImagesOf
    <3> QED
      BY <3>3, <3>4
  <2> QED
    BY <2>1, <2>2
<1>7. ASSUME NEW l, NEW i, l = Now, i = Here
      PROVE  WriteAt(l, i)' = t.write /\ (t.write # NoWrite => i \in ImagesOf(t.write.pool, Ledger(l))')
  <2>1. Ledger(l)' = Append(open, t)
    BY <1>2, <1>7
  <2>2. Here \in 1..Here
    BY <1>3 DEF Here
  <2> QED
    BY <2>1, <2>2, <1>4, <1>7 DEF WriteAt, ImagesOf
<1> QED
  BY <1>5, <1>6, <1>7

LEMMA ClosedStory ==
    ASSUME ChainTypeOK, CloseLedger
    PROVE  /\ \A l \in Heights : l \in Heights' /\ Ledger(l)' = Ledger(l)
           /\ \A l \in Heights' : l \in Heights \/ Ledger(l)' = <<>>
           /\ \A p, l, i : l \in Heights' /\ i \in ImagesOf(p, Ledger(l))' =>
                l \in Heights /\ i \in ImagesOf(p, Ledger(l)) /\ WriteAt(l, i)' = WriteAt(l, i)
           /\ \A p, l, i : l \in Heights /\ i \in ImagesOf(p, Ledger(l)) =>
                l \in Heights' /\ i \in ImagesOf(p, Ledger(l))' /\ WriteAt(l, i)' = WriteAt(l, i)
           /\ End \in Nat /\ End' = End + 1 /\ pool' = pool
<1>1. /\ Len(chain) \in Nat /\ DOMAIN chain = 1..Len(chain) /\ chain \in Seq(Seq(TxRecords)) /\ open \in Seq(TxRecords)
  BY LedgerTypes DEF ChainTypeOK
<1>2. chain' = Append(chain, open) /\ open' = <<>> /\ pool' = pool
  BY DEF CloseLedger
<1>3. /\ Len(chain') = Len(chain) + 1 /\ DOMAIN chain' = 1..(Len(chain) + 1)
      /\ chain'[Len(chain) + 1] = open /\ \A l \in DOMAIN chain : chain'[l] = chain[l]
  BY <1>1, <1>2
<1>4. End \in Nat /\ End' = End + 1
  BY <1>1, <1>3 DEF End
<1>5. ASSUME NEW l \in Heights PROVE l \in Heights' /\ Ledger(l)' = Ledger(l)
  <2>1. l \in DOMAIN chain \/ (l = Len(chain) + 1 /\ l \notin DOMAIN chain)
    BY <1>1 DEF Heights
  <2>2. l \in DOMAIN chain'
    BY <1>1, <1>3 DEF Heights
  <2>3. l \in Heights'
    BY <1>1, <1>3 DEF Heights
  <2> QED
    BY <1>3, <2>1, <2>2, <2>3 DEF Ledger
<1>6. ASSUME NEW l \in Heights' PROVE l \in Heights \/ Ledger(l)' = <<>>
  <2>1. l \in Heights \/ l \notin DOMAIN chain'
    BY <1>1, <1>3 DEF Heights
  <2> QED
    BY <1>2, <2>1 DEF Ledger
<1>7. ASSUME NEW p, NEW l, NEW i, l \in Heights', i \in ImagesOf(p, Ledger(l))'
      PROVE  l \in Heights /\ i \in ImagesOf(p, Ledger(l)) /\ WriteAt(l, i)' = WriteAt(l, i)
  <2>1. i \in DOMAIN Ledger(l)'
    BY <1>7 DEF ImagesOf
  <2>2. l \in Heights
    BY <1>6, <1>7, <2>1
  <2> QED
    BY <1>5, <1>7, <2>2 DEF ImagesOf, WriteAt
<1>8. ASSUME NEW p, NEW l, NEW i, l \in Heights, i \in ImagesOf(p, Ledger(l))
      PROVE  l \in Heights' /\ i \in ImagesOf(p, Ledger(l))' /\ WriteAt(l, i)' = WriteAt(l, i)
  BY <1>5, <1>8 DEF ImagesOf, WriteAt
<1> QED
  BY <1>2, <1>4, <1>5, <1>6, <1>7, <1>8

-----------------------------------------------------------------------------
(* Each part of the invariant is kept by each kind of step.                *)

LEMMA TypesKept ==
    ASSUME PoolRegistryAssumption, ChainTypeOK,
           (\E t : Grows(t)) \/ CloseLedger \/ UNCHANGED chainVars
    PROVE  ChainTypeOK'
<1>1. ASSUME NEW t, Grows(t) PROVE ChainTypeOK'
  <2>1. chain' = chain /\ open' \in Seq(TxRecords)
    BY <1>1 DEF Grows, ChainTypeOK
  <2>2. CASE t.write = NoWrite
    BY <1>1, <2>1, <2>2 DEF Grows, ChainTypeOK
  <2>3. CASE t.write # NoWrite
    <3>1. t.write \in WriteRecords
      BY <1>1, <2>3 DEF Grows, TxRecords
    <3>2. t.write.after \in Images
      BY <3>1 DEF WriteRecords
    <3>3. pool' = [pool EXCEPT ![t.write.pool] = t.write.after]
      BY <1>1, <2>3 DEF Grows, Fits
    <3>4. pool' \in [Pools -> Images \cup {Undeployed}]
      BY <3>2, <3>3 DEF ChainTypeOK
    <3> QED
      BY <2>1, <3>4 DEF ChainTypeOK
  <2> QED
    BY <2>2, <2>3
<1>2. ASSUME CloseLedger PROVE ChainTypeOK'
  <2>1. chain' = Append(chain, open) /\ open' = <<>> /\ pool' = pool
    BY <1>2 DEF CloseLedger
  <2> QED
    BY <2>1 DEF ChainTypeOK
<1>3. ASSUME UNCHANGED chainVars PROVE ChainTypeOK'
  BY <1>3 DEF ChainTypeOK, chainVars
<1> QED
  BY <1>1, <1>2, <1>3

\* The storage after a write, and that what was deployed stays so.
LEMMA Deployments ==
    ASSUME PoolRegistryAssumption, ChainTypeOK, NEW t, Grows(t)
    PROVE  /\ t.write = NoWrite => pool' = pool /\ Deployed' = Deployed
           /\ t.write # NoWrite =>
                /\ t.write \in WriteRecords /\ t.write.pool \in Pools
                /\ Deployed' = Deployed \cup {t.write.pool}
                /\ pool'[t.write.pool] = t.write.after
                /\ \A p \in Pools : p # t.write.pool => pool'[p] = pool[p]
<1>1. CASE t.write = NoWrite
  BY <1>1 DEF Grows, Deployed
<1>2. CASE t.write # NoWrite
  <2>1. t.write \in WriteRecords
    BY <1>2 DEF Grows, TxRecords
  <2>2. t.write.after \in Images /\ t.write.pool \in Pools
    BY <2>1 DEF WriteRecords
  <2>3. t.write.after # Undeployed
    BY <2>2, Distinct
  <2>4. pool' = [pool EXCEPT ![t.write.pool] = t.write.after]
    BY <1>2 DEF Grows, Fits
  <2>5. /\ pool'[t.write.pool] = t.write.after
        /\ \A p \in Pools : p # t.write.pool => pool'[p] = pool[p]
    BY <2>2, <2>4 DEF ChainTypeOK
  <2>6. Deployed' = Deployed \cup {t.write.pool}
    BY <2>2, <2>3, <2>5 DEF Deployed
  <2> QED
    BY <1>2, <2>1, <2>2, <2>5, <2>6
<1> QED
  BY <1>1, <1>2

LEMMA SoundKept ==
    ASSUME PoolRegistryAssumption, ChainTypeOK, Sound,
           (\E t : Grows(t)) \/ CloseLedger \/ UNCHANGED chainVars
    PROVE  Sound'
<1>1. ASSUME NEW t, Grows(t) PROVE Sound'
  <2>1. ASSUME NEW l \in Heights', NEW i \in DOMAIN Ledger(l)' PROVE TxSound(Ledger(l)'[i])
    <3>1. l \in Heights /\ (l # Now => Ledger(l)' = Ledger(l))
      BY <1>1, GrownLedgers
    <3>2. CASE l # Now
      BY <2>1, <3>1, <3>2 DEF Sound
    <3>3. CASE l = Now
      <4>1. Ledger(l)' = Append(open, t) /\ Ledger(l) = open /\ open \in Seq(TxRecords) /\ t \in TxRecords
        BY <1>1, <3>3, LedgerTypes DEF Ledger, Now, Grows, ChainTypeOK
      <4>2. (i \in DOMAIN open /\ Ledger(l)'[i] = open[i]) \/ Ledger(l)'[i] = t
        BY <2>1, <4>1
      <4> QED
        BY <1>1, <3>1, <4>1, <4>2 DEF Sound, Grows
    <3> QED
      BY <3>2, <3>3
  <2>2. ASSUME NEW p \in Deployed' PROVE ImageSound(p, pool'[p])
    <3>1. CASE t.write = NoWrite
      BY <1>1, <2>2, <3>1, Deployments DEF Sound
    <3>2. CASE t.write # NoWrite
      <4>1. ImageSound(t.write.pool, t.write.after)
        BY <1>1, <3>2 DEF Grows, TxSound
      <4>2. p \in Pools
        BY <2>2 DEF Deployed
      <4> QED
        BY <1>1, <2>2, <3>2, <4>1, <4>2, Deployments DEF Sound
    <3> QED
      BY <3>1, <3>2
  <2> QED
    BY <2>1, <2>2 DEF Sound
<1>2. ASSUME CloseLedger PROVE Sound'
  <2>1. ASSUME NEW l \in Heights', NEW i \in DOMAIN Ledger(l)' PROVE TxSound(Ledger(l)'[i])
    <3>1. l \in Heights /\ Ledger(l)' = Ledger(l)
      <4>1. Ledger(l)' # <<>>
        BY <2>1
      <4> QED
        BY <1>2, <4>1, ClosedStory
    <3> QED
      BY <2>1, <3>1 DEF Sound
  <2>2. Deployed' = Deployed /\ pool' = pool
    BY <1>2 DEF CloseLedger, Deployed
  <2> QED
    BY <2>1, <2>2 DEF Sound
<1>3. ASSUME UNCHANGED chainVars PROVE Sound'
  <2>1. Heights' = Heights /\ Deployed' = Deployed /\ pool' = pool /\ \A l : Ledger(l)' = Ledger(l)
    BY <1>3 DEF chainVars, Heights, Ledger, Deployed
  <2> QED
    BY <2>1 DEF Sound
<1> QED
  BY <1>1, <1>2, <1>3

\* A creation finds the pool undeployed, and what was written was deployed.
LEMMA CreatedOnceKept ==
    ASSUME PoolRegistryAssumption, ChainTypeOK, CreatedOnce,
           (\E t : Grows(t)) \/ CloseLedger \/ UNCHANGED chainVars
    PROVE  CreatedOnce'
<1>1. ASSUME NEW t, Grows(t) PROVE CreatedOnce'
  <2>1. /\ Heights' = Heights /\ Now \in Heights /\ Now \in Nat /\ Here \in Nat
    BY <1>1, GrownLedgers
  <2>2. PICK n \in Heights, k \in Nat : n = Now /\ k = Here
    BY <2>1
  <2>3. /\ \A p : \A l \in Heights : \A i \in ImagesOf(p, Ledger(l)) :
             /\ i \in ImagesOf(p, Ledger(l))' /\ WriteAt(l, i)' = WriteAt(l, i)
             /\ Before(l, i, n, k) /\ ~ Before(n, k, l, i)
        /\ \A p : \A l \in Heights : \A i \in ImagesOf(p, Ledger(l))' :
             \/ i \in ImagesOf(p, Ledger(l))
             \/ l = n /\ i = k /\ t.write # NoWrite /\ t.write.pool = p
        /\ WriteAt(n, k)' = t.write
        /\ t.write # NoWrite => k \in ImagesOf(t.write.pool, Ledger(n))'
    BY <1>1, <2>2, GrownStory
  <2>4. ~ Before(n, k, n, k)
    BY <2>1, <2>2 DEF Before
  <2>5. Deployed \subseteq Deployed' /\ Deployed' \subseteq Pools
    BY <1>1, Deployments DEF Deployed
  <2>6. ASSUME NEW p \in Deployed'
        PROVE  \E m \in Heights : \E j \in ImagesOf(p, Ledger(m))' : WriteAt(m, j)'.change = "created"
    <3>1. CASE p \in Deployed
      <4>1. PICK m \in Heights : \E j \in ImagesOf(p, Ledger(m)) : WriteAt(m, j).change = "created"
        BY <3>1 DEF CreatedOnce
      <4>2. PICK j \in ImagesOf(p, Ledger(m)) : WriteAt(m, j).change = "created"
        BY <4>1
      <4> QED
        BY <2>3, <4>2
    <3>2. CASE p \notin Deployed
      <4>1. t.write # NoWrite /\ p = t.write.pool
        BY <1>1, <2>6, <3>2, Deployments
      <4>2. t.write.change = "created"
        BY <1>1, <3>2, <4>1 DEF Grows, Fits
      <4> QED
        BY <2>3, <4>1, <4>2
    <3> QED
      BY <3>1, <3>2
  <2>7. ASSUME NEW p \in Pools, NEW l \in Heights, NEW i \in ImagesOf(p, Ledger(l))'
        PROVE  /\ p \in Deployed'
               /\ p \in Configs => WriteAt(l, i)'.after.token = pool'[p].token
               /\ \A m \in Heights : \A j \in ImagesOf(p, Ledger(m))' :
                    WriteAt(m, j)'.change = "created" =>
                      /\ ~ Before(l, i, m, j)
                      /\ WriteAt(l, i)'.change = "created" => l = m /\ i = j
    <3>1. CASE i \in ImagesOf(p, Ledger(l))
      <4>1. /\ p \in Deployed /\ WriteAt(l, i)' = WriteAt(l, i)
            /\ p \in Configs => WriteAt(l, i).after.token = pool[p].token
        BY <2>3, <3>1 DEF CreatedOnce
      <4>2. p \in Configs => pool'[p].token = pool[p].token
        <5>1. CASE t.write # NoWrite /\ t.write.pool = p
          BY <1>1, <4>1, <5>1, Deployments DEF Grows, Fits
        <5>2. CASE ~ (t.write # NoWrite /\ t.write.pool = p)
          BY <1>1, <5>2, Deployments
        <5> QED
          BY <5>1, <5>2
      <4>3. ASSUME NEW m \in Heights, NEW j \in ImagesOf(p, Ledger(m))', WriteAt(m, j)'.change = "created"
            PROVE  /\ ~ Before(l, i, m, j)
                   /\ WriteAt(l, i)'.change = "created" => l = m /\ i = j
        <5>1. CASE j \in ImagesOf(p, Ledger(m))
          BY <2>3, <3>1, <4>3, <5>1 DEF CreatedOnce
        <5>2. CASE m = n /\ j = k /\ t.write # NoWrite /\ t.write.pool = p
          BY <1>1, <2>3, <4>1, <4>3, <5>2 DEF Grows, Fits
        <5> QED
          BY <2>3, <5>1, <5>2
      <4> QED
        BY <2>5, <4>1, <4>2, <4>3
    <3>2. CASE l = n /\ i = k /\ t.write # NoWrite /\ t.write.pool = p
      <4>1. p \in Deployed' /\ WriteAt(l, i)' = t.write /\ pool'[p] = t.write.after
        BY <1>1, <2>3, <3>2, Deployments
      <4>2. ASSUME NEW m \in Heights, NEW j \in ImagesOf(p, Ledger(m))', WriteAt(m, j)'.change = "created"
            PROVE  /\ ~ Before(l, i, m, j)
                   /\ WriteAt(l, i)'.change = "created" => l = m /\ i = j
        <5>1. CASE j \in ImagesOf(p, Ledger(m))
          <6>1. p \in Deployed
            BY <5>1 DEF CreatedOnce
          <6>2. t.write.change # "created"
            BY <1>1, <3>2, <6>1 DEF Grows, Fits
          <6> QED
            BY <2>3, <3>2, <4>1, <5>1, <6>2
        <5>2. CASE m = n /\ j = k
          BY <2>4, <3>2, <5>2
        <5> QED
          BY <2>3, <5>1, <5>2
      <4> QED
        BY <4>1, <4>2
    <3> QED
      BY <2>3, <3>1, <3>2
  <2>8. \A p \in Deployed' : \E m \in Heights' : \E j \in ImagesOf(p, Ledger(m))' :
          WriteAt(m, j)'.change = "created"
    BY <2>1, <2>6
  <2>9. \A p \in Pools, l \in Heights' : \A i \in ImagesOf(p, Ledger(l))' :
          /\ p \in Deployed'
          /\ p \in Configs => WriteAt(l, i)'.after.token = pool'[p].token
          /\ \A m \in Heights' : \A j \in ImagesOf(p, Ledger(m))' :
               WriteAt(m, j)'.change = "created" =>
                 /\ ~ Before(l, i, m, j)
                 /\ WriteAt(l, i)'.change = "created" => l = m /\ i = j
    BY <2>1, <2>7
  <2> QED
    BY <2>8, <2>9 DEF CreatedOnce
<1>2. ASSUME CloseLedger PROVE CreatedOnce'
  <2>1. /\ \A p, l, i : l \in Heights' /\ i \in ImagesOf(p, Ledger(l))' =>
             l \in Heights /\ i \in ImagesOf(p, Ledger(l)) /\ WriteAt(l, i)' = WriteAt(l, i)
        /\ \A p, l, i : l \in Heights /\ i \in ImagesOf(p, Ledger(l)) =>
             l \in Heights' /\ i \in ImagesOf(p, Ledger(l))' /\ WriteAt(l, i)' = WriteAt(l, i)
    BY <1>2, ClosedStory
  <2>2. pool' = pool /\ Deployed' = Deployed
    BY <1>2 DEF CloseLedger, Deployed
  <2>3. ASSUME NEW p \in Deployed
        PROVE  \E m \in Heights' : \E j \in ImagesOf(p, Ledger(m))' : WriteAt(m, j)'.change = "created"
    <3>1. PICK m \in Heights : \E j \in ImagesOf(p, Ledger(m)) : WriteAt(m, j).change = "created"
      BY DEF CreatedOnce
    <3>2. PICK j \in ImagesOf(p, Ledger(m)) : WriteAt(m, j).change = "created"
      BY <3>1
    <3> QED
      BY <2>1, <3>2
  <2>4. ASSUME NEW p \in Pools, NEW l \in Heights', NEW i \in ImagesOf(p, Ledger(l))'
        PROVE  /\ p \in Deployed
               /\ p \in Configs => WriteAt(l, i)'.after.token = pool[p].token
               /\ \A m \in Heights' : \A j \in ImagesOf(p, Ledger(m))' :
                    WriteAt(m, j)'.change = "created" =>
                      /\ ~ Before(l, i, m, j)
                      /\ WriteAt(l, i)'.change = "created" => l = m /\ i = j
    <3>1. l \in Heights /\ i \in ImagesOf(p, Ledger(l)) /\ WriteAt(l, i)' = WriteAt(l, i)
      BY <2>1
    <3>2. ASSUME NEW m \in Heights', NEW j \in ImagesOf(p, Ledger(m))'
          PROVE  m \in Heights /\ j \in ImagesOf(p, Ledger(m)) /\ WriteAt(m, j)' = WriteAt(m, j)
      BY <2>1
    <3> QED
      BY <3>1, <3>2 DEF CreatedOnce
  <2> QED
    BY <2>2, <2>3, <2>4 DEF CreatedOnce
<1>3. ASSUME UNCHANGED chainVars PROVE CreatedOnce'
  <2>1. /\ Heights' = Heights /\ Deployed' = Deployed /\ pool' = pool
        /\ \A l : Ledger(l)' = Ledger(l) /\ \A i : WriteAt(l, i)' = WriteAt(l, i)
    BY <1>3 DEF chainVars, Heights, Ledger, Deployed, WriteAt
  <2> QED
    BY <2>1 DEF CreatedOnce
<1> QED
  BY <1>1, <1>2, <1>3

\* A stretch that is still after a step was still before it.
LEMMA StillBefore ==
    ASSUME PoolRegistryAssumption, ChainTypeOK, (\E t : Grows(t)) \/ CloseLedger,
           NEW p, NEW l, NEW i, NEW m, NEW j, Still(p, l, i, m, j)'
    PROVE  Still(p, l, i, m, j)
<1>1. ASSUME NEW c \in Heights, NEW d \in ImagesOf(p, Ledger(c))
      PROVE  c \in Heights' /\ d \in ImagesOf(p, Ledger(c))' /\ WriteAt(c, d)' = WriteAt(c, d)
  <2>1. ASSUME NEW t, Grows(t)
        PROVE  c \in Heights' /\ d \in ImagesOf(p, Ledger(c))' /\ WriteAt(c, d)' = WriteAt(c, d)
    BY <2>1, GrownLedgers, GrownStory
  <2>2. ASSUME CloseLedger
        PROVE  c \in Heights' /\ d \in ImagesOf(p, Ledger(c))' /\ WriteAt(c, d)' = WriteAt(c, d)
    BY <2>2, ClosedStory
  <2> QED
    BY <2>1, <2>2
<1> QED
  BY <1>1 DEF Still

\* Up to the end is up to any height that is past every ledger.
LEMMA StillToEnd ==
    ASSUME PoolRegistryAssumption, ChainTypeOK, NEW p, NEW l, NEW i, NEW m, NEW j,
           \A c \in Heights : \A d \in ImagesOf(p, Ledger(c)) : ~ Before(m, j, c, d),
           Still(p, l, i, m, j)
    PROVE  Still(p, l, i, End, 0)
BY DEF Still

\* A write that moves nothing says what the storage held, and one that finds
\* the pool undeployed and moves nothing says that there is nothing.
LEMMA ReservesFollowKept ==
    ASSUME PoolRegistryAssumption, ChainTypeOK, CreatedOnce, ReservesFollow,
           (\E t : Grows(t)) \/ CloseLedger \/ UNCHANGED chainVars
    PROVE  ReservesFollow'
<1>1. ASSUME NEW t, Grows(t) PROVE ReservesFollow'
  <2>1. /\ Heights' = Heights /\ End' = End /\ Now \in Heights /\ Now \in Nat /\ Here \in Nat /\ Now < End
        /\ End \in Nat /\ 0 < Now
    BY <1>1, GrownLedgers, LedgerTypes DEF End, Now
  <2>2. PICK n \in Heights, k \in Nat : n = Now /\ k = Here
    BY <2>1
  <2>3. /\ \A p : \A l \in Heights : \A i \in ImagesOf(p, Ledger(l)) :
             /\ i \in ImagesOf(p, Ledger(l))' /\ WriteAt(l, i)' = WriteAt(l, i)
             /\ Before(l, i, n, k) /\ ~ Before(n, k, l, i)
        /\ \A p : \A l \in Heights : \A i \in ImagesOf(p, Ledger(l))' :
             \/ i \in ImagesOf(p, Ledger(l))
             \/ l = n /\ i = k /\ t.write # NoWrite /\ t.write.pool = p
        /\ WriteAt(n, k)' = t.write
        /\ t.write # NoWrite => k \in ImagesOf(t.write.pool, Ledger(n))'
    BY <1>1, <2>2, GrownStory
  <2>4. /\ n \in Nat /\ ~ Before(n, k, n, k) /\ ~ Before(End, 0, n, k) /\ Before(0, 0, n, k)
    BY <2>1, <2>2 DEF Before
  <2>5. ASSUME NEW p, NEW l, NEW i, NEW m, NEW j, Still(p, l, i, m, j)'
        PROVE  /\ Still(p, l, i, m, j)
               /\ t.write # NoWrite /\ t.write.pool = p /\ Before(l, i, n, k) /\ ~ Before(m, j, n, k) =>
                    ~ MovesReserves(t.write)
    <3>1. Still(p, l, i, m, j)
      BY <1>1, <2>5, StillBefore
    <3> QED
      BY <2>1, <2>3, <2>5, <3>1 DEF Still
  <2>6. ASSUME NEW p, NEW l, NEW i, Still(p, l, i, n, k) PROVE Still(p, l, i, End, 0)
    BY <2>3, <2>6, StillToEnd
  <2>7. ASSUME NEW p, t.write # NoWrite, t.write.pool = p, ~ MovesReserves(t.write)
        PROVE  /\ t.write.change = "created" => p \notin Deployed /\ t.write.after.reserves = NoReserves
               /\ t.write.change # "created" => p \in Deployed /\ t.write.after.reserves = pool[p].reserves
    BY <1>1, <2>7 DEF Grows, Fits
  <2>8. ASSUME NEW p \in Pools, t.write # NoWrite, t.write.pool = p, Still(p, 0, 0, n, k)'
        PROVE  t.write.after.reserves = NoReserves
    <3>1. Still(p, 0, 0, End, 0) /\ ~ MovesReserves(t.write)
      BY <2>4, <2>5, <2>6, <2>8
    <3> QED
      BY <2>7, <2>8, <3>1 DEF ReservesFollow
  <2>9. ASSUME NEW p \in Pools, NEW l \in Heights, NEW i \in ImagesOf(p, Ledger(l)),
               t.write # NoWrite, t.write.pool = p, Still(p, l, i, n, k)'
        PROVE  WriteAt(l, i).after.reserves = t.write.after.reserves
    <3>1. Still(p, l, i, End, 0) /\ ~ MovesReserves(t.write)
      BY <2>3, <2>4, <2>5, <2>6, <2>9
    <3>2. p \in Deployed
      BY <2>9 DEF CreatedOnce
    <3> QED
      BY <2>7, <2>9, <3>1, <3>2 DEF ReservesFollow
  <2>10. ASSUME NEW p \in Pools, NEW l \in Heights, NEW i \in ImagesOf(p, Ledger(l))', Still(p, 0, 0, l, i)'
         PROVE  WriteAt(l, i)'.after.reserves = NoReserves
    <3>1. CASE i \in ImagesOf(p, Ledger(l))
      BY <2>3, <2>5, <2>10, <3>1 DEF ReservesFollow
    <3>2. CASE l = n /\ i = k /\ t.write # NoWrite /\ t.write.pool = p
      BY <2>3, <2>8, <2>10, <3>2
    <3> QED
      BY <2>3, <3>1, <3>2
  <2>11. ASSUME NEW p \in Pools, NEW l \in Heights, NEW i \in ImagesOf(p, Ledger(l))', Still(p, l, i, End, 0)'
         PROVE  WriteAt(l, i)'.after.reserves = pool'[p].reserves
    <3>2. PICK e : e = End
      OBVIOUS
    <3>3. Still(p, l, i, e, 0)'
      BY <2>1, <2>11, <3>2
    <3>4. Still(p, l, i, End, 0)
      BY <2>5, <3>2, <3>3
    <3>5. CASE i \in ImagesOf(p, Ledger(l)) /\ t.write # NoWrite /\ t.write.pool = p
      <4>1. ~ MovesReserves(t.write) /\ p \in Deployed
        BY <2>3, <2>4, <2>5, <3>2, <3>3, <3>5 DEF CreatedOnce
      <4>2. WriteAt(l, i).after.reserves = pool[p].reserves
        BY <3>4, <3>5 DEF ReservesFollow
      <4> QED
        BY <1>1, <2>3, <2>7, <3>5, <4>1, <4>2, Deployments
    <3>6. CASE i \in ImagesOf(p, Ledger(l)) /\ ~ (t.write # NoWrite /\ t.write.pool = p)
      <4>1. pool'[p] = pool[p]
        BY <1>1, <3>6, Deployments
      <4> QED
        BY <2>3, <3>4, <3>6, <4>1 DEF ReservesFollow
    <3>7. CASE l = n /\ i = k /\ t.write # NoWrite /\ t.write.pool = p
      BY <1>1, <2>3, <3>7, Deployments
    <3> QED
      BY <2>3, <3>5, <3>6, <3>7
  <2>12. ASSUME NEW p \in Pools, NEW l \in Heights, NEW i \in ImagesOf(p, Ledger(l))',
                NEW m \in Heights, NEW j \in ImagesOf(p, Ledger(m))',
                Before(l, i, m, j), Still(p, l, i, m, j)'
         PROVE  WriteAt(l, i)'.after.reserves = WriteAt(m, j)'.after.reserves
    <3>1. CASE i \in ImagesOf(p, Ledger(l)) /\ j \in ImagesOf(p, Ledger(m))
      BY <2>3, <2>5, <2>12, <3>1 DEF ReservesFollow
    <3>2. CASE i \in ImagesOf(p, Ledger(l)) /\ m = n /\ j = k /\ t.write # NoWrite /\ t.write.pool = p
      BY <2>3, <2>9, <2>12, <3>2
    <3>3. CASE l = n /\ i = k
      BY <2>3, <2>4, <2>12, <3>3
    <3> QED
      BY <2>3, <3>1, <3>2, <3>3
  <2>13. ASSUME NEW p \in Deployed', Still(p, 0, 0, End, 0)' PROVE pool'[p].reserves = NoReserves
    <3>1. PICK e : e = End
      OBVIOUS
    <3>2. Still(p, 0, 0, e, 0)'
      BY <2>1, <2>13, <3>1
    <3>3. Still(p, 0, 0, End, 0) /\ p \in Pools
      BY <2>5, <3>1, <3>2 DEF Deployed
    <3>4. CASE t.write # NoWrite /\ t.write.pool = p
      <4>1. ~ MovesReserves(t.write)
        BY <2>4, <2>5, <3>1, <3>2, <3>4
      <4> QED
        BY <1>1, <2>7, <3>3, <3>4, <4>1, Deployments DEF ReservesFollow
    <3>5. CASE ~ (t.write # NoWrite /\ t.write.pool = p)
      <4>1. pool'[p] = pool[p] /\ p \in Deployed
        BY <1>1, <2>13, <3>3, <3>5, Deployments
      <4> QED
        BY <3>3, <4>1 DEF ReservesFollow
    <3> QED
      BY <3>4, <3>5
  <2> QED
    BY <2>1, <2>10, <2>11, <2>12, <2>13 DEF ReservesFollow
<1>2. ASSUME CloseLedger PROVE ReservesFollow'
  <2>1. /\ \A p, l, i : l \in Heights' /\ i \in ImagesOf(p, Ledger(l))' =>
             l \in Heights /\ i \in ImagesOf(p, Ledger(l)) /\ WriteAt(l, i)' = WriteAt(l, i)
        /\ End' = End + 1 /\ End \in Nat
    BY <1>2, ClosedStory
  <2>2. pool' = pool /\ Deployed' = Deployed
    BY <1>2 DEF CloseLedger, Deployed
  <2>3. ASSUME NEW p, NEW l, NEW i, NEW m, NEW j, Still(p, l, i, m, j)' PROVE Still(p, l, i, m, j)
    BY <1>2, <2>3, StillBefore
  <2>4. ASSUME NEW p, NEW l, NEW i, Still(p, l, i, End, 0)' PROVE Still(p, l, i, End, 0)
    <3>1. PICK e : e = End + 1
      OBVIOUS
    <3>2. Still(p, l, i, e, 0)'
      BY <2>1, <2>4, <3>1
    <3>3. Still(p, l, i, e, 0)
      BY <2>3, <3>2
    <3>4. ASSUME NEW c \in Heights, NEW d \in ImagesOf(p, Ledger(c)) PROVE ~ Before(e, 0, c, d)
      BY <2>1, <3>1, Told DEF Before
    <3> QED
      BY <3>3, <3>4, StillToEnd
  <2> QED
    BY <2>1, <2>2, <2>3, <2>4 DEF ReservesFollow
<1>3. ASSUME UNCHANGED chainVars PROVE ReservesFollow'
  <2>1. /\ Heights' = Heights /\ Deployed' = Deployed /\ pool' = pool /\ End' = End
        /\ \A l : Ledger(l)' = Ledger(l) /\ \A i : WriteAt(l, i)' = WriteAt(l, i)
    BY <1>3 DEF chainVars, Heights, Ledger, Deployed, WriteAt, End
  <2>2. \A p, l, i, m, j : Still(p, l, i, m, j)' <=> Still(p, l, i, m, j)
    BY <2>1 DEF Still
  <2>3. \A p, l, i : Still(p, l, i, End, 0)' <=> Still(p, l, i, End, 0)
    BY <2>1 DEF Still
  <2> QED
    BY <2>1, <2>2, <2>3 DEF ReservesFollow
<1> QED
  BY <1>1, <1>2, <1>3

-----------------------------------------------------------------------------
(* The tables.                                                             *)

\* A row of reserves is that of the last write that moved them on its plane.
LastOn(p, l, i) ==
    Latest({j \in MovesIn(p, chain[l]) : chain[l][j].write.after.plane = chain[l][i].write.after.plane})

MoveRow(p, l, i) ==
    [pool |-> p, plane |-> chain[l][i].write.after.plane, ledger |-> l,
     reserves |-> chain[l][LastOn(p, l, i)].write.after.reserves]

LEMMA MoveRows ==
    ASSUME NEW p, NEW l
    PROVE  ReserveRows(p, l) = {MoveRow(p, l, i) : i \in MovesIn(p, chain[l])}
BY Zenon DEF ReserveRows, MoveRow, LastOn

LEMMA RowShapes ==
    ASSUME ChainTypeOK, NEW p \in Pools, NEW l \in DOMAIN chain
    PROVE  /\ l \in Nat /\ 0 < l
           /\ RegistryRow(p, l) # NoRow => RegistryRow(p, l).at = l
           /\ InstanceRow(p, l) # NoRow => InstanceRow(p, l).at = l
           /\ \A r \in ReserveRows(p, l) : r.ledger = l /\ r.pool = p
<1>1. l \in Nat /\ 0 < l
  BY LedgerTypes
<1>2. RegistryRow(p, l) # NoRow => RegistryRow(p, l).at = l
  BY DEF RegistryRow
<1>3. InstanceRow(p, l) # NoRow => InstanceRow(p, l).at = l
  BY DEF InstanceRow
<1>4. ASSUME NEW r \in ReserveRows(p, l) PROVE r.ledger = l /\ r.pool = p
  <2>1. PICK i \in MovesIn(p, chain[l]) : r = MoveRow(p, l, i)
    BY <1>4, MoveRows
  <2> QED
    BY <2>1 DEF MoveRow
<1> QED
  BY <1>1, <1>2, <1>3, <1>4

\* A closed ledger says the same for ever.
LEMMA RowsStay ==
    ASSUME ChainTypeOK, (\E t : Grows(t)) \/ CloseLedger \/ UNCHANGED chainVars, NEW p, NEW l \in DOMAIN chain
    PROVE  /\ l \in DOMAIN chain'
           /\ RegistryRow(p, l)' = RegistryRow(p, l)
           /\ InstanceRow(p, l)' = InstanceRow(p, l)
           /\ ReserveRows(p, l)' = ReserveRows(p, l)
<1>1. l \in DOMAIN chain' /\ chain'[l] = chain[l]
  <2>1. CASE chain' = chain
    BY <2>1
  <2>2. CASE CloseLedger
    <3>1. chain' = Append(chain, open)
      BY <2>2 DEF CloseLedger
    <3> QED
      BY <3>1 DEF ChainTypeOK
  <2> QED
    BY <2>1, <2>2 DEF Grows, chainVars
<1>2. RegistryRow(p, l)' = RegistryRow(p, l)
  BY <1>1 DEF RegistryRow
<1>3. InstanceRow(p, l)' = InstanceRow(p, l)
  BY <1>1 DEF InstanceRow
<1>4. ReserveRows(p, l)' = ReserveRows(p, l)
  BY <1>1 DEF ReserveRows
<1> QED
  BY <1>1, <1>2, <1>3, <1>4

LEMMA PutKeepsNewest ==
    ASSUME NEW row, NEW new, row.at \in Nat, new.at \in Nat
    PROVE  /\ Put(row, new) = row \/ (Put(row, new) = new /\ new # NoRow)
           /\ row.at <= Put(row, new).at
           /\ new # NoRow => new.at <= Put(row, new).at
BY DEF Put

LEMMA TablesKept ==
    ASSUME ChainTypeOK, TablesFollow, (\E t : Grows(t)) \/ CloseLedger \/ UNCHANGED vars
    PROVE  TablesFollow'
<1>1. UNCHANGED tableVars /\ ((\E t : Grows(t)) \/ CloseLedger \/ UNCHANGED chainVars)
  BY DEF Grows, CloseLedger, vars
<1>2. stored \subseteq DOMAIN chain
  BY DEF TablesFollow
<1>3. \A p : \A l \in stored :
        /\ l \in DOMAIN chain'
        /\ RegistryRow(p, l)' = RegistryRow(p, l)
        /\ InstanceRow(p, l)' = InstanceRow(p, l)
        /\ ReserveRows(p, l)' = ReserveRows(p, l)
  BY <1>1, <1>2, RowsStay
<1>4. /\ stored' = stored /\ liquidity_pools' = liquidity_pools
      /\ pool_state_changes' = pool_state_changes /\ pool_instance_state' = pool_instance_state
  BY <1>1 DEF tableVars
<1>5. \A p \in Pools : liquidity_pools[p] # NoRow =>
        /\ liquidity_pools[p].at \in stored
        /\ \A a : a = liquidity_pools[p].at => liquidity_pools[p] = RegistryRow(p, a)'
  BY <1>3 DEF TablesFollow
<1>6. \A p \in Pools : pool_instance_state[p] # NoRow =>
        /\ pool_instance_state[p].at \in stored
        /\ \A a : a = pool_instance_state[p].at => pool_instance_state[p] = InstanceRow(p, a)'
  BY <1>3 DEF TablesFollow
<1>7. {RegistryRow(p, l)' : p \in Pools, l \in stored} = {RegistryRow(p, l) : p \in Pools, l \in stored}
  BY <1>3
<1>8. {InstanceRow(p, l)' : p \in Pools, l \in stored} = {InstanceRow(p, l) : p \in Pools, l \in stored}
  BY <1>3
<1>9. {ReserveRows(p, l)' : p \in Pools, l \in stored} = {ReserveRows(p, l) : p \in Pools, l \in stored}
  BY <1>3
<1> QED
  BY <1>3, <1>4, <1>5, <1>6, <1>7, <1>8, <1>9 DEF TablesFollow

LEMMA TablesStored ==
    ASSUME ChainTypeOK, TablesFollow, NEW l \in DOMAIN chain, Store(l)
    PROVE  TablesFollow'
<1>1. /\ stored' = stored \cup {l} /\ UNCHANGED chainVars
      /\ liquidity_pools' = [p \in Pools |-> Put(liquidity_pools[p], RegistryRow(p, l))]
      /\ pool_state_changes' = {r \in pool_state_changes : r.ledger # l} \cup UNION {ReserveRows(p, l) : p \in Pools}
      /\ pool_instance_state' = [p \in Pools |-> Put(pool_instance_state[p], InstanceRow(p, l))]
  BY DEF Store
<1>2. \A p : \A m \in DOMAIN chain :
        /\ m \in DOMAIN chain'
        /\ RegistryRow(p, m)' = RegistryRow(p, m)
        /\ InstanceRow(p, m)' = InstanceRow(p, m)
        /\ ReserveRows(p, m)' = ReserveRows(p, m)
  BY <1>1, RowsStay
<1>3. stored \subseteq DOMAIN chain /\ stored' \subseteq DOMAIN chain /\ l \in Nat
  BY <1>1, LedgerTypes DEF TablesFollow
<1>4. NoRow.at \in Nat
  BY DEF NoRow
<1>5. ASSUME NEW p \in Pools
      PROVE  /\ RegistryRow(p, l).at \in Nat /\ InstanceRow(p, l).at \in Nat
             /\ liquidity_pools[p].at \in Nat /\ pool_instance_state[p].at \in Nat
  <2>1. RegistryRow(p, l).at \in Nat /\ InstanceRow(p, l).at \in Nat
    BY <1>3, <1>4, RowShapes
  <2>2. liquidity_pools[p] # NoRow => liquidity_pools[p].at \in stored
    BY DEF TablesFollow
  <2>3. pool_instance_state[p] # NoRow => pool_instance_state[p].at \in stored
    BY DEF TablesFollow
  <2>4. stored \subseteq Nat
    BY <1>3, LedgerTypes
  <2> QED
    BY <1>4, <2>1, <2>2, <2>3, <2>4
<1>6. ASSUME NEW p \in Pools
      PROVE  /\ liquidity_pools'[p] # NoRow =>
                  /\ liquidity_pools'[p].at \in stored'
                  /\ \A a : a = liquidity_pools'[p].at => liquidity_pools'[p] = RegistryRow(p, a)
             /\ \A m \in stored' : RegistryRow(p, m) # NoRow => m <= liquidity_pools'[p].at
             /\ liquidity_pools'[p] = NoRow \/ \E m \in stored' : liquidity_pools'[p] = RegistryRow(p, m)
  <2>1. liquidity_pools'[p] = Put(liquidity_pools[p], RegistryRow(p, l))
    BY <1>1
  <2>2. /\ liquidity_pools'[p] = liquidity_pools[p] \/ (liquidity_pools'[p] = RegistryRow(p, l) /\ RegistryRow(p, l) # NoRow)
        /\ liquidity_pools[p].at <= liquidity_pools'[p].at
        /\ RegistryRow(p, l) # NoRow => RegistryRow(p, l).at <= liquidity_pools'[p].at
    BY <1>5, <2>1, PutKeepsNewest
  <2>3. RegistryRow(p, l) # NoRow => RegistryRow(p, l).at = l
    BY RowShapes
  <2>4. liquidity_pools[p] # NoRow =>
          liquidity_pools[p].at \in stored /\ liquidity_pools[p] = RegistryRow(p, liquidity_pools[p].at)
    BY DEF TablesFollow
  <2>5. liquidity_pools'[p] # NoRow =>
          /\ liquidity_pools'[p].at \in stored'
          /\ \A a : a = liquidity_pools'[p].at => liquidity_pools'[p] = RegistryRow(p, a)
    BY <1>1, <2>2, <2>3, <2>4
  <2>6. ASSUME NEW m \in stored', RegistryRow(p, m) # NoRow PROVE m <= liquidity_pools'[p].at
    <3>1. CASE m \in stored
      <4>1. m <= liquidity_pools[p].at
        BY <2>6, <3>1 DEF TablesFollow
      <4>2. m \in Nat /\ liquidity_pools[p].at \in Nat /\ liquidity_pools'[p].at \in Nat
        BY <1>3, <1>5, <2>2, <3>1, LedgerTypes
      <4> QED
        BY <2>2, <4>1, <4>2
    <3>2. CASE m = l
      BY <2>2, <2>3, <2>6, <3>2
    <3> QED
      BY <1>1, <3>1, <3>2
  <2> QED
    BY <2>5, <2>6
<1>7. ASSUME NEW p \in Pools
      PROVE  /\ pool_instance_state'[p] # NoRow =>
                  /\ pool_instance_state'[p].at \in stored'
                  /\ \A a : a = pool_instance_state'[p].at => pool_instance_state'[p] = InstanceRow(p, a)
             /\ \A m \in stored' : InstanceRow(p, m) # NoRow => m <= pool_instance_state'[p].at
             /\ pool_instance_state'[p] = NoRow \/ \E m \in stored' : pool_instance_state'[p] = InstanceRow(p, m)
  <2>1. pool_instance_state'[p] = Put(pool_instance_state[p], InstanceRow(p, l))
    BY <1>1
  <2>2. /\ \/ pool_instance_state'[p] = pool_instance_state[p]
           \/ pool_instance_state'[p] = InstanceRow(p, l) /\ InstanceRow(p, l) # NoRow
        /\ pool_instance_state[p].at <= pool_instance_state'[p].at
        /\ InstanceRow(p, l) # NoRow => InstanceRow(p, l).at <= pool_instance_state'[p].at
    BY <1>5, <2>1, PutKeepsNewest
  <2>3. InstanceRow(p, l) # NoRow => InstanceRow(p, l).at = l
    BY RowShapes
  <2>4. pool_instance_state[p] # NoRow =>
          pool_instance_state[p].at \in stored /\ pool_instance_state[p] = InstanceRow(p, pool_instance_state[p].at)
    BY DEF TablesFollow
  <2>5. pool_instance_state'[p] # NoRow =>
          /\ pool_instance_state'[p].at \in stored'
          /\ \A a : a = pool_instance_state'[p].at => pool_instance_state'[p] = InstanceRow(p, a)
    BY <1>1, <2>2, <2>3, <2>4
  <2>6. ASSUME NEW m \in stored', InstanceRow(p, m) # NoRow PROVE m <= pool_instance_state'[p].at
    <3>1. CASE m \in stored
      <4>1. m <= pool_instance_state[p].at
        BY <2>6, <3>1 DEF TablesFollow
      <4>2. m \in Nat /\ pool_instance_state[p].at \in Nat /\ pool_instance_state'[p].at \in Nat
        BY <1>3, <1>5, <2>2, <3>1, LedgerTypes
      <4> QED
        BY <2>2, <4>1, <4>2
    <3>2. CASE m = l
      BY <2>2, <2>3, <2>6, <3>2
    <3> QED
      BY <1>1, <3>1, <3>2
  <2> QED
    BY <2>5, <2>6
<1>8. pool_state_changes' = UNION {ReserveRows(p, m) : p \in Pools, m \in stored'}
  <2>1. pool_state_changes = UNION {ReserveRows(p, m) : p \in Pools, m \in stored}
    BY DEF TablesFollow
  <2>2. \A p \in Pools : \A m \in stored' : \A r \in ReserveRows(p, m) : r.ledger = m
    BY <1>3, RowShapes
  <2>3. ASSUME NEW r \in pool_state_changes'
        PROVE  r \in UNION {ReserveRows(p, m) : p \in Pools, m \in stored'}
    BY <1>1, <2>1
  <2>4. ASSUME NEW p \in Pools, NEW m \in stored', NEW r \in ReserveRows(p, m)
        PROVE  r \in pool_state_changes'
    <3>1. CASE m = l
      BY <1>1, <2>4, <3>1
    <3>2. CASE m # l
      BY <1>1, <2>1, <2>2, <2>4, <3>2
    <3> QED
      BY <3>1, <3>2
  <2> QED
    BY <2>3, <2>4
<1>9. /\ liquidity_pools' \in [Pools -> {NoRow} \cup {RegistryRow(p, m) : p \in Pools, m \in stored'}]
      /\ pool_instance_state' \in [Pools -> {NoRow} \cup {InstanceRow(p, m) : p \in Pools, m \in stored'}]
  BY <1>1, <1>6, <1>7
<1>10. {RegistryRow(p, m)' : p \in Pools, m \in stored'} = {RegistryRow(p, m) : p \in Pools, m \in stored'}
  BY <1>2, <1>3
<1>11. {InstanceRow(p, m)' : p \in Pools, m \in stored'} = {InstanceRow(p, m) : p \in Pools, m \in stored'}
  BY <1>2, <1>3
<1>12. {ReserveRows(p, m)' : p \in Pools, m \in stored'} = {ReserveRows(p, m) : p \in Pools, m \in stored'}
  BY <1>2, <1>3
<1>13. ASSUME NEW p \in Pools
       PROVE  /\ liquidity_pools'[p] # NoRow =>
                   /\ liquidity_pools'[p].at \in stored'
                   /\ \A a : a = liquidity_pools'[p].at => liquidity_pools'[p] = RegistryRow(p, a)'
              /\ pool_instance_state'[p] # NoRow =>
                   /\ pool_instance_state'[p].at \in stored'
                   /\ \A a : a = pool_instance_state'[p].at => pool_instance_state'[p] = InstanceRow(p, a)'
              /\ \A m \in stored' : /\ RegistryRow(p, m)' # NoRow => m <= liquidity_pools'[p].at
                                    /\ InstanceRow(p, m)' # NoRow => m <= pool_instance_state'[p].at
  BY <1>2, <1>3, <1>6, <1>7
<1> QED
  BY <1>2, <1>3, <1>8, <1>9, <1>10, <1>11, <1>12, <1>13 DEF TablesFollow

\* The tables are what the stored ledgers say, and the ledgers tell each
\* pool's story from its creation on (RegistryInv).
THEOREM RegistryInvariant ==
    ASSUME PoolRegistryAssumption PROVE PoolSpec => []RegistryInv
<1>1. PoolInit => RegistryInv
  <2> SUFFICES ASSUME PoolInit PROVE RegistryInv
    OBVIOUS
  <2>1. /\ chain = <<>> /\ open = <<>> /\ pool = [p \in Pools |-> Undeployed] /\ stored = {}
        /\ pool_state_changes = {} /\ liquidity_pools = [p \in Pools |-> NoRow]
        /\ pool_instance_state = [p \in Pools |-> NoRow]
    BY DEF PoolInit
  <2>2. ChainTypeOK
    BY <2>1 DEF ChainTypeOK
  <2>3. Deployed = {} /\ \A l : Ledger(l) = <<>>
    BY <2>1 DEF Deployed, Ledger
  <2>4. \A p, l : ImagesOf(p, Ledger(l)) = {}
    BY <2>3 DEF ImagesOf
  <2>5. Sound
    BY <2>3 DEF Sound
  <2>6. CreatedOnce
    BY <2>3, <2>4 DEF CreatedOnce
  <2>7. ReservesFollow
    BY <2>3, <2>4 DEF ReservesFollow
  <2>8. TablesFollow
    BY <2>1 DEF TablesFollow
  <2> QED
    BY <2>2, <2>5, <2>6, <2>7, <2>8 DEF RegistryInv
<1>2. RegistryInv /\ [PoolNext]_vars => RegistryInv'
  <2> SUFFICES ASSUME RegistryInv, [PoolNext]_vars PROVE RegistryInv'
    OBVIOUS
  <2>1. ChainTypeOK /\ Sound /\ CreatedOnce /\ ReservesFollow /\ TablesFollow
    BY DEF RegistryInv
  <2>2. (\E t : Grows(t)) \/ CloseLedger \/ (\E l \in DOMAIN chain : Store(l)) \/ UNCHANGED vars
    BY <2>1, StepKinds
  <2>3. (\E t : Grows(t)) \/ CloseLedger \/ UNCHANGED chainVars
    BY <2>2 DEF Store, vars
  <2>4. ChainTypeOK' /\ Sound' /\ CreatedOnce' /\ ReservesFollow'
    BY <2>1, <2>3, TypesKept, SoundKept, CreatedOnceKept, ReservesFollowKept
  <2>5. TablesFollow'
    BY <2>1, <2>2, TablesKept, TablesStored
  <2> QED
    BY <2>4, <2>5 DEF RegistryInv
<1> QED
  BY <1>1, <1>2, PTL DEF PoolSpec

-----------------------------------------------------------------------------
(* What the registry says of a pool.                                       *)

LEMMA LatestIs ==
    ASSUME NEW n \in Nat, NEW T \in SUBSET (0..n), T # {}
    PROVE  Latest(T) \in T /\ Latest(T) \in Nat /\ \A i \in T : i <= Latest(T)
<1>1. \E m \in T : \A i \in T : i <= m
  BY Greatest
<1>2. Latest(T) \in T /\ \A i \in T : i <= Latest(T)
  BY <1>1 DEF Latest
<1>3. T \subseteq Nat
  OBVIOUS
<1> QED
  BY <1>2, <1>3

\* The positions of a closed ledger.
LEMMA ClosedLedgers ==
    ASSUME ChainTypeOK, NEW l \in DOMAIN chain
    PROVE  /\ l \in Heights /\ Ledger(l) = chain[l] /\ l \in Nat /\ 0 < l /\ l <= Len(chain)
           /\ Len(chain[l]) \in Nat /\ DOMAIN chain[l] = 1..Len(chain[l])
           /\ \A i \in DOMAIN chain[l] : chain[l][i] \in TxRecords /\ WriteAt(l, i) = chain[l][i].write
<1>1. l \in Heights /\ Ledger(l) = chain[l] /\ l \in Nat /\ 0 < l /\ l <= Len(chain)
  BY LedgerTypes
<1>2. chain[l] \in Seq(TxRecords)
  BY <1>1, LedgerTypes
<1> QED
  BY <1>1, <1>2 DEF WriteAt

\* A row is that of an accepted event, and an accepted event leaves a row.
LEMMA RowAccepted ==
    ASSUME ChainTypeOK, NEW p \in Pools, NEW l \in DOMAIN chain
    PROVE  /\ RegistryRow(p, l) # NoRow =>
                \E i \in ClaimsOf(p, chain[l]) :
                  /\ Accepts(chain[l][i].claim, chain[l])
                  /\ RegistryRow(p, l) = [at |-> l, by |-> chain[l][i].claim.by,
                                          legs |-> chain[l][i].claim.legs \/ p \in Configs]
           /\ (\E i \in ClaimsOf(p, chain[l]) : Accepts(chain[l][i].claim, chain[l])) => RegistryRow(p, l) # NoRow
<1> DEFINE accepted == {i \in ClaimsOf(p, chain[l]) : Accepts(chain[l][i].claim, chain[l])}
           last == Latest(accepted)
<1>1. /\ accepted = {} => RegistryRow(p, l) = NoRow
      /\ accepted # {} => RegistryRow(p, l) = [at |-> l, by |-> chain[l][last].claim.by,
                                               legs |-> chain[l][last].claim.legs \/ p \in Configs]
  BY Zenon DEF RegistryRow
<1>2. accepted \in SUBSET (0..Len(chain[l])) /\ Len(chain[l]) \in Nat
  <2>1. ClaimsOf(p, chain[l]) \subseteq DOMAIN chain[l]
    BY WritesAreImages DEF Announced
  <2> QED
    BY <2>1, ClosedLedgers
<1>3. accepted # {} => last \in accepted
  <2> HIDE DEF accepted
  <2> QED
    BY <1>2, LatestIs
<1>4. accepted # {} => RegistryRow(p, l) # NoRow
  <2>1. NoRow.at = 0 /\ l # 0
    BY ClosedLedgers DEF NoRow
  <2> HIDE DEF accepted, last
  <2> QED
    BY <1>1, <2>1
<1>5. RegistryRow(p, l) # NoRow =>
        /\ last \in accepted
        /\ RegistryRow(p, l) = [at |-> l, by |-> chain[l][last].claim.by,
                                legs |-> chain[l][last].claim.legs \/ p \in Configs]
  <2> HIDE DEF accepted, last
  <2> QED
    BY <1>1, <1>3
<1>6. ASSUME NEW i \in accepted
      PROVE  i \in ClaimsOf(p, chain[l]) /\ Accepts(chain[l][i].claim, chain[l])
  OBVIOUS
<1>7. ASSUME NEW i \in ClaimsOf(p, chain[l]), Accepts(chain[l][i].claim, chain[l]) PROVE i \in accepted
  BY <1>7
<1> HIDE DEF accepted, last
<1> QED
  BY <1>4, <1>5, <1>6, <1>7

\* The claim that goes with a creation.
LEMMA CreationClaim ==
    ASSUME ChainTypeOK, Sound, NEW p \in Pools, NEW l \in DOMAIN chain,
           NEW i \in WritesOf(p, chain[l]), chain[l][i].write.change = "created"
    PROVE  /\ i \in ClaimsOf(p, chain[l])
           /\ chain[l][i].claim = [pool |-> p, by |-> Factory, legs |-> TRUE]
           /\ p \in Configs => Listed(Factory, p, chain[l]) /\ chain[l][i].write.config
<1>1. i \in DOMAIN chain[l] /\ chain[l][i].write # NoWrite /\ chain[l][i].write.pool = p
  BY WritesAreImages DEF ImagesOf
<1>2. TxSound(chain[l][i])
  BY <1>1, ClosedLedgers DEF Sound
<1>3. /\ chain[l][i].claim = [pool |-> p, by |-> Factory, legs |-> TRUE]
      /\ p \in Configs => p \in chain[l][i].lists /\ chain[l][i].write.config
  BY <1>1, <1>2 DEF TxSound
<1>4. chain[l][i].claim # NoClaim /\ chain[l][i].claim.pool = p /\ chain[l][i].claim.by = Factory
  <2>1. "pool" \in DOMAIN chain[l][i].claim
    BY <1>3
  <2>2. "pool" \notin DOMAIN NoClaim
    BY DEF NoClaim
  <2> QED
    BY <1>3, <2>1, <2>2
<1>5. i \in ClaimsOf(p, chain[l])
  BY <1>1, <1>4, WritesAreImages DEF Announced
<1> QED
  BY <1>1, <1>3, <1>4, <1>5 DEF Listed

\* What the gates let through was announced in the ledger of the creation, and
\* but for an old pool by its creator.
LEMMA AcceptedIsGenuine ==
    ASSUME PoolRegistryAssumption, ChainTypeOK, Sound, NEW p \in Pools, NEW l \in DOMAIN chain,
           NEW i \in ClaimsOf(p, chain[l]), Accepts(chain[l][i].claim, chain[l])
    PROVE  /\ \E j \in WritesOf(p, chain[l]) : chain[l][j].write.change = "created"
           /\ chain[l][i].claim.legs \/ p \in Configs
           /\ p \in Old \/ chain[l][i].claim.by = Factory
           /\ chain[l][i].claim \in ClaimRecords
<1> DEFINE c == chain[l][i].claim
<1>1. i \in DOMAIN chain[l] /\ c # NoClaim /\ c.pool = p
  BY WritesAreImages DEF Announced
<1>2. TxSound(chain[l][i]) /\ chain[l][i] \in TxRecords
  BY <1>1, ClosedLedgers DEF Sound
<1>3. c \in ClaimRecords
  BY <1>1, <1>2 DEF TxRecords
<1>4. c.legs \/ p \in Pairs
  BY <1>1, <1>2 DEF TxSound
<1>5. c.by = Factory => \E j \in WritesOf(p, chain[l]) : chain[l][j].write.change = "created"
  <2> SUFFICES ASSUME c.by = Factory PROVE \E j \in WritesOf(p, chain[l]) : chain[l][j].write.change = "created"
    OBVIOUS
  <2>1. chain[l][i].write # NoWrite /\ chain[l][i].write.pool = p /\ chain[l][i].write.change = "created"
    BY <1>1, <1>2 DEF TxSound
  <2>2. i \in WritesOf(p, chain[l])
    BY <1>1, <2>1, WritesAreImages DEF ImagesOf
  <2> QED
    BY <2>1, <2>2
<1> HIDE DEF c
<1>6. CASE RouterAccepts(c, chain[l])
  <2>1. (p \in Routers /\ c.by = Factory) \/ (p \in Old /\ CreatedIn(p, chain[l]))
    BY <1>1, <1>6 DEF RouterAccepts, Declares
  <2>2. p \notin Pairs
    BY <2>1, Families
  <2> QED
    BY <1>3, <1>4, <1>5, <2>1, <2>2 DEF CreatedIn, c
<1>7. CASE PairAccepts(c, chain[l])
  BY <1>1, <1>3, <1>5, <1>7 DEF PairAccepts, Declares, c
<1>8. CASE ConfigAccepts(c, chain[l])
  <2>1. /\ p \in Configs /\ Listed(c.by, p, chain[l]) /\ ~ Contested(p, chain[l]) /\ CreatedIn(p, chain[l])
    BY <1>1, <1>8 DEF ConfigAccepts
  <2>2. PICK j \in WritesOf(p, chain[l]) : chain[l][j].write.change = "created"
    BY <2>1 DEF CreatedIn
  <2>3. j \in ClaimsOf(p, chain[l]) /\ chain[l][j].claim.by = Factory /\ Listed(Factory, p, chain[l])
    <3>1. /\ j \in ClaimsOf(p, chain[l])
          /\ chain[l][j].claim = [pool |-> p, by |-> Factory, legs |-> TRUE]
          /\ p \in Configs => Listed(Factory, p, chain[l])
      BY <2>2, CreationClaim
    <3> QED
      BY <2>1, <3>1
  <2>4. c.by = Factory
    BY <2>1, <2>3 DEF Contested, c
  <2> QED
    BY <1>3, <2>1, <2>2, <2>4 DEF c
<1> QED
  BY <1>6, <1>7, <1>8 DEF Accepts, c

\* A creation that nobody contests passes its gate.
LEMMA CreationAccepted ==
    ASSUME ChainTypeOK, Sound, NEW p \in Pools, NEW l \in DOMAIN chain,
           NEW i \in WritesOf(p, chain[l]), chain[l][i].write.change = "created", ~ Contested(p, chain[l])
    PROVE  i \in ClaimsOf(p, chain[l]) /\ Accepts(chain[l][i].claim, chain[l])
<1> DEFINE c == chain[l][i].claim
<1>1. /\ i \in ClaimsOf(p, chain[l]) /\ c = [pool |-> p, by |-> Factory, legs |-> TRUE]
      /\ p \in Configs => Listed(Factory, p, chain[l]) /\ chain[l][i].write.config
  BY CreationClaim
<1>2. c.pool = p /\ c.by = Factory /\ c.legs
  BY <1>1
<1>3. CreatedIn(p, chain[l]) /\ WritesOf(p, chain[l]) # {}
  BY DEF CreatedIn
<1> SUFFICES Accepts(c, chain[l])
  BY <1>1
<1> HIDE DEF c
<1>4. CASE p \in Old
  BY <1>2, <1>3, <1>4 DEF Accepts, RouterAccepts
<1>5. CASE p \in Configs
  BY <1>1, <1>2, <1>3, <1>5 DEF Accepts, ConfigAccepts
<1>6. CASE p \in Routers /\ p \notin Old \cup Configs
  BY <1>2, <1>3, <1>6 DEF Accepts, RouterAccepts, Declares
<1>7. CASE p \in Pairs /\ p \notin Old \cup Configs
  BY <1>2, <1>3, <1>7 DEF Accepts, PairAccepts, Declares
<1> QED
  BY <1>4, <1>5, <1>6, <1>7 DEF Pools

LEMMA CreatedAtWrites ==
    ASSUME NEW p \in Pools, NEW l
    PROVE  CreatedAt(p, l) <=> \E i \in WritesOf(p, chain[l]) : chain[l][i].write.change = "created"
BY WritesAreImages DEF CreatedAt, ImagesOf

\* The row of a pool, wherever it comes from, is that of the creator.
LEMMA RowIsGenuine ==
    ASSUME PoolRegistryAssumption, ChainTypeOK, Sound, NEW p \in Pools, NEW l \in DOMAIN chain,
           RegistryRow(p, l) # NoRow
    PROVE  /\ CreatedAt(p, l) /\ RegistryRow(p, l).legs
           /\ p \in Old \/ RegistryRow(p, l).by = Factory
           /\ RegistryRow(p, l).by \in Others \cup {Factory}
<1>1. PICK i \in ClaimsOf(p, chain[l]) :
        /\ Accepts(chain[l][i].claim, chain[l])
        /\ RegistryRow(p, l) = [at |-> l, by |-> chain[l][i].claim.by, legs |-> chain[l][i].claim.legs \/ p \in Configs]
  BY RowAccepted
<1>2. /\ \E j \in WritesOf(p, chain[l]) : chain[l][j].write.change = "created"
      /\ chain[l][i].claim.legs \/ p \in Configs
      /\ p \in Old \/ chain[l][i].claim.by = Factory
      /\ chain[l][i].claim \in ClaimRecords
  BY <1>1, AcceptedIsGenuine
<1>3. chain[l][i].claim.by \in Others \cup {Factory}
  BY <1>2 DEF ClaimRecords
<1>4. RegistryRow(p, l).by = chain[l][i].claim.by /\ RegistryRow(p, l).legs = (chain[l][i].claim.legs \/ p \in Configs)
  BY <1>1
<1> QED
  BY <1>2, <1>3, <1>4, CreatedAtWrites

\* A pool's registry row names the contract that created it and the pool's own
\* legs, and that of an old pool at least one that announced it in the ledger
\* of its creation (the three gates of stage.rs).
THEOREM RegistryRowsAreGenuine ==
    ASSUME PoolRegistryAssumption PROVE PoolSpec => []RowsAreGenuine
<1>1. RegistryInv => RowsAreGenuine
  <2> SUFFICES ASSUME RegistryInv, NEW p \in Pools, liquidity_pools[p] # NoRow
               PROVE  /\ CreatedAt(p, liquidity_pools[p].at)
                      /\ liquidity_pools[p].legs
                      /\ p \in Old \/ liquidity_pools[p].by = Factory
    BY DEF RowsAreGenuine
  <2>1. PICK l \in DOMAIN chain : l = liquidity_pools[p].at /\ liquidity_pools[p] = RegistryRow(p, l)
    BY DEF RegistryInv, TablesFollow
  <2> QED
    BY <2>1, RowIsGenuine DEF RegistryInv
<1> QED
  BY <1>1, RegistryInvariant, PTL

\* A pool whose creation is stored is in the registry, in whatever order and
\* however often ledgers are stored, unless two contracts list it.
THEOREM CreationsAreRegistered ==
    ASSUME PoolRegistryAssumption PROVE PoolSpec => []CreationIsRegistered
<1>1. RegistryInv => CreationIsRegistered
  <2> SUFFICES ASSUME RegistryInv, NEW p \in Pools, NEW l \in stored, CreatedAt(p, l), ~ Contested(p, chain[l])
               PROVE  liquidity_pools[p] # NoRow
    BY DEF CreationIsRegistered
  <2>1. l \in DOMAIN chain /\ l \in Nat /\ 0 < l
    BY ClosedLedgers DEF RegistryInv, TablesFollow
  <2>2. PICK i \in WritesOf(p, chain[l]) : chain[l][i].write.change = "created"
    BY CreatedAtWrites
  <2>3. RegistryRow(p, l) # NoRow
    BY <2>1, <2>2, CreationAccepted, RowAccepted DEF RegistryInv
  <2>4. l <= liquidity_pools[p].at
    BY <2>3 DEF RegistryInv, TablesFollow
  <2> QED
    BY <2>1, <2>4 DEF NoRow
<1> QED
  BY <1>1, RegistryInvariant, PTL

\* The registry is genuine and, but for pools that two contracts list, complete
\* (the three gates of stage.rs).
THEOREM RegistryIsTrue ==
    ASSUME PoolRegistryAssumption PROVE PoolSpec => []RegistryIsGenuine
<1>1. RowsAreGenuine /\ CreationIsRegistered => RegistryIsGenuine
  BY DEF RegistryIsGenuine
<1> QED
  BY <1>1, RegistryRowsAreGenuine, CreationsAreRegistered, PTL

\* A pool is created once, so all its rows are those of one ledger: once it is
\* attributed it stays attributed to the same contract.
THEOREM AttributionsAreFinal ==
    ASSUME PoolRegistryAssumption PROVE PoolSpec => [][AttributionIsFinal]_vars
<1>1. RegistryInv /\ [PoolNext]_vars => [AttributionIsFinal]_vars
  <2> SUFFICES ASSUME RegistryInv, [PoolNext]_vars, NEW p \in Pools, liquidity_pools[p] # NoRow
               PROVE  liquidity_pools'[p] = liquidity_pools[p]
    BY DEF AttributionIsFinal
  <2>1. ChainTypeOK /\ Sound /\ CreatedOnce /\ TablesFollow
    BY DEF RegistryInv
  <2>2. (\E t : Grows(t)) \/ CloseLedger \/ (\E l \in DOMAIN chain : Store(l)) \/ UNCHANGED vars
    BY <2>1, StepKinds
  <2>3. CASE (\E t : Grows(t)) \/ CloseLedger \/ UNCHANGED vars
    BY <2>3 DEF Grows, CloseLedger, vars, tableVars
  <2>4. ASSUME NEW l \in DOMAIN chain, Store(l) PROVE liquidity_pools'[p] = liquidity_pools[p]
    <3>1. liquidity_pools'[p] = Put(liquidity_pools[p], RegistryRow(p, l))
      BY <2>4 DEF Store
    <3>2. PICK m \in DOMAIN chain : m = liquidity_pools[p].at /\ liquidity_pools[p] = RegistryRow(p, m)
      BY <2>1 DEF TablesFollow
    <3>3. CASE RegistryRow(p, l) = NoRow
      BY <3>1, <3>3 DEF Put
    <3>4. CASE RegistryRow(p, l) # NoRow
      <4>1. CreatedAt(p, l) /\ CreatedAt(p, m)
        BY <2>1, <3>2, <3>4, RowIsGenuine
      <4>2. PICK i \in WritesOf(p, chain[l]) : chain[l][i].write.change = "created"
        BY <4>1, CreatedAtWrites
      <4>3. PICK j \in WritesOf(p, chain[m]) : chain[m][j].write.change = "created"
        BY <4>1, CreatedAtWrites
      <4>4. /\ l \in Heights /\ i \in ImagesOf(p, Ledger(l)) /\ WriteAt(l, i).change = "created"
            /\ m \in Heights /\ j \in ImagesOf(p, Ledger(m)) /\ WriteAt(m, j).change = "created"
        BY <2>1, <4>2, <4>3, ClosedLedgers, WritesAreImages DEF WriteAt
      <4>5. l = m
        BY <2>1, <4>4 DEF CreatedOnce
      <4> QED
        BY <3>1, <3>2, <4>5 DEF Put
    <3> QED
      BY <3>3, <3>4
  <2> QED
    BY <2>2, <2>3, <2>4
<1> QED
  BY <1>1, RegistryInvariant, PTL DEF PoolSpec

-----------------------------------------------------------------------------
(* What is served of a pool.                                               *)

\* The last write of a pool in the ledgers up to the newest stored one.
LastWritten(p) == Latest(WrittenUpTo(p, Newest))
LastWrite(p) == Latest(WritesOf(p, chain[LastWritten(p)]))

LEMMA LastWriteIs ==
    ASSUME ChainTypeOK, TablesFollow, NEW p \in Pools, Complete(p)
    PROVE  /\ LastWritten(p) \in stored /\ LastWritten(p) \in DOMAIN chain
           /\ LastWrite(p) \in WritesOf(p, chain[LastWritten(p)])
           /\ StateAt(p, Newest) = chain[LastWritten(p)][LastWrite(p)].write.after
           /\ \A l \in DOMAIN chain : l <= LastWritten(p) /\ WritesOf(p, chain[l]) # {} => l \in stored
           /\ \A l \in stored : WritesOf(p, chain[l]) # {} => l <= LastWritten(p)
           /\ \A i \in WritesOf(p, chain[LastWritten(p)]) : i <= LastWrite(p)
<1>1. /\ stored # {} /\ WrittenUpTo(p, Newest) # {} /\ WrittenUpTo(p, Newest) \subseteq stored
      /\ stored \subseteq DOMAIN chain /\ DOMAIN chain = 1..Len(chain) /\ Len(chain) \in Nat
  BY LedgerTypes DEF Complete, TablesFollow
<1>2. stored \in SUBSET (0..Len(chain))
  BY <1>1
<1>3. Newest \in stored /\ Newest \in Nat /\ \A l \in stored : l <= Newest
  BY <1>1, <1>2, LatestIs DEF Newest
<1>4. WrittenUpTo(p, Newest) = {l \in 1..Newest : WritesOf(p, chain[l]) # {}}
  BY DEF WrittenUpTo
<1>5. WrittenUpTo(p, Newest) \in SUBSET (0..Len(chain))
  BY <1>1, <1>2
<1>6. LastWritten(p) \in WrittenUpTo(p, Newest) /\ \A l \in WrittenUpTo(p, Newest) : l <= LastWritten(p)
  BY <1>1, <1>5, LatestIs DEF LastWritten
<1>7. LastWritten(p) \in stored /\ LastWritten(p) \in DOMAIN chain /\ WritesOf(p, chain[LastWritten(p)]) # {}
  BY <1>1, <1>4, <1>6
<1>8. /\ WritesOf(p, chain[LastWritten(p)]) \in SUBSET (0..Len(chain[LastWritten(p)]))
      /\ Len(chain[LastWritten(p)]) \in Nat
  <2>1. WritesOf(p, chain[LastWritten(p)]) \subseteq DOMAIN chain[LastWritten(p)]
    BY WritesAreImages DEF ImagesOf
  <2> QED
    BY <1>7, <2>1, ClosedLedgers
<1>9. /\ LastWrite(p) \in WritesOf(p, chain[LastWritten(p)])
      /\ \A i \in WritesOf(p, chain[LastWritten(p)]) : i <= LastWrite(p)
  BY <1>7, <1>8, LatestIs DEF LastWrite
<1>10. StateAt(p, Newest) = chain[LastWritten(p)][LastWrite(p)].write.after
  BY Zenon DEF StateAt, LastWritten, LastWrite
<1>11. ASSUME NEW l \in DOMAIN chain, l <= LastWritten(p), WritesOf(p, chain[l]) # {} PROVE l \in stored
  <2>1. l \in 1..Newest
    BY <1>1, <1>3, <1>4, <1>6, <1>11
  <2> QED
    BY <1>1, <1>4, <1>11, <2>1
<1>12. ASSUME NEW l \in stored, WritesOf(p, chain[l]) # {} PROVE l <= LastWritten(p)
  <2>1. l \in 1..Newest
    BY <1>1, <1>3
  <2> QED
    BY <1>4, <1>6, <1>12, <2>1
<1> QED
  BY <1>7, <1>9, <1>10, <1>11, <1>12

\* Image (l, i) of a closed ledger, as the invariant speaks of it.
LEMMA WriteTold ==
    ASSUME PoolRegistryAssumption, ChainTypeOK, Sound, NEW p \in Pools, NEW l \in DOMAIN chain,
           NEW i \in WritesOf(p, chain[l])
    PROVE  /\ l \in Heights /\ i \in ImagesOf(p, Ledger(l)) /\ WriteAt(l, i) = chain[l][i].write
           /\ l \in Nat /\ 0 < l /\ i \in Nat /\ 0 < i
           /\ chain[l][i].write \in WriteRecords /\ chain[l][i].write.pool = p
           /\ chain[l][i].write.after \in Images /\ ImageSound(p, chain[l][i].write.after)
           /\ TxSound(chain[l][i]) /\ chain[l][i].write # NoWrite
<1>1. /\ l \in Heights /\ Ledger(l) = chain[l] /\ i \in ImagesOf(p, Ledger(l)) /\ i \in DOMAIN chain[l]
      /\ chain[l][i].write # NoWrite /\ WriteAt(l, i) = chain[l][i].write
  BY ClosedLedgers, WritesAreImages DEF ImagesOf, WriteAt
<1>2. /\ l \in Nat /\ 1 <= l /\ i \in Nat /\ 1 <= i /\ WriteAt(l, i) \in WriteRecords /\ WriteAt(l, i).pool = p
  BY <1>1, Told
<1>3. chain[l][i].write.after \in Images
  BY <1>1, <1>2 DEF WriteRecords
<1>4. TxSound(chain[l][i])
  BY <1>1 DEF Sound
<1>5. ImageSound(p, chain[l][i].write.after)
  BY <1>1, <1>2, <1>4 DEF TxSound
<1> QED
  BY <1>1, <1>2, <1>3, <1>4, <1>5

LEMMA MovesAreWrites ==
    ASSUME ChainTypeOK, NEW p \in Pools, NEW l \in DOMAIN chain
    PROVE  /\ \A i : i \in MovesIn(p, chain[l]) <=> i \in WritesOf(p, chain[l]) /\ MovesReserves(chain[l][i].write)
           /\ MovesIn(p, chain[l]) \in SUBSET (0..Len(chain[l])) /\ Len(chain[l]) \in Nat
<1>1. WritesOf(p, chain[l]) \subseteq DOMAIN chain[l]
  BY WritesAreImages DEF ImagesOf
<1> QED
  BY <1>1, ClosedLedgers DEF MovesIn

\* All rows of one ledger on one plane are of the last write that moved.
LEMMA RowsOfOnePlane ==
    ASSUME ChainTypeOK, NEW p \in Pools, NEW l \in DOMAIN chain, MovesIn(p, chain[l]) # {},
           \A i, j \in MovesIn(p, chain[l]) : chain[l][i].write.after.plane = chain[l][j].write.after.plane
    PROVE  /\ Latest(MovesIn(p, chain[l])) \in MovesIn(p, chain[l])
           /\ \A i \in MovesIn(p, chain[l]) : i <= Latest(MovesIn(p, chain[l]))
           /\ \A r \in ReserveRows(p, l) : r.reserves = chain[l][Latest(MovesIn(p, chain[l]))].write.after.reserves
           /\ ReserveRows(p, l) # {}
<1>1. /\ Latest(MovesIn(p, chain[l])) \in MovesIn(p, chain[l])
      /\ \A i \in MovesIn(p, chain[l]) : i <= Latest(MovesIn(p, chain[l]))
  BY MovesAreWrites, LatestIs
<1>2. ASSUME NEW r \in ReserveRows(p, l)
      PROVE  r.reserves = chain[l][Latest(MovesIn(p, chain[l]))].write.after.reserves
  <2>1. PICK i \in MovesIn(p, chain[l]) : r = MoveRow(p, l, i)
    BY <1>2, MoveRows
  <2>2. {j \in MovesIn(p, chain[l]) : chain[l][j].write.after.plane = chain[l][i].write.after.plane}
          = MovesIn(p, chain[l])
    OBVIOUS
  <2>3. LastOn(p, l, i) = Latest(MovesIn(p, chain[l]))
    BY <2>2 DEF LastOn
  <2> QED
    BY <2>1, <2>3 DEF MoveRow
<1>3. ReserveRows(p, l) # {}
  BY MoveRows
<1> QED
  BY <1>1, <1>2, <1>3

\* The rows that argMax finds are those of the last write that moved, and
\* what was written since said the same reserves.
LEMMA ServedIsState ==
    ASSUME PoolRegistryAssumption, RegistryInv, NEW p \in Pools, Complete(p), StaysOnPlane(p)
    PROVE  ServedReserves(p) = {StateAt(p, Newest).reserves} \ {NoReserves}
<1>1. ChainTypeOK /\ Sound /\ CreatedOnce /\ ReservesFollow /\ TablesFollow
  BY DEF RegistryInv
<1> DEFINE k == LastWritten(p)
           i == LastWrite(p)
<1>2. /\ k \in stored /\ k \in DOMAIN chain /\ i \in WritesOf(p, chain[k])
      /\ StateAt(p, Newest) = chain[k][i].write.after
      /\ \A l \in DOMAIN chain : l <= k /\ WritesOf(p, chain[l]) # {} => l \in stored
      /\ \A l \in stored : WritesOf(p, chain[l]) # {} => l <= k
      /\ \A j \in WritesOf(p, chain[k]) : j <= i
  BY <1>1, LastWriteIs
<1> HIDE DEF k, i
<1>3. /\ stored \subseteq DOMAIN chain /\ DOMAIN chain = 1..Len(chain) /\ Len(chain) \in Nat
      /\ pool_state_changes = UNION {ReserveRows(q, l) : q \in Pools, l \in stored}
  BY <1>1, LedgerTypes DEF TablesFollow
<1>4. /\ k \in Heights /\ i \in ImagesOf(p, Ledger(k)) /\ WriteAt(k, i) = chain[k][i].write
      /\ k \in Nat /\ 0 < k /\ i \in Nat /\ 0 < i
  BY <1>1, <1>2, WriteTold
\* What was written up to (k, i) is in a stored ledger.
<1>5. ASSUME NEW c \in Heights, NEW d \in ImagesOf(p, Ledger(c)), ~ Before(k, i, c, d)
      PROVE  c \in stored /\ c <= k /\ d \in WritesOf(p, chain[c]) /\ WriteAt(c, d) = chain[c][d].write
             /\ c \in Nat /\ d \in Nat
  <2>1. c \in Nat /\ d \in Nat /\ 1 <= c
    BY <1>1, <1>5, Told
  <2>2. c <= k
    BY <1>4, <1>5, <2>1 DEF Before
  <2>3. c \in DOMAIN chain
    BY <1>2, <1>3, <2>1, <2>2
  <2>4. Ledger(c) = chain[c] /\ d \in WritesOf(p, chain[c])
    BY <1>1, <1>5, <2>3, ClosedLedgers, WritesAreImages
  <2> QED
    BY <1>2, <2>1, <2>2, <2>3, <2>4 DEF WriteAt
<1> DEFINE rows == {r \in pool_state_changes : r.pool = p}
<1>6. ASSUME NEW r \in rows PROVE \E l \in stored : r \in ReserveRows(p, l) /\ r.ledger = l
  <2>1. PICK q \in Pools, l \in stored : r \in ReserveRows(q, l)
    BY <1>3
  <2>2. l \in DOMAIN chain
    BY <1>3
  <2>3. r.pool = q /\ r.ledger = l
    BY <1>1, <2>1, <2>2, RowShapes
  <2> QED
    BY <2>1, <2>3
<1>7. ASSUME NEW l \in stored, NEW r \in ReserveRows(p, l) PROVE r \in rows /\ r.ledger = l
  <2>1. l \in DOMAIN chain
    BY <1>3
  <2>2. r.pool = p /\ r.ledger = l
    BY <1>1, <1>7, <2>1, RowShapes
  <2> QED
    BY <1>3, <1>7, <2>2
<1>8. ServedReserves(p) = {r.reserves : r \in {r \in rows : \A q \in rows : q.ledger <= r.ledger}}
  BY Zenon DEF ServedReserves, NewestRows
<1> HIDE DEF rows
<1> DEFINE moved == {l \in stored : MovesIn(p, chain[l]) # {}}
<1>9. CASE moved = {}
  <2>1. rows = {}
    <3> SUFFICES ASSUME NEW r \in rows PROVE FALSE
      OBVIOUS
    <3>1. PICK l \in stored : r \in ReserveRows(p, l)
      BY <1>6
    <3> QED
      BY <1>9, <3>1, MoveRows
  <2>2. ServedReserves(p) = {}
    BY <1>8, <2>1
  <2>3. Still(p, 0, 0, k, i)
    <3> SUFFICES ASSUME NEW c \in Heights, NEW d \in ImagesOf(p, Ledger(c)), ~ Before(k, i, c, d)
                 PROVE  ~ MovesReserves(WriteAt(c, d))
      BY DEF Still
    <3>1. c \in stored /\ c \in DOMAIN chain /\ d \in WritesOf(p, chain[c]) /\ WriteAt(c, d) = chain[c][d].write
      BY <1>3, <1>5
    <3>2. d \notin MovesIn(p, chain[c])
      BY <1>9, <3>1
    <3> QED
      BY <1>1, <3>1, <3>2, MovesAreWrites
  <2>4. StateAt(p, Newest).reserves = NoReserves
    BY <1>1, <1>2, <1>4, <2>3 DEF ReservesFollow
  <2> QED
    BY <2>2, <2>4
<1>10. CASE moved # {}
  <2> DEFINE a == Latest(moved)
             b == Latest(MovesIn(p, chain[a]))
  <2>1. moved \in SUBSET (0..Len(chain))
    BY <1>3
  <2>2. a \in moved /\ \A l \in moved : l <= a
    <3> HIDE DEF moved
    <3> QED
      BY <1>3, <1>10, <2>1, LatestIs
  <2> HIDE DEF a
  <2>3. /\ a \in stored /\ a \in DOMAIN chain /\ a \in Nat /\ MovesIn(p, chain[a]) # {}
        /\ \A l \in stored : MovesIn(p, chain[l]) # {} => l <= a
    BY <1>3, <2>2
  <2> HIDE DEF moved
  <2>4. /\ b \in MovesIn(p, chain[a]) /\ \A j \in MovesIn(p, chain[a]) : j <= b
        /\ \A r \in ReserveRows(p, a) : r.reserves = chain[a][b].write.after.reserves
        /\ ReserveRows(p, a) # {}
    BY <1>1, <2>3, RowsOfOnePlane DEF StaysOnPlane
  <2> HIDE DEF b
  <2>5. b \in WritesOf(p, chain[a]) /\ MovesReserves(chain[a][b].write)
    BY <1>1, <2>3, <2>4, MovesAreWrites
  <2>6. /\ a \in Heights /\ b \in ImagesOf(p, Ledger(a)) /\ WriteAt(a, b) = chain[a][b].write
        /\ b \in Nat /\ 0 < b
    BY <1>1, <2>3, <2>5, WriteTold
  <2>7. chain[a][b].write.after.reserves # NoReserves
    BY <2>5 DEF MovesReserves
  <2>8. ServedReserves(p) = {chain[a][b].write.after.reserves}
    <3>1. ASSUME NEW r \in ReserveRows(p, a) PROVE r \in rows /\ \A q \in rows : q.ledger <= r.ledger
      <4>1. r \in rows /\ r.ledger = a
        BY <1>7, <2>3, <3>1
      <4>2. ASSUME NEW q \in rows PROVE q.ledger <= a
        <5>1. PICK l \in stored : q \in ReserveRows(p, l) /\ q.ledger = l
          BY <1>6
        <5>2. MovesIn(p, chain[l]) # {}
          BY <5>1, MoveRows
        <5> QED
          BY <2>3, <5>1, <5>2
      <4> QED
        BY <4>1, <4>2
    <3>2. ASSUME NEW r \in rows, \A q \in rows : q.ledger <= r.ledger PROVE r \in ReserveRows(p, a)
      <4>1. PICK l \in stored : r \in ReserveRows(p, l) /\ r.ledger = l
        BY <1>6, <3>2
      <4>2. MovesIn(p, chain[l]) # {} /\ l \in Nat
        BY <1>3, <4>1, MoveRows
      <4>3. PICK q \in ReserveRows(p, a) : q \in rows /\ q.ledger = a
        BY <1>7, <2>3, <2>4
      <4>4. a <= l /\ l <= a
        BY <2>3, <3>2, <4>1, <4>2, <4>3
      <4> QED
        BY <2>3, <4>1, <4>2, <4>4
    <3> QED
      BY <1>8, <2>4, <3>1, <3>2
  <2>9. chain[k][i].write.after.reserves = chain[a][b].write.after.reserves
    <3>1. a <= k /\ (a = k => b <= i)
      BY <1>2, <2>3, <2>5
    <3>2. CASE a = k /\ b = i
      BY <3>2
    <3>3. CASE ~ (a = k /\ b = i)
      <4>1. Before(a, b, k, i)
        BY <1>4, <2>3, <2>6, <3>1, <3>3 DEF Before
      <4>2. Still(p, a, b, k, i)
        <5> SUFFICES ASSUME NEW c \in Heights, NEW d \in ImagesOf(p, Ledger(c)),
                            Before(a, b, c, d), ~ Before(k, i, c, d), MovesReserves(WriteAt(c, d))
                     PROVE  FALSE
          BY DEF Still
        <5>1. /\ c \in stored /\ c \in DOMAIN chain /\ c \in Nat /\ d \in Nat
              /\ d \in WritesOf(p, chain[c]) /\ WriteAt(c, d) = chain[c][d].write
          BY <1>3, <1>5
        <5>2. d \in MovesIn(p, chain[c])
          BY <1>1, <5>1, MovesAreWrites
        <5>3. c <= a /\ (c = a => d <= b)
          BY <2>3, <2>4, <5>1, <5>2
        <5> QED
          BY <2>3, <2>6, <5>1, <5>3 DEF Before
      <4>3. WriteAt(a, b).after.reserves = WriteAt(k, i).after.reserves
        BY <1>1, <1>4, <2>6, <4>1, <4>2 DEF ReservesFollow
      <4> QED
        BY <1>4, <2>6, <4>3
    <3> QED
      BY <3>2, <3>3
  <2> QED
    BY <1>2, <2>7, <2>8, <2>9
<1> QED
  BY <1>9, <1>10

LEMMA StaysOnOnePlane ==
    ASSUME PoolRegistryAssumption, RegistryInv, NEW p \in Pools,
           p \in Pairs \cup Configs \/ \A a, b \in Planes : a = b
    PROVE  StaysOnPlane(p)
<1> SUFFICES ASSUME NEW l \in stored, NEW i \in MovesIn(p, chain[l]), NEW j \in MovesIn(p, chain[l])
             PROVE  chain[l][i].write.after.plane = chain[l][j].write.after.plane
  BY DEF StaysOnPlane
<1>1. l \in DOMAIN chain /\ ChainTypeOK /\ Sound
  BY DEF RegistryInv, TablesFollow
<1>2. i \in WritesOf(p, chain[l]) /\ j \in WritesOf(p, chain[l])
  BY <1>1, MovesAreWrites
<1>3. ImageSound(p, chain[l][i].write.after) /\ ImageSound(p, chain[l][j].write.after)
  BY <1>1, <1>2, WriteTold
<1> QED
  BY <1>3 DEF ImageSound

\* The reserves served for a pool are its own as of the newest stored ledger,
\* although a rewrite that moved nothing adds no row and a ledger keeps one
\* row, as long as the pool moved its reserves on one plane in each ledger.
THEOREM ServedWithinPlane ==
    ASSUME PoolRegistryAssumption
    PROVE  PoolSpec => [](\A p \in Pools : Complete(p) /\ StaysOnPlane(p) =>
                            ServedReserves(p) = {StateAt(p, Newest).reserves} \ {NoReserves})
<1>1. RegistryInv => \A p \in Pools : Complete(p) /\ StaysOnPlane(p) =>
                       ServedReserves(p) = {StateAt(p, Newest).reserves} \ {NoReserves}
  BY ServedIsState
<1> QED
  BY <1>1, RegistryInvariant, PTL

\* With one plane of router pools that is every pool.
THEOREM ServedReservesAreCurrent ==
    ASSUME PoolRegistryAssumption, \A a, b \in Planes : a = b
    PROVE  PoolSpec => []ReservesCurrent
<1>1. RegistryInv => ReservesCurrent
  BY ServedIsState, StaysOnOnePlane DEF ReservesCurrent
<1> QED
  BY <1>1, RegistryInvariant, PTL

\* The stored instance row is one of the pool's declarations, and but for a
\* configured pool that of its last write.
LEMMA InstanceIs ==
    ASSUME ChainTypeOK, NEW p \in Pools, NEW l \in DOMAIN chain
    PROVE  /\ InstanceRow(p, l) # NoRow =>
                \E i \in WritesOf(p, chain[l]) :
                  /\ DeclaresState(chain[l][i].write)
                  /\ InstanceRow(p, l) = [at |-> l, plane |-> chain[l][i].write.after.plane,
                       token |-> chain[l][i].write.after.token, total_shares |-> SharesIn(chain[l][i].write)]
                  /\ \A j \in WritesOf(p, chain[l]) : DeclaresState(chain[l][j].write) => j <= i
           /\ (\E i \in WritesOf(p, chain[l]) : DeclaresState(chain[l][i].write)) => InstanceRow(p, l) # NoRow
<1> DEFINE images == {i \in WritesOf(p, chain[l]) : DeclaresState(chain[l][i].write)}
           last == Latest(images)
           row == [at |-> l, plane |-> chain[l][last].write.after.plane,
                   token |-> chain[l][last].write.after.token, total_shares |-> SharesIn(chain[l][last].write)]
<1>1. InstanceRow(p, l) = IF images = {} THEN NoRow ELSE row
  BY Zenon DEF InstanceRow
<1>2. images \in SUBSET (0..Len(chain[l])) /\ Len(chain[l]) \in Nat
  <2>1. WritesOf(p, chain[l]) \subseteq DOMAIN chain[l]
    BY WritesAreImages DEF ImagesOf
  <2> QED
    BY <2>1, ClosedLedgers
<1>3. images # {} => last \in images /\ \A j \in images : j <= last
  <2> HIDE DEF images
  <2> QED
    BY <1>2, LatestIs
<1> HIDE DEF last
<1>4. row # NoRow
  <2>1. NoRow.at = 0 /\ l # 0 /\ row.at = l
    BY ClosedLedgers DEF NoRow
  <2> HIDE DEF row
  <2> QED
    BY <2>1
<1>5. images # {} =>
        /\ last \in WritesOf(p, chain[l]) /\ DeclaresState(chain[l][last].write)
        /\ \A j \in WritesOf(p, chain[l]) : DeclaresState(chain[l][j].write) => j <= last
  BY <1>3
<1>6. images = {} <=> ~ \E i \in WritesOf(p, chain[l]) : DeclaresState(chain[l][i].write)
  OBVIOUS
<1>7. ASSUME InstanceRow(p, l) # NoRow PROVE images # {} /\ InstanceRow(p, l) = row
  <2> HIDE DEF images, row
  <2> QED
    BY <1>1, <1>7
<1>8. ASSUME images # {} PROVE InstanceRow(p, l) # NoRow
  <2> HIDE DEF images, row
  <2> QED
    BY <1>1, <1>4, <1>8
<1> HIDE DEF images
<1> QED
  BY <1>5, <1>6, <1>7, <1>8

LEMMA DeclaredIs ==
    ASSUME PoolRegistryAssumption, RegistryInv, NEW p \in Pools, Complete(p)
    PROVE  \E a \in stored : \E b \in WritesOf(p, chain[a]) :
             /\ a \in DOMAIN chain
             /\ pool_instance_state[p] = [at |-> a, plane |-> chain[a][b].write.after.plane,
                  token |-> chain[a][b].write.after.token, total_shares |-> SharesIn(chain[a][b].write)]
             /\ DeclaresState(chain[a][b].write)
             /\ p \notin Configs => a = LastWritten(p) /\ b = LastWrite(p)
<1>1. ChainTypeOK /\ Sound /\ CreatedOnce /\ TablesFollow /\ stored \subseteq DOMAIN chain
  BY DEF RegistryInv, TablesFollow
<1> DEFINE k == LastWritten(p)
           i == LastWrite(p)
<1>2. /\ k \in stored /\ k \in DOMAIN chain /\ i \in WritesOf(p, chain[k])
      /\ \A l \in DOMAIN chain : l <= k /\ WritesOf(p, chain[l]) # {} => l \in stored
      /\ \A l \in stored : WritesOf(p, chain[l]) # {} => l <= k
      /\ \A j \in WritesOf(p, chain[k]) : j <= i
  BY <1>1, LastWriteIs
<1> HIDE DEF k, i
<1>3. p \notin Configs => \A l \in DOMAIN chain : \A j \in WritesOf(p, chain[l]) : DeclaresState(chain[l][j].write)
  BY <1>1, WriteTold DEF DeclaresState
\* Some stored ledger declares the pool's state.
<1>4. \E m \in stored : InstanceRow(p, m) # NoRow /\ (p \notin Configs => m = k)
  <2>1. CASE p \notin Configs
    BY <1>1, <1>2, <1>3, <2>1, InstanceIs
  <2>2. CASE p \in Configs
    <3>1. k \in Heights /\ i \in ImagesOf(p, Ledger(k)) /\ k \in Nat /\ i \in Nat
      BY <1>1, <1>2, WriteTold
    <3>2. p \in Deployed
      BY <1>1, <3>1 DEF CreatedOnce
    <3>3. PICK m \in Heights : \E j \in ImagesOf(p, Ledger(m)) : WriteAt(m, j).change = "created"
      BY <1>1, <3>2 DEF CreatedOnce
    <3>4. PICK j \in ImagesOf(p, Ledger(m)) : WriteAt(m, j).change = "created"
      BY <3>3
    <3>5. ~ Before(k, i, m, j) /\ m \in Nat /\ 1 <= m
      BY <1>1, <3>1, <3>4, Told DEF CreatedOnce
    <3>6. m <= k /\ m \in DOMAIN chain
      BY <1>1, <1>2, <3>1, <3>5, LedgerTypes DEF Before
    <3>7. j \in WritesOf(p, chain[m]) /\ chain[m][j].write.change = "created"
      BY <1>1, <3>4, <3>6, ClosedLedgers, WritesAreImages DEF WriteAt
    <3>8. DeclaresState(chain[m][j].write)
      BY <1>1, <2>2, <3>6, <3>7, CreationClaim DEF DeclaresState
    <3>9. m \in stored
      BY <1>2, <3>6, <3>7
    <3> QED
      BY <1>1, <2>2, <3>6, <3>7, <3>8, <3>9, InstanceIs
  <2> QED
    BY <2>1, <2>2
<1>5. PICK m \in stored : InstanceRow(p, m) # NoRow /\ (p \notin Configs => m = k)
  BY <1>4
<1>6. m <= pool_instance_state[p].at /\ m \in Nat /\ 0 < m
  BY <1>1, <1>5, ClosedLedgers DEF TablesFollow
<1>7. pool_instance_state[p] # NoRow
  BY <1>6 DEF NoRow
<1>8. PICK a \in stored : a = pool_instance_state[p].at /\ pool_instance_state[p] = InstanceRow(p, a)
  BY <1>1, <1>7 DEF TablesFollow
<1>9. a \in DOMAIN chain /\ a \in Nat
  BY <1>1, <1>8, ClosedLedgers
<1>10. PICK b \in WritesOf(p, chain[a]) :
         /\ DeclaresState(chain[a][b].write)
         /\ InstanceRow(p, a) = [at |-> a, plane |-> chain[a][b].write.after.plane,
              token |-> chain[a][b].write.after.token, total_shares |-> SharesIn(chain[a][b].write)]
         /\ \A j \in WritesOf(p, chain[a]) : DeclaresState(chain[a][j].write) => j <= b
  BY <1>1, <1>7, <1>8, <1>9, InstanceIs
<1>11. p \notin Configs => a = k /\ b = i
  <2> SUFFICES ASSUME p \notin Configs PROVE a = k /\ b = i
    OBVIOUS
  <2>1. a <= k /\ k <= a
    BY <1>2, <1>5, <1>6, <1>8, <1>10
  <2>2. a = k
    BY <1>5, <1>6, <1>9, <2>1
  <2>3. b <= i /\ i <= b
    BY <1>2, <1>3, <1>10, <2>2
  <2>4. b \in Nat /\ i \in Nat
    BY <1>1, <1>2, <1>9, <1>10, WriteTold
  <2> QED
    BY <2>2, <2>3, <2>4
<1> QED
  BY <1>8, <1>9, <1>10, <1>11 DEF k, i

\* The stored plane and share token are those the pool declares, although a
\* configured pool declares them in few of its writes.
THEOREM DeclaredStateIsCurrent ==
    ASSUME PoolRegistryAssumption PROVE PoolSpec => []DeclaredCurrent
<1>1. RegistryInv => DeclaredCurrent
  <2> SUFFICES ASSUME RegistryInv, NEW p \in Pools, Complete(p)
               PROVE  /\ pool_instance_state[p].plane = StateAt(p, Newest).plane
                      /\ pool_instance_state[p].token = StateAt(p, Newest).token
    BY DEF DeclaredCurrent
  <2>1. ChainTypeOK /\ Sound /\ CreatedOnce /\ TablesFollow
    BY DEF RegistryInv
  <2>2. PICK a \in stored : \E b \in WritesOf(p, chain[a]) :
          /\ a \in DOMAIN chain
          /\ pool_instance_state[p] = [at |-> a, plane |-> chain[a][b].write.after.plane,
               token |-> chain[a][b].write.after.token, total_shares |-> SharesIn(chain[a][b].write)]
          /\ p \notin Configs => a = LastWritten(p) /\ b = LastWrite(p)
    BY DeclaredIs
  <2>3. PICK b \in WritesOf(p, chain[a]) :
          /\ a \in DOMAIN chain
          /\ pool_instance_state[p] = [at |-> a, plane |-> chain[a][b].write.after.plane,
               token |-> chain[a][b].write.after.token, total_shares |-> SharesIn(chain[a][b].write)]
          /\ p \notin Configs => a = LastWritten(p) /\ b = LastWrite(p)
    BY <2>2
  <2>4. /\ pool_instance_state[p].plane = chain[a][b].write.after.plane
        /\ pool_instance_state[p].token = chain[a][b].write.after.token
    BY <2>3
  <2> DEFINE k == LastWritten(p)
             i == LastWrite(p)
  <2>5. k \in DOMAIN chain /\ i \in WritesOf(p, chain[k]) /\ StateAt(p, Newest) = chain[k][i].write.after
    BY <2>1, LastWriteIs
  <2>6. CASE p \notin Configs
    BY <2>3, <2>4, <2>5, <2>6
  <2> HIDE DEF k, i
  <2>7. CASE p \in Configs
    <3>1. chain[a][b].write.after.plane = p /\ chain[k][i].write.after.plane = p
      BY <2>1, <2>3, <2>5, <2>7, WriteTold DEF ImageSound
    <3>2. chain[a][b].write.after.token = pool[p].token
      BY <2>1, <2>3, <2>7, WriteTold DEF CreatedOnce
    <3>3. chain[k][i].write.after.token = pool[p].token
      BY <2>1, <2>5, <2>7, WriteTold DEF CreatedOnce
    <3> QED
      BY <2>4, <2>5, <3>1, <3>2, <3>3
  <2> QED
    BY <2>6, <2>7
<1> QED
  BY <1>1, RegistryInvariant, PTL

\* The total of the shares that is served is the pool's as of the newest
\* stored ledger, or none, when no configured pool is ever restored from the
\* archive: the image of a restoration carries a supply.
THEOREM ServedSharesAreTrue ==
    ASSUME PoolRegistryAssumption, Archived \cap Configs = {} PROVE PoolSpec => []SharesTrue
<1>1. RegistryInv => SharesTrue
  <2> SUFFICES ASSUME RegistryInv, NEW p \in Pools, Complete(p)
               PROVE  ServedShares(p) \subseteq {StateAt(p, Newest).shares}
    BY DEF SharesTrue
  <2>1. ChainTypeOK /\ Sound /\ CreatedOnce /\ TablesFollow
    BY DEF RegistryInv
  <2>2. PICK a \in stored : \E b \in WritesOf(p, chain[a]) :
          /\ a \in DOMAIN chain
          /\ pool_instance_state[p] = [at |-> a, plane |-> chain[a][b].write.after.plane,
               token |-> chain[a][b].write.after.token, total_shares |-> SharesIn(chain[a][b].write)]
          /\ DeclaresState(chain[a][b].write)
          /\ p \notin Configs => a = LastWritten(p) /\ b = LastWrite(p)
    BY DeclaredIs
  <2>3. PICK b \in WritesOf(p, chain[a]) :
          /\ a \in DOMAIN chain
          /\ pool_instance_state[p] = [at |-> a, plane |-> chain[a][b].write.after.plane,
               token |-> chain[a][b].write.after.token, total_shares |-> SharesIn(chain[a][b].write)]
          /\ DeclaresState(chain[a][b].write)
          /\ p \notin Configs => a = LastWritten(p) /\ b = LastWrite(p)
    BY <2>2
  <2> DEFINE w == chain[a][b].write
             s == StateAt(p, Newest)
  <2>4. pool_instance_state[p].total_shares = SharesIn(w)
    BY <2>3
  <2>5. w \in WriteRecords /\ w.pool = p /\ TxSound(chain[a][b]) /\ w # NoWrite
    BY <2>1, <2>3, WriteTold
  <2> HIDE DEF w, s
  <2>6. CASE p \notin Configs
    <3>1. s = chain[LastWritten(p)][LastWrite(p)].write.after
      BY <2>1, LastWriteIs DEF s
    <3>2. SharesIn(w) = s.shares
      BY <2>3, <2>5, <2>6, <3>1 DEF SharesIn, w
    <3> QED
      BY <2>4, <3>2 DEF ServedShares, s
  <2>7. CASE p \in Configs
    <3>1. SharesIn(w) = 0
      <4>1. w.change \in Changes
        BY <2>5 DEF WriteRecords
      <4>2. w.change # "restored"
        BY <2>5, <2>7 DEF TxSound, w
      <4>3. w.change = "created" => w.after.shares = 0
        BY <2>5 DEF TxSound, w
      <4> QED
        BY <2>5, <2>7, <4>1, <4>2, <4>3 DEF SharesIn, Changes
    <3>2. ServedReserves(p) = {s.reserves} \ {NoReserves}
      BY <2>7, StaysOnOnePlane, ServedIsState DEF s
    <3>3. s.reserves = 0 => s.shares = 0
      <4>1. /\ LastWritten(p) \in DOMAIN chain /\ LastWrite(p) \in WritesOf(p, chain[LastWritten(p)])
            /\ s = chain[LastWritten(p)][LastWrite(p)].write.after
        BY <2>1, LastWriteIs DEF s
      <4>2. ImageSound(p, s)
        BY <2>1, <4>1, WriteTold
      <4> QED
        BY <4>2 DEF ImageSound
    <3>4. ServedShares(p) \subseteq {0} \cap ServedReserves(p)
      BY <2>4, <3>1 DEF ServedShares
    <3> QED
      BY <3>2, <3>3, <3>4 DEF s
  <2> QED
    BY <2>6, <2>7
<1> QED
  BY <1>1, RegistryInvariant, PTL

\* Everything the API serves of a pool's state is the pool's own as of the
\* newest stored ledger: with one plane of router pools, and when no configured
\* pool is restored from the archive.
THEOREM ServedStateIsCurrent ==
    ASSUME PoolRegistryAssumption, \A a, b \in Planes : a = b, Archived \cap Configs = {}
    PROVE  PoolSpec => []ServedIsCurrent
<1>1. ReservesCurrent /\ SharesTrue /\ DeclaredCurrent => ServedIsCurrent
  BY DEF ServedIsCurrent
<1> QED
  BY <1>1, ServedReservesAreCurrent, ServedSharesAreTrue, DeclaredStateIsCurrent, PTL

\* What the tables hold is of the types the API decodes, and every row is of a
\* stored ledger.
THEOREM PoolTypesCorrect ==
    ASSUME PoolRegistryAssumption PROVE PoolSpec => []PoolTypeOK
<1>1. RegistryInv => PoolTypeOK
  <2> SUFFICES ASSUME RegistryInv PROVE PoolTypeOK
    OBVIOUS
  <2>1. ChainTypeOK /\ Sound /\ TablesFollow /\ stored \subseteq DOMAIN chain
    BY DEF RegistryInv, TablesFollow
  <2>2. ASSUME NEW p \in Pools, liquidity_pools[p] # NoRow
        PROVE  liquidity_pools[p].at \in stored /\ liquidity_pools[p].by \in Others \cup {Factory}
    <3>1. PICK l \in stored : l = liquidity_pools[p].at /\ liquidity_pools[p] = RegistryRow(p, l)
      BY <2>1, <2>2 DEF TablesFollow
    <3> QED
      BY <2>1, <2>2, <3>1, RowIsGenuine
  <2>3. ASSUME NEW p \in Pools, pool_instance_state[p] # NoRow
        PROVE  pool_instance_state[p].at \in stored /\ pool_instance_state[p].total_shares \in Amounts
    <3>1. PICK l \in stored : l = pool_instance_state[p].at /\ pool_instance_state[p] = InstanceRow(p, l)
      BY <2>1, <2>3 DEF TablesFollow
    <3>2. l \in DOMAIN chain
      BY <2>1
    <3>3. PICK i \in WritesOf(p, chain[l]) :
            InstanceRow(p, l) = [at |-> l, plane |-> chain[l][i].write.after.plane,
              token |-> chain[l][i].write.after.token, total_shares |-> SharesIn(chain[l][i].write)]
      BY <2>1, <2>3, <3>1, <3>2, InstanceIs
    <3>4. chain[l][i].write.after.shares \in Amounts /\ 0 \in Amounts
      BY <2>1, <3>2, WriteTold DEF Images, Amounts, PoolRegistryAssumption
    <3> QED
      BY <3>1, <3>3, <3>4 DEF SharesIn
  <2>4. ASSUME NEW r \in pool_state_changes PROVE r.pool \in Pools /\ r.ledger \in stored /\ r.reserves \in Amounts
    <3>1. PICK p \in Pools, l \in stored : r \in ReserveRows(p, l)
      BY <2>1 DEF TablesFollow
    <3>2. PICK i \in MovesIn(p, chain[l]) : r = MoveRow(p, l, i)
      BY <3>1, MoveRows
    <3> DEFINE same == {j \in MovesIn(p, chain[l]) : chain[l][j].write.after.plane = chain[l][i].write.after.plane}
    <3>3. l \in DOMAIN chain
      BY <2>1
    <3>4. same \in SUBSET (0..Len(chain[l])) /\ same # {} /\ Len(chain[l]) \in Nat
      BY <2>1, <3>3, MovesAreWrites
    <3>5. LastOn(p, l, i) \in same
      <4>1. LastOn(p, l, i) = Latest(same)
        BY Zenon DEF LastOn
      <4> HIDE DEF same
      <4> QED
        BY <3>4, <4>1, LatestIs
    <3> DEFINE j == LastOn(p, l, i)
    <3> HIDE DEF j
    <3>6. j \in WritesOf(p, chain[l]) /\ MovesReserves(chain[l][j].write)
      BY <2>1, <3>3, <3>5, MovesAreWrites DEF j
    <3>7. chain[l][j].write.after.reserves \in Amounts
      BY <2>1, <3>3, <3>6, WriteTold DEF Images, MovesReserves
    <3>8. r.pool = p /\ r.ledger = l /\ r.reserves = chain[l][j].write.after.reserves
      BY <3>2 DEF MoveRow, j
    <3> QED
      BY <3>7, <3>8
  <2> QED
    BY <2>1, <2>2, <2>3, <2>4 DEF PoolTypeOK, ChainTypeOK
<1> QED
  BY <1>1, RegistryInvariant, PTL
=============================================================================
