------------------------- MODULE NftRoutingProofs -------------------------
(***************************************************************************)
(* Proofs about NftRouting, for all contracts, ledgers, batches and        *)
(* faults.  The maintenance passes run with the writers stopped            *)
(* (docs/backfills.md), which is LiveDuring = {}: the run MCNftRace has a  *)
(* counterexample without it.  What ties an event to the verdict of its    *)
(* contract holds while no contract is upgraded, for an event is routed    *)
(* by the code that was stored, not by the code that emitted it.           *)
(***************************************************************************)
EXTENDS NftRouting, Integers, WellFoundedInduction, TLAPS

\* A set of numbers that is bounded and not empty has a greatest element: the
\* one that is the least away from the bound.
LEMMA Greatest ==
    ASSUME NEW n \in Nat, NEW T \in SUBSET (0..n), T # {}
    PROVE  \E m \in T : \A x \in T : x <= m
<1> DEFINE Above == {ss \in Nat \X Nat : ss[1] < ss[2]}
           U == {n - x : x \in T}
<1>1. IsWellFoundedOn(Above, Nat)
  BY NatLessThanWellFounded DEF OpToRel
<1>2. U \in SUBSET Nat /\ U # {}
  <2>1. \A x \in T : x \in 0..n /\ n - x \in Nat
    OBVIOUS
  <2> QED
    BY <2>1
<1>3. PICK u \in U : \A v \in U : ~ (<<v, u>> \in Above)
  <2> HIDE DEF U, Above
  <2> QED
    BY <1>1, <1>2, WFMin
<1>4. PICK m \in T : u = n - m
  OBVIOUS
<1>5. ASSUME NEW x \in T PROVE x <= m
  <2>1. ~ (n - x < n - m)
    BY <1>2, <1>3, <1>4
  <2> QED
    BY <2>1
<1> QED
  BY <1>5

-----------------------------------------------------------------------------
(* A ledger and what is staged of it.                                      *)

LEMMA NoneIsNoCode ==
    /\ None \notin Codes /\ None \notin Definitive /\ Programs \subseteq Codes
    /\ {"nft", "fungible"} \subseteq Programs \cap Definitive
  BY DEF None, Codes, Programs, Definitive

Contents(x) ==
    /\ x.up \subseteq Programs
    /\ DOMAIN x.deploy \subseteq {c \in Contracts : code[c] = None}
    /\ \A c \in DOMAIN x.deploy : x.deploy[c] \in Codes
    /\ DOMAIN x.upgrade \subseteq {c \in Contracts : code[c] # None}
    /\ \A c \in DOMAIN x.upgrade : x.upgrade[c] \in Programs
    /\ x.emit \subseteq {c \in Contracts : code[c] # None} \cup DOMAIN x.deploy

LEMMA QuietHasNothing ==
    /\ DOMAIN Quiet = {"up", "deploy", "upgrade", "emit"}
    /\ Quiet.up = {} /\ Quiet.emit = {}
    /\ DOMAIN Quiet.deploy = {} /\ DOMAIN Quiet.upgrade = {}
  BY DEF Quiet

LEMMA OnlyOne ==
    ASSUME NEW c, NEW p
    PROVE  DOMAIN Only(c, p) = {c} /\ Only(c, p)[c] = p
  BY DEF Only

\* A ledger deploys to fresh contracts, upgrades live ones, and has events of
\* what is live or deployed in it.
LEMMA LedgerIsSound ==
    ASSUME NEW kind, NEW x \in LedgerContents(kind),
           kind \in {"upload", "deploy", "emit", "upgrade", "uploadDeploy", "deployEmit"},
           uploaded \subseteq Programs
    PROVE  /\ Contents(x)
           /\ kind # "upgrade" => DOMAIN x.upgrade = {}
<1> DEFINE fresh == {c \in Contracts : code[c] = None}
<1>1. CASE kind = "upload"
  <2>1. PICK p \in Programs : x = [Quiet EXCEPT !.up = {p}]
    BY <1>1 DEF LedgerContents
  <2>2. x.up = {p} /\ x.deploy = Quiet.deploy /\ x.upgrade = Quiet.upgrade /\ x.emit = Quiet.emit
    BY <2>1, QuietHasNothing
  <2> QED
    BY <2>2, QuietHasNothing DEF Contents
<1>2. CASE kind = "deploy"
  <2>1. PICK c \in fresh, p \in uploaded \cup {"sac"} : x = [Quiet EXCEPT !.deploy = Only(c, p)]
    BY <1>2 DEF LedgerContents
  <2>2. x.up = Quiet.up /\ x.deploy = Only(c, p) /\ x.upgrade = Quiet.upgrade /\ x.emit = Quiet.emit
    BY <2>1, QuietHasNothing
  <2>3. p \in Codes
    BY NoneIsNoCode DEF Codes
  <2>4. DOMAIN Only(c, p) = {c} /\ Only(c, p)[c] = p
    BY OnlyOne
  <2> QED
    BY <1>2, <2>2, <2>3, <2>4, QuietHasNothing DEF Contents
<1>3. CASE kind = "emit"
  <2>1. PICK c \in Contracts \ fresh : x = [Quiet EXCEPT !.emit = {c}]
    BY <1>3 DEF LedgerContents
  <2>2. x.up = Quiet.up /\ x.deploy = Quiet.deploy /\ x.upgrade = Quiet.upgrade /\ x.emit = {c}
    BY <2>1, QuietHasNothing
  <2> QED
    BY <2>2, QuietHasNothing DEF Contents
<1>4. CASE kind = "upgrade"
  <2>1. PICK c \in Contracts \ fresh, p \in uploaded : x = [Quiet EXCEPT !.upgrade = Only(c, p)]
    BY <1>4 DEF LedgerContents
  <2>2. x.up = Quiet.up /\ x.deploy = Quiet.deploy /\ x.upgrade = Only(c, p) /\ x.emit = Quiet.emit
    BY <2>1, QuietHasNothing
  <2>3. DOMAIN Only(c, p) = {c} /\ Only(c, p)[c] = p
    BY OnlyOne
  <2> QED
    BY <1>4, <2>2, <2>3, QuietHasNothing DEF Contents
<1>5. CASE kind = "uploadDeploy"
  <2>1. PICK c \in fresh, p \in Programs : x = UploadDeploy(c, p)
    BY <1>5 DEF LedgerContents
  <2>2. x.up = {p} /\ x.deploy = Only(c, p) /\ x.upgrade = Quiet.upgrade /\ x.emit = Quiet.emit
    BY <2>1, QuietHasNothing DEF UploadDeploy
  <2>3. DOMAIN Only(c, p) = {c} /\ Only(c, p)[c] = p
    BY OnlyOne
  <2> QED
    BY <1>5, <2>2, <2>3, QuietHasNothing, NoneIsNoCode DEF Contents
<1>6. CASE kind = "deployEmit"
  <2>1. PICK c \in fresh, p \in uploaded : x = DeployEmit(c, p)
    BY <1>6 DEF LedgerContents
  <2>2. x.up = Quiet.up /\ x.deploy = Only(c, p) /\ x.upgrade = Quiet.upgrade /\ x.emit = {c}
    BY <2>1, QuietHasNothing DEF DeployEmit
  <2>3. DOMAIN Only(c, p) = {c} /\ Only(c, p)[c] = p
    BY OnlyOne
  <2> QED
    BY <1>6, <2>2, <2>3, QuietHasNothing, NoneIsNoCode DEF Contents
<1> QED
  BY <1>1, <1>2, <1>3, <1>4, <1>5, <1>6

\* The route of an event of contract d.
Route(x, prior, verdict, d) ==
    RouteFor(IF d \in DOMAIN x.deploy THEN DeployedType(x.deploy[d], x, prior) ELSE verdict[d])

EventsOn(x, prior, verdict, r) ==
    {<<c, height + 1>> : c \in {d \in x.emit : Route(x, prior, verdict, d) = r}}

\* The parts of a staged ledger, one by one.
StagedAs(s, by, x, prior, verdict, rows) ==
    /\ s.by = by /\ s.programs = x.up
    /\ DOMAIN s.contracts = DOMAIN x.deploy \cup Upgraded(x, rows)
    /\ \A c \in DOMAIN x.deploy :
         s.contracts[c] = [type |-> DeployedType(x.deploy[c], x, prior), hash |-> x.deploy[c]]
    /\ \A c \in Upgraded(x, rows) \ DOMAIN x.deploy :
         s.contracts[c] = UpgradeRow(rows[c], x.upgrade[c])
    /\ s.assets \subseteq DOMAIN x.deploy
    /\ s.hot = EventsOn(x, prior, verdict, "hot")
    /\ s.pending = EventsOn(x, prior, verdict, "pending")
    /\ s.nft = {<<c, height + 1>> : c \in {d \in x.emit : CodeAfter(x)[d] = "nft"}}
    /\ s = [by |-> s.by, programs |-> s.programs, contracts |-> s.contracts, assets |-> s.assets,
            hot |-> s.hot, pending |-> s.pending, nft |-> s.nft]
    /\ s.contracts = [c \in DOMAIN s.contracts |-> s.contracts[c]]

LEMMA StagedParts ==
    ASSUME NEW by, NEW x, NEW prior, NEW verdict, NEW rows
    PROVE  StagedAs(StagedLedger(by, x, prior, verdict, rows), by, x, prior, verdict, rows)
<1> DEFINE types == [c \in DOMAIN x.deploy |-> DeployedType(x.deploy[c], x, prior)]
<1> DEFINE route(c) == RouteFor(IF c \in DOMAIN types THEN types[c] ELSE verdict[c])
<1> DEFINE events(r) == {<<c, height + 1>> : c \in {d \in x.emit : route(d) = r}}
<1> DEFINE s == StagedLedger(by, x, prior, verdict, rows)
<1> DEFINE row(c) == IF c \in DOMAIN types THEN [type |-> types[c], hash |-> x.deploy[c]]
                     ELSE UpgradeRow(rows[c], x.upgrade[c])
<1> DEFINE map == [c \in DOMAIN types \cup Upgraded(x, rows) |-> row(c)]
<1>1. s = [by |-> by, programs |-> x.up, contracts |-> map,
           assets |-> {c \in DOMAIN types : types[c] = "fungible"},
           hot |-> events("hot"), pending |-> events("pending"),
           nft |-> {<<c, height + 1>> : c \in {d \in x.emit : CodeAfter(x)[d] = "nft"}}]
  BY DEF StagedLedger
<1>2. DOMAIN types = DOMAIN x.deploy
  OBVIOUS
<1>3. \A c \in DOMAIN x.deploy : types[c] = DeployedType(x.deploy[c], x, prior)
  OBVIOUS
<1>4. \A d : route(d) = Route(x, prior, verdict, d)
  BY <1>2, <1>3 DEF Route
<1>5. /\ events("hot") = EventsOn(x, prior, verdict, "hot")
      /\ events("pending") = EventsOn(x, prior, verdict, "pending")
  <2> HIDE DEF route
  <2> QED
    BY <1>4 DEF EventsOn
<1>6. \A c \in DOMAIN x.deploy :
        row(c) = [type |-> DeployedType(x.deploy[c], x, prior), hash |-> x.deploy[c]]
  BY <1>2, <1>3
<1>7. \A c \in Upgraded(x, rows) \ DOMAIN x.deploy : row(c) = UpgradeRow(rows[c], x.upgrade[c])
  BY <1>2
<1> HIDE DEF types, route, events, row
<1>8. /\ DOMAIN map = DOMAIN x.deploy \cup Upgraded(x, rows)
      /\ \A c \in DOMAIN map : map[c] = row(c)
      /\ map = [c \in DOMAIN map |-> map[c]]
  BY <1>2
<1> HIDE DEF map
<1>9. /\ s.by = by /\ s.programs = x.up /\ s.contracts = map
      /\ s.assets = {c \in DOMAIN types : types[c] = "fungible"}
      /\ s.hot = events("hot") /\ s.pending = events("pending")
      /\ s.nft = {<<c, height + 1>> : c \in {d \in x.emit : CodeAfter(x)[d] = "nft"}}
  BY <1>1
<1>10. s = [by |-> s.by, programs |-> s.programs, contracts |-> s.contracts, assets |-> s.assets,
            hot |-> s.hot, pending |-> s.pending, nft |-> s.nft]
  BY <1>1, <1>9, Zenon
<1> HIDE DEF s
<1>11. StagedAs(s, by, x, prior, verdict, rows)
  BY <1>2, <1>5, <1>6, <1>7, <1>8, <1>9, <1>10 DEF StagedAs
<1> QED
  BY <1>11 DEF s

-----------------------------------------------------------------------------
(* Types.                                                                  *)

LEMMA UpgradeRowParts ==
    ASSUME NEW row \in ContractRows, NEW p \in Codes
    PROVE  /\ UpgradeRow(row, p) \in ContractRows
           /\ UpgradeRow(row, p).hash = p /\ UpgradeRow(row, p).type = row.type
  BY DEF UpgradeRow, ContractRows

LEMMA DeployedTypeIs ==
    ASSUME NEW p \in Codes, NEW x, NEW prior
    PROVE  /\ DeployedType(p, x, prior) \in Definitive \cup {"other"}
           /\ DeployedType(p, x, prior) \in Definitive => DeployedType(p, x, prior) = Verdict(p)
  BY DEF DeployedType, Codes, Programs, Definitive, Verdict

\* What is staged of a sound ledger has its type, and a code in every row.
LEMMA StagedIsTyped ==
    ASSUME NEW s, NEW by \in {"live", "run"}, NEW x, NEW prior, NEW verdict,
           NEW rows \in [Contracts -> ContractRows],
           RoutingAssumption, height \in Nat, height < MaxLedger, Contents(x),
           StagedAs(s, by, x, prior, verdict, rows)
    PROVE  /\ s \in StagedLedgers /\ s.programs = x.up
           /\ \A c \in DOMAIN s.contracts : s.contracts[c].hash # None
<1>1. DOMAIN s.contracts \subseteq Contracts
  BY DEF StagedAs, Contents, Upgraded
<1>2. ASSUME NEW c \in DOMAIN x.deploy
      PROVE  s.contracts[c] \in ContractRows /\ s.contracts[c].hash # None
  <2>1. x.deploy[c] \in Codes
    BY DEF Contents
  <2>2. s.contracts[c] = [type |-> DeployedType(x.deploy[c], x, prior), hash |-> x.deploy[c]]
    BY DEF StagedAs
  <2>3. DeployedType(x.deploy[c], x, prior) \in Definitive \cup {"other"}
    BY <2>1, DeployedTypeIs
  <2> QED
    BY <2>1, <2>2, <2>3, NoneIsNoCode DEF ContractRows
<1>3. ASSUME NEW c \in Upgraded(x, rows) \ DOMAIN x.deploy
      PROVE  s.contracts[c] \in ContractRows /\ s.contracts[c].hash # None
  <2>1. x.upgrade[c] \in Codes /\ rows[c] \in ContractRows
    BY NoneIsNoCode DEF Contents, Upgraded
  <2>2. s.contracts[c] = UpgradeRow(rows[c], x.upgrade[c])
    BY DEF StagedAs
  <2> QED
    BY <2>1, <2>2, UpgradeRowParts, NoneIsNoCode
<1>4. \A c \in DOMAIN s.contracts : s.contracts[c] \in ContractRows /\ s.contracts[c].hash # None
  BY <1>2, <1>3 DEF StagedAs
<1>5. s.contracts \in [DOMAIN s.contracts -> ContractRows]
  <2>1. s.contracts = [c \in DOMAIN s.contracts |-> s.contracts[c]]
    BY DEF StagedAs
  <2> QED
    BY <1>4, <2>1, Zenon
<1>6. s.contracts \in UNION {[D -> ContractRows] : D \in SUBSET Contracts}
  BY <1>1, <1>5
<1>7. x.emit \subseteq Contracts
  BY DEF Contents
<1>8. height + 1 \in 1..MaxLedger
  BY DEF RoutingAssumption
<1>9. /\ s.hot \in SUBSET Events /\ s.pending \in SUBSET Events /\ s.nft \in SUBSET Events
  BY <1>7, <1>8 DEF StagedAs, EventsOn, Events
<1>10. s.by \in {"live", "run"} /\ s.programs \in SUBSET Programs /\ s.assets \in SUBSET Contracts
  BY DEF StagedAs, Contents
<1>11. s = [by |-> s.by, programs |-> s.programs, contracts |-> s.contracts, assets |-> s.assets,
            hot |-> s.hot, pending |-> s.pending, nft |-> s.nft]
  BY DEF StagedAs
<1>12. s \in StagedLedgers
  BY <1>6, <1>9, <1>10, <1>11, Zenon DEF StagedLedgers
<1> QED
  BY <1>4, <1>12 DEF StagedAs

\* What a field of a staged ledger holds.
LEMMA StagedFields ==
    ASSUME NEW s \in StagedLedgers
    PROVE  /\ s.programs \subseteq Programs /\ s.assets \subseteq Contracts
           /\ DOMAIN s.contracts \subseteq Contracts
           /\ \A c \in DOMAIN s.contracts : s.contracts[c] \in ContractRows
           /\ s.hot \subseteq Events /\ s.pending \subseteq Events /\ s.nft \subseteq Events
<1>1. s.contracts \in UNION {[D -> ContractRows] : D \in SUBSET Contracts}
  BY DEF StagedLedgers
<1>2. PICK D \in SUBSET Contracts : s.contracts \in [D -> ContractRows]
  BY <1>1
<1> QED
  BY <1>2 DEF StagedLedgers

\* The parts of Typing that each step touches on its own.
ChainTyped == height \in 0..MaxLedger /\ code \in [Contracts -> Codes \cup {None}] /\ uploaded \subseteq Programs
StoreTyped ==
    /\ programs \subseteq uploaded
    /\ contracts \in [Contracts -> ContractRows] /\ assets \subseteq Contracts
    /\ hot \in [Tables -> SUBSET Events] /\ pending \in [Tables -> SUBSET Events]
    /\ isNft \subseteq Events
CacheTyped == cache \in [Contracts -> Definitive \cup {None}]
StagedTyped ==
    /\ Len(staged) <= MaxBatch /\ staged \in Seq(StagedLedgers)
    /\ \A i \in DOMAIN staged :
         /\ staged[i].programs \subseteq uploaded
         /\ \A c \in DOMAIN staged[i].contracts : staged[i].contracts[c].hash # None
Passes == [pc : RebuildSteps \cup ReclassifySteps \cup Resting, verdicts : SUBSET Programs,
           staging : {<<>>} \cup [Contracts -> ContractRows], quiet : BOOLEAN]

LEMMA TypingParts ==
    Typing <=> /\ ChainTyped /\ StoreTyped /\ CacheTyped /\ StagedTyped
               /\ pass \in Passes /\ faults \in 0..MaxFailures
  BY DEF Typing, RoutingTypeOK, ChainTyped, StoreTyped, CacheTyped, StagedTyped, Passes, ContractRows

LEMMA TypingPartsNext ==
    Typing' <=> /\ ChainTyped' /\ StoreTyped' /\ CacheTyped' /\ StagedTyped'
                /\ pass' \in Passes /\ faults' \in 0..MaxFailures
  BY DEF Typing, RoutingTypeOK, ChainTyped, StoreTyped, CacheTyped, StagedTyped, Passes, ContractRows

LEMMA InitIsTyped == RoutingAssumption /\ RoutingInit => Typing
<1> SUFFICES ASSUME RoutingAssumption, RoutingInit PROVE Typing
  OBVIOUS
<1>1. ChainTyped
  BY DEF RoutingInit, ChainTyped, RoutingAssumption
<1>2. StoreTyped
  BY DEF RoutingInit, StoreTyped, ContractRows, NoRow
<1>3. CacheTyped
  BY DEF RoutingInit, CacheTyped
<1>4. StagedTyped
  BY DEF RoutingInit, StagedTyped, RoutingAssumption
<1>5. pass \in Passes
  BY DEF RoutingInit, Idle, Passes, Resting
<1>6. faults \in 0..MaxFailures
  BY DEF RoutingInit, RoutingAssumption
<1> QED
  BY <1>1, <1>2, <1>3, <1>4, <1>5, <1>6, TypingParts

\* A ledger is staged by either writer: it is the last of the open writer's.
Stages(s, by, x, prior, verdict, rows) ==
    /\ by \in {"live", "run"} /\ Contents(x) /\ rows \in [Contracts -> ContractRows]
    /\ StagedAs(s, by, x, prior, verdict, rows)
    /\ staged' = Append(staged, s) /\ Len(staged) < MaxBatch
    /\ CacheTyped' /\ faults' \in 0..MaxFailures
    /\ Closes(x)

LEMMA FaultsCounted ==
    ASSUME RoutingAssumption, faults \in 0..MaxFailures, NEW failed \in BOOLEAN,
           MayFault(failed), CountFault(failed)
    PROVE  faults' \in 0..MaxFailures
  BY DEF RoutingAssumption, MayFault, CountFault

LEMMA LiveStages ==
    ASSUME RoutingAssumption, Typing, NEW kind \in LedgerKinds, NEW x \in LedgerContents(kind),
           NEW g1 \in BOOLEAN, NEW g9 \in BOOLEAN, StageLive(x, g1, g9)
    PROVE  \E s : /\ Stages(s, "live", x, PriorWasmVerdicts(g1), cache', contracts)
                  /\ staged = <<>> /\ cache' = CacheAfter(x, g9)
<1> DEFINE s == StagedLedger("live", x, PriorWasmVerdicts(g1), cache', contracts)
<1>1. ChainTyped /\ StoreTyped /\ CacheTyped /\ StagedTyped /\ faults \in 0..MaxFailures
  BY TypingParts
<1>2. Contents(x)
  BY <1>1, LedgerIsSound DEF ChainTyped, RoutingAssumption
<1>3. StagedAs(s, "live", x, PriorWasmVerdicts(g1), cache', contracts)
  BY StagedParts
<1>4. staged = <<>> /\ staged' = <<s>> /\ cache' = CacheAfter(x, g9) /\ Closes(x)
  BY DEF StageLive
<1>5. faults' \in 0..MaxFailures
  <2>1. MayFault(g1 \/ g9) /\ CountFault(g1 \/ g9)
    BY DEF StageLive
  <2>2. (g1 \/ g9) \in BOOLEAN
    OBVIOUS
  <2> QED
    BY <1>1, <2>1, <2>2, FaultsCounted
<1>6. CacheTyped'
  BY <1>1, <1>4 DEF CacheTyped, CacheAfter
<1> HIDE DEF s
<1>7. staged' = Append(staged, s) /\ Len(staged) < MaxBatch
  BY <1>4 DEF RoutingAssumption
<1>8. contracts \in [Contracts -> ContractRows]
  BY <1>1 DEF StoreTyped
<1>9. Stages(s, "live", x, PriorWasmVerdicts(g1), cache', contracts)
  BY <1>2, <1>3, <1>4, <1>5, <1>6, <1>7, <1>8 DEF Stages
<1> QED
  BY <1>4, <1>9

NoVerdicts == [c \in Contracts |-> None]
NoRows == [c \in Contracts |-> NoRow]

LEMMA RunStages ==
    ASSUME RoutingAssumption, Typing, NEW kind \in LedgerKinds, NEW x \in LedgerContents(kind),
           StageRun(x)
    PROVE  \E s : Stages(s, "run", x, {}, NoVerdicts, NoRows) /\ cache' = cache
<1> DEFINE s == StagedLedger("run", x, {}, NoVerdicts, NoRows)
<1>1. ChainTyped /\ CacheTyped /\ faults \in 0..MaxFailures
  BY TypingParts
<1>2. Contents(x)
  BY <1>1, LedgerIsSound DEF ChainTyped, RoutingAssumption
<1>3. StagedAs(s, "run", x, {}, NoVerdicts, NoRows)
  BY StagedParts
<1>4. staged' = Append(staged, s) /\ Len(staged) < MaxBatch /\ Closes(x) /\ cache' = cache /\ faults' = faults
  BY DEF StageRun, NoVerdicts, NoRows
<1>5. CacheTyped' /\ faults' \in 0..MaxFailures
  BY <1>1, <1>4 DEF CacheTyped
<1>6. NoRows \in [Contracts -> ContractRows]
  BY DEF NoRows, NoRow, ContractRows
<1> HIDE DEF s
<1>7. Stages(s, "run", x, {}, NoVerdicts, NoRows)
  BY <1>2, <1>3, <1>4, <1>5, <1>6 DEF Stages
<1> QED
  BY <1>4, <1>7

LEMMA StagesTyped ==
    ASSUME RoutingAssumption, Typing, NEW s, NEW by, NEW x, NEW prior, NEW verdict, NEW rows,
           Stages(s, by, x, prior, verdict, rows)
    PROVE  /\ s \in StagedLedgers
           /\ \A c \in DOMAIN s.contracts : s.contracts[c].hash # None
           /\ Typing'
<1>1. ChainTyped /\ StoreTyped /\ CacheTyped /\ StagedTyped /\ pass \in Passes
  BY TypingParts
<1>2. height \in Nat /\ height < MaxLedger
  BY <1>1 DEF Stages, Closes, ChainTyped
<1>3. /\ s \in StagedLedgers /\ s.programs = x.up
      /\ \A c \in DOMAIN s.contracts : s.contracts[c].hash # None
  BY <1>2, StagedIsTyped DEF Stages
<1>4. ChainTyped'
  <2>1. height' \in 0..MaxLedger
    BY <1>1, <1>2 DEF Stages, Closes, RoutingAssumption
  <2>2. code' \in [Contracts -> Codes \cup {None}]
    <3>1. code' = CodeAfter(x)
      BY DEF Stages, Closes
    <3>2. ASSUME NEW c \in Contracts PROVE CodeAfter(x)[c] \in Codes \cup {None}
      BY <1>1, NoneIsNoCode DEF CodeAfter, Stages, Contents, ChainTyped
    <3>3. CodeAfter(x) = [c \in Contracts |-> CodeAfter(x)[c]]
      BY DEF CodeAfter
    <3> QED
      BY <3>1, <3>2, <3>3, Zenon
  <2>3. uploaded' \subseteq Programs
    BY <1>1 DEF Stages, Closes, Contents, ChainTyped
  <2> QED
    BY <2>1, <2>2, <2>3 DEF ChainTyped
<1>5. uploaded' = uploaded \cup x.up /\ UNCHANGED <<store, pass>>
  BY DEF Stages, Closes
<1>6. StoreTyped'
  BY <1>1, <1>5 DEF StoreTyped, store
<1>7. StagedTyped'
  <2>1. staged' = Append(staged, s) /\ Len(staged) < MaxBatch /\ staged \in Seq(StagedLedgers)
    BY <1>1 DEF Stages, StagedTyped
  <2>2. Len(staged') <= MaxBatch /\ staged' \in Seq(StagedLedgers)
    BY <2>1, <1>3 DEF RoutingAssumption
  <2>3. ASSUME NEW i \in DOMAIN staged'
        PROVE  (i \in DOMAIN staged /\ staged'[i] = staged[i]) \/ staged'[i] = s
    BY <2>1, <1>3
  <2>4. ASSUME NEW i \in DOMAIN staged'
        PROVE  /\ staged'[i].programs \subseteq uploaded'
               /\ \A c \in DOMAIN staged'[i].contracts : staged'[i].contracts[c].hash # None
    <3>1. CASE i \in DOMAIN staged /\ staged'[i] = staged[i]
      BY <3>1, <1>1, <1>5 DEF StagedTyped
    <3>2. CASE staged'[i] = s
      BY <3>2, <1>3, <1>5
    <3> QED
      BY <2>3, <3>1, <3>2
  <2> QED
    BY <2>2, <2>4 DEF StagedTyped
<1>8. CacheTyped' /\ faults' \in 0..MaxFailures
  BY DEF Stages
<1> QED
  BY <1>1, <1>3, <1>4, <1>5, <1>6, <1>7, <1>8, TypingPartsNext

\* A commit leaves a contract its row, or gives it one that was staged.
LEMMA RowAfterIs ==
    ASSUME StagedTyped, NEW c
    PROVE  \/ RowAfter(c) = contracts[c] /\ \A i \in DOMAIN staged : c \notin DOMAIN staged[i].contracts
           \/ \E i \in DOMAIN staged : /\ c \in DOMAIN staged[i].contracts
                                       /\ RowAfter(c) = staged[i].contracts[c]
<1> DEFINE having == {i \in DOMAIN staged : c \in DOMAIN staged[i].contracts}
<1> DEFINE last == CHOOSE i \in having : \A j \in having : j <= i
<1>1. RowAfter(c) = IF having = {} THEN contracts[c] ELSE staged[last].contracts[c]
  BY DEF RowAfter
<1>2. CASE having = {}
  BY <1>1, <1>2
<1>3. CASE having # {}
  <2>1. DOMAIN staged = 1..Len(staged) /\ Len(staged) \in Nat
    BY DEF StagedTyped
  <2>2. having \in SUBSET (0..Len(staged))
    BY <2>1
  <2>3. \E i \in having : \A j \in having : j <= i
    <3> HIDE DEF having
    <3> QED
      BY <1>3, <2>1, <2>2, Greatest
  <2>4. last \in having
    <3> HIDE DEF having
    <3> QED
      BY <2>3
  <2> QED
    BY <1>1, <1>3, <2>4
<1> QED
  BY <1>2, <1>3

LEMMA RowAfterIsTyped ==
    ASSUME StagedTyped, StoreTyped, NEW c \in Contracts
    PROVE  RowAfter(c) \in ContractRows /\ (contracts[c] # NoRow => RowAfter(c) # NoRow)
<1>1. CASE RowAfter(c) = contracts[c]
  BY <1>1 DEF StoreTyped
<1>2. CASE \E i \in DOMAIN staged : /\ c \in DOMAIN staged[i].contracts
                                    /\ RowAfter(c) = staged[i].contracts[c]
  <2>1. PICK i \in DOMAIN staged : /\ c \in DOMAIN staged[i].contracts
                                   /\ RowAfter(c) = staged[i].contracts[c]
    BY <1>2
  <2>2. staged[i] \in StagedLedgers /\ staged[i].contracts[c].hash # None
    BY <2>1 DEF StagedTyped
  <2>3. staged[i].contracts[c] \in ContractRows
    BY <2>1, <2>2, StagedFields
  <2>4. NoRow.hash = None
    BY DEF NoRow
  <2> QED
    BY <2>1, <2>2, <2>3, <2>4
<1> QED
  BY <1>1, <1>2, RowAfterIs

LEMMA BatchIs ==
    ASSUME StagedTyped, NEW s \in Batch
    PROVE  \E i \in DOMAIN staged : s = staged[i] /\ s \in StagedLedgers
  BY DEF Batch, StagedTyped

LEMMA AddedIs ==
    ASSUME NEW table \in [Tables -> SUBSET Events], NEW rows \in SUBSET Events
    PROVE  /\ Added(table, rows) \in [Tables -> SUBSET Events]
           /\ \A t \in Tables : Added(table, rows)[t] = table[t] \cup rows
  BY DEF Added

LEMMA BatchRows ==
    ASSUME StagedTyped
    PROVE  /\ UNION {s.hot : s \in Batch} \in SUBSET Events
           /\ UNION {s.pending : s \in Batch} \in SUBSET Events
           /\ UNION {s.nft : s \in Batch} \in SUBSET Events
           /\ UNION {s.assets : s \in Batch} \in SUBSET Contracts
           /\ UNION {s.programs : s \in Batch} \in SUBSET uploaded
<1>1. ASSUME NEW s \in Batch
      PROVE  /\ s.hot \subseteq Events /\ s.pending \subseteq Events /\ s.nft \subseteq Events
             /\ s.assets \subseteq Contracts /\ s.programs \subseteq uploaded
  <2>1. PICK i \in DOMAIN staged : s = staged[i] /\ s \in StagedLedgers
    BY BatchIs
  <2> QED
    BY <2>1, StagedFields DEF StagedTyped
<1> QED
  BY <1>1

LEMMA CommitTyped ==
    ASSUME RoutingAssumption, Typing, Commit
    PROVE  Typing'
<1>1. ChainTyped /\ StoreTyped /\ CacheTyped /\ StagedTyped /\ pass \in Passes /\ faults \in 0..MaxFailures
  BY TypingParts
<1>2. ChainTyped' /\ CacheTyped' /\ faults' \in 0..MaxFailures
  BY <1>1 DEF Commit, chain, ChainTyped, CacheTyped
<1>3. StoreTyped'
  <2>1. programs' \subseteq uploaded' /\ assets' \subseteq Contracts /\ isNft' \subseteq Events
    BY <1>1, BatchRows DEF Commit, chain, StoreTyped
  <2>2. hot' \in [Tables -> SUBSET Events] /\ pending' \in [Tables -> SUBSET Events]
    BY <1>1, BatchRows, AddedIs DEF Commit, StoreTyped
  <2>3. contracts' \in [Contracts -> ContractRows]
    BY <1>1, RowAfterIsTyped DEF Commit
  <2> QED
    BY <2>1, <2>2, <2>3 DEF StoreTyped
<1>4. StagedTyped'
  BY DEF Commit, StagedTyped, RoutingAssumption
<1>5. pass' \in Passes
  BY <1>1 DEF Commit, Passes
<1> QED
  BY <1>2, <1>3, <1>4, <1>5, TypingPartsNext

-----------------------------------------------------------------------------
(* The passes.                                                             *)

LEMMA RebuiltIs ==
    ASSUME NEW row \in ContractRows, pass.verdicts \subseteq Programs \ {"other"}
    PROVE  /\ Rebuilt(row) \in ContractRows /\ Rebuilt(row).hash = row.hash
           /\ Rebuilt(row).type # row.type =>
                Rebuilt(row).type = row.hash /\ row.hash \in Definitive
           /\ row.hash \in pass.verdicts => Rebuilt(row).type = row.hash
<1>1. Programs \ {"other"} \subseteq Definitive
  BY DEF Programs, Definitive
<1>2. CASE row.hash \in pass.verdicts
  <2>1. Rebuilt(row) = [row EXCEPT !.type = row.hash]
    BY <1>2 DEF Rebuilt
  <2>2. row.hash \in Definitive
    BY <1>1, <1>2
  <2> QED
    BY <2>1, <2>2 DEF ContractRows
<1>3. CASE row.hash \notin pass.verdicts
  BY <1>3 DEF Rebuilt
<1> QED
  BY <1>2, <1>3

LEMMA PassesTyped ==
    ASSUME pass \in Passes, NEW pc \in RebuildSteps \cup ReclassifySteps \cup Resting
    PROVE  /\ [pass EXCEPT !.pc = pc] \in Passes /\ [pass EXCEPT !.pc = pc].pc = pc
           /\ [Idle EXCEPT !.pc = pc] \in Passes /\ [Idle EXCEPT !.pc = pc].pc = pc
           /\ Idle \in Passes /\ Idle.pc = "idle"
  BY DEF Passes, Idle, Resting

LEMMA TypedIsPart ==
    ASSUME NEW rows, NEW types
    PROVE  Typed(rows, types) \subseteq rows
  BY DEF Typed

PassTruth == PassFollows /\ RebuiltTypes /\ Settles

\* While the writers run no pass does, so a step of theirs that leaves the
\* store alone leaves what was said about it.
LEMMA StagesPass ==
    ASSUME LiveDuring = {}, Typing, PassTruth,
           NEW s, NEW by, NEW x, NEW prior, NEW verdict, NEW rows,
           Stages(s, by, x, prior, verdict, rows)
    PROVE  PassTruth'
<1>1. pass.pc \in Resting
  BY DEF Stages, Closes, WritersRun, Resting
<1>2. UNCHANGED <<programs, contracts, assets, hot, pending, pass>>
  BY DEF Stages, Closes, store
<1>3. PassFollows'
  BY <1>1, <1>2 DEF PassFollows, Resting
<1>4. RebuiltTypes'
  BY <1>2 DEF PassTruth, RebuiltTypes
<1>5. Settles'
  BY <1>2 DEF PassTruth, Settles, Typed
<1> QED
  BY <1>3, <1>4, <1>5 DEF PassTruth

LEMMA CommitPass ==
    ASSUME LiveDuring = {}, Typing, PassTruth, Commit
    PROVE  PassTruth'
<1>1. pass.pc \in Resting /\ pass \in Passes
  BY TypingParts DEF Commit, WritersRun, Resting
<1>2. pass'.pc = pass.pc /\ pass'.quiet = FALSE
  BY <1>1 DEF Commit, Passes
<1>3. PassFollows'
  BY <1>1, <1>2 DEF PassFollows, Resting
<1> QED
  BY <1>2, <1>3 DEF PassTruth, RebuiltTypes, Settles

\* Nothing but the cache, the open writer or the count of faults changes.
LEMMA RecyclePass ==
    ASSUME PassTruth, Recycle \/ UNCHANGED routingVars
    PROVE  PassTruth'
<1>1. UNCHANGED <<programs, contracts, assets, hot, pending, staged, pass>>
  BY DEF Recycle, routingVars, store
<1>2. PassFollows'
  BY <1>1 DEF PassTruth, PassFollows, Typed, RebuiltFrom, DecidedType
<1>3. RebuiltTypes' /\ Settles'
  BY <1>1 DEF PassTruth, RebuiltTypes, Settles, Typed
<1> QED
  BY <1>2, <1>3 DEF PassTruth

LEMMA RecycleTyped ==
    ASSUME Typing, Recycle \/ UNCHANGED routingVars
    PROVE  Typing'
<1>1. UNCHANGED <<chain, store, staged, pass, faults>> /\ (cache' = cache \/ cache' = NoVerdicts)
  BY DEF Recycle, routingVars, NoVerdicts
<1>2. CacheTyped'
  BY <1>1, TypingParts DEF CacheTyped, NoVerdicts
<1>3. ChainTyped' /\ StoreTyped' /\ StagedTyped'
  BY <1>1, TypingParts DEF ChainTyped, StoreTyped, StagedTyped, chain, store
<1> QED
  BY <1>1, <1>2, <1>3, TypingParts, TypingPartsNext

-----------------------------------------------------------------------------
(* The steps of a pass: the types they keep, and what they leave.          *)

\* A step that changes only the pass and parts of the store.
LEMMA PassStepTyped ==
    ASSUME Typing, UNCHANGED <<chain, cache, staged>>, faults' \in 0..MaxFailures,
           StoreTyped', pass' \in Passes
    PROVE  Typing'
  BY TypingParts, TypingPartsNext DEF chain, ChainTyped, CacheTyped, StagedTyped

LEMMA BeginStep ==
    ASSUME LiveDuring = {}, Typing, PassTruth, NEW p \in {"rebuild", "reclassify"}, Begin(p)
    PROVE  Typing' /\ PassTruth'
<1> DEFINE pc == IF p = "rebuild" THEN "verdicts" ELSE "promoteNfts"
<1>1. pc \in RebuildSteps \cup ReclassifySteps \cup Resting
  BY DEF RebuildSteps, ReclassifySteps
<1>2. pass' = [Idle EXCEPT !.pc = pc] /\ UNCHANGED <<chain, store, cache, staged, faults>> /\ staged = <<>>
  BY DEF Begin
<1>3. pc \in {"verdicts", "promoteNfts"}
  OBVIOUS
<1> HIDE DEF pc
<1>4. pass' \in Passes /\ pass'.pc = pc
  BY <1>1, <1>2, TypingParts, PassesTyped
<1>5. Typing'
  BY <1>2, <1>4, TypingParts, PassStepTyped DEF chain, store, StoreTyped
<1>6. PassFollows'
  BY <1>2, <1>3, <1>4 DEF PassFollows
<1>7. RebuiltTypes' /\ Settles'
  BY <1>3, <1>4 DEF RebuiltTypes, Settles
<1> QED
  BY <1>5, <1>6, <1>7 DEF PassTruth

LEMMA FailStep ==
    ASSUME RoutingAssumption, Typing, PassTruth, PassFails
    PROVE  Typing' /\ PassTruth'
<1>1. pass' = Idle /\ UNCHANGED <<chain, store, cache, staged>> /\ MayFault(TRUE) /\ CountFault(TRUE)
  BY DEF PassFails
<1>2. pass' \in Passes /\ pass'.pc = "idle"
  BY <1>1, TypingParts, PassesTyped DEF Resting
<1>3. faults' \in 0..MaxFailures
  BY <1>1, TypingParts, FaultsCounted
<1>4. Typing'
  BY <1>1, <1>2, <1>3, TypingParts, PassStepTyped DEF chain, store, StoreTyped
<1>5. PassFollows'
  BY <1>2 DEF PassFollows, Resting
<1>6. RebuiltTypes' /\ Settles'
  BY <1>2 DEF RebuiltTypes, Settles
<1> QED
  BY <1>4, <1>5, <1>6 DEF PassTruth

LEMMA VerdictsStep ==
    ASSUME Typing, PassTruth, RebuildVerdicts
    PROVE  Typing' /\ PassTruth'
<1>1. /\ pass.pc = "verdicts" /\ UNCHANGED <<chain, store, cache, staged, faults>>
      /\ pass' = [pass EXCEPT !.pc = "build", !.verdicts = programs \ {"other"}]
  BY DEF RebuildVerdicts
<1>2. pass \in Passes /\ programs \subseteq Programs
  BY TypingParts DEF StoreTyped, ChainTyped
<1>3. pass' \in Passes /\ pass'.pc = "build" /\ pass'.verdicts = programs \ {"other"}
  BY <1>1, <1>2 DEF Passes, RebuildSteps
<1>4. Typing'
  BY <1>1, <1>3, TypingParts, PassStepTyped DEF chain, store, StoreTyped
<1>5. PassFollows'
  BY <1>1, <1>3 DEF PassTruth, PassFollows, Resting, store
<1>6. RebuiltTypes' /\ Settles'
  BY <1>3 DEF RebuiltTypes, Settles
<1> QED
  BY <1>4, <1>5, <1>6 DEF PassTruth

LEMMA StagingStep ==
    ASSUME Typing, PassTruth, RebuildStaging
    PROVE  Typing' /\ PassTruth'
<1> DEFINE table == [c \in Contracts |-> Rebuilt(contracts[c])]
<1>1. /\ pass.pc = "build" /\ UNCHANGED <<chain, store, cache, staged, faults>>
      /\ pass' = [pass EXCEPT !.pc = "exchange", !.staging = table]
  BY DEF RebuildStaging
<1>2. pass \in Passes /\ programs \subseteq Programs /\ contracts \in [Contracts -> ContractRows]
  BY TypingParts DEF StoreTyped, ChainTyped
<1>3. pass.verdicts = programs \ {"other"} /\ staged = <<>>
  BY <1>1 DEF PassTruth, PassFollows, Resting
<1>4. ASSUME NEW c \in Contracts
      PROVE  Rebuilt(contracts[c]) \in ContractRows /\ RebuiltFrom(Rebuilt(contracts[c]), contracts[c])
  <2>1. contracts[c] \in ContractRows /\ pass.verdicts \subseteq Programs \ {"other"}
    BY <1>2, <1>3
  <2> QED
    BY <2>1, <1>3, RebuiltIs DEF RebuiltFrom, DecidedType
<1>5. table \in [Contracts -> ContractRows] /\ \A c \in Contracts : RebuiltFrom(table[c], contracts[c])
  BY <1>4
<1> HIDE DEF table
<1>6. pass' \in Passes /\ pass'.pc = "exchange" /\ pass'.staging = table
  BY <1>1, <1>2, <1>5 DEF Passes, RebuildSteps
<1>7. Typing'
  BY <1>1, <1>6, TypingParts, PassStepTyped DEF chain, store, StoreTyped
<1>8. PassFollows'
  BY <1>1, <1>3, <1>5, <1>6 DEF PassFollows, store, RebuiltFrom, DecidedType
<1>9. RebuiltTypes' /\ Settles'
  BY <1>6 DEF RebuiltTypes, Settles
<1> QED
  BY <1>7, <1>8, <1>9 DEF PassTruth

LEMMA ExchangeStep ==
    ASSUME Typing, PassTruth, RebuildExchange
    PROVE  Typing' /\ PassTruth'
<1>1. /\ pass.pc = "exchange" /\ contracts' = pass.staging /\ pass' = [pass EXCEPT !.pc = "assets"]
      /\ UNCHANGED <<chain, programs, assets, hot, pending, isNft, cache, staged, faults>>
  BY DEF RebuildExchange
<1>2. /\ staged = <<>> /\ pass.staging \in [Contracts -> ContractRows]
      /\ \A c \in Contracts : RebuiltFrom(pass.staging[c], contracts[c])
  BY <1>1 DEF PassTruth, PassFollows, Resting
<1>3. pass' \in Passes /\ pass'.pc = "assets"
  BY <1>1, TypingParts, PassesTyped DEF RebuildSteps
<1>4. Typing'
  BY <1>1, <1>2, <1>3, TypingParts, PassStepTyped DEF chain, StoreTyped
<1>5. PassFollows'
  BY <1>1, <1>2, <1>3 DEF PassFollows, RebuiltFrom, DecidedType
<1>6. RebuiltTypes' /\ Settles'
  BY <1>3 DEF RebuiltTypes, Settles
<1> QED
  BY <1>4, <1>5, <1>6 DEF PassTruth

LEMMA AssetsStep ==
    ASSUME Typing, PassTruth, RebuildAssets
    PROVE  Typing' /\ PassTruth'
<1>1. /\ pass.pc = "assets"
      /\ assets' = assets \cup {c \in Contracts : contracts[c].type = "fungible"}
      /\ pass' = [Idle EXCEPT !.pc = "rebuilt", !.quiet = pass.quiet]
      /\ UNCHANGED <<chain, programs, contracts, hot, pending, isNft, cache, staged, faults>>
  BY DEF RebuildAssets
<1>2. \A c \in Contracts : DecidedType(contracts[c])
  BY <1>1 DEF PassTruth, PassFollows
<1>3. pass' \in Passes /\ pass'.pc = "rebuilt"
  BY <1>1, TypingParts DEF Idle, Passes, Resting
<1>4. Typing'
  BY <1>1, <1>3, TypingParts, PassStepTyped DEF chain, StoreTyped
<1>5. PassFollows'
  BY <1>3 DEF PassFollows, Resting
<1>6. RebuiltTypes'
  BY <1>1, <1>2 DEF RebuiltTypes, DecidedType
<1>7. Settles'
  BY <1>3 DEF Settles
<1> QED
  BY <1>4, <1>5, <1>6, <1>7 DEF PassTruth

LEMMA PromoteStep ==
    ASSUME Typing, PassTruth, NEW t \in Tables,
           NEW from \in {"promoteNfts", "promoteChanges"}, NEW to \in {"promoteChanges", "dropNfts"},
           Promote(t, from, to)
    PROVE  Typing' /\ PassTruth'
<1>1. /\ pass.pc = from /\ pass' = [pass EXCEPT !.pc = to]
      /\ hot' = [hot EXCEPT ![t] = hot[t] \cup Typed(pending[t], {"nft"})]
      /\ UNCHANGED <<chain, programs, contracts, assets, pending, isNft, cache, staged, faults>>
  BY DEF Promote
<1>2. staged = <<>>
  BY <1>1 DEF PassTruth, PassFollows, Resting
<1>3. pass' \in Passes /\ pass'.pc = to
  BY <1>1, TypingParts, PassesTyped DEF ReclassifySteps
<1>4. hot' \in [Tables -> SUBSET Events]
  <2>1. hot[t] \subseteq Events /\ Typed(pending[t], {"nft"}) \subseteq Events
    BY TypingParts, TypedIsPart DEF StoreTyped
  <2> QED
    BY <1>1, <2>1, TypingParts DEF StoreTyped
<1>5. Typing'
  BY <1>1, <1>3, <1>4, TypingParts, PassStepTyped DEF chain, StoreTyped
<1>6. PassFollows'
  BY <1>1, <1>2, <1>3 DEF PassFollows
<1>7. RebuiltTypes' /\ Settles'
  BY <1>3 DEF RebuiltTypes, Settles
<1> QED
  BY <1>5, <1>6, <1>7 DEF PassTruth

\* The rows that a drop leaves are not of the types it drops.
LEMMA DroppedAreGone ==
    ASSUME NEW rows, NEW types
    PROVE  Typed(rows \ Typed(rows, types), types) = {}
  BY DEF Typed

\* What no row of the drop's types is left of: the two pending tables in
\* their order, then the two hot ones.
DropSteps ==
    {<<"nfts", "dropNfts", "dropChanges">>, <<"changes", "dropChanges", "legacyNfts">>}
LegacySteps ==
    {<<"nfts", "legacyNfts", "legacyChanges">>, <<"changes", "legacyChanges", "reclassified">>}

LEMMA DropStep ==
    ASSUME Typing, PassTruth, NEW t, NEW from, NEW to, <<t, from, to>> \in DropSteps,
           DropPending(t, from, to)
    PROVE  Typing' /\ PassTruth'
<1>1. /\ pass.pc = from /\ pass' = [pass EXCEPT !.pc = to]
      /\ pending' = [pending EXCEPT ![t] = pending[t] \ Typed(pending[t], Definitive)]
      /\ UNCHANGED <<chain, programs, contracts, assets, hot, isNft, cache, staged, faults>>
  BY DEF DropPending
<1>2. \/ t = "nfts" /\ from = "dropNfts" /\ to = "dropChanges"
      \/ t = "changes" /\ from = "dropChanges" /\ to = "legacyNfts"
  BY DEF DropSteps
<1>3. t \in Tables /\ pending \in [Tables -> SUBSET Events]
  BY <1>2, TypingParts DEF Tables, StoreTyped
<1>4. staged = <<>>
  BY <1>1, <1>2 DEF PassTruth, PassFollows, Resting
<1>5. pass' \in Passes /\ pass'.pc = to
  BY <1>1, <1>2, TypingParts, PassesTyped DEF ReclassifySteps
<1>6. /\ pending' \in [Tables -> SUBSET Events]
      /\ pending'[t] = pending[t] \ Typed(pending[t], Definitive)
      /\ \A u \in Tables \ {t} : pending'[u] = pending[u]
  BY <1>1, <1>3
<1>7. Typed(pending'[t], Definitive) = {}
  BY <1>6, DroppedAreGone
<1>8. Typing'
  BY <1>1, <1>5, <1>6, TypingParts, PassStepTyped DEF chain, StoreTyped
<1>9. Typed(pending["nfts"], Definitive)' = {}
  <2>1. CASE t = "nfts"
    BY <1>1, <1>7, <2>1 DEF Typed, Definitive
  <2>2. CASE t = "changes"
    <3>1. Typed(pending["nfts"], Definitive) = {}
      BY <1>1, <1>2, <2>2 DEF PassTruth, PassFollows
    <3>2. pending'["nfts"] = pending["nfts"]
      BY <1>6, <2>2 DEF Tables
    <3> QED
      BY <1>1, <3>1, <3>2 DEF Typed, Definitive
  <2> QED
    BY <1>2, <2>1, <2>2
<1>10. t = "changes" => Typed(pending["changes"], Definitive)' = {}
  BY <1>1, <1>7 DEF Typed, Definitive
<1>11. PassFollows'
  BY <1>1, <1>2, <1>4, <1>5, <1>9, <1>10 DEF PassFollows
<1>12. RebuiltTypes' /\ Settles'
  BY <1>2, <1>5 DEF RebuiltTypes, Settles
<1> QED
  BY <1>8, <1>11, <1>12 DEF PassTruth

LEMMA LegacyStep ==
    ASSUME Typing, PassTruth, NEW t, NEW from, NEW to, <<t, from, to>> \in LegacySteps,
           DropLegacy(t, from, to)
    PROVE  Typing' /\ PassTruth'
<1> DEFINE kinds == {"token", "fungible"}
<1>1. /\ pass.pc = from /\ pass' = [pass EXCEPT !.pc = to]
      /\ hot' = [hot EXCEPT ![t] = hot[t] \ Typed(hot[t], kinds)]
      /\ UNCHANGED <<chain, programs, contracts, assets, pending, isNft, cache, staged, faults>>
  BY DEF DropLegacy
<1>2. \/ t = "nfts" /\ from = "legacyNfts" /\ to = "legacyChanges"
      \/ t = "changes" /\ from = "legacyChanges" /\ to = "reclassified"
  BY DEF LegacySteps
<1>3. t \in Tables /\ hot \in [Tables -> SUBSET Events]
  BY <1>2, TypingParts DEF Tables, StoreTyped
<1>4. staged = <<>>
  BY <1>1, <1>2 DEF PassTruth, PassFollows, Resting
<1>5. pass' \in Passes /\ pass'.pc = to
  BY <1>1, <1>2, TypingParts, PassesTyped DEF ReclassifySteps, Resting
<1>6. /\ hot' \in [Tables -> SUBSET Events]
      /\ hot'[t] = hot[t] \ Typed(hot[t], kinds)
      /\ \A u \in Tables \ {t} : hot'[u] = hot[u]
  BY <1>1, <1>3
<1>7. Typed(hot'[t], kinds) = {}
  BY <1>6, DroppedAreGone
<1>8. Typing'
  BY <1>1, <1>5, <1>6, TypingParts, PassStepTyped DEF chain, StoreTyped
<1>9. /\ Typed(pending["nfts"], Definitive)' = {}
      /\ Typed(pending["changes"], Definitive)' = {}
  <2>1. /\ Typed(pending["nfts"], Definitive) = {}
        /\ Typed(pending["changes"], Definitive) = {}
    BY <1>1, <1>2 DEF PassTruth, PassFollows
  <2> QED
    BY <1>1, <2>1 DEF Typed, Definitive
<1>10. Typed(hot["nfts"], kinds)' = {}
  <2>1. CASE t = "nfts"
    BY <1>1, <1>7, <2>1 DEF Typed
  <2>2. CASE t = "changes"
    <3>1. Typed(hot["nfts"], kinds) = {}
      BY <1>1, <1>2, <2>2 DEF PassTruth, PassFollows
    <3>2. hot'["nfts"] = hot["nfts"]
      BY <1>6, <2>2 DEF Tables
    <3> QED
      BY <1>1, <3>1, <3>2 DEF Typed
  <2> QED
    BY <1>2, <2>1, <2>2
<1>11. t = "changes" => Typed(hot["changes"], kinds)' = {}
  BY <1>1, <1>7 DEF Typed
<1>12. PassFollows'
  BY <1>1, <1>2, <1>4, <1>5, <1>9, <1>10 DEF PassFollows, Resting
<1>13. RebuiltTypes'
  BY <1>2, <1>5 DEF RebuiltTypes
<1>14. Settles'
  BY <1>2, <1>5, <1>9, <1>10, <1>11 DEF Settles, Tables
<1> QED
  BY <1>8, <1>12, <1>13, <1>14 DEF PassTruth

\* Every step, by its action.
StageSome ==
    \/ \E kind \in LedgerKinds, g1, g9 \in BOOLEAN :
         \E x \in LedgerContents(kind) : StageLive(x, g1, g9)
    \/ \E kind \in LedgerKinds : \E x \in LedgerContents(kind) : StageRun(x)
PassSome ==
    \/ \E p \in {"rebuild", "reclassify"} : Begin(p)
    \/ RebuildVerdicts \/ RebuildStaging \/ RebuildExchange \/ RebuildAssets
    \/ Reclassify \/ PassFails

LEMMA NextIs ==
    [RoutingNext]_routingVars <=> StageSome \/ Commit \/ PassSome \/ (Recycle \/ UNCHANGED routingVars)
  BY DEF RoutingNext, StageSome, PassSome

LEMMA ReclassifyStep ==
    ASSUME Typing, PassTruth, Reclassify
    PROVE  Typing' /\ PassTruth'
<1>1. CASE Promote("nfts", "promoteNfts", "promoteChanges")
  BY <1>1, PromoteStep DEF Tables
<1>2. CASE Promote("changes", "promoteChanges", "dropNfts")
  BY <1>2, PromoteStep DEF Tables
<1>3. CASE DropPending("nfts", "dropNfts", "dropChanges")
  BY <1>3, DropStep DEF DropSteps
<1>4. CASE DropPending("changes", "dropChanges", "legacyNfts")
  BY <1>4, DropStep DEF DropSteps
<1>5. CASE DropLegacy("nfts", "legacyNfts", "legacyChanges")
  BY <1>5, LegacyStep DEF LegacySteps
<1>6. CASE DropLegacy("changes", "legacyChanges", "reclassified")
  BY <1>6, LegacyStep DEF LegacySteps
<1> QED
  BY <1>1, <1>2, <1>3, <1>4, <1>5, <1>6 DEF Reclassify

LEMMA PassSomeStep ==
    ASSUME RoutingAssumption, LiveDuring = {}, Typing, PassTruth, PassSome
    PROVE  Typing' /\ PassTruth'
  BY BeginStep, VerdictsStep, StagingStep, ExchangeStep, AssetsStep, ReclassifyStep, FailStep DEF PassSome

\* A staged ledger, whoever stages it.
LEMMA SomeStages ==
    ASSUME RoutingAssumption, Typing, StageSome
    PROVE  \E s, by, x, prior, verdict, rows : Stages(s, by, x, prior, verdict, rows)
<1>1. CASE \E kind \in LedgerKinds, g1, g9 \in BOOLEAN :
             \E x \in LedgerContents(kind) : StageLive(x, g1, g9)
  <2>1. PICK kind \in LedgerKinds, g1 \in BOOLEAN, g9 \in BOOLEAN :
               \E x \in LedgerContents(kind) : StageLive(x, g1, g9)
    BY <1>1
  <2>2. PICK x \in LedgerContents(kind) : StageLive(x, g1, g9)
    BY <2>1
  <2> QED
    BY <2>2, LiveStages
<1>2. CASE \E kind \in LedgerKinds : \E x \in LedgerContents(kind) : StageRun(x)
  <2>1. PICK kind \in LedgerKinds : \E x \in LedgerContents(kind) : StageRun(x)
    BY <1>2
  <2>2. PICK x \in LedgerContents(kind) : StageRun(x)
    BY <2>1
  <2> QED
    BY <2>2, RunStages
<1> QED
  BY <1>1, <1>2 DEF StageSome

LEMMA PassInvIs == /\ PassInv <=> Typing /\ PassTruth
                   /\ PassInv' <=> Typing' /\ PassTruth'
  BY DEF PassInv, PassTruth

LEMMA InitPasses ==
    ASSUME RoutingAssumption, RoutingInit
    PROVE  PassInv
<1>1. pass.pc = "idle"
  BY DEF RoutingInit, Idle
<1>2. PassFollows
  BY <1>1 DEF PassFollows, Resting
<1>3. RebuiltTypes /\ Settles
  BY <1>1 DEF RebuiltTypes, Settles
<1> QED
  BY <1>2, <1>3, InitIsTyped DEF PassInv

LEMMA PassInvNext ==
    ASSUME RoutingAssumption, LiveDuring = {}, PassInv, [RoutingNext]_routingVars
    PROVE  PassInv'
<1>1. Typing /\ PassTruth
  BY PassInvIs
<1>2. CASE StageSome
  <2>1. PICK s, by, x, prior, verdict, rows : Stages(s, by, x, prior, verdict, rows)
    BY <1>1, <1>2, SomeStages
  <2> QED
    BY <1>1, <2>1, StagesTyped, StagesPass, PassInvIs
<1>3. CASE Commit
  BY <1>1, <1>3, CommitTyped, CommitPass, PassInvIs
<1>4. CASE PassSome
  BY <1>1, <1>4, PassSomeStep, PassInvIs
<1>5. CASE Recycle \/ UNCHANGED routingVars
  BY <1>1, <1>5, RecycleTyped, RecyclePass, PassInvIs
<1> QED
  BY <1>2, <1>3, <1>4, <1>5, NextIs

(***************************************************************************)
(* The types, and what each step of a pass leaves to the next, hold of     *)
(* every run of writers and passes, the passes alone in the database       *)
(* (contract_type_rebuild.rs, nft_reclassify.rs, persist.rs).              *)
(***************************************************************************)
THEOREM PassInvariant ==
    ASSUME RoutingAssumption, LiveDuring = {}
    PROVE  RoutingSpec => []PassInv
<1>1. RoutingInit => PassInv
  BY InitPasses
<1>2. PassInv /\ [RoutingNext]_routingVars => PassInv'
  BY PassInvNext
<1> QED
  BY <1>1, <1>2, PTL DEF RoutingSpec

(***************************************************************************)
(* Whatever the ledgers were, upgrades included, and however often a pass  *)
(* failed before: nft-reclassify leaves no row of a decided contract in    *)
(* quarantine and none of a token in the hot tables, and a rebuild leaves  *)
(* every contract the type its stored program decides, and an asset.       *)
(***************************************************************************)
THEOREM PassesSettle ==
    ASSUME RoutingAssumption, LiveDuring = {}
    PROVE  RoutingSpec => [](Settles /\ RebuiltTypes)
<1>1. PassInv => Settles /\ RebuiltTypes
  BY DEF PassInv
<1> QED
  BY <1>1, PassInvariant, PTL

LEMMA KeptStep ==
    ASSUME RoutingAssumption, LiveDuring = {}, PassInv, [RoutingNext]_routingVars
    PROVE  KeepsContracts
<1>1. Typing /\ PassTruth
  BY PassInvIs
<1>2. CASE contracts' = contracts
  BY <1>2 DEF KeepsContracts
<1>3. CASE Commit
  <2>1. StagedTyped /\ StoreTyped
    BY <1>1, TypingParts
  <2>2. contracts' = [c \in Contracts |-> RowAfter(c)]
    BY <1>3 DEF Commit
  <2> QED
    BY <2>1, <2>2, RowAfterIsTyped DEF KeepsContracts
<1>4. CASE RebuildExchange
  <2>1. /\ contracts' = pass.staging
        /\ pass.staging \in [Contracts -> ContractRows]
        /\ \A c \in Contracts : RebuiltFrom(pass.staging[c], contracts[c])
    BY <1>1, <1>4 DEF PassTruth, PassFollows, RebuildExchange
  <2>2. contracts \in [Contracts -> ContractRows]
    BY <1>1, TypingParts DEF StoreTyped
  <2>3. ASSUME NEW c \in Contracts, pass.staging[c] = NoRow
        PROVE  contracts[c] = NoRow
    <3>1. RebuiltFrom(NoRow, contracts[c]) /\ contracts[c] \in ContractRows
      BY <2>1, <2>2, <2>3
    <3>2. contracts[c].hash = None /\ contracts[c].type = None
      BY <3>1, NoneIsNoCode DEF RebuiltFrom, NoRow
    <3> QED
      BY <3>1, <3>2 DEF ContractRows, NoRow
  <2> QED
    BY <2>1, <2>3 DEF KeepsContracts
<1>5. [RoutingNext]_routingVars => Commit \/ RebuildExchange \/ contracts' = contracts
  BY DEF RoutingNext, routingVars, store, StageLive, StageRun, Closes, Recycle, Begin, RebuildVerdicts,
         RebuildStaging, RebuildAssets, Reclassify, Promote, DropPending, DropLegacy, PassFails
<1> QED
  BY <1>2, <1>3, <1>4, <1>5

(***************************************************************************)
(* Neither a commit nor EXCHANGE TABLES loses a contract                   *)
(* (ch_staging.rs, finalize).                                              *)
(***************************************************************************)
THEOREM ContractsAreKept ==
    ASSUME RoutingAssumption, LiveDuring = {}
    PROVE  RoutingSpec => [][KeepsContracts]_routingVars
<1>1. PassInv /\ [RoutingNext]_routingVars => [KeepsContracts]_routingVars
  BY KeptStep
<1> QED
  BY <1>1, PassInvariant, PTL DEF RoutingSpec

-----------------------------------------------------------------------------
(* What a row says of its contract, while no contract is upgraded.         *)

LEMMA VerdictIs ==
    ASSUME NEW p \in Codes
    PROVE  /\ Verdict(p) = "nft" <=> p = "nft"
           /\ Verdict(p) \in {"token", "fungible"} => p # "nft"
           /\ p # "sac" => Verdict(p) = p
           /\ Verdict(p) \in Definitive \cup {"other"}
  BY DEF Verdict, Codes, Programs, Definitive

\* A row whose type decides is one of a contract with that code.
LEMMA DecidedIsCode ==
    ASSUME ContractsTrue, NEW c \in Contracts, contracts[c].type \in Definitive
    PROVE  code[c] # None /\ contracts[c].type = Verdict(code[c])
<1>1. contracts[c] # NoRow
  BY NoneIsNoCode DEF NoRow
<1> QED
  BY <1>1 DEF ContractsTrue, TrueOf

\* A contract keeps the code it was deployed with.
CodeStays == \A c \in Contracts : code[c] # None => code'[c] = code[c]

LEMMA CodeStaysIs ==
    ASSUME NEW x, Contents(x), DOMAIN x.upgrade = {}, code' = CodeAfter(x)
    PROVE  /\ CodeStays
           /\ \A c \in DOMAIN x.deploy : c \in Contracts /\ code[c] = None /\ code'[c] = x.deploy[c]
  BY DEF Contents, CodeAfter, CodeStays

\* What the verdicts a writer routes by are worth.
VerdictsTrue(verdict) ==
    \A c \in Contracts : verdict[c] # None => verdict[c] \in Definitive /\ verdict[c] = contracts[c].type

\* What staging routes an event by.
Given(x, prior, verdict, d) ==
    IF d \in DOMAIN x.deploy THEN DeployedType(x.deploy[d], x, prior) ELSE verdict[d]

LEMMA GivenIsTrue ==
    ASSUME Typing, ContractsTrue, NEW x, NEW prior, NEW verdict, VerdictsTrue(verdict),
           Contents(x), DOMAIN x.upgrade = {}, code' = CodeAfter(x), NEW d \in x.emit
    PROVE  /\ d \in Contracts /\ code'[d] \in Codes
           /\ Given(x, prior, verdict, d) \in Definitive =>
                Given(x, prior, verdict, d) = Verdict(code'[d])
<1>1. code \in [Contracts -> Codes \cup {None}]
  BY TypingParts DEF ChainTyped
<1>2. CASE d \in DOMAIN x.deploy
  <2>1. code'[d] = x.deploy[d] /\ x.deploy[d] \in Codes /\ d \in Contracts
    BY <1>2, CodeStaysIs DEF Contents
  <2>2. Given(x, prior, verdict, d) = DeployedType(x.deploy[d], x, prior)
    BY <1>2 DEF Given
  <2> QED
    BY <2>1, <2>2, DeployedTypeIs
<1>3. CASE d \notin DOMAIN x.deploy
  <2>1. d \in Contracts /\ code[d] # None
    BY <1>3 DEF Contents
  <2>2. code'[d] = code[d] /\ code[d] \in Codes
    BY <1>1, <2>1, CodeStaysIs DEF CodeStays
  <2>3. Given(x, prior, verdict, d) = verdict[d]
    BY <1>3 DEF Given
  <2>4. verdict[d] \in Definitive => verdict[d] = Verdict(code[d])
    BY <2>1, DecidedIsCode, NoneIsNoCode DEF VerdictsTrue
  <2> QED
    BY <2>1, <2>2, <2>3, <2>4
<1> QED
  BY <1>2, <1>3

\* StagedTrue after the step.
StagedTrueNow(s) ==
    /\ \A c \in DOMAIN s.contracts :
         /\ contracts'[c] = NoRow /\ code'[c] # None
         /\ s.contracts[c].hash = code'[c]
         /\ s.contracts[c].type \in Definitive => s.contracts[c].type = Verdict(code'[c])
    /\ s.hot \subseteq s.nft /\ s.nft \subseteq s.hot \cup s.pending
    /\ \A r \in s.pending : code'[r[1]] # None /\ (code'[r[1]] = "nft" => r \in s.nft)
    /\ \A r \in s.nft : code'[r[1]] = "nft"

LEMMA RouteForIs ==
    ASSUME NEW v
    PROVE  /\ RouteFor(v) = "hot" <=> v = "nft"
           /\ RouteFor(v) = "pending" <=> v \notin Definitive
  BY DEF RouteFor, Definitive

LEMMA StagedIsTrue ==
    ASSUME Typing, ContractsTrue, NEW s, NEW by, NEW x, NEW prior, NEW verdict, NEW rows,
           Stages(s, by, x, prior, verdict, rows), VerdictsTrue(verdict), DOMAIN x.upgrade = {}
    PROVE  StagedTrueNow(s)
<1>1. Contents(x) /\ StagedAs(s, by, x, prior, verdict, rows) /\ code' = CodeAfter(x) /\ contracts' = contracts
  BY DEF Stages, Closes, store
<1>2. ASSUME NEW c \in DOMAIN s.contracts
      PROVE  /\ contracts'[c] = NoRow /\ code'[c] # None
             /\ s.contracts[c].hash = code'[c]
             /\ s.contracts[c].type \in Definitive => s.contracts[c].type = Verdict(code'[c])
  <2>1. c \in DOMAIN x.deploy
    BY <1>1 DEF StagedAs, Upgraded
  <2>2. c \in Contracts /\ code[c] = None /\ code'[c] = x.deploy[c] /\ x.deploy[c] \in Codes
    BY <1>1, <2>1, CodeStaysIs DEF Contents
  <2>3. s.contracts[c] = [type |-> DeployedType(x.deploy[c], x, prior), hash |-> x.deploy[c]]
    BY <1>1, <2>1 DEF StagedAs
  <2>4. contracts[c] = NoRow
    BY <2>2 DEF ContractsTrue
  <2> QED
    BY <1>1, <2>2, <2>3, <2>4, DeployedTypeIs, NoneIsNoCode
<1> DEFINE v(d) == Given(x, prior, verdict, d)
<1>3. ASSUME NEW d \in x.emit
      PROVE  /\ d \in Contracts /\ code'[d] \in Codes /\ CodeAfter(x)[d] = code'[d]
             /\ v(d) \in Definitive => v(d) = Verdict(code'[d])
  BY <1>1, GivenIsTrue
<1>4. \A d : Route(x, prior, verdict, d) = RouteFor(v(d))
  BY DEF Route, Given
<1> HIDE DEF v
<1> DEFINE row(d) == <<d, height + 1>>
<1>5. /\ s.hot = {row(d) : d \in {e \in x.emit : v(e) = "nft"}}
      /\ s.pending = {row(d) : d \in {e \in x.emit : v(e) \notin Definitive}}
      /\ s.nft = {row(d) : d \in {e \in x.emit : code'[e] = "nft"}}
  <2>1. s.hot = EventsOn(x, prior, verdict, "hot") /\ s.pending = EventsOn(x, prior, verdict, "pending")
    BY <1>1 DEF StagedAs
  <2>2. s.nft = {<<d, height + 1>> : d \in {e \in x.emit : CodeAfter(x)[e] = "nft"}}
    BY <1>1 DEF StagedAs
  <2>3. s.nft = {row(d) : d \in {e \in x.emit : code'[e] = "nft"}}
    BY <2>2, <1>3
  <2>4. s.hot = {row(d) : d \in {e \in x.emit : v(e) = "nft"}}
    BY <2>1, <1>4, RouteForIs DEF EventsOn
  <2>5. s.pending = {row(d) : d \in {e \in x.emit : v(e) \notin Definitive}}
    BY <2>1, <1>4, RouteForIs DEF EventsOn
  <2> QED
    BY <2>3, <2>4, <2>5
<1>6. \A d : row(d)[1] = d
  OBVIOUS
<1> HIDE DEF row
<1>7. ASSUME NEW d \in x.emit
      PROVE  /\ v(d) = "nft" => code'[d] = "nft"
             /\ code'[d] = "nft" => v(d) = "nft" \/ v(d) \notin Definitive
             /\ code'[d] # None
  <2>1. v(d) \in Definitive => v(d) = Verdict(code'[d])
    BY <1>3
  <2>2. code'[d] \in Codes
    BY <1>3
  <2>3. Verdict(code'[d]) = "nft" <=> code'[d] = "nft"
    BY <2>2, VerdictIs
  <2> QED
    BY <2>1, <2>2, <2>3, NoneIsNoCode
<1>8. s.hot \subseteq s.nft /\ s.nft \subseteq s.hot \cup s.pending
  BY <1>5, <1>7
<1>9. \A r \in s.pending : code'[r[1]] # None /\ (code'[r[1]] = "nft" => r \in s.nft)
  BY <1>5, <1>6, <1>7
<1>10. \A r \in s.nft : code'[r[1]] = "nft"
  BY <1>5, <1>6
<1> QED
  BY <1>2, <1>8, <1>9, <1>10 DEF StagedTrueNow

AllStagedTrue == \A i \in DOMAIN staged : StagedTrue(staged[i])
RoutingTruth == ContractsTrue /\ EventsTrue /\ PromotedFirst /\ AllStagedTrue

LEMMA RoutingInvIs == /\ RoutingInv <=> PassInv /\ RoutingTruth
                      /\ RoutingInv' <=> PassInv' /\ RoutingTruth'
  BY DEF RoutingInv, RoutingTruth, AllStagedTrue

LEMMA AllStagedTrueNext ==
    ASSUME \A i \in DOMAIN staged' : StagedTrueNow(staged'[i])
    PROVE  AllStagedTrue'
  BY DEF AllStagedTrue, StagedTrue, StagedTrueNow, TrueOf

\* A row's contract is one, and its code is known when its type decides.
LEMMA RowsAreOfContracts ==
    ASSUME NEW r \in Events
    PROVE  r[1] \in Contracts
  BY DEF Events

\* What was true of a staged ledger stays so when another closes.
LEMMA StagedStaysTrue ==
    ASSUME CodeStays, contracts' = contracts, code \in [Contracts -> Codes \cup {None}],
           NEW s \in StagedLedgers, StagedTrue(s)
    PROVE  StagedTrueNow(s)
<1>1. /\ DOMAIN s.contracts \subseteq Contracts
      /\ s.pending \subseteq Events /\ s.nft \subseteq Events
  BY StagedFields
<1>2. \A r \in s.pending \cup s.nft : r[1] \in Contracts
  BY <1>1, RowsAreOfContracts
<1>3. \A r \in s.pending : code[r[1]] # None /\ code'[r[1]] = code[r[1]]
  BY <1>2 DEF StagedTrue, CodeStays
<1>4. \A r \in s.nft : code'[r[1]] = code[r[1]]
  BY <1>2, NoneIsNoCode DEF StagedTrue, CodeStays, None
<1>5. \A c \in DOMAIN s.contracts : code[c] # None /\ code'[c] = code[c]
  BY <1>1 DEF StagedTrue, CodeStays
<1> QED
  BY <1>3, <1>4, <1>5 DEF StagedTrue, StagedTrueNow, TrueOf

LEMMA StagesRouting ==
    ASSUME Typing, RoutingTruth, NEW s, NEW by, NEW x, NEW prior, NEW verdict, NEW rows,
           Stages(s, by, x, prior, verdict, rows), s \in StagedLedgers,
           VerdictsTrue(verdict), DOMAIN x.upgrade = {},
           \A c \in Contracts : cache'[c] # None => cache'[c] = contracts[c].type
    PROVE  RoutingTruth'
<1>1. /\ ContractsTrue /\ EventsTrue /\ PromotedFirst /\ AllStagedTrue
      /\ ChainTyped /\ StoreTyped /\ StagedTyped
  BY TypingParts DEF RoutingTruth
<1>2. /\ UNCHANGED <<programs, contracts, assets, hot, pending, isNft, pass>> /\ code' = CodeAfter(x)
      /\ Contents(x) /\ staged' = Append(staged, s)
  BY DEF Stages, Closes, store
<1>3. CodeStays
  BY <1>2, CodeStaysIs
<1>4. ContractsTrue'
  BY <1>1, <1>2, <1>3 DEF ContractsTrue, TrueOf, CacheAgrees, CodeStays
<1>5. EventsTrue'
  <2>1. NoNftLost' /\ NoFalseNft'
    BY <1>1, <1>2 DEF EventsTrue, NoNftLost, NoFalseNft
  <2>2. ASSUME NEW r \in isNft PROVE code'[r[1]] = "nft"
    <3>1. r[1] \in Contracts /\ code[r[1]] = "nft"
      BY <1>1, RowsAreOfContracts DEF EventsTrue, StoreTyped
    <3> QED
      BY <1>3, <3>1 DEF CodeStays, None
  <2>3. ASSUME NEW t \in Tables, NEW r \in pending[t]
        PROVE  code'[r[1]] # None /\ (code'[r[1]] = "nft" => r \in isNft)
    <3>1. r \in Events
      BY <1>1 DEF StoreTyped
    <3>2. r[1] \in Contracts /\ code[r[1]] # None /\ (code[r[1]] = "nft" => r \in isNft)
      BY <1>1, <3>1, RowsAreOfContracts DEF EventsTrue
    <3> QED
      BY <1>3, <3>2 DEF CodeStays
  <2> QED
    BY <1>2, <2>1, <2>2, <2>3 DEF EventsTrue
<1>6. PromotedFirst'
  BY <1>1, <1>2 DEF PromotedFirst, Typed
<1>7. AllStagedTrue'
  <2>1. staged \in Seq(StagedLedgers) /\ code \in [Contracts -> Codes \cup {None}]
    BY <1>1 DEF StagedTyped, ChainTyped
  <2>2. ASSUME NEW i \in DOMAIN staged'
        PROVE  (i \in DOMAIN staged /\ staged'[i] = staged[i]) \/ staged'[i] = s
    BY <1>2, <2>1
  <2>3. ASSUME NEW i \in DOMAIN staged PROVE StagedTrueNow(staged[i])
    <3>1. StagedTrue(staged[i]) /\ staged[i] \in StagedLedgers
      BY <1>1, <2>1 DEF AllStagedTrue
    <3> QED
      BY <1>2, <1>3, <2>1, <3>1, StagedStaysTrue
  <2>4. StagedTrueNow(s)
    BY <1>1, StagedIsTrue
  <2>5. \A i \in DOMAIN staged' : StagedTrueNow(staged'[i])
    BY <2>2, <2>3, <2>4
  <2> QED
    BY <2>5, AllStagedTrueNext
<1> QED
  BY <1>4, <1>5, <1>6, <1>7 DEF RoutingTruth

\* Both writers' verdicts are true: the indexer's are its cache's, which the
\* store has just been asked for, and `run` has none.
LEMMA CacheAfterIs ==
    ASSUME Typing, ContractsTrue, NEW x, NEW failed, cache' = CacheAfter(x, failed)
    PROVE  VerdictsTrue(cache')
<1>1. cache \in [Contracts -> Definitive \cup {None}] /\ CacheAgrees
  BY TypingParts DEF CacheTyped, ContractsTrue
<1> QED
  BY <1>1 DEF CacheAfter, VerdictsTrue, CacheAgrees

LEMMA StageSomeRouting ==
    ASSUME RoutingAssumption, "upgrade" \notin LedgerKinds, Typing, RoutingTruth, StageSome
    PROVE  RoutingTruth'
<1>1. ContractsTrue /\ ChainTyped /\ CacheTyped
  BY TypingParts DEF RoutingTruth
<1>2. ASSUME NEW kind \in LedgerKinds, NEW x \in LedgerContents(kind)
      PROVE  DOMAIN x.upgrade = {}
  BY <1>1, LedgerIsSound DEF RoutingAssumption, ChainTyped
<1>3. CASE \E kind \in LedgerKinds, g1, g9 \in BOOLEAN :
             \E x \in LedgerContents(kind) : StageLive(x, g1, g9)
  <2>1. PICK kind \in LedgerKinds, g1 \in BOOLEAN, g9 \in BOOLEAN :
               \E x \in LedgerContents(kind) : StageLive(x, g1, g9)
    BY <1>3
  <2>2. PICK x \in LedgerContents(kind) : StageLive(x, g1, g9)
    BY <2>1
  <2>3. PICK s : /\ Stages(s, "live", x, PriorWasmVerdicts(g1), cache', contracts)
                 /\ cache' = CacheAfter(x, g9)
    BY <2>2, LiveStages
  <2>4. s \in StagedLedgers
    BY <2>3, StagesTyped
  <2>5. VerdictsTrue(cache')
    BY <1>1, <2>3, CacheAfterIs
  <2> QED
    BY <1>2, <2>3, <2>4, <2>5, StagesRouting DEF VerdictsTrue
<1>4. CASE \E kind \in LedgerKinds : \E x \in LedgerContents(kind) : StageRun(x)
  <2>1. PICK kind \in LedgerKinds : \E x \in LedgerContents(kind) : StageRun(x)
    BY <1>4
  <2>2. PICK x \in LedgerContents(kind) : StageRun(x)
    BY <2>1
  <2>3. PICK s : Stages(s, "run", x, {}, NoVerdicts, NoRows) /\ cache' = cache
    BY <2>2, RunStages
  <2>4. s \in StagedLedgers
    BY <2>3, StagesTyped
  <2>5. VerdictsTrue(NoVerdicts) /\ \A c \in Contracts : cache'[c] # None => cache'[c] = contracts[c].type
    BY <1>1, <2>3 DEF VerdictsTrue, NoVerdicts, ContractsTrue, CacheAgrees
  <2> QED
    BY <1>2, <2>3, <2>4, <2>5, StagesRouting
<1> QED
  BY <1>3, <1>4 DEF StageSome

\* The events of a batch of true ledgers.
LEMMA BatchIsTrue ==
    ASSUME StagedTyped, AllStagedTrue
    PROVE  LET H == UNION {s.hot : s \in Batch}
               P == UNION {s.pending : s \in Batch}
               N == UNION {s.nft : s \in Batch}
           IN  /\ H \subseteq N /\ N \subseteq H \cup P
               /\ \A r \in P : code[r[1]] # None /\ (code[r[1]] = "nft" => r \in N)
               /\ \A r \in N : code[r[1]] = "nft"
<1>1. ASSUME NEW s \in Batch
      PROVE  /\ s.hot \subseteq s.nft /\ s.nft \subseteq s.hot \cup s.pending
             /\ \A r \in s.pending : code[r[1]] # None /\ (code[r[1]] = "nft" => r \in s.nft)
             /\ \A r \in s.nft : code[r[1]] = "nft"
  BY BatchIs DEF AllStagedTrue, StagedTrue
<1> QED
  BY <1>1

LEMMA CommitRouting ==
    ASSUME LiveDuring = {}, Typing, RoutingTruth, Commit
    PROVE  RoutingTruth'
<1> DEFINE H == UNION {s.hot : s \in Batch}
           P == UNION {s.pending : s \in Batch}
           N == UNION {s.nft : s \in Batch}
<1>1. /\ ContractsTrue /\ EventsTrue /\ AllStagedTrue
      /\ StoreTyped /\ StagedTyped /\ CacheTyped /\ pass \in Passes
  BY TypingParts DEF RoutingTruth
<1>2. /\ contracts' = [c \in Contracts |-> RowAfter(c)] /\ staged' = <<>>
      /\ hot' = Added(hot, H) /\ pending' = Added(pending, P) /\ isNft' = isNft \cup N
      /\ code' = code /\ cache' = cache /\ pass' = [pass EXCEPT !.quiet = FALSE]
  BY DEF Commit, chain
<1>3. ASSUME NEW c \in Contracts
      PROVE  /\ contracts'[c] # NoRow => code[c] # None /\ TrueOf(c, contracts'[c])
             /\ contracts[c] # NoRow => contracts'[c] = contracts[c]
  <2>1. contracts'[c] = RowAfter(c)
    BY <1>2
  <2>2. CASE RowAfter(c) = contracts[c]
    BY <1>1, <2>1, <2>2 DEF ContractsTrue
  <2>3. CASE \E i \in DOMAIN staged : /\ c \in DOMAIN staged[i].contracts
                                      /\ RowAfter(c) = staged[i].contracts[c]
    BY <1>1, <2>1, <2>3 DEF AllStagedTrue, StagedTrue
  <2> QED
    BY <1>1, <2>2, <2>3, RowAfterIs
<1>4. ContractsTrue'
  <2>1. ASSUME NEW c \in Contracts, cache[c] # None PROVE cache[c] = contracts'[c].type
    <3>1. cache[c] = contracts[c].type /\ cache[c] \in Definitive
      BY <1>1, <2>1 DEF ContractsTrue, CacheAgrees, CacheTyped
    <3>2. contracts[c] # NoRow
      BY <3>1, NoneIsNoCode DEF NoRow
    <3> QED
      BY <1>3, <3>1, <3>2
  <2> QED
    BY <1>2, <1>3, <2>1 DEF ContractsTrue, TrueOf, CacheAgrees
<1>5. EventsTrue'
  <2>1. /\ H \subseteq N /\ N \subseteq H \cup P
        /\ \A r \in P : code[r[1]] # None /\ (code[r[1]] = "nft" => r \in N)
        /\ \A r \in N : code[r[1]] = "nft"
    BY <1>1, BatchIsTrue
  <2>2. H \in SUBSET Events /\ P \in SUBSET Events
    BY <1>1, BatchRows
  <2> HIDE DEF H, P, N
  <2>3. \A t \in Tables : hot'[t] = hot[t] \cup H /\ pending'[t] = pending[t] \cup P
    BY <1>1, <1>2, <2>2, AddedIs DEF StoreTyped
  <2>4. NoNftLost' /\ NoFalseNft'
    BY <1>1, <1>2, <2>1, <2>3 DEF EventsTrue, NoNftLost, NoFalseNft
  <2>5. \A r \in isNft' : code'[r[1]] = "nft"
    BY <1>1, <1>2, <2>1 DEF EventsTrue
  <2>6. \A t \in Tables : \A r \in pending'[t] :
          code'[r[1]] # None /\ (code'[r[1]] = "nft" => r \in isNft')
    BY <1>1, <1>2, <2>1, <2>3 DEF EventsTrue
  <2> QED
    BY <2>4, <2>5, <2>6 DEF EventsTrue
<1>6. PromotedFirst'
  <2>1. pass.pc \in Resting
    BY DEF Commit, WritersRun, Resting
  <2>2. pass'.pc = pass.pc
    BY <1>1, <1>2 DEF Passes
  <2> QED
    BY <2>1, <2>2 DEF PromotedFirst, Resting
<1>7. AllStagedTrue'
  BY <1>2 DEF AllStagedTrue
<1> QED
  BY <1>4, <1>5, <1>6, <1>7 DEF RoutingTruth

LEMMA RecycleRouting ==
    ASSUME RoutingTruth, Recycle \/ UNCHANGED routingVars
    PROVE  RoutingTruth'
<1>1. UNCHANGED <<code, contracts, hot, pending, isNft, staged, pass>> /\ (cache' = cache \/ cache' = NoVerdicts)
  BY DEF Recycle, routingVars, chain, store, NoVerdicts
<1>2. ContractsTrue'
  BY <1>1 DEF RoutingTruth, ContractsTrue, TrueOf, CacheAgrees, NoVerdicts
<1>3. EventsTrue'
  BY <1>1 DEF RoutingTruth, EventsTrue, NoNftLost, NoFalseNft
<1>4. PromotedFirst'
  BY <1>1 DEF RoutingTruth, PromotedFirst, Typed
<1>5. AllStagedTrue'
  BY <1>1 DEF RoutingTruth, AllStagedTrue, StagedTrue, TrueOf
<1> QED
  BY <1>2, <1>3, <1>4, <1>5 DEF RoutingTruth

-----------------------------------------------------------------------------
(* The steps of a pass, with nothing staged.                               *)

\* A step that changes neither a contract nor an event, nor reclassifies.
LEMMA PlainPassStep ==
    ASSUME RoutingTruth, UNCHANGED <<code, contracts, hot, pending, isNft, cache, staged>>,
           pass'.pc \notin {"promoteChanges", "dropNfts", "dropChanges"}
    PROVE  RoutingTruth'
<1>1. ContractsTrue'
  BY DEF RoutingTruth, ContractsTrue, TrueOf, CacheAgrees
<1>2. EventsTrue'
  BY DEF RoutingTruth, EventsTrue, NoNftLost, NoFalseNft
<1>3. PromotedFirst'
  BY DEF PromotedFirst
<1>4. AllStagedTrue'
  BY DEF RoutingTruth, AllStagedTrue, StagedTrue, TrueOf
<1> QED
  BY <1>1, <1>2, <1>3, <1>4 DEF RoutingTruth

LEMMA PlainPasses ==
    ASSUME Typing, RoutingTruth,
           \/ \E p \in {"rebuild", "reclassify"} : Begin(p)
           \/ RebuildVerdicts \/ RebuildStaging \/ RebuildAssets \/ PassFails
    PROVE  RoutingTruth'
<1>1. UNCHANGED <<code, contracts, hot, pending, isNft, cache, staged>>
  BY DEF Begin, RebuildVerdicts, RebuildStaging, RebuildAssets, PassFails, chain, store
<1>2. pass \in Passes
  BY TypingParts
<1>3. pass'.pc \in {"verdicts", "promoteNfts", "build", "exchange", "rebuilt", "idle"}
  <2>1. CASE \E p \in {"rebuild", "reclassify"} : Begin(p)
    BY <2>1 DEF Begin, Idle
  <2>2. CASE RebuildVerdicts
    BY <1>2, <2>2 DEF RebuildVerdicts, Passes
  <2>3. CASE RebuildStaging
    BY <1>2, <2>3 DEF RebuildStaging, Passes
  <2>4. CASE RebuildAssets
    BY <2>4 DEF RebuildAssets, Idle
  <2>5. CASE PassFails
    BY <2>5 DEF PassFails, Idle
  <2> QED
    BY <2>1, <2>2, <2>3, <2>4, <2>5
<1> QED
  BY <1>1, <1>3, PlainPassStep

\* The staging table says of a contract what the table it replaces said, or
\* the verdict of its program.
LEMMA ExchangeRouting ==
    ASSUME Typing, PassTruth, RoutingTruth, RebuildExchange
    PROVE  RoutingTruth'
<1>1. /\ pass.pc = "exchange" /\ contracts' = pass.staging /\ pass' = [pass EXCEPT !.pc = "assets"]
      /\ UNCHANGED <<code, hot, pending, isNft, cache, staged>>
  BY DEF RebuildExchange, chain
<1>2. /\ staged = <<>> /\ pass.staging \in [Contracts -> ContractRows]
      /\ \A c \in Contracts : RebuiltFrom(pass.staging[c], contracts[c])
  BY <1>1 DEF PassTruth, PassFollows, Resting
<1>3. /\ ContractsTrue /\ EventsTrue /\ CacheTyped /\ pass \in Passes
      /\ contracts \in [Contracts -> ContractRows] /\ code \in [Contracts -> Codes \cup {None}]
  BY TypingParts DEF RoutingTruth, StoreTyped, ChainTyped
<1>4. ASSUME NEW c \in Contracts
      PROVE  /\ contracts'[c] # NoRow => code[c] # None /\ TrueOf(c, contracts'[c])
             /\ contracts[c].type \in Definitive => contracts'[c].type = contracts[c].type
  <2> DEFINE new == pass.staging[c]
             old == contracts[c]
  <2>1. RebuiltFrom(new, old) /\ new \in ContractRows /\ old \in ContractRows /\ contracts'[c] = new
    BY <1>1, <1>2, <1>3
  <2>2. old = NoRow => new = NoRow
    BY <2>1, NoneIsNoCode DEF RebuiltFrom, NoRow, ContractRows
  <2>3. CASE old = NoRow
    BY <2>1, <2>2, <2>3, NoneIsNoCode DEF NoRow
  <2>4. CASE old # NoRow
    <3>1. code[c] \in Codes /\ TrueOf(c, old)
      BY <1>3, <2>4 DEF ContractsTrue
    <3>2. new.type # old.type => new.type = Verdict(code[c])
      <4>1. "sac" \notin Definitive
        BY DEF Definitive
      <4> QED
        BY <2>1, <3>1, <4>1, VerdictIs DEF RebuiltFrom, TrueOf
    <3>3. old.type \in Definitive => old.type = Verdict(code[c])
      BY <3>1 DEF TrueOf
    <3>4. new.hash = code[c]
      BY <2>1, <3>1 DEF RebuiltFrom, TrueOf
    <3> HIDE DEF new, old
    <3>5. code[c] # None
      BY <3>1, NoneIsNoCode
    <3>6. TrueOf(c, new)
      BY <3>2, <3>3, <3>4 DEF TrueOf
    <3>7. old.type \in Definitive => new.type = old.type
      BY <3>2, <3>3
    <3> QED
      BY <2>1, <3>5, <3>6, <3>7 DEF old
  <2> QED
    BY <2>3, <2>4
<1>5. ContractsTrue'
  <2>1. ASSUME NEW c \in Contracts, cache[c] # None PROVE cache[c] = contracts'[c].type
    BY <1>3, <1>4, <2>1 DEF ContractsTrue, CacheAgrees, CacheTyped
  <2> QED
    BY <1>1, <1>4, <2>1 DEF ContractsTrue, TrueOf, CacheAgrees
<1>6. EventsTrue'
  BY <1>1, <1>3 DEF EventsTrue, NoNftLost, NoFalseNft
<1>7. PromotedFirst'
  BY <1>1, <1>3 DEF PromotedFirst, Passes
<1>8. AllStagedTrue'
  BY <1>1, <1>2 DEF AllStagedTrue
<1> QED
  BY <1>5, <1>6, <1>7, <1>8 DEF RoutingTruth

LEMMA PromoteRouting ==
    ASSUME Typing, PassTruth, RoutingTruth, NEW t, NEW from, NEW to,
           <<t, from, to>> \in {<<"nfts", "promoteNfts", "promoteChanges">>,
                                <<"changes", "promoteChanges", "dropNfts">>},
           Promote(t, from, to)
    PROVE  RoutingTruth'
<1>1. /\ pass.pc = from /\ pass' = [pass EXCEPT !.pc = to]
      /\ hot' = [hot EXCEPT ![t] = hot[t] \cup Typed(pending[t], {"nft"})]
      /\ UNCHANGED <<code, contracts, pending, isNft, cache, staged>>
  BY DEF Promote, chain
<1>2. \/ t = "nfts" /\ from = "promoteNfts" /\ to = "promoteChanges"
      \/ t = "changes" /\ from = "promoteChanges" /\ to = "dropNfts"
  OBVIOUS
<1>3. /\ ContractsTrue /\ EventsTrue /\ PromotedFirst /\ AllStagedTrue /\ StoreTyped
      /\ pass \in Passes /\ code \in [Contracts -> Codes \cup {None}]
  BY TypingParts DEF RoutingTruth, ChainTyped
<1>4. t \in Tables
  BY <1>2 DEF Tables
<1>5. ASSUME NEW r \in Typed(pending[t], {"nft"}) PROVE r \in isNft
  <2>1. r \in pending[t] /\ contracts[r[1]].type = "nft" /\ r[1] \in Contracts
    BY <1>3, <1>4, RowsAreOfContracts DEF Typed, StoreTyped
  <2>2. code[r[1]] \in Codes /\ "nft" = Verdict(code[r[1]])
    BY <1>3, <2>1, DecidedIsCode, NoneIsNoCode
  <2>3. code[r[1]] = "nft"
    BY <2>2, VerdictIs
  <2> QED
    BY <1>3, <1>4, <2>1, <2>3 DEF EventsTrue
<1>6. /\ hot'[t] = hot[t] \cup Typed(pending[t], {"nft"})
      /\ \A u \in Tables \ {t} : hot'[u] = hot[u]
  BY <1>1, <1>3, <1>4 DEF StoreTyped
<1>7. ContractsTrue' /\ AllStagedTrue'
  BY <1>1, <1>3 DEF ContractsTrue, TrueOf, CacheAgrees, AllStagedTrue, StagedTrue
<1>8. EventsTrue'
  <2>1. \A u \in Tables : hot[u] \subseteq hot'[u] /\ hot'[u] \subseteq isNft
    BY <1>3, <1>5, <1>6 DEF EventsTrue, NoFalseNft
  <2> QED
    BY <1>1, <1>3, <2>1 DEF EventsTrue, NoNftLost, NoFalseNft
<1>9. PromotedFirst'
  <2>1. pass'.pc = to
    BY <1>1, <1>3 DEF Passes
  <2>2. Typed(pending[t], {"nft"}) \subseteq hot'[t]
    BY <1>6
  <2>3. Typed(pending["nfts"], {"nft"}) \subseteq hot'["nfts"]
    <3>1. CASE t = "nfts"
      BY <2>2, <3>1
    <3>2. CASE t = "changes"
      BY <1>1, <1>2, <1>3, <1>6, <3>2 DEF PromotedFirst, Tables
    <3> QED
      BY <1>2, <3>1, <3>2
  <2> QED
    BY <1>1, <1>2, <2>1, <2>2, <2>3 DEF PromotedFirst, Typed
<1> QED
  BY <1>7, <1>8, <1>9 DEF RoutingTruth

\* What a drop takes from a pending table is in the hot one, or no NFT's.
LEMMA DropRouting ==
    ASSUME Typing, PassTruth, RoutingTruth, NEW t, NEW from, NEW to, <<t, from, to>> \in DropSteps,
           DropPending(t, from, to)
    PROVE  RoutingTruth'
<1>1. /\ pass.pc = from /\ pass' = [pass EXCEPT !.pc = to]
      /\ pending' = [pending EXCEPT ![t] = pending[t] \ Typed(pending[t], Definitive)]
      /\ UNCHANGED <<code, contracts, hot, isNft, cache, staged>>
  BY DEF DropPending, chain
<1>2. \/ t = "nfts" /\ from = "dropNfts" /\ to = "dropChanges"
      \/ t = "changes" /\ from = "dropChanges" /\ to = "legacyNfts"
  BY DEF DropSteps
<1>3. /\ ContractsTrue /\ EventsTrue /\ PromotedFirst /\ AllStagedTrue /\ StoreTyped
      /\ pass \in Passes /\ code \in [Contracts -> Codes \cup {None}]
  BY TypingParts DEF RoutingTruth, ChainTyped
<1>4. t \in Tables
  BY <1>2 DEF Tables
<1>5. Typed(pending[t], {"nft"}) \subseteq hot[t]
  BY <1>1, <1>2, <1>3 DEF PromotedFirst
<1>6. /\ pending'[t] = pending[t] \ Typed(pending[t], Definitive)
      /\ \A u \in Tables \ {t} : pending'[u] = pending[u]
  BY <1>1, <1>3, <1>4 DEF StoreTyped
<1>7. ASSUME NEW r \in isNft, r \in Typed(pending[t], Definitive) PROVE r \in hot[t]
  <2>1. r \in pending[t] /\ contracts[r[1]].type \in Definitive /\ r[1] \in Contracts
    BY <1>3, <1>4, <1>7, RowsAreOfContracts DEF Typed, StoreTyped
  <2>2. contracts[r[1]].type = Verdict(code[r[1]]) /\ code[r[1]] = "nft"
    BY <1>3, <2>1, DecidedIsCode DEF EventsTrue
  <2>3. contracts[r[1]].type = "nft"
    BY <2>2, VerdictIs, NoneIsNoCode DEF Verdict
  <2> QED
    BY <1>5, <2>1, <2>3 DEF Typed
<1>8. ContractsTrue' /\ AllStagedTrue'
  BY <1>1, <1>3 DEF ContractsTrue, TrueOf, CacheAgrees, AllStagedTrue, StagedTrue
<1>9. EventsTrue'
  <2>1. \A u \in Tables : pending'[u] \subseteq pending[u]
    BY <1>6
  <2>2. \A u \in Tables : isNft \subseteq hot[u] \cup pending'[u]
    BY <1>3, <1>6, <1>7 DEF EventsTrue, NoNftLost
  <2> QED
    BY <1>1, <1>3, <2>1, <2>2 DEF EventsTrue, NoNftLost, NoFalseNft
<1>10. PromotedFirst'
  <2>1. pass'.pc = to
    BY <1>1, <1>3 DEF Passes
  <2>2. CASE t = "nfts"
    <3>1. pending'["changes"] = pending["changes"]
      BY <1>6, <2>2 DEF Tables
    <3>2. Typed(pending["changes"], {"nft"}) \subseteq hot["changes"]
      BY <1>1, <1>2, <1>3, <2>2 DEF PromotedFirst
    <3> QED
      BY <1>1, <1>2, <2>1, <2>2, <3>1, <3>2 DEF PromotedFirst, Typed
  <2>3. CASE t = "changes"
    BY <1>2, <2>1, <2>3 DEF PromotedFirst
  <2> QED
    BY <1>2, <2>2, <2>3
<1> QED
  BY <1>8, <1>9, <1>10 DEF RoutingTruth

LEMMA LegacyRouting ==
    ASSUME Typing, PassTruth, RoutingTruth, NEW t, NEW from, NEW to, <<t, from, to>> \in LegacySteps,
           DropLegacy(t, from, to)
    PROVE  RoutingTruth'
<1> DEFINE kinds == {"token", "fungible"}
<1>1. /\ pass' = [pass EXCEPT !.pc = to]
      /\ hot' = [hot EXCEPT ![t] = hot[t] \ Typed(hot[t], kinds)]
      /\ UNCHANGED <<code, contracts, pending, isNft, cache, staged>>
  BY DEF DropLegacy, chain
<1>2. \/ t = "nfts" /\ to = "legacyChanges"
      \/ t = "changes" /\ to = "reclassified"
  BY DEF LegacySteps
<1>3. /\ ContractsTrue /\ EventsTrue /\ AllStagedTrue /\ StoreTyped
      /\ pass \in Passes /\ code \in [Contracts -> Codes \cup {None}]
  BY TypingParts DEF RoutingTruth, ChainTyped
<1>4. t \in Tables
  BY <1>2 DEF Tables
<1>5. /\ hot'[t] = hot[t] \ Typed(hot[t], kinds)
      /\ \A u \in Tables \ {t} : hot'[u] = hot[u]
  BY <1>1, <1>3, <1>4 DEF StoreTyped
<1>6. ASSUME NEW r \in isNft PROVE r \notin Typed(hot[t], kinds)
  <2>1. r[1] \in Contracts /\ code[r[1]] = "nft"
    BY <1>3, RowsAreOfContracts DEF EventsTrue, StoreTyped
  <2>2. contracts[r[1]].type \in Definitive => contracts[r[1]].type = "nft"
    BY <1>3, <2>1, DecidedIsCode, VerdictIs, NoneIsNoCode DEF Verdict
  <2> QED
    BY <2>2 DEF Typed, Definitive
<1>7. ContractsTrue' /\ AllStagedTrue'
  BY <1>1, <1>3 DEF ContractsTrue, TrueOf, CacheAgrees, AllStagedTrue, StagedTrue
<1>8. EventsTrue'
  <2>1. \A u \in Tables : hot'[u] \subseteq hot[u] /\ isNft \cap hot[u] \subseteq hot'[u]
    BY <1>5, <1>6
  <2> QED
    BY <1>1, <1>3, <2>1 DEF EventsTrue, NoNftLost, NoFalseNft
<1>9. PromotedFirst'
  BY <1>1, <1>2, <1>3 DEF PromotedFirst, Passes
<1> QED
  BY <1>7, <1>8, <1>9 DEF RoutingTruth

LEMMA PassSomeRouting ==
    ASSUME Typing, PassTruth, RoutingTruth, PassSome
    PROVE  RoutingTruth'
<1>1. CASE Reclassify
  BY <1>1, PromoteRouting, DropRouting, LegacyRouting DEF Reclassify, DropSteps, LegacySteps
<1>2. CASE RebuildExchange
  BY <1>2, ExchangeRouting
<1> QED
  BY <1>1, <1>2, PlainPasses DEF PassSome

LEMMA InitRouting ==
    ASSUME RoutingInit
    PROVE  RoutingTruth
<1>1. ContractsTrue
  BY DEF RoutingInit, ContractsTrue, CacheAgrees
<1>2. EventsTrue
  BY DEF RoutingInit, EventsTrue, NoNftLost, NoFalseNft
<1>3. PromotedFirst
  BY DEF RoutingInit, PromotedFirst, Idle
<1>4. AllStagedTrue
  BY DEF RoutingInit, AllStagedTrue
<1> QED
  BY <1>1, <1>2, <1>3, <1>4 DEF RoutingTruth

(***************************************************************************)
(* While no contract is upgraded, what the store, the cache and the open   *)
(* writers say of a contract is the verdict of its code or nothing, and    *)
(* the rows of its events lie accordingly, whatever lookups and passes     *)
(* failed (persist.rs, stage/nfts.rs, nft_reclassify.rs).                  *)
(***************************************************************************)
THEOREM RoutingInvariant ==
    ASSUME RoutingAssumption, LiveDuring = {}, "upgrade" \notin LedgerKinds
    PROVE  RoutingSpec => []RoutingInv
<1>1. RoutingInit => RoutingInv
  BY InitPasses, InitRouting, RoutingInvIs
<1>2. ASSUME RoutingInv, [RoutingNext]_routingVars PROVE RoutingInv'
  <2>1. PassInv /\ RoutingTruth /\ Typing /\ PassTruth
    BY <1>2, RoutingInvIs, PassInvIs
  <2>2. PassInv'
    BY <1>2, <2>1, PassInvNext
  <2>3. RoutingTruth'
    <3>1. CASE StageSome
      BY <2>1, <3>1, StageSomeRouting
    <3>2. CASE Commit
      BY <2>1, <3>2, CommitRouting
    <3>3. CASE PassSome
      BY <2>1, <3>3, PassSomeRouting
    <3>4. CASE Recycle \/ UNCHANGED routingVars
      BY <2>1, <3>4, RecycleRouting
    <3> QED
      BY <1>2, <3>1, <3>2, <3>3, <3>4, NextIs
  <2> QED
    BY <2>2, <2>3, RoutingInvIs
<1>3. RoutingInv /\ [RoutingNext]_routingVars => RoutingInv'
  BY <1>2
<1> QED
  BY <1>1, <1>3, PTL DEF RoutingSpec

(***************************************************************************)
(* The lookups fail open and nothing is lost by it: a committed event of   *)
(* an NFT contract is in the hot table or waits in quarantine, and no      *)
(* other contract's event is taken for an NFT's (persist.rs:232-235).      *)
(***************************************************************************)
THEOREM NoEventIsLost ==
    ASSUME RoutingAssumption, LiveDuring = {}, "upgrade" \notin LedgerKinds
    PROVE  RoutingSpec => [](NoNftLost /\ NoFalseNft)
<1>1. RoutingInv => NoNftLost /\ NoFalseNft
  BY DEF RoutingInv, EventsTrue
<1> QED
  BY <1>1, RoutingInvariant, PTL

(***************************************************************************)
(* A verdict a warm container holds is the stored one, also after          *)
(* contract-type-rebuild rewrote the table (classification_cache.rs:27).   *)
(***************************************************************************)
THEOREM WarmCacheAgrees ==
    ASSUME RoutingAssumption, LiveDuring = {}, "upgrade" \notin LedgerKinds
    PROVE  RoutingSpec => []CacheAgrees
<1>1. RoutingInv => CacheAgrees
  BY DEF RoutingInv, ContractsTrue
<1> QED
  BY <1>1, RoutingInvariant, PTL

-----------------------------------------------------------------------------
(* The indexer alone, with upgrades: the store has every contract's code.  *)

CodeTruth == Len(staged) <= 1 /\ \A c \in Contracts : RowAfter(c).hash = code[c]

LEMMA NothingStaged ==
    ASSUME NEW c
    PROVE  /\ staged = <<>> => RowAfter(c) = contracts[c]
           /\ staged' = <<>> => RowAfter(c)' = contracts'[c]
  BY DEF RowAfter

LEMMA OneStaged ==
    ASSUME NEW c, NEW s \in StagedLedgers, staged' = <<s>>
    PROVE  /\ c \in DOMAIN s.contracts => RowAfter(c)' = s.contracts[c]
           /\ c \notin DOMAIN s.contracts => RowAfter(c)' = contracts'[c]
<1> DEFINE having == {i \in DOMAIN staged' : c \in DOMAIN staged'[i].contracts}
<1> DEFINE last == CHOOSE i \in having : \A j \in having : j <= i
<1>1. RowAfter(c)' = IF having = {} THEN contracts'[c] ELSE staged'[last].contracts[c]
  BY DEF RowAfter
<1>2. DOMAIN staged' = {1} /\ staged'[1] = s
  <2>1. DOMAIN <<s>> = {1} /\ <<s>>[1] = s
    OBVIOUS
  <2> QED
    BY <2>1
<1>3. c \in DOMAIN s.contracts => having = {1}
  BY <1>2
<1>4. c \notin DOMAIN s.contracts => having = {}
  BY <1>2
<1>5. having = {1} => last = 1
  <2> HIDE DEF having
  <2>1. 1 <= 1
    OBVIOUS
  <2>2. having = {1} => \E i \in having : \A j \in having : j <= i
    BY <2>1
  <2> QED
    BY <2>2
<1> HIDE DEF having, last
<1> QED
  BY <1>1, <1>2, <1>3, <1>4, <1>5

LEMMA LiveCode ==
    ASSUME RoutingAssumption, Typing, CodeTruth, NEW s, NEW x, NEW prior, NEW verdict,
           Stages(s, "live", x, prior, verdict, contracts), staged = <<>>
    PROVE  CodeTruth'
<1>1. /\ s \in StagedLedgers /\ Contents(x) /\ StagedAs(s, "live", x, prior, verdict, contracts)
      /\ staged' = <<s>> /\ code' = CodeAfter(x) /\ contracts' = contracts
  <2>1. s \in StagedLedgers
    BY StagesTyped
  <2>2. staged' = Append(<<>>, s)
    BY DEF Stages
  <2>3. Append(<<>>, s) = <<s>>
    OBVIOUS
  <2> QED
    BY <2>1, <2>2, <2>3 DEF Stages, Closes, store
<1>2. Len(staged') <= 1
  BY <1>1
<1>3. contracts \in [Contracts -> ContractRows] /\ code \in [Contracts -> Codes \cup {None}]
  BY TypingParts DEF StoreTyped, ChainTyped
<1>4. ASSUME NEW c \in Contracts PROVE RowAfter(c)'.hash = code'[c]
  <2>1. contracts[c].hash = code[c]
    BY NothingStaged DEF CodeTruth
  <2>2. CASE c \in DOMAIN x.deploy
    <3>1. s.contracts[c].hash = x.deploy[c] /\ c \in DOMAIN s.contracts
      <4>1. /\ s.contracts[c] = [type |-> DeployedType(x.deploy[c], x, prior), hash |-> x.deploy[c]]
            /\ c \in DOMAIN s.contracts
        BY <1>1, <2>2 DEF StagedAs
      <4> QED
        BY <4>1
    <3>2. code'[c] = x.deploy[c]
      BY <1>1, <2>2 DEF CodeAfter, Contents
    <3> QED
      BY <1>1, <3>1, <3>2, OneStaged
  <2>3. CASE c \in DOMAIN x.upgrade
    <3>1. code[c] # None /\ c \notin DOMAIN x.deploy /\ x.upgrade[c] \in Codes
      BY <1>1, <2>3, NoneIsNoCode DEF Contents
    <3>2. c \in Upgraded(x, contracts)
      BY <2>1, <2>3, <3>1 DEF Upgraded, NoRow
    <3>3. c \in DOMAIN s.contracts /\ s.contracts[c] = UpgradeRow(contracts[c], x.upgrade[c])
      BY <1>1, <3>1, <3>2 DEF StagedAs
    <3>4. s.contracts[c].hash = x.upgrade[c]
      BY <1>3, <3>1, <3>3, UpgradeRowParts
    <3>5. code'[c] = x.upgrade[c]
      BY <1>1, <2>3 DEF CodeAfter
    <3> QED
      BY <1>1, <3>3, <3>4, <3>5, OneStaged
  <2>4. CASE c \notin DOMAIN x.deploy /\ c \notin DOMAIN x.upgrade
    <3>1. c \notin DOMAIN s.contracts
      BY <1>1, <2>4 DEF StagedAs, Upgraded
    <3>2. code'[c] = code[c]
      BY <1>1, <2>4 DEF CodeAfter
    <3> QED
      BY <1>1, <2>1, <3>1, <3>2, OneStaged
  <2> QED
    BY <2>2, <2>3, <2>4
<1> QED
  BY <1>2, <1>4 DEF CodeTruth

\* With nothing staged, a step that keeps each row's program keeps the truth.
LEMMA KeptCode ==
    ASSUME CodeTruth, staged = <<>>, staged' = <<>>, code' = code,
           \A c \in Contracts : contracts'[c].hash = contracts[c].hash
    PROVE  CodeTruth'
  BY NothingStaged DEF CodeTruth

LEMMA PassCode ==
    ASSUME LiveDuring = {}, Typing, PassTruth, CodeTruth, PassSome
    PROVE  CodeTruth'
<1>1. staged = <<>>
  <2>1. CASE \E p \in {"rebuild", "reclassify"} : Begin(p)
    BY <2>1 DEF Begin
  <2>2. CASE pass.pc \notin Resting
    BY <2>2 DEF PassTruth, PassFollows
  <2>3. PassSome => (\E p \in {"rebuild", "reclassify"} : Begin(p)) \/ pass.pc \notin Resting
    BY DEF PassSome, RebuildVerdicts, RebuildStaging, RebuildExchange, RebuildAssets, Reclassify,
           Promote, DropPending, DropLegacy, PassFails, Resting
  <2> QED
    BY <2>1, <2>2, <2>3
<1>2. staged' = staged /\ code' = code /\ (contracts' = contracts \/ RebuildExchange)
  BY DEF PassSome, Begin, RebuildVerdicts, RebuildStaging, RebuildExchange, RebuildAssets, Reclassify,
         Promote, DropPending, DropLegacy, PassFails, chain, store
<1>3. \A c \in Contracts : contracts'[c].hash = contracts[c].hash
  <2>1. CASE RebuildExchange
    BY <2>1 DEF PassTruth, PassFollows, RebuildExchange, RebuiltFrom
  <2> QED
    BY <1>2, <2>1
<1> QED
  BY <1>1, <1>2, <1>3, KeptCode

(***************************************************************************)
(* The live indexer stores what a contract runs, through upgrades, failed  *)
(* lookups and rebuilds: the lookup of the row an upgrade changes fails    *)
(* closed (persist.rs, fetch_prior_contract_rows).                         *)
(***************************************************************************)
THEOREM CodeInvariant ==
    ASSUME RoutingAssumption, LiveDuring = {}, Writers \subseteq {"live"}
    PROVE  RoutingSpec => []CodeInv
<1>1. CodeInv <=> PassInv /\ CodeTruth
  BY DEF CodeInv, CodeTruth
<1>2. RoutingInit => CodeTruth
  BY NothingStaged DEF RoutingInit, CodeTruth, NoRow
<1>3. ASSUME PassInv, CodeTruth, [RoutingNext]_routingVars PROVE CodeTruth'
  <2>1. Typing /\ PassTruth
    BY <1>3, PassInvIs
  <2>2. CASE StageSome
    <3>1. PICK kind \in LedgerKinds, g1 \in BOOLEAN, g9 \in BOOLEAN :
                 \E x \in LedgerContents(kind) : StageLive(x, g1, g9)
      BY <2>2 DEF StageSome, StageRun
    <3>2. PICK x \in LedgerContents(kind) : StageLive(x, g1, g9)
      BY <3>1
    <3>3. PICK s : /\ Stages(s, "live", x, PriorWasmVerdicts(g1), cache', contracts)
                   /\ staged = <<>>
      BY <2>1, <3>2, LiveStages
    <3> QED
      BY <1>3, <2>1, <3>3, LiveCode
  <2>3. CASE Commit
    <3>1. /\ contracts' = [c \in Contracts |-> RowAfter(c)]
          /\ staged' = <<>> /\ code' = code
      BY <2>3 DEF Commit, chain
    <3>2. \A c \in Contracts : contracts'[c].hash = code'[c]
      BY <1>3, <3>1 DEF CodeTruth
    <3>3. \A c \in Contracts : RowAfter(c)'.hash = code'[c]
      BY <3>1, <3>2, NothingStaged
    <3>4. Len(staged') <= 1
      BY <3>1
    <3> QED
      BY <3>3, <3>4 DEF CodeTruth
  <2>4. CASE PassSome
    BY <1>3, <2>1, <2>4, PassCode
  <2>5. CASE Recycle \/ UNCHANGED routingVars
    <3>1. UNCHANGED <<code, contracts, staged>>
      BY <2>5 DEF Recycle, routingVars, chain, store
    <3> QED
      BY <1>3, <3>1 DEF CodeTruth, RowAfter
  <2> QED
    BY <1>3, <2>2, <2>3, <2>4, <2>5, NextIs
<1>4. RoutingInit => PassInv
  BY InitPasses
<1>5. PassInv /\ CodeTruth /\ [RoutingNext]_routingVars => PassInv' /\ CodeTruth'
  BY <1>3, PassInvNext
<1> QED
  BY <1>1, <1>2, <1>4, <1>5, PTL DEF RoutingSpec

(***************************************************************************)
(* When nothing is staged, the stored row of every contract names the code *)
(* the contract runs (persist.rs, fetch_prior_contract_rows).              *)
(***************************************************************************)
THEOREM CodeIsStored ==
    ASSUME RoutingAssumption, LiveDuring = {}, Writers \subseteq {"live"}
    PROVE  RoutingSpec => []StoresCode
<1>1. CodeInv => StoresCode
  BY NothingStaged DEF CodeInv, StoresCode
<1> QED
  BY <1>1, CodeInvariant, PTL

(***************************************************************************)
(* All of it together: after the passes every verdict that is stored is    *)
(* the verdict of the code, and so is what a warm container holds; the     *)
(* code of an upgraded contract is the one it runs.                        *)
(***************************************************************************)
THEOREM VerdictsAreSettled ==
    ASSUME RoutingAssumption, LiveDuring = {}
    PROVE  RoutingSpec => []VerdictsSettle
<1>1. RoutingSpec => [](Settles /\ RebuiltTypes)
  BY PassesSettle
<1>2. RoutingSpec => []("upgrade" \notin LedgerKinds => CacheAgrees)
  <2>1. CASE "upgrade" \notin LedgerKinds
    <3>1. CacheAgrees => ("upgrade" \notin LedgerKinds => CacheAgrees)
      OBVIOUS
    <3> QED
      BY <2>1, <3>1, WarmCacheAgrees, PTL
  <2>2. CASE "upgrade" \in LedgerKinds
    <3>1. "upgrade" \notin LedgerKinds => CacheAgrees
      BY <2>2
    <3> QED
      BY <3>1, PTL
  <2> QED
    BY <2>1, <2>2
<1>3. RoutingSpec => [](Writers \subseteq {"live"} => StoresCode)
  <2>1. CASE Writers \subseteq {"live"}
    <3>1. StoresCode => (Writers \subseteq {"live"} => StoresCode)
      OBVIOUS
    <3> QED
      BY <2>1, <3>1, CodeIsStored, PTL
  <2>2. CASE ~ (Writers \subseteq {"live"})
    <3>1. Writers \subseteq {"live"} => StoresCode
      BY <2>2
    <3> QED
      BY <3>1, PTL
  <2> QED
    BY <2>1, <2>2
<1>4. Settles /\ RebuiltTypes /\ ("upgrade" \notin LedgerKinds => CacheAgrees)
        /\ (Writers \subseteq {"live"} => StoresCode) => VerdictsSettle
  BY DEF VerdictsSettle
<1> QED
  BY <1>1, <1>2, <1>3, <1>4, PTL
=============================================================================
