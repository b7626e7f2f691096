-------------------------------- MODULE MCPools --------------------------------
(***************************************************************************)
(* What a ledger says of its pools and of what moved in it: the registry   *)
(* and the state of soroban pools (PoolRegistry), the legs of their events *)
(* (PoolMovements) and the value of a transaction (ValueFlow).  Each is    *)
(* checked by itself: the initial state chooses one of them, and its       *)
(* instance; `part` names it.                                              *)
(***************************************************************************)
EXTENDS PoolRegistry, TLC

CONSTANTS
    Parts,    \* the parts of this run
    FirstToken

VARIABLES
    part,
    ledger, op, state, created, payouts, deployed, facets, legs, pool_movements, refill, moved,  \* PoolMovements
    events,                                                           \* PoolMovements, ValueFlow
    balance, owner, live, changes, ops, refunded, steps, net, copies  \* ValueFlow

movementsOnly == <<ledger, op, state, created, payouts, deployed, facets, legs, pool_movements, refill, moved>>
flowOnly == <<balance, owner, live, changes, ops, refunded, steps, net, copies>>
poolVars == <<part, events, vars, movementsOnly, flowOnly>>

\* What a part does not use.
Off == <<>>
MovementsOff ==
    /\ ledger = Off /\ op = Off /\ state = Off /\ created = Off /\ payouts = Off /\ deployed = Off
    /\ facets = Off /\ legs = Off /\ pool_movements = Off /\ refill = Off /\ moved = Off
FlowOff ==
    /\ balance = Off /\ owner = Off /\ live = Off /\ changes = Off /\ ops = Off
    /\ refunded = Off /\ steps = Off /\ net = Off /\ copies = Off

-----------------------------------------------------------------------------
(* The registry: a pool of each family and a foreign emitter; the state of *)
(* a router's pool and a pair, and that of a config pool.                  *)

ASSUME PoolRegistryAssumption

Height == Len(chain) + (IF open = <<>> THEN 0 ELSE 1)

\* What a part leaves out of PoolRegistry, and its bounds.
RegistryBounds ==
    /\ part = "claims" =>
         /\ Height <= 2
         /\ \A p \in Deployed : pool[p].reserves <= 0 /\ pool[p].token \in {FirstToken, p}
         /\ \A i \in DOMAIN open : open[i].write # NoWrite => open[i].write.change # "restored"
    /\ part # "claims" =>
         \A i \in DOMAIN open : open[i].claim # NoClaim => open[i].claim.by = Factory
    /\ part = "state" => Height <= 2 /\ Deployed \subseteq Routers \cup Pairs
    /\ part = "config" => Deployed \subseteq Configs

RegistryInit ==
    /\ part \in {"claims", "state", "config"} /\ PoolInit
    /\ events = Off /\ MovementsOff /\ FlowOff

RegistryStep ==
    /\ part \in {"claims", "state", "config"} /\ PoolNext
    /\ UNCHANGED <<part, events, movementsOnly, flowOnly>>
    /\ RegistryBounds'

-----------------------------------------------------------------------------
(* Movements of a router's pool and a pair, with facets and without, and   *)
(* of nothing; of a router's pool in two transactions of a ledger; of a    *)
(* config pool; and of a pair whose SAC is deployed after the pool.        *)

Direct == "router" :> "router" @@ "pair" :> "pair"
DirectTokens == "router" :> <<"usdc", "blnd">> @@ "pair" :> <<"blnd", "usdc">>
Config == "older" :> "field"
ConfigTokens == "older" :> <<"usdc", "blnd">>

Md == INSTANCE PoolMovements WITH
    Pools <- {"router", "pair"}, FamilyOf <- Direct, TokensOf <- DirectTokens, Sacs <- {"usdc"},
    Deployed <- {"usdc"}, WritesBalances <- FALSE, Amounts <- {1}, Fees <- {0}, PartitionOf <- 1,
    MaxLedger <- 2, MaxOps <- 1, MaxEvents <- 2, MaxMoves <- 2

Ma == INSTANCE PoolMovements WITH
    Pools <- {"router"}, FamilyOf <- Direct, TokensOf <- DirectTokens, Sacs <- {"usdc"},
    Deployed <- {"usdc"}, WritesBalances <- FALSE, Amounts <- {1}, Fees <- {0}, PartitionOf <- 1,
    MaxLedger <- 2, MaxOps <- 2, MaxEvents <- 2, MaxMoves <- 2

Mz == INSTANCE PoolMovements WITH
    Pools <- {"router", "pair"}, FamilyOf <- Direct, TokensOf <- DirectTokens, Sacs <- {"usdc"},
    Deployed <- {"usdc"}, WritesBalances <- FALSE, Amounts <- {0, 1}, Fees <- {0}, PartitionOf <- 1,
    MaxLedger <- 2, MaxOps <- 1, MaxEvents <- 1, MaxMoves <- 2

Mc == INSTANCE PoolMovements WITH
    Pools <- {"older"}, FamilyOf <- Config, TokensOf <- ConfigTokens, Sacs <- {"usdc"},
    Deployed <- {"usdc"}, WritesBalances <- TRUE, Amounts <- {1, 2}, Fees <- {1}, PartitionOf <- 1,
    MaxLedger <- 2, MaxOps <- 2, MaxEvents <- 7, MaxMoves <- 2

Ms == INSTANCE PoolMovements WITH
    Pools <- {"router", "pair"}, FamilyOf <- Direct, TokensOf <- DirectTokens, Sacs <- {"usdc"},
    Deployed <- {}, WritesBalances <- TRUE, Amounts <- {1}, Fees <- {0}, PartitionOf <- 2,
    MaxLedger <- 2, MaxOps <- 1, MaxEvents <- 3, MaxMoves <- 2

Ml == INSTANCE PoolMovements WITH
    Pools <- {"pair"}, FamilyOf <- Direct, TokensOf <- DirectTokens, Sacs <- {"usdc"},
    Deployed <- {}, WritesBalances <- TRUE, Amounts <- {1}, Fees <- {0}, PartitionOf <- 1,
    MaxLedger <- 2, MaxOps <- 1, MaxEvents <- 2, MaxMoves <- 3

MovementsInit ==
    /\ \/ part = "direct" /\ Md!MovementsInit
       \/ part = "apart" /\ Ma!MovementsInit
       \/ part = "zero" /\ Mz!MovementsInit
       \/ part = "config_moves" /\ Mc!MovementsInit
       \/ part = "sacs" /\ Ms!MovementsInit
       \/ part = "late_sac" /\ Ml!MovementsInit
    /\ PoolInit /\ FlowOff

MovementsStep ==
    /\ \/ part = "direct" /\ Md!MovementsNext
       \/ part = "apart" /\ Ma!MovementsNext
       \/ part = "zero" /\ Mz!MovementsNext
       \/ part = "config_moves" /\ Mc!MovementsNext
       \/ part = "sacs" /\ Ms!MovementsNext
       \/ part = "late_sac" /\ Ml!MovementsNext
    /\ UNCHANGED <<part, vars, flowOnly>>

-----------------------------------------------------------------------------
(* One transaction: between every kind of holder; with pieces of a token   *)
(* and noise; with numbers a contract writes; and with deposits.           *)

Holding(xlm, crd, tok) == [asset \in {"XLM", "CRD", "TOK"} |->
    CASE asset = "XLM" -> xlm [] asset = "TOK" -> tok [] OTHER -> crd]

\* Accounts and pools hold both classic assets; claims and contracts start empty.
AllKinds == [holder \in {"A", "C", "L", "K"} |-> IF holder \in {"A", "L"} THEN Holding(1, 1, 0) ELSE Holding(0, 0, 0)]
\* Accounts hold the token alone.
TokenHolders == [holder \in {"A", "B"} |-> Holding(1, 0, 1)]
TwoAccounts == [holder \in {"A", "B"} |-> Holding(1, 1, 0)]

Operation(dest, delivers, hops, id, memo, invoke) ==
    [dest |-> dest, delivers |-> delivers, hops |-> hops, id |-> id, memo |-> memo, invoke |-> invoke]

\* Calls and offers: no destination, any asset.
AnyOperation == {Operation("none", "none", {"XLM", "CRD"}, {}, {}, TRUE)}
\* A payment; a path payment through another asset; a call that names a sub-account.
Deposits == {Operation("B", "CRD", {}, {7}, {}, FALSE), Operation("B", "CRD", {"XLM"}, {7}, {9}, FALSE),
             Operation("B", "CRD", {"XLM", "CRD"}, {}, {9}, TRUE)}

Fc == INSTANCE ValueFlow WITH
    Accounts <- {"A"}, Contracts <- {"C"}, Pools <- {"L"}, Claims <- {"K"}, Native <- "XLM", Credits <- {"CRD"},
    Token <- "TOK", Start <- AllKinds, Pieces <- {}, FirstOwner <- <<>>, Registered <- {"XLM", "CRD"},
    Envelopes <- AnyOperation, Steps <- {"Pay", "Remove"}, Amounts <- {1}, Authored <- {}, Width <- 8,
    MaxSteps <- 3, MaxCopies <- 1

Ft == INSTANCE ValueFlow WITH
    Accounts <- {"A", "B"}, Contracts <- {}, Pools <- {}, Claims <- {}, Native <- "XLM", Credits <- {"CRD"},
    Token <- "TOK", Start <- TokenHolders, Pieces <- {1, 2}, FirstOwner <- <<"A", "B">>,
    Registered <- {"XLM", "CRD"}, Envelopes <- AnyOperation,
    Steps <- {"MoveToken", "MovePiece", "Noise", "NextOperation", "Refund"}, Amounts <- {1}, Authored <- {},
    Width <- 8, MaxSteps <- 3, MaxCopies <- 2

Fa == INSTANCE ValueFlow WITH
    Accounts <- {"A", "B"}, Contracts <- {}, Pools <- {}, Claims <- {}, Native <- "XLM", Credits <- {"CRD"},
    Token <- "TOK", Start <- TokenHolders, Pieces <- {}, FirstOwner <- <<>>, Registered <- {"XLM", "CRD"},
    Envelopes <- AnyOperation, Steps <- {"Pay", "Author", "MoveToken"}, Amounts <- {1}, Authored <- {0, 3, 7},
    Width <- 8, MaxSteps <- 3, MaxCopies <- 1

Fd == INSTANCE ValueFlow WITH
    Accounts <- {"A", "B"}, Contracts <- {}, Pools <- {}, Claims <- {}, Native <- "XLM", Credits <- {"CRD"},
    Token <- "TOK", Start <- TwoAccounts, Pieces <- {}, FirstOwner <- <<>>, Registered <- {"XLM", "CRD"},
    Envelopes <- Deposits, Steps <- {"Pay", "NextOperation"}, Amounts <- {1}, Authored <- {}, Width <- 8,
    MaxSteps <- 3, MaxCopies <- 1

FlowInit ==
    /\ \/ part = "classic" /\ Fc!Init
       \/ part = "tokens" /\ Ft!Init
       \/ part = "authored" /\ Fa!Init
       \/ part = "deposits" /\ Fd!Init
    /\ PoolInit /\ MovementsOff

FlowStep ==
    /\ \/ part = "classic" /\ Fc!Next
       \/ part = "tokens" /\ Ft!Next
       \/ part = "authored" /\ Fa!Next
       \/ part = "deposits" /\ Fd!Next
    /\ UNCHANGED <<part, vars, movementsOnly>>

-----------------------------------------------------------------------------

Init == part \in Parts /\ (RegistryInit \/ MovementsInit \/ FlowInit)
Next == RegistryStep \/ MovementsStep \/ FlowStep
Spec == Init /\ [][Next]_poolVars

-----------------------------------------------------------------------------

\* The types; and of the registry, what its proof is by induction on.
PoolsTypeOK ==
    /\ part \in {"claims", "state", "config"} => PoolTypeOK /\ RegistryInv
    /\ part = "sacs" => Ms!MovementsTypeOK
    /\ part = "authored" => Fa!FlowTypeOK

\* Every stored leg is what a pool moved, once, under the token the registry
\* names; an event has both legs or none; and the pass gives all of them
\* back after the table was emptied.
RowsAreMovements ==
    /\ part = "direct" => Md!RowsNameLegs /\ Md!OneRowPerLeg
    /\ part = "apart" => Ma!RowsAreMovements /\ Ma!WholeOrNothing
    /\ part = "zero" => Mz!RowsNameLegs /\ Mz!OneRowPerLeg
    /\ part = "config_moves" => Mc!RowsAreMovements /\ Mc!WholeOrNothing /\ Mc!Rederived
    /\ part = "sacs" => Ms!RowsAreMovements
    /\ part = "late_sac" => Ml!RowsNameLegs

\* A ledger is stored with every movement of a pool, but for withdrawals
\* whose legs cannot be told apart and for a router's pool whose reserves
\* each transaction left as they were; what is stored of a pool adds up to
\* what it moved all the same; and a pool once attributed stays so.
NothingLost ==
    [][/\ part = "direct" => Md!NothingLost
       /\ part = "apart" => Ma!NothingLost
       /\ part = "zero" => Mz!NothingLost
       /\ part = "config_moves" => Mc!NothingLost
       /\ part = "claims" => AttributionIsFinal]_poolVars

\* The value stored for a transaction is what its losers lost or its gainers
\* gained, whichever is more; the cells of an account are what it did to its
\* balances and pieces, whatever else was emitted and however often it was
\* stored; and a sub-account is named only on the transfer that carries out
\* its operation.
NetIsFlow ==
    /\ part = "classic" => Fc!NetIsFlow /\ Fc!CellsAreGains
    /\ part = "tokens" => Ft!CellsAreGains /\ Ft!PiecesAddUp
    /\ part = "authored" => Fa!NetIsFlow
    /\ part = "deposits" => Fd!OnlyDepositNamed

=============================================================================
