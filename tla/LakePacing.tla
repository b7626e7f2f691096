----------------------------- MODULE LakePacing -----------------------------
(***************************************************************************)
(* The indexer of an environment that reads SDF's public data lake rings   *)
(* its own doorbell (crates/indexer/src/handler/lake_pacing.rs): a wake    *)
(* that stored ledgers queues one delayed message naming the ledger it     *)
(* expects next, a wake whose expected file is late queues the same        *)
(* message again, and a keepalive rings once a minute.                     *)
(*                                                                         *)
(* One wake runs at a time (reserved concurrency 1).  Of reconcile only    *)
(* what it returns is kept: the ledgers it stored and the newest one; how  *)
(* it stores them is LedgerProcessor.  Delays are abstracted: a message    *)
(* is delivered at some later time, in any order.                          *)
(***************************************************************************)
EXTENDS Integers, FiniteSets

CONSTANTS
    FirstClosed,   \* FIRST_CLOSED_LEDGER, where an empty database starts
    Last,          \* the modelled window ends here
    MaxKeepalives, \* bound: keepalives waiting in the queue
    MaxFaults      \* bound: errors, crashes and duplicate deliveries

ASSUME LakePacingAssumption ==
    /\ FirstClosed \in Nat \ {0} /\ Last \in Nat /\ FirstClosed <= Last
    /\ MaxKeepalives \in Nat \ {0} /\ MaxFaults \in Nat

VARIABLES
    lake,       \* ledgers whose file is in the lake
    newest,     \* max(sequence) of `ledgers`, 0 while it is empty
    chain,      \* chain[e]: queued chain messages {expect: e}
    keepalives, \* queued keepalives
    wake,       \* the running invocation
    faults      \* faults so far

\* History, for the properties: since `newest` last moved, the chain messages
\* that were copied and the chains that were lost.
VARIABLES copies, losses

pacingVars == <<lake, newest, chain, keepalives, wake, faults, copies, losses>>
history == <<copies, losses>>

-----------------------------------------------------------------------------
Window == FirstClosed..Last
Expects == FirstClosed..(Last + 1)

Keepalive == 0      \* the expect field of a wake that is no chain message

Asleep == [pc |-> "idle", expect |-> Keepalive, stored |-> FALSE]

WakeType == [pc : {"idle", "reconcile", "send", "ack"},
             expect : Expects \cup {Keepalive}, stored : BOOLEAN]

\* Mutant of FirstLedgerToRead: an empty database has no case of its own.
LedgerAfterNewest == newest + 1

\* first_ledger_to_read on the public lake.
FirstLedgerToRead == IF newest > 0 THEN newest + 1 ELSE FirstClosed

\* The values `newest` can have after storing part of the contiguous run.
Reachable == {newest} \cup {l \in Window : FirstLedgerToRead <= l
                                           /\ FirstLedgerToRead..l \subseteq lake}

\* The values of an Ok: the whole run, or a part of it cut by the deadline.
OkReachable == {n \in Reachable : n > newest \/ Reachable = {newest}}

PacingInit ==
    /\ lake = {}
    /\ newest \in {0} \cup Window
    /\ chain = [e \in Expects |-> 0]
    /\ keepalives = 0
    /\ wake = Asleep
    /\ faults = 0 /\ copies = 0 /\ losses = 1

Fault == faults < MaxFaults /\ faults' = faults + 1

Add(e) == [chain EXCEPT ![e] = @ + 1]

-----------------------------------------------------------------------------
(* The lake, the keepalive schedule and the queue.                         *)

LedgerLands(l) ==
    /\ l \notin lake
    /\ lake' = lake \cup {l}
    /\ UNCHANGED <<newest, chain, keepalives, wake, faults, history>>

KeepaliveRings ==
    /\ keepalives < MaxKeepalives
    /\ keepalives' = keepalives + 1
    /\ UNCHANGED <<lake, newest, chain, wake, faults, history>>

ReceiveKeepalive ==
    /\ wake.pc = "idle" /\ keepalives > 0
    /\ keepalives' = keepalives - 1
    /\ wake' = [Asleep EXCEPT !.pc = "reconcile"]
    /\ UNCHANGED <<lake, newest, chain, faults, history>>

ReceiveChain(e) ==
    /\ wake.pc = "idle" /\ chain[e] > 0
    /\ chain' = [chain EXCEPT ![e] = @ - 1]
    /\ wake' = [Asleep EXCEPT !.pc = "reconcile", !.expect = e]
    /\ UNCHANGED <<lake, newest, keepalives, faults, history>>

\* SQS delivers a message twice.
Duplicate(e) ==
    /\ chain[e] > 0
    /\ Fault
    /\ chain' = Add(e)
    /\ copies' = copies + 1
    /\ UNCHANGED <<lake, newest, keepalives, wake, losses>>

-----------------------------------------------------------------------------
(* paced().                                                                *)

\* `newest` moved to n: every older message is behind it.
Moved(n) == n > newest

\* reconcile returned Ok.
Reconcile(n) ==
    /\ wake.pc = "reconcile"
    /\ n \in OkReachable
    /\ newest' = n
    /\ wake' = [wake EXCEPT !.pc = "send", !.stored = Moved(n)]
    /\ copies' = IF Moved(n) THEN 0 ELSE copies
    /\ losses' = IF Moved(n) THEN 0 ELSE losses
    /\ UNCHANGED <<lake, chain, keepalives, faults>>

\* Mutants of Successor: every wake queues one, a keepalive too; the chain
\* skips a ledger; a message behind `newest` is carried on.
SuccessorOfEveryWake == IF newest > 0 THEN {newest + 1} ELSE {}

SuccessorSkipping == IF wake.stored THEN {newest + 2} ELSE {wake.expect} \ {Keepalive}

SuccessorForever == IF wake.stored THEN {newest + 1} ELSE {wake.expect} \ {Keepalive}

\* The message a wake leaves behind: next() and the dispatch on it in paced().
Successor ==
    IF wake.stored THEN {newest + 1}
    ELSE IF wake.expect # Keepalive /\ newest > 0 /\ newest < wake.expect THEN {wake.expect}
    ELSE {}

QueueNext ==
    /\ wake.pc = "send"
    /\ wake' = [wake EXCEPT !.pc = "ack"]
    /\ chain' = [e \in Expects |-> chain[e] + IF e \in Successor THEN 1 ELSE 0]
    /\ UNCHANGED <<lake, newest, keepalives, faults, history>>

\* "could not queue the next wake-up": a warning, and the wake still is Ok.
SendFails ==
    /\ wake.pc = "send" /\ Successor # {}
    /\ Fault
    /\ wake' = [wake EXCEPT !.pc = "ack"]
    /\ losses' = losses + 1
    /\ UNCHANGED <<lake, newest, chain, keepalives, copies>>

\* The answer reaches SQS, which deletes the message.
Ack ==
    /\ wake.pc = "ack"
    /\ wake' = Asleep
    /\ UNCHANGED <<lake, newest, chain, keepalives, faults, history>>

\* The message of a wake that did not succeed becomes visible again, or is
\* dead-lettered after its last receive.
Returns(lost) ==
    chain' = IF wake.expect = Keepalive \/ lost THEN chain ELSE Add(wake.expect)

\* reconcile or the close-time read returned Err, or the function died before
\* it sent anything; ledgers may have been stored by then.
WakeFails(n) ==
    /\ wake.pc = "reconcile"
    /\ n \in Reachable
    /\ Fault
    /\ newest' = n
    /\ wake' = Asleep
    /\ \E lost \in BOOLEAN :
         /\ Returns(lost)
         /\ losses' = IF Moved(n) THEN 1
                      ELSE losses + IF wake.expect > newest /\ lost THEN 1 ELSE 0
    /\ copies' = IF Moved(n) THEN 0 ELSE copies
    /\ UNCHANGED <<lake, keepalives>>

\* The close-time read fails or the function dies after reconcile.
WakeDies ==
    /\ wake.pc \in {"send", "ack"}
    /\ Fault
    /\ wake' = Asleep
    /\ \E lost \in BOOLEAN :
         LET replaced == wake.pc = "ack"
             returned == wake.expect > newest /\ ~ lost
         IN  /\ Returns(lost)
             /\ copies' = copies + IF replaced /\ returned THEN 1 ELSE 0
             /\ losses' = losses + IF ~ replaced /\ Successor # {} /\ ~ returned THEN 1 ELSE 0
    /\ UNCHANGED <<lake, newest, keepalives>>

-----------------------------------------------------------------------------
Handler == Ack \/ QueueNext \/ \E n \in Window \cup {0} : Reconcile(n)

PacingNext ==
    \/ \E l \in Window : LedgerLands(l)
    \/ KeepaliveRings \/ ReceiveKeepalive
    \/ \E e \in Expects : ReceiveChain(e) \/ Duplicate(e)
    \/ Handler
    \/ SendFails \/ WakeDies
    \/ \E n \in Window \cup {0} : WakeFails(n)

PacingSpec == PacingInit /\ [][PacingNext]_pacingVars

(***************************************************************************)
(* Fairness: the scheduler rings, SQS delivers every message in the end    *)
(* (a slot is free again and again, so this is strong fairness), and a     *)
(* running handler goes on.  Files need not land and faults may happen.    *)
(***************************************************************************)
FairPacing ==
    /\ PacingSpec
    /\ WF_pacingVars(KeepaliveRings)
    /\ SF_pacingVars(ReceiveKeepalive)
    /\ \A e \in Expects : SF_pacingVars(ReceiveChain(e))
    /\ WF_pacingVars(Handler)

-----------------------------------------------------------------------------
PacingTypeOK ==
    /\ lake \in SUBSET Window
    /\ newest \in {0} \cup Window
    /\ chain \in [Expects -> Nat]
    /\ keepalives \in 0..MaxKeepalives
    /\ wake \in WakeType
    /\ faults \in 0..MaxFaults
    /\ copies \in Nat /\ losses \in Nat

\* The running wake carries a chain on.
Carries ==
    \/ wake.pc = "reconcile" /\ wake.expect > newest
    \/ wake.pc = "send" /\ Successor # {}

\* The queued chain messages that expect e, counted off.
Queued(e) == {e} \X (1..chain[e])

\* Chains that still expect a ledger which is not stored.
Live == Cardinality(UNION {Queued(e) : e \in {x \in Expects : x > newest}})
          + IF Carries THEN 1 ELSE 0

(***************************************************************************)
(* One chain: two chains merge when the next ledger is stored, and a lake  *)
(* that is stalled breeds none, however often the keepalive rings (doc of  *)
(* lake_pacing.rs).  Only a duplicate delivery since the last stored       *)
(* ledger can add a chain, and only a failure since then can end one.      *)
(***************************************************************************)
OneChain == 1 - losses <= Live /\ Live <= 1 + copies

(***************************************************************************)
(* A chain never waits for a ledger beyond the next one: it would look for *)
(* that file without end while the one before it is missing.  (And every   *)
(* variable has its type.)                                                 *)
(***************************************************************************)
ExpectsNext ==
    /\ PacingTypeOK
    /\ \A e \in Expects : chain[e] > 0 \/ wake.expect = e => e <= FirstLedgerToRead

(***************************************************************************)
(* Merging: in the end no message is left that expects a stored ledger,    *)
(* although every keepalive that stores something starts another chain.    *)
(***************************************************************************)
StaleChainsEnd == <>[](\A e \in Expects : e <= newest => chain[e] = 0)

(***************************************************************************)
(* The keepalive restarts a dead chain: whatever failed, a contiguous run  *)
(* of files in the lake is stored in the end.                              *)
(***************************************************************************)
CatchesUp == \A l \in Window : (FirstClosed..l \subseteq lake) ~> newest >= l

-----------------------------------------------------------------------------
(* What makes OneChain and ExpectsNext inductive: a wake that stored       *)
(* ledgers has left its message behind, and an empty table has no chain.   *)

StoredIsAhead == wake.stored => newest > 0 /\ wake.expect <= newest

EmptyHasNone ==
    newest = 0 => wake.expect = Keepalive /\ \A e \in Expects : chain[e] = 0

PacingInv == ExpectsNext /\ OneChain /\ StoredIsAhead /\ EmptyHasNone
=============================================================================
