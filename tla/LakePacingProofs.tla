-------------------------- MODULE LakePacingProofs --------------------------
(***************************************************************************)
(* Proofs about LakePacing, for every window, number of keepalives and     *)
(* faults.  A chain expects the ledger after the newest or a stored one,   *)
(* so the chains that count are the queued messages that expect the next   *)
(* ledger, and the wake that carries one on; a ledger that is stored       *)
(* leaves them all behind, and puts one in their place.                    *)
(***************************************************************************)
EXTENDS LakePacing, FiniteSetTheorems, TLAPS

USE LakePacingAssumption

-----------------------------------------------------------------------------
(* Counting.                                                               *)

\* As many pairs as numbers.
LEMMA CountedOff ==
    ASSUME NEW f, NEW k \in Nat
    PROVE  Cardinality({f} \X (1..k)) = k
<1>1. IsFiniteSet({f}) /\ Cardinality({f}) = 1
  BY FS_Singleton
<1>2. IsFiniteSet(1..k) /\ Cardinality(1..k) = k
  BY FS_Interval
<1>3. Cardinality({f} \X (1..k)) = 1 * k
  BY <1>1, <1>2, FS_Product
<1> QED
  BY <1>3

\* With `n` stored, and chains that expect no more than the ledger f after it,
\* the chains that expect something unknown are those that expect f.
LEMMA CountChains ==
    ASSUME NEW n \in {0} \cup Window, NEW ch \in [Expects -> Nat], NEW f \in Expects,
           f > n, f = IF n > 0 THEN n + 1 ELSE FirstClosed,
           \A e \in Expects : ch[e] > 0 => e <= f
    PROVE  Cardinality(UNION {{e} \X (1..ch[e]) : e \in {x \in Expects : x > n}}) = ch[f]
<1> DEFINE Pairs == UNION {{e} \X (1..ch[e]) : e \in {x \in Expects : x > n}}
<1>1. ASSUME NEW e \in Expects, e > n, e # f PROVE 1..ch[e] = {}
  <2>1. ~ (e <= f)
    BY <1>1 DEF Expects, Window
  <2>2. ch[e] \in Nat /\ ~ (ch[e] > 0)
    BY <2>1
  <2> QED
    BY <2>2
<1>2. Pairs = {f} \X (1..ch[f])
  <2>1. {f} \X (1..ch[f]) \subseteq Pairs
    OBVIOUS
  <2>2. ASSUME NEW x \in Pairs PROVE x \in {f} \X (1..ch[f])
    <3>1. PICK e \in Expects : e > n /\ x \in {e} \X (1..ch[e])
      OBVIOUS
    <3>2. 1..ch[e] # {}
      BY <3>1
    <3>3. e = f
      BY <1>1, <3>1, <3>2
    <3> QED
      BY <3>1, <3>3
  <2> QED
    BY <2>1, <2>2
<1>3. ch[f] \in Nat
  OBVIOUS
<1> QED
  BY <1>2, <1>3, CountedOff

\* The next ledger is one that a chain can expect.
LEMMA NextIsExpected ==
    ASSUME newest \in {0} \cup Window
    PROVE  FirstLedgerToRead \in Expects /\ FirstLedgerToRead > newest
  BY DEF FirstLedgerToRead, Expects, Window

LEMMA LiveChains ==
    ExpectsNext => Live = chain[FirstLedgerToRead] + IF Carries THEN 1 ELSE 0
<1> SUFFICES ASSUME ExpectsNext
             PROVE  Live = chain[FirstLedgerToRead] + IF Carries THEN 1 ELSE 0
  OBVIOUS
<1> DEFINE n == newest
           ch == chain
           f == FirstLedgerToRead
<1>1. /\ n \in {0} \cup Window /\ ch \in [Expects -> Nat] /\ f \in Expects /\ f > n
      /\ f = IF n > 0 THEN n + 1 ELSE FirstClosed
      /\ \A e \in Expects : ch[e] > 0 => e <= f
  BY NextIsExpected DEF ExpectsNext, PacingTypeOK, FirstLedgerToRead
<1> HIDE DEF n, ch, f
<1>2. Cardinality(UNION {{e} \X (1..ch[e]) : e \in {x \in Expects : x > n}}) = ch[f]
  BY <1>1, CountChains
<1> QED
  BY <1>2 DEF Live, Queued, n, ch, f

LEMMA LiveChainsNext ==
    ExpectsNext' => Live' = chain'[FirstLedgerToRead'] + IF Carries' THEN 1 ELSE 0
<1> SUFFICES ASSUME ExpectsNext'
             PROVE  Live' = chain'[FirstLedgerToRead'] + IF Carries' THEN 1 ELSE 0
  OBVIOUS
<1> DEFINE n == newest'
           ch == chain'
           f == FirstLedgerToRead'
<1>1. /\ n \in {0} \cup Window /\ ch \in [Expects -> Nat]
      /\ f = IF n > 0 THEN n + 1 ELSE FirstClosed
      /\ \A e \in Expects : ch[e] > 0 => e <= f
  BY DEF ExpectsNext, PacingTypeOK, FirstLedgerToRead
<1>2. f \in Expects /\ f > n
  <2> HIDE DEF n, f
  <2> QED
    BY <1>1 DEF Expects, Window
<1> HIDE DEF n, ch, f
<1>3. Cardinality(UNION {{e} \X (1..ch[e]) : e \in {x \in Expects : x > n}}) = ch[f]
  BY <1>1, <1>2, CountChains
<1> QED
  BY <1>3 DEF Live, Queued, n, ch, f

-----------------------------------------------------------------------------
(* The invariant, as the steps below use it.                               *)

Counted(f, carried) ==
    1 - losses <= chain[f] + carried /\ chain[f] + carried <= 1 + copies

Carried == IF Carries THEN 1 ELSE 0

LEMMA Facts ==
    ASSUME PacingInv
    PROVE  /\ PacingTypeOK /\ StoredIsAhead /\ EmptyHasNone
           /\ FirstLedgerToRead \in Expects /\ FirstLedgerToRead > newest
           /\ newest \in Int /\ newest >= 0 /\ Expects \subseteq Nat \ {0}
           /\ \A e \in Expects : chain[e] \in Nat
           /\ \A e \in Expects : chain[e] > 0 \/ wake.expect = e => e <= FirstLedgerToRead
           /\ \A e \in Expects : e > newest /\ e <= FirstLedgerToRead => e = FirstLedgerToRead
           /\ losses \in Nat /\ copies \in Nat
           /\ Counted(FirstLedgerToRead, Carried)
<1>1. PacingTypeOK /\ ExpectsNext /\ StoredIsAhead /\ EmptyHasNone /\ newest \in {0} \cup Window
  BY DEF PacingInv, ExpectsNext, PacingTypeOK
<1>2. FirstLedgerToRead \in Expects /\ FirstLedgerToRead > newest
  BY <1>1, NextIsExpected
<1>3. \A e \in Expects : e > newest /\ e <= FirstLedgerToRead => e = FirstLedgerToRead
  BY <1>1 DEF FirstLedgerToRead, Expects, Window
<1>4. Counted(FirstLedgerToRead, Carried)
  BY <1>1, LiveChains DEF PacingInv, OneChain, Counted, Carried
<1>5. newest \in Int /\ newest >= 0 /\ Expects \subseteq Nat \ {0}
  BY <1>1 DEF Expects, Window
<1> QED
  BY <1>1, <1>2, <1>3, <1>4, <1>5 DEF ExpectsNext, PacingTypeOK

\* A step after which everything holds of the chains that count.
LEMMA Concludes ==
    ASSUME PacingTypeOK', StoredIsAhead', EmptyHasNone',
           \A e \in Expects : chain'[e] > 0 \/ wake'.expect = e => e <= FirstLedgerToRead',
           1 - losses' <= chain'[FirstLedgerToRead'] + Carried',
           chain'[FirstLedgerToRead'] + Carried' <= 1 + copies'
    PROVE  PacingInv'
<1>1. ExpectsNext'
  BY DEF ExpectsNext
<1>2. OneChain'
  BY <1>1, LiveChainsNext DEF OneChain, Carried
<1> QED
  BY <1>1, <1>2 DEF PacingInv

\* A step that does not move `newest` and changes at most the number of
\* messages that expect e, by d; losses and copies account for the change in
\* the chains that count.
Adjusts(e, d) ==
    /\ newest' = newest
    /\ \A x \in Expects : chain'[x] = chain[x] + IF x = e THEN d ELSE 0
    /\ e \in Expects => e <= FirstLedgerToRead
    /\ d # 0 => newest > 0
    /\ \/ wake'.expect \in {wake.expect, Keepalive}
       \/ wake'.expect = e /\ newest > 0
    /\ wake'.stored => newest > 0 /\ wake'.expect <= newest
    /\ LET now == Carried' - Carried + IF e = FirstLedgerToRead THEN d ELSE 0
       IN  now >= losses - losses' /\ now <= copies' - copies

LEMMA NewestStays ==
    ASSUME PacingInv, PacingTypeOK', NEW e, NEW d \in Int, Adjusts(e, d)
    PROVE  PacingInv'
<1> USE DEF Adjusts
<1>1. FirstLedgerToRead' = FirstLedgerToRead
  BY DEF FirstLedgerToRead
<1>2. \A x \in Expects : chain'[x] > 0 \/ wake'.expect = x => x <= FirstLedgerToRead
  BY Facts DEF Keepalive
<1>3. StoredIsAhead'
  BY DEF StoredIsAhead
<1>4. EmptyHasNone'
  BY Facts DEF EmptyHasNone
<1>5. /\ chain'[FirstLedgerToRead] = chain[FirstLedgerToRead] + IF e = FirstLedgerToRead THEN d ELSE 0
      /\ chain[FirstLedgerToRead] \in Nat /\ Carried \in Int /\ Carried' \in Int
      /\ losses \in Nat /\ copies \in Nat /\ losses' \in Nat /\ copies' \in Nat
      /\ Counted(FirstLedgerToRead, Carried)
  BY Facts DEF Carried, PacingTypeOK
<1>6. /\ 1 - losses' <= chain'[FirstLedgerToRead] + Carried'
      /\ chain'[FirstLedgerToRead] + Carried' <= 1 + copies'
  <2>1. PICK i \in Int : i = IF e = FirstLedgerToRead THEN d ELSE 0
    OBVIOUS
  <2>2. PICK c \in Int : c = Carried
    BY <1>5
  <2>3. PICK k \in Int : k = Carried'
    BY <1>5
  <2>4. PICK m \in Int : m = chain[FirstLedgerToRead]
    BY <1>5
  <2>5. PICK n \in Int : n = chain'[FirstLedgerToRead]
    BY <1>5
  <2>6. PICK l0, l1, p0, p1 \in Int : l0 = losses /\ l1 = losses' /\ p0 = copies /\ p1 = copies'
    BY <1>5
  <2>7. n = m + i
    BY <1>5, <2>1, <2>4, <2>5
  <2>8. k - c + i >= l0 - l1 /\ k - c + i <= p1 - p0
    BY <2>1, <2>2, <2>3, <2>6
  <2>9. 1 - l0 <= m + c /\ m + c <= 1 + p0
    BY <1>5, <2>2, <2>4, <2>6 DEF Counted
  <2>10. 1 - l1 <= n + k /\ n + k <= 1 + p1
    BY <2>7, <2>8, <2>9
  <2> QED
    BY <2>3, <2>5, <2>6, <2>10
<1> QED
  BY <1>1, <1>2, <1>3, <1>4, <1>6, Concludes
\* `newest` moves: every chain there was is behind it, and one is left, or it
\* is lost, and that is the only one.
LEMMA NewestMoves ==
    ASSUME PacingInv, PacingTypeOK', NEW n \in Window, FirstLedgerToRead <= n, newest' = n,
           \A x \in Expects : chain'[x] > 0 => chain[x] > 0 \/ x = wake.expect,
           wake'.expect \in {wake.expect, Keepalive},
           losses' = 1 - Carried', copies' = 0
    PROVE  PacingInv'
<1>1. /\ FirstLedgerToRead' = n + 1 /\ n \in Nat \ {0} /\ n + 1 \in Expects
      /\ \A x \in Expects : x \in Int /\ chain'[x] \in Nat
      /\ FirstLedgerToRead \in Int
  <2>1. n \in Nat \ {0} /\ n + 1 \in Expects /\ \A x \in Expects : x \in Int
    BY DEF Window, Expects
  <2>2. FirstLedgerToRead' = n + 1
    BY <2>1 DEF FirstLedgerToRead
  <2>3. FirstLedgerToRead \in Int /\ \A x \in Expects : chain'[x] \in Nat
    BY <2>1, Facts DEF PacingTypeOK
  <2> QED
    BY <2>1, <2>2, <2>3
<1>2. \A x \in Expects : chain'[x] > 0 \/ wake'.expect = x => x <= n
  <2> SUFFICES ASSUME NEW x \in Expects, chain'[x] > 0 \/ wake'.expect = x PROVE x <= n
    OBVIOUS
  <2>1. chain[x] > 0 \/ wake.expect = x
    BY Facts DEF Keepalive
  <2>2. x <= FirstLedgerToRead
    BY <2>1, Facts
  <2> HIDE DEF FirstLedgerToRead
  <2> QED
    BY <1>1, <2>2 DEF Window
<1>3. chain'[n + 1] = 0
  BY <1>1, <1>2
<1>4. StoredIsAhead' /\ EmptyHasNone'
  <2>1. wake' \in WakeType
    BY DEF PacingTypeOK
  <2>2. wake'.expect \in Expects \/ wake'.expect = Keepalive
    BY <2>1 DEF WakeType
  <2>3. wake'.expect <= n
    BY <1>1, <1>2, <2>2 DEF Keepalive
  <2> QED
    BY <1>1, <2>3 DEF StoredIsAhead, EmptyHasNone
<1>5. \A x \in Expects : chain'[x] > 0 \/ wake'.expect = x => x <= FirstLedgerToRead'
  BY <1>1, <1>2
<1>6. Carried' \in Int
  BY DEF Carried
<1>7. /\ 1 - losses' <= chain'[FirstLedgerToRead'] + Carried'
      /\ chain'[FirstLedgerToRead'] + Carried' <= 1 + copies'
  <2>1. PICK c \in Int : c = Carried'
    BY <1>6
  <2>2. c <= 1
    BY <2>1 DEF Carried
  <2>3. PICK m \in Int : m = 0 /\ m = chain'[FirstLedgerToRead']
    BY <1>1, <1>3
  <2>4. losses' = 1 - c
    BY <2>1
  <2>5. 1 - (1 - c) <= m + c /\ m + c <= 1 + 0
    BY <2>2, <2>3
  <2> QED
    BY <2>1, <2>3, <2>4, <2>5
<1> QED
  BY <1>4, <1>5, <1>7, Concludes
-----------------------------------------------------------------------------
(* The steps.                                                              *)

\* The ways in which a step changes the running wake.
LEMMA Wakes ==
    /\ Asleep \in WakeType /\ Asleep.pc = "idle" /\ Asleep.expect = Keepalive /\ Asleep.stored = FALSE
    /\ \A e \in Expects \cup {Keepalive} :
         LET w == [Asleep EXCEPT !.pc = "reconcile", !.expect = e]
         IN  w \in WakeType /\ w.pc = "reconcile" /\ w.expect = e /\ w.stored = FALSE
    /\ LET w == [Asleep EXCEPT !.pc = "reconcile"]
       IN  w \in WakeType /\ w.pc = "reconcile" /\ w.expect = Keepalive /\ w.stored = FALSE
    /\ \A w \in WakeType :
         /\ [w EXCEPT !.pc = "ack"] \in WakeType
         /\ [w EXCEPT !.pc = "ack"].pc = "ack"
         /\ [w EXCEPT !.pc = "ack"].expect = w.expect
         /\ [w EXCEPT !.pc = "ack"].stored = w.stored
    /\ \A w \in WakeType, b \in BOOLEAN :
         LET v == [w EXCEPT !.pc = "send", !.stored = b]
         IN  v \in WakeType /\ v.pc = "send" /\ v.expect = w.expect /\ v.stored = b
  BY DEF Asleep, WakeType

\* The wake after reconcile.
LEMMA SendWake ==
    ASSUME NEW w \in WakeType, NEW b \in BOOLEAN, NEW v,
           v = [w EXCEPT !.pc = "send", !.stored = b]
    PROVE  v.pc = "send" /\ v.expect = w.expect /\ v.stored = b
  BY DEF WakeType

LEMMA TypesPreserved ==
    ASSUME PacingInv, PacingNext
    PROVE  PacingTypeOK'
<1>0. /\ lake \in SUBSET Window /\ newest \in {0} \cup Window /\ chain \in [Expects -> Nat]
      /\ keepalives \in 0..MaxKeepalives /\ wake \in WakeType /\ faults \in 0..MaxFaults
      /\ copies \in Nat /\ losses \in Nat
  BY DEF PacingInv, ExpectsNext, PacingTypeOK
<1>1. \A e \in Expects : e # Keepalive /\ Add(e) \in [Expects -> Nat]
  BY <1>0 DEF Add, Keepalive, Expects
<1>2. wake.expect \in Expects \cup {Keepalive}
  BY <1>0 DEF WakeType
<1>3. ASSUME Fault PROVE faults' \in 0..MaxFaults
  BY <1>0, <1>3 DEF Fault
<1>4. ASSUME NEW lost \in BOOLEAN, Returns(lost) PROVE chain' \in [Expects -> Nat]
  BY <1>0, <1>1, <1>2, <1>4 DEF Returns
<1>5. CASE \E l \in Window : LedgerLands(l)
  BY <1>0, <1>5 DEF LedgerLands, history, PacingTypeOK
<1>6. CASE KeepaliveRings
  BY <1>0, <1>6 DEF KeepaliveRings, history, PacingTypeOK
<1>7. CASE ReceiveKeepalive
  <2>1. wake' \in WakeType
    BY <1>7, Wakes DEF ReceiveKeepalive
  <2>2. keepalives' \in 0..MaxKeepalives
    BY <1>0, <1>7 DEF ReceiveKeepalive
  <2> QED
    BY <1>0, <1>7, <2>1, <2>2 DEF ReceiveKeepalive, history, PacingTypeOK
<1>8. ASSUME NEW e \in Expects, ReceiveChain(e) PROVE PacingTypeOK'
  <2>1. chain' \in [Expects -> Nat]
    BY <1>0, <1>8 DEF ReceiveChain
  <2>2. wake' \in WakeType
    BY <1>8, Wakes DEF ReceiveChain
  <2> QED
    BY <1>0, <1>8, <2>1, <2>2 DEF ReceiveChain, history, PacingTypeOK
<1>9. ASSUME NEW e \in Expects, Duplicate(e) PROVE PacingTypeOK'
  BY <1>0, <1>1, <1>3, <1>9 DEF Duplicate, PacingTypeOK
<1>10. CASE Ack
  BY <1>0, <1>10, Wakes DEF Ack, history, PacingTypeOK
<1>11. CASE QueueNext
  <2>1. chain' \in [Expects -> Nat]
    BY <1>0, <1>11 DEF QueueNext
  <2> QED
    BY <1>0, <1>11, <2>1, Wakes DEF QueueNext, history, PacingTypeOK
<1>12. CASE SendFails
  <2>1. wake' \in WakeType
    BY <1>0, <1>12, Wakes DEF SendFails
  <2> QED
    BY <1>0, <1>3, <1>12, <2>1 DEF SendFails, PacingTypeOK
<1>13. ASSUME NEW n \in Window \cup {0}, Reconcile(n) PROVE PacingTypeOK'
  <2>1. wake' \in WakeType
    <3>1. Moved(n) \in BOOLEAN
      BY DEF Moved
    <3>2. wake' = [wake EXCEPT !.pc = "send", !.stored = Moved(n)]
      BY <1>13 DEF Reconcile
    <3> QED
      BY <1>0, <3>1, <3>2, Wakes, Zenon
  <2> QED
    BY <1>0, <1>13, <2>1 DEF Reconcile, PacingTypeOK
<1>14. ASSUME NEW n \in Window \cup {0}, WakeFails(n) PROVE PacingTypeOK'
  <2>1. wake' \in WakeType
    BY <1>14, Wakes DEF WakeFails
  <2>2. chain' \in [Expects -> Nat] /\ faults' \in 0..MaxFaults
    BY <1>3, <1>4, <1>14 DEF WakeFails
  <2>3. losses' \in Nat /\ copies' \in Nat
    BY <1>0, <1>14 DEF WakeFails
  <2> QED
    BY <1>0, <1>14, <2>1, <2>2, <2>3 DEF WakeFails, PacingTypeOK
<1>15. CASE WakeDies
  <2>1. wake' \in WakeType
    BY <1>15, Wakes DEF WakeDies
  <2>2. chain' \in [Expects -> Nat] /\ faults' \in 0..MaxFaults
    BY <1>3, <1>4, <1>15 DEF WakeDies
  <2>3. losses' \in Nat /\ copies' \in Nat
    BY <1>0, <1>15 DEF WakeDies
  <2> QED
    BY <1>0, <1>15, <2>1, <2>2, <2>3 DEF WakeDies, PacingTypeOK
<1> QED
  BY <1>5, <1>6, <1>7, <1>8, <1>9, <1>10, <1>11, <1>12, <1>13, <1>14, <1>15 DEF PacingNext, Handler

\* When a wake carries a chain on.
LEMMA CarriedBy ==
    /\ wake.pc \in {"idle", "ack"} => Carried = 0
    /\ wake.pc = "reconcile" => Carried = IF wake.expect > newest THEN 1 ELSE 0
    /\ wake.pc = "send" => Carried = IF Successor = {} THEN 0 ELSE 1
  BY DEF Carried, Carries

LEMMA CarriedNext ==
    /\ wake'.pc \in {"idle", "ack"} => Carried' = 0
    /\ wake'.pc = "reconcile" => Carried' = IF wake'.expect > newest' THEN 1 ELSE 0
    /\ wake'.pc = "send" => Carried' = IF Successor' = {} THEN 0 ELSE 1
  BY DEF Carried, Carries

\* What a wake queues expects the next ledger.
LEMMA SuccessorIsNext ==
    ASSUME PacingInv
    PROVE  /\ Successor \subseteq {FirstLedgerToRead}
           /\ Successor # {} => newest > 0
           /\ ~ wake.stored /\ wake.expect > newest => Successor = {wake.expect}
           /\ ~ wake.stored /\ ~ (wake.expect > newest) => Successor = {}
<1>1. newest > 0 => FirstLedgerToRead = newest + 1
  BY DEF FirstLedgerToRead
<1>2. wake.expect \in Expects \cup {Keepalive}
  BY Facts DEF PacingTypeOK, WakeType
<1>3. wake.expect \in Expects => wake.expect <= FirstLedgerToRead /\ newest > 0
  BY Facts DEF EmptyHasNone, Keepalive
<1>4. CASE wake.stored
  BY <1>1, <1>4, Facts DEF StoredIsAhead, Successor
<1>5. CASE ~ wake.stored /\ wake.expect > newest
  <2>1. wake.expect \in Expects /\ wake.expect = FirstLedgerToRead
    BY <1>2, <1>3, <1>5, Facts DEF Keepalive
  <2> QED
    BY <1>2, <1>3, <1>5, <2>1, Facts DEF Successor, Keepalive
<1>6. CASE ~ wake.stored /\ ~ (wake.expect > newest)
  <2>1. ~ (newest < wake.expect)
    BY <1>2, <1>6, Facts DEF Keepalive
  <2> QED
    BY <1>6, <2>1 DEF Successor
<1> QED
  BY <1>4, <1>5, <1>6

\* A step that leaves the messages alone.
LEMMA ChainsStay ==
    ASSUME PacingInv, PacingTypeOK', newest' = newest, chain' = chain,
           wake'.expect \in {wake.expect, Keepalive},
           wake'.stored => newest > 0 /\ wake'.expect <= newest,
           Carried' - Carried >= losses - losses',
           Carried' - Carried <= copies' - copies
    PROVE  PacingInv'
<1>1. Carried \in Int /\ Carried' \in Int
  BY DEF Carried
<1>2. Carried' - Carried + 0 = Carried' - Carried
  BY <1>1
<1>3. \A x \in Expects : chain'[x] = chain[x] + IF x = Keepalive THEN 0 ELSE 0
  BY Facts
<1>4. Keepalive \notin Expects
  BY Facts DEF Keepalive
<1>5. Adjusts(Keepalive, 0)
  BY <1>2, <1>3, <1>4 DEF Adjusts
<1>6. 0 \in Int
  OBVIOUS
<1> QED
  BY <1>5, <1>6, NewestStays

LEMMA QuietSteps ==
    ASSUME PacingInv, PacingTypeOK',
           (\E l \in Window : LedgerLands(l)) \/ KeepaliveRings \/ ReceiveKeepalive \/ Ack \/ SendFails
    PROVE  PacingInv'
<1> USE Facts
<1>0. Carried \in Int /\ Carried' \in Int
  BY DEF Carried
<1>1. CASE (\E l \in Window : LedgerLands(l)) \/ KeepaliveRings
  <2>1. UNCHANGED <<newest, chain, wake, losses, copies>>
    BY <1>1 DEF LedgerLands, KeepaliveRings, history
  <2>2. Carried' = Carried
    BY <2>1 DEF Carried, Carries, Successor
  <2> QED
    BY <1>0, <2>1, <2>2, ChainsStay DEF StoredIsAhead
<1>2. CASE ReceiveKeepalive \/ Ack
  <2>1. /\ UNCHANGED <<newest, chain, losses, copies>>
        /\ wake.pc \in {"idle", "ack"} /\ wake'.expect = Keepalive /\ wake'.stored = FALSE
        /\ wake'.pc \in {"idle", "reconcile"}
    BY <1>2, Wakes DEF ReceiveKeepalive, Ack, history
  <2>2. ~ (Keepalive > newest)
    BY DEF Keepalive
  <2>3. Carried = 0 /\ Carried' = 0
    BY <2>1, <2>2, CarriedBy, CarriedNext
  <2> QED
    BY <2>1, <2>3, ChainsStay
<1>3. CASE SendFails
  <2>1. /\ UNCHANGED <<newest, chain, copies>> /\ losses' = losses + 1
        /\ wake.pc = "send" /\ Successor # {} /\ wake' = [wake EXCEPT !.pc = "ack"]
    BY <1>3 DEF SendFails
  <2>2. wake'.pc = "ack" /\ wake'.expect = wake.expect /\ wake'.stored = wake.stored
    BY <2>1, Wakes DEF PacingTypeOK
  <2>3. Carried = 1 /\ Carried' = 0
    BY <2>1, <2>2, CarriedBy, CarriedNext
  <2> QED
    BY <2>1, <2>2, <2>3, ChainsStay DEF StoredIsAhead
<1> QED
  BY <1>1, <1>2, <1>3

\* A step after which one more message, or one less, expects the next ledger.
LEMMA NextIsQueued ==
    ASSUME PacingInv, PacingTypeOK', newest' = newest, NEW e \in Expects, NEW d \in {1, -1},
           e <= FirstLedgerToRead, newest > 0,
           \A x \in Expects : chain'[x] = chain[x] + IF x = e THEN d ELSE 0,
           wake'.expect \in {wake.expect, Keepalive, e},
           wake'.stored => wake'.expect <= newest,
           LET now == Carried' - Carried + IF e > newest THEN d ELSE 0
           IN  now >= losses - losses' /\ now <= copies' - copies
    PROVE  PacingInv'
<1>1. e > newest <=> e = FirstLedgerToRead
  BY Facts
<1>2. Adjusts(e, d)
  BY <1>1 DEF Adjusts
<1>3. d \in Int
  OBVIOUS
<1> QED
  BY <1>2, <1>3, NewestStays

LEMMA ReceiveChainInv ==
    ASSUME PacingInv, PacingTypeOK', NEW e \in Expects, ReceiveChain(e)
    PROVE  PacingInv'
<1>1. /\ UNCHANGED <<newest, losses, copies>> /\ wake.pc = "idle" /\ chain[e] > 0
      /\ wake'.pc = "reconcile" /\ wake'.expect = e /\ wake'.stored = FALSE
      /\ chain' = [chain EXCEPT ![e] = @ - 1]
  BY Wakes DEF ReceiveChain, history
<1>2. e <= FirstLedgerToRead /\ newest > 0
  BY <1>1, Facts DEF EmptyHasNone
<1>3. \A x \in Expects : chain'[x] = chain[x] + IF x = e THEN -1 ELSE 0
  BY <1>1, Facts DEF PacingTypeOK
<1>4. Carried = 0 /\ Carried' = IF e > newest THEN 1 ELSE 0
  BY <1>1, CarriedBy, CarriedNext
<1>5. Carried' - Carried + (IF e > newest THEN -1 ELSE 0) = 0
  BY <1>4
<1> QED
  BY <1>1, <1>2, <1>3, <1>5, Facts, NextIsQueued

LEMMA DuplicateInv ==
    ASSUME PacingInv, PacingTypeOK', NEW e \in Expects, Duplicate(e)
    PROVE  PacingInv'
<1>1. /\ UNCHANGED <<newest, wake, losses>> /\ chain[e] > 0 /\ copies' = copies + 1
      /\ chain' = [chain EXCEPT ![e] = @ + 1]
  BY DEF Duplicate, Add
<1>2. e <= FirstLedgerToRead /\ newest > 0
  BY <1>1, Facts DEF EmptyHasNone
<1>3. \A x \in Expects : chain'[x] = chain[x] + IF x = e THEN 1 ELSE 0
  BY <1>1, Facts DEF PacingTypeOK
<1>4. Carried \in Int /\ Carried' = Carried
  BY <1>1 DEF Carried, Carries, Successor
<1>5. LET now == Carried' - Carried + IF e > newest THEN 1 ELSE 0
      IN  now >= 0 /\ now <= 1
  BY <1>4
<1>6. losses - losses' = 0 /\ copies' - copies = 1
  BY <1>1, Facts
<1> QED
  BY <1>1, <1>2, <1>3, <1>5, <1>6, Facts, NextIsQueued DEF StoredIsAhead

LEMMA QueueNextInv ==
    ASSUME PacingInv, PacingTypeOK', QueueNext
    PROVE  PacingInv'
<1>1. /\ UNCHANGED <<newest, losses, copies>> /\ wake.pc = "send" /\ wake' = [wake EXCEPT !.pc = "ack"]
      /\ chain' = [e \in Expects |-> chain[e] + IF e \in Successor THEN 1 ELSE 0]
  BY DEF QueueNext, history
<1>2. wake'.pc = "ack" /\ wake'.expect = wake.expect /\ wake'.stored = wake.stored
  BY <1>1, Facts, Wakes DEF PacingTypeOK
<1>3. losses - losses' = 0 /\ copies' - copies = 0
  BY <1>1, Facts
<1>4. CASE Successor = {}
  <2>1. chain' = chain
    BY <1>1, <1>4, Facts DEF PacingTypeOK
  <2>2. Carried = 0 /\ Carried' = 0
    BY <1>1, <1>2, <1>4, CarriedBy, CarriedNext
  <2> QED
    BY <1>1, <1>2, <1>3, <2>1, <2>2, Facts, ChainsStay DEF StoredIsAhead
<1>5. CASE Successor # {}
  <2> DEFINE e == FirstLedgerToRead
  <2>1. Successor = {e} /\ newest > 0 /\ e \in Expects /\ e > newest
    BY <1>5, SuccessorIsNext, Facts
  <2>2. \A x \in Expects : chain'[x] = chain[x] + IF x = e THEN 1 ELSE 0
    BY <1>1, <2>1
  <2>3. Carried = 1 /\ Carried' = 0
    BY <1>1, <1>2, <1>5, CarriedBy, CarriedNext
  <2>4. Carried' - Carried + (IF e > newest THEN 1 ELSE 0) = 0 /\ e <= e
    BY <2>1, <2>3, Facts
  <2> QED
    BY <1>1, <1>2, <1>3, <2>1, <2>2, <2>4, Facts, NextIsQueued DEF StoredIsAhead
<1> QED
  BY <1>4, <1>5

\* A wake that moves `newest` stores at least the next ledger.
LEMMA ReachesOn ==
    ASSUME PacingInv, NEW n \in Reachable, n # newest
    PROVE  n \in Window /\ FirstLedgerToRead <= n /\ Moved(n)
<1>1. n \in Window /\ FirstLedgerToRead <= n
  BY DEF Reachable
<1>2. n > newest
  BY <1>1, Facts DEF Window, Expects
<1> QED
  BY <1>1, <1>2 DEF Moved

LEMMA ReconcileInv ==
    ASSUME PacingInv, PacingTypeOK', NEW n \in Window \cup {0}, Reconcile(n)
    PROVE  PacingInv'
<1>1. /\ newest' = n /\ chain' = chain /\ n \in Reachable /\ wake.pc = "reconcile"
      /\ wake' = [wake EXCEPT !.pc = "send", !.stored = Moved(n)]
      /\ copies' = (IF Moved(n) THEN 0 ELSE copies)
      /\ losses' = (IF Moved(n) THEN 0 ELSE losses)
  BY DEF Reconcile, OkReachable
<1>2. wake'.pc = "send" /\ wake'.expect = wake.expect /\ wake'.stored = Moved(n)
  <2>1. Moved(n) \in BOOLEAN
    BY DEF Moved
  <2>2. wake \in WakeType
    BY Facts DEF PacingTypeOK
  <2>3. wake' = [wake EXCEPT !.pc = "send", !.stored = Moved(n)]
    BY <1>1
  <2> QED
    BY <2>1, <2>2, <2>3, SendWake, Zenon
<1>3. CASE n # newest
  <2>1. n \in Window /\ FirstLedgerToRead <= n /\ Moved(n)
    BY <1>1, <1>3, ReachesOn
  <2>2. Successor' # {}
    BY <1>2, <2>1 DEF Successor
  <2>3. Carried' = 1
    BY <1>2, <2>2, CarriedNext
  <2>4. losses' = 1 - Carried' /\ copies' = 0
    BY <1>1, <2>1, <2>3
  <2>5. \A x \in Expects : chain'[x] > 0 => chain[x] > 0 \/ x = wake.expect
    BY <1>1
  <2> QED
    BY <1>1, <1>2, <2>1, <2>4, <2>5, NewestMoves
<1>4. CASE n = newest
  <2>1. newest' = newest /\ ~ Moved(n) /\ copies' = copies /\ losses' = losses
    BY <1>1, <1>4, Facts DEF Moved
  <2>2. Successor' = {} <=> ~ (wake.expect > newest)
    <3>1. Successor' = IF wake.expect # Keepalive /\ newest > 0 /\ newest < wake.expect
                       THEN {wake.expect} ELSE {}
      BY <1>2, <2>1 DEF Successor
    <3>2. wake.expect \in Expects \cup {Keepalive}
      BY Facts DEF PacingTypeOK, WakeType
    <3>3. wake.expect > newest => wake.expect # Keepalive /\ newest > 0
      BY <3>2, Facts DEF EmptyHasNone, Keepalive
    <3>4. wake.expect > newest <=> newest < wake.expect
      BY <3>2, Facts DEF Keepalive
    <3> QED
      BY <3>1, <3>3, <3>4
  <2>3. Carried' = Carried /\ Carried \in Int
    BY <1>1, <1>2, <2>1, <2>2, CarriedBy, CarriedNext DEF Carried
  <2>4. Carried' - Carried >= losses - losses' /\ Carried' - Carried <= copies' - copies
    BY <2>1, <2>3, Facts
  <2> QED
    BY <1>1, <1>2, <2>1, <2>4, ChainsStay
<1> QED
  BY <1>3, <1>4

LEMMA WakeFailsInv ==
    ASSUME PacingInv, PacingTypeOK', NEW n \in Window \cup {0}, WakeFails(n)
    PROVE  PacingInv'
<1>1. PICK lost \in BOOLEAN :
        /\ Returns(lost)
        /\ losses' = (IF Moved(n) THEN 1 ELSE losses + IF wake.expect > newest /\ lost THEN 1 ELSE 0)
  BY DEF WakeFails
<1>2. /\ newest' = n /\ n \in Reachable /\ wake.pc = "reconcile"
      /\ copies' = (IF Moved(n) THEN 0 ELSE copies)
      /\ wake'.pc = "idle" /\ wake'.expect = Keepalive /\ wake'.stored = FALSE
  BY Wakes DEF WakeFails
<1>3. wake.expect \in Expects \cup {Keepalive} /\ Keepalive \notin Expects
  BY Facts DEF PacingTypeOK, WakeType, Keepalive
<1>4. Carried' = 0
  BY <1>2, CarriedNext
\* The message is back in the queue, or it is not.
<1>5. \/ chain' = chain /\ (lost \/ wake.expect = Keepalive)
      \/ /\ wake.expect \in Expects /\ ~ lost
         /\ \A x \in Expects : chain'[x] = chain[x] + IF x = wake.expect THEN 1 ELSE 0
  BY <1>1, <1>3, Facts DEF Returns, Add, PacingTypeOK
<1>6. CASE n # newest
  <2>1. n \in Window /\ FirstLedgerToRead <= n /\ Moved(n)
    BY <1>2, <1>6, ReachesOn
  <2>2. losses' = 1 - Carried' /\ copies' = 0
    BY <1>1, <1>2, <1>4, <2>1
  <2>3. \A x \in Expects : chain'[x] > 0 => chain[x] > 0 \/ x = wake.expect
    BY <1>5, Facts
  <2> QED
    BY <1>2, <2>1, <2>2, <2>3, NewestMoves
<1>7. CASE n = newest
  <2>1. newest' = newest /\ ~ Moved(n) /\ copies' = copies
    BY <1>2, <1>7, Facts DEF Moved
  <2>2. Carried = IF wake.expect > newest THEN 1 ELSE 0
    BY <1>2, CarriedBy
  <2>3. CASE chain' = chain /\ (lost \/ wake.expect = Keepalive)
    <3>1. wake.expect > newest => lost
      BY <2>3, Facts DEF Keepalive
    <3>2. losses - losses' = - Carried
      BY <1>1, <2>1, <2>2, <3>1, Facts
    <3>3. Carried' - Carried >= losses - losses' /\ Carried' - Carried <= copies' - copies
      BY <1>4, <2>1, <2>2, <3>2, Facts
    <3> QED
      BY <1>2, <2>1, <2>3, <3>3, ChainsStay
  <2>4. CASE /\ wake.expect \in Expects /\ ~ lost
             /\ \A x \in Expects : chain'[x] = chain[x] + IF x = wake.expect THEN 1 ELSE 0
    <3> DEFINE e == wake.expect
    <3>1. e \in Expects /\ e <= FirstLedgerToRead /\ newest > 0 /\ e # Keepalive
      BY <1>3, <2>4, Facts DEF EmptyHasNone
    <3>2. losses - losses' = 0 /\ copies' - copies = 0
      BY <1>1, <2>1, <2>4, Facts
    <3>3. Carried' - Carried + (IF e > newest THEN 1 ELSE 0) = 0
      BY <1>4, <2>2
    <3> QED
      BY <1>2, <2>1, <2>4, <3>1, <3>2, <3>3, NextIsQueued
  <2> QED
    BY <1>5, <2>3, <2>4
<1> QED
  BY <1>6, <1>7

LEMMA WakeDiesInv ==
    ASSUME PacingInv, PacingTypeOK', WakeDies
    PROVE  PacingInv'
<1> DEFINE e == wake.expect
<1>1. PICK lost \in BOOLEAN :
        LET replaced == wake.pc = "ack"
            returned == e > newest /\ ~ lost
        IN  /\ Returns(lost)
            /\ copies' = copies + IF replaced /\ returned THEN 1 ELSE 0
            /\ losses' = losses + IF ~ replaced /\ Successor # {} /\ ~ returned THEN 1 ELSE 0
  BY DEF WakeDies
<1>2. /\ newest' = newest /\ wake.pc \in {"send", "ack"}
      /\ wake'.pc = "idle" /\ wake'.expect = Keepalive /\ wake'.stored = FALSE
  BY Wakes DEF WakeDies
<1>3. e \in Expects \cup {Keepalive} /\ Keepalive \notin Expects /\ ~ (Keepalive > newest)
  BY Facts DEF PacingTypeOK, WakeType, Keepalive
<1>4. Carried' = 0
  BY <1>2, CarriedNext
<1>5. \/ chain' = chain /\ (lost \/ e = Keepalive)
      \/ /\ e \in Expects /\ ~ lost
         /\ \A x \in Expects : chain'[x] = chain[x] + IF x = e THEN 1 ELSE 0
  BY <1>1, <1>3, Facts DEF Returns, Add, PacingTypeOK
<1>6. Carried = IF wake.pc = "send" /\ Successor # {} THEN 1 ELSE 0
  BY <1>2, CarriedBy
\* A message that expects the next ledger is carried on by a wake before the
\* send, unless the wake has stored that ledger.
<1>7. wake.pc = "send" /\ e > newest => Successor # {}
  BY <1>3, SuccessorIsNext, Facts DEF StoredIsAhead
<1>8. CASE chain' = chain /\ (lost \/ e = Keepalive)
  <2>1. ~ (e > newest /\ ~ lost)
    BY <1>3, <1>8
  <2>2. copies' = copies /\ losses' = losses + Carried
    BY <1>1, <1>2, <1>6, <2>1, Facts
  <2>3. Carried' - Carried >= losses - losses' /\ Carried' - Carried <= copies' - copies
    BY <1>4, <1>6, <2>2, Facts
  <2> QED
    BY <1>2, <1>8, <2>3, ChainsStay
<1>9. CASE /\ e \in Expects /\ ~ lost
           /\ \A x \in Expects : chain'[x] = chain[x] + IF x = e THEN 1 ELSE 0
  <2>1. e <= FirstLedgerToRead /\ newest > 0
    BY <1>3, <1>9, Facts DEF EmptyHasNone
  <2>2. copies' - copies = (IF wake.pc = "ack" /\ e > newest THEN 1 ELSE 0)
    BY <1>1, <1>9, Facts
  <2>3. losses - losses' = - (IF wake.pc = "send" /\ Successor # {} /\ ~ (e > newest) THEN 1 ELSE 0)
    BY <1>1, <1>2, <1>9, Facts
  <2>4. LET now == Carried' - Carried + IF e > newest THEN 1 ELSE 0
        IN  now >= losses - losses' /\ now <= copies' - copies
    BY <1>2, <1>4, <1>6, <1>7, <2>2, <2>3
  <2> QED
    BY <1>2, <1>9, <2>1, <2>4, NextIsQueued
<1> QED
  BY <1>5, <1>8, <1>9

-----------------------------------------------------------------------------
(* The specification.                                                      *)

LEMMA PacingInitInv == PacingInit => PacingInv
<1> SUFFICES ASSUME PacingInit PROVE PacingInv
  OBVIOUS
<1>1. PacingTypeOK
  <2>1. wake \in WakeType
    BY Wakes DEF PacingInit
  <2>2. chain \in [Expects -> Nat]
    BY DEF PacingInit
  <2>3. keepalives \in 0..MaxKeepalives /\ faults \in 0..MaxFaults /\ copies \in Nat /\ losses \in Nat
    BY DEF PacingInit
  <2> QED
    BY <2>1, <2>2, <2>3 DEF PacingInit, PacingTypeOK
<1>2. ExpectsNext
  <2>1. wake.expect = Keepalive /\ \A e \in Expects : chain[e] = 0
    BY Wakes DEF PacingInit
  <2>2. \A e \in Expects : e # Keepalive
    BY DEF Expects, Keepalive
  <2> QED
    BY <1>1, <2>1, <2>2 DEF ExpectsNext
<1>3. Carried = 0
  BY Wakes, CarriedBy DEF PacingInit
<1>4. chain[FirstLedgerToRead] = 0
  BY <1>1, NextIsExpected DEF PacingInit, PacingTypeOK
<1>5. OneChain
  BY <1>2, <1>3, <1>4, LiveChains DEF OneChain, PacingInit, Carried
<1> QED
  BY <1>2, <1>5, Wakes DEF PacingInit, PacingInv, StoredIsAhead, EmptyHasNone

LEMMA PacingNextInv == PacingInv /\ [PacingNext]_pacingVars => PacingInv'
<1> SUFFICES ASSUME PacingInv, [PacingNext]_pacingVars PROVE PacingInv'
  OBVIOUS
<1>1. CASE UNCHANGED pacingVars
  BY <1>1 DEF pacingVars, PacingInv, ExpectsNext, PacingTypeOK, OneChain, Live, Queued, Carries, Successor,
              StoredIsAhead, EmptyHasNone, FirstLedgerToRead
<1>2. CASE PacingNext
  <2>1. PacingTypeOK'
    BY <1>2, TypesPreserved
  <2> QED
    BY <1>2, <2>1, QuietSteps, ReceiveChainInv, DuplicateInv, QueueNextInv, ReconcileInv, WakeFailsInv,
       WakeDiesInv DEF PacingNext, Handler
<1> QED
  BY <1>1, <1>2

\* The inductive invariant of the pacing of the indexer.
THEOREM PacingInvariant == PacingSpec => []PacingInv
  BY PacingInitInv, PacingNextInv, PTL DEF PacingSpec

\* However often the keepalive rings, and whatever fails or is delivered twice,
\* a stalled lake breeds no chains: their number is bounded by the duplicates,
\* and by the failures from below (doc of lake_pacing.rs).
THEOREM ChainsAreBounded == PacingSpec => []OneChain
<1>1. PacingInv => OneChain
  BY DEF PacingInv
<1> QED
  BY <1>1, PacingInvariant, PTL

\* No message, queued or carried by a wake, waits for a ledger beyond the next
\* one (next() of lake_pacing.rs); and every variable keeps its type.
THEOREM ChainsExpectNext == PacingSpec => []ExpectsNext
<1>1. PacingInv => ExpectsNext
  BY DEF PacingInv
<1> QED
  BY <1>1, PacingInvariant, PTL
=============================================================================
