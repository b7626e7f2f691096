------------------------- MODULE SnapshotSeedProofs -------------------------
(***************************************************************************)
(* What a seed from a checkpoint settles, for any keys, amounts, floor,    *)
(* checkpoint frequency, gaps and re-parses: SnapshotInv is inductive, and *)
(* what the seed promises follows from it.  An entry stays as the last     *)
(* ledger that changed it left it (ChainInv), a row says what the ledger   *)
(* of its version left (Faithful), and a ledger the present writer has     *)
(* stored is in the rows of its keys (Covered): so a row at least as new   *)
(* as the last change is right, and a seed has only to bring every key to  *)
(* the checkpoint.  First the comparison and the chain, then one lemma per *)
(* kind of step, then the theorems.                                        *)
(***************************************************************************)
EXTENDS SnapshotSeed, TLAPS

-----------------------------------------------------------------------------
(* The rows, the states and what a comparison of them says.                *)

LEMMA Kinds ==
    ASSUME SnapshotSeedAssumption
    PROVE  /\ Keys = Native \cup Lines \cup Claims \cup Pools
           /\ \A k \in Pools : k \in Keys /\ k \notin Claims /\ k \notin Native /\ k \notin Lines
           /\ \A k \in Claims : k \in Keys /\ k \notin Pools /\ k \notin Native /\ k \notin Lines
           /\ \A k \in Native : k \in Keys /\ k \notin Pools /\ k \notin Claims
           /\ \A k \in Lines : k \in Keys /\ k \notin Pools /\ k \notin Claims
  BY DEF SnapshotSeedAssumption, Keys

LEMMA Distinct ==
    /\ \A row \in RowRecords : row # NoRow
    /\ \A state \in StateRecords : state # NoRow
<1>1. ASSUME NEW row \in RowRecords PROVE row # NoRow
  BY DEF RowRecords, NoRow
<1>2. ASSUME NEW state \in StateRecords PROVE state # NoRow
  BY DEF StateRecords, NoRow
<1> QED
  BY <1>1, <1>2

\* The rule of verdict.rs, arm by arm.
LEMMA VerdictIs ==
    ASSUME NEW row \in RowRecords, NEW e \in KeyStates, NEW c \in Nat
    PROVE  /\ row.version >= c => Verdict(row, e, c) = "NewerThanCheckpoint"
           /\ row.version < c /\ row.closed # 0 =>
                /\ ~ e.live => Verdict(row, e, c) = "AlreadyClosed"
                /\ e.live /\ e.since > row.version => Verdict(row, e, c) = "ClosedButLive"
                /\ e.live /\ e.since <= row.version => Verdict(row, e, c) = "ClosedButLiveConflict"
           /\ row.version < c /\ row.closed = 0 /\ e.live /\ e.amount # row.amount =>
                /\ e.since > row.version => Verdict(row, e, c) = "HealFromSnapshot"
                /\ e.since < row.version => Verdict(row, e, c) = "DivergentOursNewer"
                /\ e.since = row.version => Verdict(row, e, c) = "DivergentSameLedger"
           /\ row.version < c /\ row.closed = 0 /\ e.live /\ e.amount = row.amount =>
                Verdict(row, e, c) \in {"Stale", "Agree"}
           /\ row.version < c /\ row.closed = 0 /\ ~ e.live => Verdict(row, e, c) \in {"Closure", "Ghost"}
<1> DEFINE v == row.version  s == e.since
<1>1. /\ v \in Nat /\ s \in Nat
      /\ e.live \in BOOLEAN
  BY DEF RowRecords, KeyStates
<1>2. /\ v >= c <=> ~ (v < c)
      /\ s > v => ~ (s < v) /\ s # v
      /\ s < v => ~ (s > v)
      /\ s = v => ~ (s > v) /\ ~ (s < v)
      /\ s <= v => ~ (s > v)
  BY <1>1
<1> HIDE DEF v, s
<1>3. Verdict(row, e, c) =
        CASE v >= c -> "NewerThanCheckpoint"
          [] v < c /\ row.closed # 0 ->
               IF ~ e.live THEN "AlreadyClosed"
               ELSE IF s > v THEN "ClosedButLive" ELSE "ClosedButLiveConflict"
          [] v < c /\ row.closed = 0 /\ e.live /\ e.amount # row.amount ->
               IF s > v THEN "HealFromSnapshot"
               ELSE IF s < v THEN "DivergentOursNewer" ELSE "DivergentSameLedger"
          [] v < c /\ row.closed = 0 /\ e.live /\ e.amount = row.amount ->
               IF v < s THEN "Stale" ELSE "Agree"
          [] OTHER -> IF row.amount = 0 THEN "Closure" ELSE "Ghost"
  BY DEF Verdict, v, s
<1>4. v >= c => Verdict(row, e, c) = "NewerThanCheckpoint"
  BY <1>2, <1>3, Zenon
<1>5. v < c /\ row.closed # 0 =>
                /\ ~ e.live => Verdict(row, e, c) = "AlreadyClosed"
                /\ e.live /\ s > v => Verdict(row, e, c) = "ClosedButLive"
                /\ e.live /\ s <= v => Verdict(row, e, c) = "ClosedButLiveConflict"
  BY <1>2, <1>3, Zenon
<1>6. v < c /\ row.closed = 0 /\ e.live /\ e.amount # row.amount =>
                /\ s > v => Verdict(row, e, c) = "HealFromSnapshot"
                /\ s < v => Verdict(row, e, c) = "DivergentOursNewer"
                /\ s = v => Verdict(row, e, c) = "DivergentSameLedger"
  BY <1>2, <1>3, Zenon
<1>7. v < c /\ row.closed = 0 /\ e.live /\ e.amount = row.amount =>
                Verdict(row, e, c) \in {"Stale", "Agree"}
  BY <1>2, <1>3, Zenon
<1>8. v < c /\ row.closed = 0 /\ ~ e.live => Verdict(row, e, c) \in {"Closure", "Ghost"}
  BY <1>2, <1>3, Zenon
<1> QED
  BY <1>4, <1>5, <1>6, <1>7, <1>8 DEF v, s

\* What a comparison writes: the network's entry over an older row, or a
\* closure at the checkpoint; and when it writes nothing.
LEMMA CorrectionIs ==
    ASSUME NEW row \in RowRecords, NEW e \in KeyStates, NEW c \in Nat,
           NEW fix, fix = Correction(Verdict(row, e, c), e, c)
    PROVE  /\ \/ fix = NoRow
              \/ e.live /\ fix = LiveRow(e) /\ row.version < e.since
              \/ ~ e.live /\ fix = [version |-> c, amount |-> 0, closed |-> c] /\ row.version < c
           /\ fix = NoRow /\ row.version < c =>
                IF e.live
                THEN \/ row.closed = 0 /\ e.amount = row.amount
                     \/ e.since <= row.version
                ELSE row.closed # 0
<1> DEFINE v == Verdict(row, e, c)
           closure == [version |-> c, amount |-> 0, closed |-> c]
<1>1. /\ v \in {"ClosedButLive", "HealFromSnapshot"} => fix = LiveRow(e)
      /\ v \in {"Closure", "Ghost"} => fix = closure
      /\ v \notin {"ClosedButLive", "HealFromSnapshot", "Closure", "Ghost"} => fix = NoRow
  <2> HIDE DEF v
  <2>1. fix = CASE v \in {"ClosedButLive", "HealFromSnapshot"} -> LiveRow(e)
                [] v \in {"Closure", "Ghost"} -> closure
                [] OTHER -> NoRow
    BY DEF Correction, v
  <2>2. /\ v \in {"ClosedButLive", "HealFromSnapshot"} => v \notin {"Closure", "Ghost"}
        /\ v \in {"Closure", "Ghost"} => v \notin {"ClosedButLive", "HealFromSnapshot"}
    OBVIOUS
  <2> HIDE DEF closure
  <2> QED
    BY <2>1, <2>2, Zenon
<1>2. row.version \in Nat /\ e.since \in Nat /\ e.live \in BOOLEAN
  BY DEF RowRecords, KeyStates
<1> HIDE DEF closure
<1>3. CASE row.version >= c
  <2>1. v = "NewerThanCheckpoint"
    BY <1>3, VerdictIs
  <2> QED
    BY <1>1, <1>2, <1>3, <2>1
<1>4. CASE row.version < c /\ row.closed # 0 /\ ~ e.live
  <2>1. v = "AlreadyClosed"
    BY <1>4, VerdictIs
  <2> QED
    BY <1>1, <1>4, <2>1
<1>5. CASE row.version < c /\ row.closed # 0 /\ e.live
  <2>1. CASE e.since > row.version
    <3>1. v = "ClosedButLive"
      BY <1>5, <2>1, VerdictIs
    <3>2. fix = LiveRow(e) /\ fix # NoRow
      BY <1>1, <1>2, <3>1 DEF LiveRow, NoRow
    <3> QED
      BY <1>2, <1>5, <2>1, <3>2
  <2>2. CASE e.since <= row.version
    <3>1. v = "ClosedButLiveConflict"
      BY <1>5, <2>2, VerdictIs
    <3> QED
      BY <1>1, <1>5, <2>2, <3>1
  <2> QED
    BY <1>2, <2>1, <2>2
<1>6. CASE row.version < c /\ row.closed = 0 /\ e.live /\ e.amount # row.amount
  <2>1. CASE e.since > row.version
    <3>1. v = "HealFromSnapshot"
      BY <1>6, <2>1, VerdictIs
    <3>2. fix = LiveRow(e) /\ fix # NoRow
      BY <1>1, <1>2, <3>1 DEF LiveRow, NoRow
    <3> QED
      BY <1>2, <1>6, <2>1, <3>2
  <2>2. CASE e.since <= row.version
    <3>1. v \in {"DivergentOursNewer", "DivergentSameLedger"}
      BY <1>2, <1>6, <2>2, VerdictIs
    <3> QED
      BY <1>1, <1>6, <2>2, <3>1
  <2> QED
    BY <1>2, <2>1, <2>2
<1>7. CASE row.version < c /\ row.closed = 0 /\ e.live /\ e.amount = row.amount
  <2>1. v \in {"Stale", "Agree"}
    BY <1>7, VerdictIs
  <2> QED
    BY <1>1, <1>7, <2>1
<1>8. CASE row.version < c /\ row.closed = 0 /\ ~ e.live
  <2>1. v \in {"Closure", "Ghost"}
    BY <1>8, VerdictIs
  <2>2. fix = closure /\ closure # NoRow
    BY <1>1, <2>1 DEF closure, NoRow
  <2> QED
    BY <1>8, <2>2 DEF closure
<1> QED
  BY <1>2, <1>3, <1>4, <1>5, <1>6, <1>7, <1>8

-----------------------------------------------------------------------------
(* The chain.                                                              *)

LEMMA ChainTypes ==
    ASSUME ChainInv
    PROVE  /\ Height \in Nat /\ DOMAIN chain = 1..Height
           /\ \A l \in 1..Height, k \in Keys : chain[l][k] \in KeyStates
           /\ \A l \in 1..Height : l \in Nat /\ 0 < l /\ l <= Height
           /\ Checkpoints \subseteq 1..Height
  BY DEF ChainInv, Height, Checkpoints

\* An entry is as the last ledger that changed it left it.
LEMMA Lasts ==
    ASSUME ChainInv, NEW k \in Keys, NEW m \in 1..Height
    PROVE  /\ chain[m][k].since \in 0..m
           /\ chain[m][k].since = 0 => chain[m][k] = Absent
           /\ ~ chain[m][k].live => chain[m][k].amount = 0 /\ chain[m][k].counters = 0
           /\ chain[m][k].live => chain[m][k].since # 0
           /\ chain[m][k].since # 0 =>
                /\ chain[m][k].since \in 1..Height
                /\ chain[chain[m][k].since][k] = chain[m][k]
                /\ k \in Touched(chain[m][k].since)
           /\ \A l \in 1..m : chain[m][k].since <= l => chain[l][k] = chain[m][k]
           /\ \A l \in 1..m : chain[l][k].since <= chain[m][k].since
           /\ \A l \in 1..m : k \in Touched(l) => l <= chain[m][k].since
<1> DEFINE e == chain[m][k]
<1>1. /\ e \in KeyStates /\ e.since <= m /\ m \in Nat /\ Height \in Nat /\ m <= Height
      /\ e.since = 0 => e = Absent
      /\ ~ e.live => e.amount = 0 /\ e.counters = 0
      /\ \A l \in 1..m : e.since <= l => chain[l][k] = e
  BY ChainTypes DEF ChainInv
<1>2. e.since \in Nat /\ e.since \in 0..m
  BY <1>1 DEF KeyStates
<1>3. e.live => e.since # 0
  BY <1>1 DEF Absent
<1>4. ASSUME e.since # 0
      PROVE  e.since \in 1..Height /\ chain[e.since][k] = e /\ k \in Touched(e.since)
  <2>1. e.since \in 1..m /\ e.since \in 1..Height
    BY <1>1, <1>2, <1>4
  <2>2. chain[e.since][k] = e
    BY <1>1, <1>2, <2>1
  <2> QED
    BY <2>1, <2>2 DEF Touched
<1>5. ASSUME NEW l \in 1..m PROVE chain[l][k].since <= e.since
  <2>1. l \in 1..Height /\ l \in Nat
    BY <1>1
  <2>2. chain[l][k].since <= l /\ chain[l][k].since \in Nat
    BY <2>1, ChainTypes DEF ChainInv, KeyStates
  <2>3. CASE e.since <= l
    BY <1>1, <1>2, <2>1, <2>3
  <2>4. CASE l < e.since
    BY <1>2, <2>1, <2>2, <2>4
  <2> QED
    BY <1>2, <2>1, <2>3, <2>4
<1>6. ASSUME NEW l \in 1..m, k \in Touched(l) PROVE l <= e.since
  BY <1>5, <1>6 DEF Touched
<1> QED
  BY <1>1, <1>2, <1>3, <1>4, <1>5, <1>6

\* first_wins finds the state of every entry as of the checkpoint.
LEMMA FirstWinsIs ==
    ASSUME ChainInv, NEW k \in Keys, NEW c \in 1..Height
    PROVE  FirstWins(c, k) = chain[c][k]
<1> DEFINE s == chain[c][k].since  R == Records(c, k)
<1>1. c \in Nat /\ \A l \in R : l \in 1..c /\ k \in Touched(l) /\ l <= s
  BY ChainTypes, Lasts DEF Records
<1>2. CASE s = 0
  <2>1. R = {}
    BY <1>1, <1>2
  <2> QED
    BY <1>2, <2>1, Lasts DEF FirstWins
<1>3. CASE s # 0
  <2>1. s \in R /\ chain[s][k] = chain[c][k]
    BY <1>1, <1>3, Lasts, ChainTypes DEF Records
  <2>2. \A l \in R : (\A m \in R : m <= l) => l = s
    BY <1>1, <2>1
  <2> HIDE DEF s, R
  <2>3. (CHOOSE l \in R : \A m \in R : m <= l) = s
    BY <1>1, <2>1, <2>2
  <2> QED
    BY <2>1, <2>3 DEF FirstWins, R
<1> QED
  BY <1>2, <1>3

-----------------------------------------------------------------------------
(* What the writer stores.                                                 *)

LEMMA RowOfIs ==
    ASSUME SnapshotSeedAssumption, ChainInv, NEW l \in 1..Height, NEW k \in Touched(l)
    PROVE  /\ k \in Keys
           /\ RowOf(l, k) # NoRow =>
                /\ RowOf(l, k) \in RowRecords /\ RowOf(l, k).version = l
                /\ RowOf(l, k).amount = chain[l][k].amount
                /\ ~ chain[l][k].live /\ deployed \in Int /\ deployed >= 0 => RowOf(l, k).closed # 0
           /\ deployed \in Int => Faithful(k, RowOf(l, k))
           /\ deployed \in Int /\ deployed >= 0 /\ k \notin Pools => RowOf(l, k) # NoRow
           /\ k \in Pools /\ chain[l][k].live => RowOf(l, k) # NoRow
<1>1. k \in Keys /\ chain[l][k].since = l
  BY DEF Touched
<1>2. /\ chain[l][k] \in KeyStates /\ l \in Nat /\ l # 0 /\ l \in 1..Height
      /\ chain[l][k].live \in BOOLEAN /\ chain[l][k].amount \in Amounts \cup {0}
  BY <1>1, ChainTypes DEF KeyStates
<1> DEFINE closed == IF chain[l][k].live \/ deployed < 0 THEN 0 ELSE l
           row == [version |-> l, amount |-> chain[l][k].amount, closed |-> closed]
           none == (k \in Claims /\ deployed < 0) \/ (k \in Pools /\ ~ chain[l][k].live)
<1>3. RowOf(l, k) = IF none THEN NoRow ELSE row
  BY DEF RowOf
<1>4. closed \in Nat /\ (chain[l][k].live => closed = 0) /\ closed \in {0, l}
      /\ (closed = 0 <=> chain[l][k].live \/ deployed < 0)
  BY <1>2
<1> HIDE DEF closed
<1>5. row \in RowRecords /\ row # NoRow
  <2>1. row \in RowRecords
    BY <1>2, <1>4 DEF RowRecords
  <2> QED
    BY <2>1, Distinct
<1>6. row.version = l /\ row.amount = chain[l][k].amount /\ row.closed = closed
  OBVIOUS
<1>7. deployed \in Int /\ ~ none => Faithful(k, row)
  <2>1. CASE chain[l][k].live
    BY <1>1, <1>2, <1>4, <1>5, <1>6, <2>1 DEF Faithful
  <2>2. CASE ~ chain[l][k].live
    <3> SUFFICES ASSUME deployed \in Int, ~ none PROVE Faithful(k, row)
      OBVIOUS
    <3>1. k \notin Pools /\ (k \in Claims => ~ (deployed < 0))
      BY <2>2
    <3>2. closed # 0 => deployed >= 0
      BY <1>4
    <3>3. closed = 0 => deployed < 0 /\ k \notin Claims
      BY <1>4, <2>2, <3>1
    <3> HIDE DEF none, row
    <3> QED
      BY <1>1, <1>2, <1>4, <1>5, <1>6, <2>2, <3>1, <3>2, <3>3 DEF Faithful
  <2> QED
    BY <2>1, <2>2
<1>8. Faithful(k, NoRow)
  BY DEF Faithful
<1>9. ~ chain[l][k].live /\ deployed >= 0 /\ deployed \in Int => closed # 0
  BY <1>4
<1>10. ~ chain[l][k].live /\ deployed \in Int /\ deployed >= 0 => row.closed # 0
  BY <1>6, <1>9
<1>11. deployed \in Int /\ deployed >= 0 => ~ (deployed < 0)
  OBVIOUS
<1> HIDE DEF row
<1>12. deployed \in Int /\ deployed >= 0 /\ k \notin Pools => ~ none
  BY <1>11
<1>13. k \in Pools /\ chain[l][k].live => ~ none
  BY Kinds
<1> HIDE DEF none
<1> QED
  BY <1>1, <1>3, <1>5, <1>6, <1>7, <1>8, <1>10, <1>12, <1>13

LEMMA PutIs ==
    ASSUME NEW R, \A x \in R : x # NoRow /\ x.version \in Nat,
           NEW row \in R \cup {NoRow}, NEW new \in R \cup {NoRow}
    PROVE  /\ Put(row, new) \in R \cup {NoRow}
           /\ Put(row, new) = row \/ Put(row, new) = new
           /\ new = NoRow => Put(row, new) = row
           /\ new # NoRow =>
                IF row # NoRow /\ row.version > new.version THEN Put(row, new) = row ELSE Put(row, new) = new
           /\ row # NoRow => Put(row, new) # NoRow /\ Put(row, new).version >= row.version
<1>1. NoRow.version = -1
  BY DEF NoRow
<1>2. CASE new = NoRow
  BY <1>2 DEF Put
<1>3. CASE new # NoRow /\ row = NoRow
  <2>1. new.version >= row.version
    BY <1>1, <1>3
  <2> QED
    BY <1>3, <2>1 DEF Put
<1>4. CASE new # NoRow /\ row # NoRow
  <2>1. new.version \in Nat /\ row.version \in Nat
    BY <1>4
  <2> QED
    BY <1>4, <2>1 DEF Put
<1> QED
  BY <1>2, <1>3, <1>4

LEMMA StateOfIs ==
    ASSUME SnapshotSeedAssumption, ChainInv, NEW l \in 1..Height, NEW k \in Touched(l)
    PROVE  /\ StateOf(l, k) \in StateRecords \cup {NoRow}
           /\ StateOf(l, k) # NoRow <=> chain[l][k].live
           /\ chain[l][k].live => StateOf(l, k).version = l
           /\ chain[l][k].live /\ deployed \in Int /\ deployed >= 0 =>
                StateOf(l, k).counters = chain[l][k].counters
<1>1. /\ k \in Keys /\ chain[l][k] \in KeyStates /\ l \in Nat
      /\ chain[l][k].live \in BOOLEAN /\ chain[l][k].counters \in Counters /\ 0 \in Counters
  BY ChainTypes DEF Touched, KeyStates, SnapshotSeedAssumption
<1> DEFINE state == [version |-> l, counters |-> IF deployed < 0 THEN 0 ELSE chain[l][k].counters]
<1>2. state \in StateRecords /\ state # NoRow
  <2>1. state \in StateRecords
    BY <1>1 DEF StateRecords
  <2> QED
    BY <2>1, Distinct
<1>3. StateOf(l, k) = IF ~ chain[l][k].live THEN NoRow ELSE state
  BY DEF StateOf
<1>4. deployed \in Int /\ deployed >= 0 => ~ (deployed < 0)
  OBVIOUS
<1> QED
  BY <1>1, <1>2, <1>3, <1>4

\* A ledger that is stored gives the keys it changed its row, unless they have
\* a newer one.
LEMMA Storing ==
    ASSUME SnapshotSeedAssumption, IndexInv, ChainInv, RowsInv, NEW l \in 1..Height, StoreRows(l),
           chain' = chain, deployed' = deployed
    PROVE  /\ \A k \in Keys : /\ rows'[k] \in RowRecords \cup {NoRow}
                              /\ rows[k] # NoRow => rows'[k] # NoRow /\ rows'[k].version >= rows[k].version
                              /\ \/ rows'[k] = rows[k]
                                 \/ k \in Touched(l) /\ RowOf(l, k) # NoRow /\ rows'[k] = RowOf(l, k)
                              /\ k \notin Touched(l) => rows'[k] = rows[k]
                              /\ k \in Touched(l) /\ RowOf(l, k) # NoRow =>
                                   IF rows[k] # NoRow /\ rows[k].version > l
                                   THEN rows'[k] = rows[k] ELSE rows'[k] = RowOf(l, k)
           /\ \A k \in Native :
                LET old == account_entry_state[k]  new == account_entry_state'[k]
                IN  /\ new \in StateRecords \cup {NoRow}
                    /\ old # NoRow => new # NoRow /\ new.version >= old.version
                    /\ new = old \/ (k \in Touched(l) /\ chain[l][k].live /\ new = StateOf(l, k))
                    /\ k \notin Touched(l) => new = old
                    /\ k \in Touched(l) /\ chain[l][k].live =>
                         IF old # NoRow /\ old.version > l THEN new = old ELSE new = StateOf(l, k)
<1>1. deployed \in Int
  BY ChainTypes DEF IndexInv
<1>2. \A x \in RowRecords : x # NoRow /\ x.version \in Nat
  BY Distinct DEF RowRecords
<1>3. \A x \in StateRecords : x # NoRow /\ x.version \in Nat
  BY Distinct DEF StateRecords
<1>4. ASSUME NEW k \in Keys
      PROVE  /\ rows'[k] \in RowRecords \cup {NoRow}
             /\ rows[k] # NoRow => rows'[k] # NoRow /\ rows'[k].version >= rows[k].version
             /\ \/ rows'[k] = rows[k]
                \/ k \in Touched(l) /\ RowOf(l, k) # NoRow /\ rows'[k] = RowOf(l, k)
             /\ k \notin Touched(l) => rows'[k] = rows[k]
             /\ k \in Touched(l) /\ RowOf(l, k) # NoRow =>
                  IF rows[k] # NoRow /\ rows[k].version > l
                  THEN rows'[k] = rows[k] ELSE rows'[k] = RowOf(l, k)
  <2>1. rows[k] \in RowRecords \cup {NoRow}
    BY DEF RowsInv
  <2>2. rows'[k] = IF k \in Touched(l) THEN Put(rows[k], RowOf(l, k)) ELSE rows[k]
    BY DEF StoreRows
  <2>3. CASE k \notin Touched(l)
    <3>1. rows[k] # NoRow => rows[k].version >= rows[k].version
      BY <1>2, <2>1
    <3> QED
      BY <2>1, <2>2, <2>3, <3>1
  <2>4. CASE k \in Touched(l)
    <3>1. RowOf(l, k) \in RowRecords \cup {NoRow} /\ (RowOf(l, k) # NoRow => RowOf(l, k).version = l)
      BY <2>4, RowOfIs
    <3> DEFINE new == RowOf(l, k)  row == rows[k]  put == Put(row, new)
    <3>2. /\ put \in RowRecords \cup {NoRow}
          /\ put = row \/ put = new
          /\ new = NoRow => put = row
          /\ new # NoRow => IF row # NoRow /\ row.version > new.version THEN put = row ELSE put = new
          /\ row # NoRow => put # NoRow /\ put.version >= row.version
      <4> HIDE DEF new, row
      <4> QED
        BY <1>2, <2>1, <3>1, PutIs DEF new, row
    <3> QED
      BY <2>2, <2>4, <3>1, <3>2
  <2> QED
    BY <2>3, <2>4
<1>5. ASSUME NEW k \in Native
      PROVE  LET old == account_entry_state[k]  new == account_entry_state'[k]
             IN  /\ new \in StateRecords \cup {NoRow}
                 /\ old # NoRow => new # NoRow /\ new.version >= old.version
                 /\ new = old \/ (k \in Touched(l) /\ chain[l][k].live /\ new = StateOf(l, k))
                 /\ k \notin Touched(l) => new = old
                 /\ k \in Touched(l) /\ chain[l][k].live =>
                      IF old # NoRow /\ old.version > l THEN new = old ELSE new = StateOf(l, k)
  <2> DEFINE old == account_entry_state[k]  new == StateOf(l, k)
  <2>1. old \in StateRecords \cup {NoRow}
    BY DEF RowsInv
  <2>2. account_entry_state'[k] = IF k \in Touched(l) THEN Put(old, new) ELSE old
    BY DEF StoreRows
  <2>3. CASE k \notin Touched(l)
    <3>1. old # NoRow => old.version >= old.version
      BY <1>3, <2>1
    <3> HIDE DEF old, new
    <3>2. account_entry_state'[k] = old
      BY <2>2, <2>3
    <3> QED
      BY <2>1, <2>3, <3>1, <3>2 DEF old
  <2>4. CASE k \in Touched(l)
    <3>1. /\ new \in StateRecords \cup {NoRow} /\ (new # NoRow <=> chain[l][k].live)
          /\ chain[l][k].live => new.version = l
      BY <2>4, StateOfIs
    <3> DEFINE put == Put(old, new)
    <3>2. /\ put \in StateRecords \cup {NoRow}
          /\ put = old \/ put = new
          /\ new = NoRow => put = old
          /\ new # NoRow => IF old # NoRow /\ old.version > new.version THEN put = old ELSE put = new
          /\ old # NoRow => put # NoRow /\ put.version >= old.version
      <4> HIDE DEF old, new
      <4> QED
        BY <1>3, <2>1, <3>1, PutIs DEF put
    <3>3. account_entry_state'[k] = put
      BY <2>2, <2>4
    <3> HIDE DEF put
    <3> QED
      BY <2>4, <3>1, <3>2, <3>3
  <2> QED
    BY <2>3, <2>4
<1> QED
  BY <1>4, <1>5

-----------------------------------------------------------------------------
(* What stays so.                                                          *)

LEMMA EntryIs ==
    ASSUME ChainInv
    PROVE  /\ Entry \in [Keys -> KeyStates] \/ Height = 0
           /\ Height > 0 => Entry = chain[Height] /\ Height \in 1..Height
           /\ \A k \in Keys : Height = 0 => Entry[k] = Absent
<1>1. Height \in Nat
  BY ChainTypes
<1>2. CASE Height = 0
  BY <1>2 DEF Entry
<1>3. CASE Height > 0
  <2>1. Height \in 1..Height /\ Entry = chain[Height]
    BY <1>1, <1>3 DEF Entry
  <2>2. chain[Height] \in [Keys -> KeyStates]
    BY <2>1 DEF ChainInv, Height
  <2> QED
    BY <1>3, <2>1, <2>2
<1> QED
  BY <1>1, <1>2, <1>3

\* A row at least as new as the last change of its key is right, but for a
\* deletion that was stored without a closure.
LEMMA NewIsRight ==
    ASSUME ChainInv, NEW k \in Keys, Height > 0, NEW row, Faithful(k, row),
           row # NoRow, row.version >= Entry[k].since,
           \/ Entry[k].live
           \/ row.closed # 0
           \/ row.version > Entry[k].since
    PROVE  IF Entry[k].live THEN row.closed = 0 /\ row.amount = Entry[k].amount ELSE row.closed # 0
<1> DEFINE v == row.version
<1>1. v \in 1..Height /\ Height \in Nat /\ v \in Nat /\ Height \in 1..Height
  BY ChainTypes DEF Faithful
<1>2. Entry = chain[Height] /\ Entry[k].since \in 0..Height
  BY <1>1, EntryIs, Lasts
<1>3. chain[v][k] = Entry[k]
  BY <1>1, <1>2, Lasts
<1>4. CASE Entry[k].live
  BY <1>3, <1>4 DEF Faithful
<1>5. CASE ~ Entry[k].live
  <2>1. row.closed # 0
    <3>1. CASE v > Entry[k].since
      BY <1>1, <1>2, <1>3, <1>5, <3>1 DEF Faithful
    <3> QED
      BY <1>5, <3>1
  <2> QED
    BY <1>5, <2>1
<1> QED
  BY <1>4, <1>5

LEMMA FaithfulStays ==
    ASSUME ChainInv, NEW k, NEW row, Faithful(k, row), deployed \in Int,
           Height' \in Nat, Height <= Height', \A l \in 1..Height : chain'[l] = chain[l],
           deployed' = deployed \/ (deployed < 0 /\ deployed' = Height)
    PROVE  Faithful(k, row)'
<1>1. CASE row = NoRow
  BY <1>1 DEF Faithful, NoRow
<1>2. CASE row # NoRow
  <2>1. /\ row \in RowRecords /\ row.version \in 1..Height
        /\ row.amount = chain[row.version][k].amount
        /\ row.closed # 0 => deployed >= 0
        /\ IF chain[row.version][k].live
           THEN row.closed = 0 /\ chain[row.version][k].since = row.version
           ELSE /\ row.closed \in {0, row.version} /\ k \notin Pools
                /\ row.closed = 0 =>
                     /\ chain[row.version][k].since = row.version
                     /\ k \notin Claims
                     /\ deployed < 0 \/ row.version <= deployed
    BY <1>2 DEF Faithful
  <2>2. Height \in Nat /\ row.version \in Nat /\ row.version <= Height
    BY <2>1, ChainTypes
  <2>3. row.version \in 1..Height'
    BY <2>1, <2>2
  <2>4. chain'[row.version] = chain[row.version]
    BY <2>1
  <2>5. (row.closed # 0 => deployed' >= 0)
    BY <2>1, <2>2
  <2>6. (deployed < 0 \/ row.version <= deployed) => (deployed' < 0 \/ row.version <= deployed')
    BY <2>2
  <2> QED
    BY <2>1, <2>3, <2>4, <2>5, <2>6 DEF Faithful
<1> QED
  BY <1>1, <1>2

\* Rows are only ever replaced by newer ones, and by what the present writer
\* or a seed has to say.
Improves ==
    /\ \A k \in Keys \ Pools : rows'[k] = rows[k] \/
         /\ rows'[k] # NoRow
         /\ rows[k] # NoRow => rows'[k].version >= rows[k].version
         /\ ~ chain[rows'[k].version][k].live => rows'[k].closed # 0
    /\ \A k \in Native : account_entry_state'[k] = account_entry_state[k] \/
         /\ account_entry_state'[k] # NoRow
         /\ account_entry_state[k] # NoRow => account_entry_state'[k].version >= account_entry_state[k].version
         /\ account_entry_state'[k].counters = chain[account_entry_state'[k].version][k].counters

LEMMA CoveredStays ==
    ASSUME SnapshotSeedAssumption, ChainInv, RowsInv, NEW l \in 1..Height, Covered(l), Improves,
           chain'[l] = chain[l],
           \A k \in Keys : rows'[k] \in RowRecords \cup {NoRow},
           \A k \in Native : account_entry_state'[k] \in StateRecords \cup {NoRow}
    PROVE  Covered(l)'
<1>1. Touched(l)' = Touched(l) /\ l \in Nat
  BY ChainTypes DEF Touched
<1> SUFFICES ASSUME NEW k \in Touched(l) \ Pools
             PROVE  /\ rows'[k] # NoRow /\ rows'[k].version >= l
                    /\ rows'[k].version = l /\ ~ chain[l][k].live => rows'[k].closed # 0
                    /\ k \in Native /\ chain[l][k].live =>
                         /\ account_entry_state'[k] # NoRow /\ account_entry_state'[k].version >= l
                         /\ account_entry_state'[k].version = l =>
                              account_entry_state'[k].counters = chain[l][k].counters
  BY <1>1 DEF Covered, NoRow
<1>2. /\ rows[k] # NoRow /\ rows[k].version >= l
      /\ rows[k].version = l /\ ~ chain[l][k].live => rows[k].closed # 0
      /\ k \in Native /\ chain[l][k].live =>
           /\ account_entry_state[k] # NoRow /\ account_entry_state[k].version >= l
           /\ account_entry_state[k].version = l => account_entry_state[k].counters = chain[l][k].counters
      /\ k \in Keys \ Pools
  BY DEF Covered, Touched
<1>3. /\ rows'[k] # NoRow /\ rows'[k].version >= l
      /\ rows'[k].version = l /\ ~ chain[l][k].live => rows'[k].closed # 0
  <2>1. CASE rows'[k] = rows[k]
    BY <1>2, <2>1
  <2>2. CASE rows'[k] # rows[k]
    <3>1. /\ rows'[k] # NoRow /\ rows'[k].version >= rows[k].version
          /\ ~ chain[rows'[k].version][k].live => rows'[k].closed # 0
      BY <1>2, <2>2 DEF Improves
    <3>2. rows[k].version \in Nat /\ rows'[k].version \in Nat
      BY <1>2, <3>1 DEF RowsInv, RowRecords
    <3> QED
      BY <1>1, <1>2, <3>1, <3>2
  <2> QED
    BY <2>1, <2>2
<1>4. ASSUME k \in Native, chain[l][k].live
      PROVE  /\ account_entry_state'[k] # NoRow /\ account_entry_state'[k].version >= l
             /\ account_entry_state'[k].version = l =>
                  account_entry_state'[k].counters = chain[l][k].counters
  <2>1. CASE account_entry_state'[k] = account_entry_state[k]
    BY <1>2, <1>4, <2>1
  <2>2. CASE account_entry_state'[k] # account_entry_state[k]
    <3>1. /\ account_entry_state'[k] # NoRow /\ account_entry_state'[k].version >= account_entry_state[k].version
          /\ account_entry_state'[k].counters = chain[account_entry_state'[k].version][k].counters
      BY <1>2, <1>4, <2>2 DEF Improves
    <3>2. account_entry_state[k].version \in Nat /\ account_entry_state'[k].version \in Nat
      BY <1>2, <1>4, <3>1 DEF RowsInv, StateRecords
    <3> QED
      BY <1>1, <1>2, <1>4, <3>1, <3>2
  <2> QED
    BY <2>1, <2>2
<1> QED
  BY <1>3, <1>4

-----------------------------------------------------------------------------
(* A ledger closes.                                                        *)

\* What a ledger may do to the entries.
Extends(state) ==
    /\ state \in [Keys -> KeyStates] /\ Extend(state)
    /\ \A k \in Keys : state[k] = Entry[k] \/
         /\ state[k].since = Height + 1
         /\ ~ state[k].live => state[k].amount = 0 /\ state[k].counters = 0

LEMMA ClosesLedger ==
    ASSUME SnapshotSeedAssumption, ChainInv,
           \/ \E k \in Keys, v \in Amounts, c \in Counters : ChangeEntry(k, v, c)
           \/ \E k \in Keys : RemoveEntry(k)
           \/ QuietLedger
    PROVE  \E state : Extends(state)
<1>1. Height \in Nat /\ 0 \in Counters
  BY ChainTypes DEF SnapshotSeedAssumption
<1>2. Entry \in [Keys -> KeyStates]
  <2>1. CASE Height = 0
    <3>1. Absent \in KeyStates
      BY <1>1 DEF Absent, KeyStates
    <3> QED
      BY <2>1, <3>1 DEF Entry
  <2> QED
    BY <2>1, EntryIs
<1>3. ASSUME NEW k \in Keys, NEW e \in KeyStates, e.since = Height + 1, ~ e.live => e.amount = 0 /\ e.counters = 0,
             Extend([Entry EXCEPT ![k] = e])
      PROVE  \E state : Extends(state)
  <2>1. [Entry EXCEPT ![k] = e] \in [Keys -> KeyStates]
    BY <1>2
  <2>2. \A j \in Keys : [Entry EXCEPT ![k] = e][j] = IF j = k THEN e ELSE Entry[j]
    BY <1>2
  <2>3. Extends([Entry EXCEPT ![k] = e])
    BY <1>3, <2>1, <2>2 DEF Extends
  <2> QED
    BY <2>3
<1>4. CASE \E k \in Keys, v \in Amounts, c \in Counters : ChangeEntry(k, v, c)
  <2>1. PICK k \in Keys, v \in Amounts, c \in Counters : ChangeEntry(k, v, c)
    BY <1>4
  <2> DEFINE e == [live |-> TRUE, amount |-> v, counters |-> c, since |-> Height + 1]
  <2>2. e \in KeyStates /\ e.since = Height + 1 /\ e.live
    BY <1>1 DEF KeyStates
  <2>3. Extend([Entry EXCEPT ![k] = e])
    BY <2>1 DEF ChangeEntry
  <2> HIDE DEF e
  <2> QED
    BY <1>3, <2>2, <2>3
<1>5. CASE \E k \in Keys : RemoveEntry(k)
  <2>1. PICK k \in Keys : RemoveEntry(k)
    BY <1>5
  <2> DEFINE e == [Absent EXCEPT !.since = Height + 1]
  <2>2. Absent \in KeyStates /\ Absent.amount = 0 /\ Absent.counters = 0
    BY <1>1 DEF Absent, KeyStates
  <2>3. e \in KeyStates /\ e.since = Height + 1 /\ e.amount = 0 /\ e.counters = 0
    BY <1>1, <2>2 DEF KeyStates
  <2>4. Extend([Entry EXCEPT ![k] = e])
    BY <2>1 DEF RemoveEntry
  <2> HIDE DEF e
  <2> QED
    BY <1>3, <2>3, <2>4
<1>6. CASE QuietLedger
  BY <1>2, <1>6 DEF QuietLedger, Extends
<1> QED
  BY <1>4, <1>5, <1>6

LEMMA Grown ==
    ASSUME ChainInv, NEW state, Extends(state)
    PROVE  /\ Height \in Nat /\ Height' = Height + 1 /\ Height' \in 1..Height' /\ Height < MaxLedger
           /\ chain' \in Seq([Keys -> KeyStates])
           /\ \A l \in 1..Height : l \in 1..Height' /\ chain'[l] = chain[l] /\ Touched(l)' = Touched(l)
           /\ chain'[Height'] = state /\ Entry' = state
           /\ \A l \in 1..Height' : l \in 1..Height \/ l = Height'
           /\ Checkpoints \subseteq Checkpoints'
           /\ UNCHANGED <<next, skipped, deployed, reparse, tableVars, seedVars, used>>
<1>1. Height \in Nat /\ Height < MaxLedger /\ chain' = Append(chain, state) /\ state \in [Keys -> KeyStates]
  BY ChainTypes DEF Extends, Extend
<1>2. chain \in Seq([Keys -> KeyStates])
  BY DEF ChainInv
<1>3. chain' \in Seq([Keys -> KeyStates]) /\ Len(chain') = Len(chain) + 1
  BY <1>1, <1>2
<1>4. Height' = Height + 1
  BY <1>3 DEF Height
<1>5. \A l \in 1..Height : chain'[l] = chain[l]
  BY <1>1, <1>2 DEF Height
<1>6. chain'[Height + 1] = state
  BY <1>1, <1>2 DEF Height
<1>7. Entry' = state
  <2>1. Entry' = IF Height' = 0 THEN [k \in Keys |-> Absent] ELSE chain'[Height']
    BY DEF Entry
  <2>2. Height' # 0 /\ chain'[Height'] = state
    BY <1>1, <1>4, <1>6
  <2> QED
    BY <2>1, <2>2
<1>8. \A l \in 1..Height : Touched(l)' = Touched(l)
  BY <1>5 DEF Touched
<1>9. Checkpoints \subseteq Checkpoints'
  BY <1>1, <1>4 DEF Checkpoints
<1>10. UNCHANGED <<next, skipped, deployed, reparse, tableVars, seedVars, used>>
  BY DEF Extends, Extend
<1>11. \A l \in 1..Height' : l \in 1..Height \/ l = Height'
  BY <1>1, <1>4
<1>12. /\ Height' \in 1..Height' /\ chain'[Height'] = state
       /\ \A l \in 1..Height : l \in 1..Height'
  BY <1>1, <1>4, <1>6
<1> QED
  BY <1>1, <1>3, <1>4, <1>5, <1>7, <1>8, <1>9, <1>10, <1>11, <1>12

LEMMA ChainGrown ==
    ASSUME ChainInv, NEW state, Extends(state)
    PROVE  ChainInv'
<1>1. /\ Height \in Nat /\ Height' = Height + 1 /\ chain' \in Seq([Keys -> KeyStates])
      /\ \A l \in 1..Height : chain'[l] = chain[l]
      /\ chain'[Height'] = state
      /\ \A l \in 1..Height' : l \in 1..Height \/ l = Height'
  BY Grown
<1>2. ASSUME NEW l \in 1..Height', NEW k \in Keys
      PROVE  /\ chain'[l][k].since <= l
             /\ chain'[l][k].since = 0 => chain'[l][k] = Absent
             /\ ~ chain'[l][k].live => chain'[l][k].amount = 0 /\ chain'[l][k].counters = 0
             /\ \A m \in 1..l : chain'[l][k].since <= m => chain'[m][k] = chain'[l][k]
  <2>1. CASE l \in 1..Height
    <3>1. \A m \in 1..l : m \in 1..Height
      BY <1>1, <2>1
    <3>2. /\ chain[l][k].since <= l
          /\ chain[l][k].since = 0 => chain[l][k] = Absent
          /\ ~ chain[l][k].live => chain[l][k].amount = 0 /\ chain[l][k].counters = 0
          /\ \A m \in 1..l : chain[l][k].since <= m => chain[m][k] = chain[l][k]
      BY <2>1 DEF ChainInv
    <3> QED
      BY <1>1, <2>1, <3>1, <3>2
  <2>2. CASE l = Height'
    <3>1. chain'[l][k] = state[k]
      BY <1>1, <2>2
    <3>2. CASE state[k].since = Height + 1 /\ (~ state[k].live => state[k].amount = 0 /\ state[k].counters = 0)
      <4>1. \A m \in 1..l : state[k].since <= m => m = l
        BY <1>1, <2>2, <3>2
      <4> QED
        BY <1>1, <2>2, <3>1, <3>2, <4>1
    <3>3. CASE state[k] = Entry[k]
      <4>1. CASE Height = 0
        <5>1. state[k] = Absent
          BY <3>3, <4>1, EntryIs
        <5>2. \A m \in 1..l : m = l
          BY <1>1, <2>2, <4>1
        <5> QED
          BY <1>1, <2>2, <3>1, <4>1, <5>1, <5>2 DEF Absent
      <4>2. CASE Height > 0
        <5>1. Height \in 1..Height /\ state[k] = chain[Height][k]
          BY <3>3, <4>2, EntryIs
        <5>2. /\ state[k].since \in 0..Height /\ (state[k].since = 0 => state[k] = Absent)
              /\ ~ state[k].live => state[k].amount = 0 /\ state[k].counters = 0
              /\ \A m \in 1..Height : state[k].since <= m => chain[m][k] = state[k]
          BY <5>1, Lasts
        <5>3. ASSUME NEW m \in 1..l, state[k].since <= m PROVE chain'[m][k] = state[k]
          <6>1. CASE m = l
            BY <3>1, <6>1
          <6>2. CASE m # l
            <7>1. m \in 1..Height
              BY <1>1, <2>2, <6>2
            <7> QED
              BY <1>1, <5>2, <5>3, <7>1
          <6> QED
            BY <6>1, <6>2
        <5> QED
          BY <1>1, <2>2, <3>1, <5>2, <5>3
      <4> QED
        BY <1>1, <4>1, <4>2
    <3> QED
      BY <3>2, <3>3 DEF Extends
  <2> QED
    BY <1>1, <2>1, <2>2
<1> QED
  BY <1>1, <1>2 DEF ChainInv

\* What did not change up to ledger l has not changed now.
LEMMA GrownRests ==
    ASSUME ChainInv, NEW state, Extends(state), NEW k \in Keys, NEW l \in Nat, l <= Height, Rests(k, l)'
    PROVE  /\ Rests(k, l) /\ Entry'[k] = Entry[k]
           /\ Right(k)' = Right(k) /\ PoolShown(k)' = PoolShown(k)
           /\ k \in Native => CountersShown(k)' = CountersShown(k)
<1>1. Height \in Nat /\ Entry' = state /\ UNCHANGED <<rows, account_entry_state>>
  BY Grown DEF tableVars
<1>2. state[k].since <= l
  BY <1>1 DEF Rests
<1>3. state[k] = Entry[k]
  BY <1>1, <1>2 DEF Extends
<1> QED
  BY <1>1, <1>2, <1>3 DEF Rests, Right, PoolShown, CountersShown

LEMMA GrowthKeeps ==
    ASSUME SnapshotSeedAssumption, SnapshotInv, NEW state, Extends(state)
    PROVE  SnapshotInv'
<1>1. /\ IndexInv /\ ChainInv /\ RowsInv /\ CoverageInv /\ SettledInv /\ SeedInv /\ ReadInv /\ InsertInv
      /\ seed = Idle \/ seed.pc \in {"read", "insert"}
      /\ settled \in Nat
  BY DEF SnapshotInv
<1>2. /\ Height \in Nat /\ Height' = Height + 1 /\ Height < MaxLedger
      /\ \A l \in 1..Height : l \in 1..Height' /\ chain'[l] = chain[l] /\ Touched(l)' = Touched(l)
      /\ Checkpoints \subseteq Checkpoints' /\ Checkpoints \subseteq 1..Height
      /\ UNCHANGED <<next, skipped, deployed, reparse, rows, account_entry_state, defined, seed, settled>>
  BY <1>1, Grown, ChainTypes DEF tableVars, seedVars
<1>3. IndexInv'
  <2>1. MaxLedger \in Nat
    BY DEF SnapshotSeedAssumption
  <2> QED
    BY <1>1, <1>2, <2>1 DEF IndexInv
<1>4. ChainInv'
  BY <1>1, ChainGrown
<1>5. RowsInv'
  <2>1. \A k \in Keys : Faithful(k, rows[k])'
    <3> TAKE k \in Keys
    <3>1. PICK row : row = rows[k]
      OBVIOUS
    <3>2. Faithful(k, row)
      BY <1>1, <3>1 DEF RowsInv
    <3>3. Faithful(k, row)'
      BY <1>1, <1>2, <3>2, FaithfulStays DEF IndexInv
    <3> QED
      BY <1>2, <3>1, <3>3
  <2>2. \A k \in Native : account_entry_state[k] # NoRow =>
          /\ account_entry_state[k].version \in 1..Height'
          /\ chain'[account_entry_state[k].version][k].since = account_entry_state[k].version
    BY <1>1, <1>2 DEF RowsInv
  <2>3. RowsAreDefined'
    BY <1>1, <1>2 DEF RowsInv, RowsAreDefined, NoRow
  <2>4. /\ rows \in [Keys -> RowRecords \cup {NoRow}]
        /\ account_entry_state \in [Native -> StateRecords \cup {NoRow}]
        /\ defined \subseteq Keys
    BY <1>1 DEF RowsInv
  <2> QED
    BY <1>2, <2>1, <2>2, <2>3, <2>4 DEF RowsInv, NoRow
<1>6. \A l \in (Floor + 1)..(next - 1) : l \in 1..Height
  <2>1. Floor \in Nat
    BY DEF SnapshotSeedAssumption
  <2> QED
    BY <1>1, <1>2, <2>1 DEF IndexInv
<1>7. CoverageInv'
  <2>1. \A l \in (Floor + 1)..(next - 1) : Covered(l) => Covered(l)'
    <3> TAKE l \in (Floor + 1)..(next - 1)
    <3>1. Improves
      BY <1>2 DEF Improves
    <3>2. /\ \A k \in Keys : rows'[k] \in RowRecords \cup {NoRow}
          /\ \A k \in Native : account_entry_state'[k] \in StateRecords \cup {NoRow}
      BY <1>1, <1>2 DEF RowsInv
    <3> QED
      BY <1>1, <1>2, <1>6, <3>1, <3>2, CoveredStays
  <2>2. StoredLedgers' = StoredLedgers /\ \A l \in StoredLedgers : l \in (Floor + 1)..(next - 1)
    BY <1>2 DEF StoredLedgers
  <2>3. /\ (seed # Idle \/ settled > 0) /\ Keys \ Pools # {} => deployed >= 0
        /\ deployed >= 0 => \A l \in StoredLedgers : l > deployed => Covered(l)
        /\ \A k \in Claims : rows[k] # NoRow /\ rows[k].closed # 0 =>
             \A l \in StoredLedgers \ reparse : l > rows[k].closed => Covered(l)
        /\ seed # Idle => \A l \in StoredLedgers : l > seed.upto => Covered(l)
        /\ settled > 0 => \A l \in StoredLedgers : l > settled => Covered(l)
        /\ reparse # {} => \A l \in ((Floor + 1)..(next - 1)) \ reparse :
             l \notin skipped \/ l <= settled => Covered(l)
        /\ \A l \in StoredLedgers, k \in Pools : k \in Touched(l) /\ chain[l][k].live =>
             rows[k] # NoRow /\ rows[k].version >= l
    BY <1>1 DEF CoverageInv
  <2>4. \A l \in StoredLedgers, k \in Pools : k \in Touched(l)' /\ chain'[l][k].live =>
             rows[k] # NoRow /\ rows[k].version >= l
    BY <1>2, <1>6, <2>2, <2>3
  <2> QED
    BY <1>2, <2>1, <2>2, <2>3, <2>4 DEF CoverageInv, Idle, NoRow
<1>8. SettledInv'
  <2> SUFFICES ASSUME settled > 0
               PROVE  /\ settled < next' /\ \E c \in Checkpoints' : settled <= c
                      /\ \A k \in Keys \ Pools : Rests(k, settled)' => Right(k)' \/ Entry'[k].since \in reparse
                      /\ \A k \in Pools : Rests(k, settled)' => PoolShown(k)'
                      /\ \A k \in Native : Rests(k, settled)' => CountersShown(k)'
    BY <1>2 DEF SettledInv
  <2>1. PICK s \in Nat : s = settled
    BY <1>1
  <2>2. s <= Height /\ s < next /\ \E c \in Checkpoints : s <= c
    <3>1. s < next /\ \E c \in Checkpoints : s <= c
      BY <1>1, <2>1 DEF SettledInv
    <3>2. PICK c \in Checkpoints : s <= c
      BY <3>1
    <3>3. c \in Nat /\ c <= Height
      BY <1>1, ChainTypes
    <3>4. s <= Height
      BY <1>2, <3>2, <3>3
    <3> QED
      BY <3>1, <3>4
  <2>3. ASSUME NEW k \in Keys, Rests(k, s)'
        PROVE  /\ Rests(k, s) /\ Entry'[k] = Entry[k]
               /\ Right(k)' = Right(k) /\ PoolShown(k)' = PoolShown(k)
               /\ k \in Native => CountersShown(k)' = CountersShown(k)
    BY <1>1, <2>2, <2>3, GrownRests
  <2>4. \A k \in Keys : Rests(k, settled)' <=> Rests(k, s)'
    BY <1>2, <2>1 DEF Rests
  <2>5. \A k \in Keys : Rests(k, settled) <=> Rests(k, s)
    BY <2>1
  <2> QED
    BY <1>1, <1>2, <2>1, <2>2, <2>3, <2>4, <2>5, Kinds DEF SettledInv
<1>9. SeedInv'
  <2> SUFFICES ASSUME seed # Idle PROVE SeedInv'
    BY <1>2 DEF SeedInv
  <2>1. PICK c \in 1..Height : c = seed.checkpoint
    BY <1>1, <1>2 DEF SeedInv
  <2>2. \A k \in Keys : Sound(k, seed.fix[k], seed.checkpoint) => Sound(k, seed.fix[k], seed.checkpoint)'
    BY <1>2, <2>1 DEF Sound, NoRow
  <2>3. /\ reparse = {} /\ seed.checkpoint \in Checkpoints /\ settled <= seed.checkpoint
        /\ seed.upto \in Nat /\ seed.upto <= seed.checkpoint /\ seed.upto < next
        /\ Native \cup Lines # {} => deployed < seed.checkpoint
        /\ seed.todo \subseteq Keys /\ seed.known \subseteq defined
        /\ seed.matched \subseteq Keys \ Pools /\ \A k \in seed.matched : rows[k] # NoRow
        /\ seed.fix \in [Keys -> RowRecords \cup {NoRow}]
        /\ \A k \in Keys : Sound(k, seed.fix[k], seed.checkpoint)
    BY <1>1 DEF SeedInv
  <2> QED
    BY <1>2, <2>2, <2>3 DEF SeedInv, NoRow
<1>10. ASSUME seed # Idle
       PROVE  /\ seed.checkpoint \in 1..Height
              /\ \A k \in Keys : Rests(k, seed.upto)' =>
                   /\ Rests(k, seed.upto) /\ Right(k)' = Right(k) /\ PoolShown(k)' = PoolShown(k)
                   /\ k \in Native => CountersShown(k)' = CountersShown(k)
  <2>1. PICK u \in Nat : u = seed.upto
    BY <1>1, <1>10 DEF SeedInv
  <2>2. seed.checkpoint \in 1..Height /\ u <= Height
    <3>1. seed.checkpoint \in 1..Height /\ u <= seed.checkpoint
      BY <1>1, <1>2, <1>10, <2>1 DEF SeedInv
    <3> QED
      BY <1>2, <3>1
  <2>3. ASSUME NEW k \in Keys, Rests(k, u)'
        PROVE  /\ Rests(k, u) /\ Right(k)' = Right(k) /\ PoolShown(k)' = PoolShown(k)
               /\ k \in Native => CountersShown(k)' = CountersShown(k)
    BY <1>1, <2>2, <2>3, GrownRests
  <2>4. \A k \in Keys : Rests(k, seed.upto)' <=> Rests(k, u)'
    BY <1>2, <2>1 DEF Rests
  <2>5. \A k \in Keys : Rests(k, seed.upto) <=> Rests(k, u)
    BY <2>1
  <2> QED
    BY <2>2, <2>3, <2>4, <2>5
<1>11. \A k : Corrected(k)' = Corrected(k) /\ Pending(k)' = Pending(k)
  BY <1>2 DEF Corrected, Pending, Slot, NoRow
<1>12. ReadInv'
  <2> SUFFICES ASSUME seed.pc = "read" PROVE ReadInv'
    BY <1>2 DEF ReadInv
  <2>1. seed # Idle
    BY DEF Idle
  <2> QED
    BY <1>1, <1>2, <1>10, <1>11, <2>1 DEF ReadInv, NoRow
<1>13. InsertInv'
  <2> SUFFICES ASSUME seed.pc = "insert" PROVE InsertInv'
    BY <1>2 DEF InsertInv
  <2>1. seed # Idle
    BY DEF Idle
  <2>2. chain'[seed.checkpoint] = chain[seed.checkpoint]
    BY <1>2, <1>10, <2>1
  <2>3. \A k : Absentee(k)' = Absentee(k)
    BY <1>2, <2>2 DEF Absentee
  <2> QED
    BY <1>1, <1>2, <1>10, <1>11, <2>1, <2>2, <2>3, Kinds DEF InsertInv, NoRow
<1> QED
  BY <1>1, <1>2, <1>3, <1>4, <1>5, <1>7, <1>8, <1>9, <1>12, <1>13 DEF SnapshotInv, Idle

-----------------------------------------------------------------------------
(* The indexer leaves a ledger out, is deployed, begins a re-parse.         *)

LEMMA IndexStep ==
    ASSUME SnapshotSeedAssumption, SnapshotInv, UNCHANGED <<chain, tableVars, seedVars>>,
           IndexInv', CoverageInv', next <= next', reparse \subseteq reparse',
           deployed' = deployed \/ (deployed < 0 /\ deployed' = Height),
           seed # Idle => reparse' = {} /\ (Native \cup Lines # {} => deployed' < seed.checkpoint)
    PROVE  SnapshotInv'
<1>1. /\ IndexInv /\ ChainInv /\ RowsInv /\ SettledInv /\ SeedInv /\ ReadInv /\ InsertInv
      /\ seed = Idle \/ seed.pc \in {"read", "insert"}
      /\ settled \in Nat
  BY DEF SnapshotInv
<1>2. /\ UNCHANGED <<chain, rows, account_entry_state, defined, seed, settled>>
      /\ Height' = Height /\ Entry' = Entry /\ Checkpoints' = Checkpoints
      /\ \A l : Touched(l)' = Touched(l)
  BY DEF tableVars, seedVars, Height, Entry, Checkpoints, Touched
<1>3. ChainInv'
  BY <1>1, <1>2 DEF ChainInv
<1>4. RowsInv'
  <2>1. \A k \in Keys : Faithful(k, rows[k])'
    <3> TAKE k \in Keys
    <3>1. PICK row : row = rows[k]
      OBVIOUS
    <3>2. Faithful(k, row) /\ Height \in Nat /\ deployed \in Int
      BY <1>1, <3>1, ChainTypes DEF RowsInv, IndexInv
    <3>3. Faithful(k, row)'
      BY <1>1, <1>2, <3>2, FaithfulStays
    <3> QED
      BY <1>2, <3>1, <3>3
  <2> QED
    BY <1>1, <1>2, <2>1 DEF RowsInv, RowsAreDefined, NoRow
<1>5. \A k : /\ Right(k)' = Right(k) /\ PoolShown(k)' = PoolShown(k)
             /\ CountersShown(k)' = CountersShown(k) /\ Corrected(k)' = Corrected(k)
             /\ Pending(k)' = Pending(k) /\ Absentee(k)' = Absentee(k)
             /\ Rests(k, settled)' = Rests(k, settled) /\ Rests(k, seed.upto)' = Rests(k, seed.upto)
  BY <1>2 DEF Right, PoolShown, CountersShown, Corrected, Pending, Slot, Absentee, Rests, NoRow
<1>6. SettledInv'
  <2> SUFFICES ASSUME settled > 0 PROVE SettledInv'
    BY <1>2 DEF SettledInv
  <2>1. settled < next'
    BY <1>1 DEF SettledInv, IndexInv
  <2> QED
    BY <1>1, <1>2, <1>5, <2>1 DEF SettledInv
<1>7. SeedInv'
  <2> SUFFICES ASSUME seed # Idle PROVE SeedInv'
    BY <1>2 DEF SeedInv
  <2>1. seed.upto < next'
    BY <1>1 DEF SeedInv, IndexInv
  <2>2. \A k : Sound(k, seed.fix[k], seed.checkpoint)' = Sound(k, seed.fix[k], seed.checkpoint)
    BY <1>2 DEF Sound, NoRow
  <2> QED
    BY <1>1, <1>2, <2>1, <2>2 DEF SeedInv, NoRow
<1>8. ReadInv'
  BY <1>1, <1>2, <1>5 DEF ReadInv, NoRow
<1>9. InsertInv'
  BY <1>1, <1>2, <1>5 DEF InsertInv, NoRow
<1> QED
  BY <1>1, <1>2, <1>3, <1>4, <1>6, <1>7, <1>8, <1>9 DEF SnapshotInv, Idle

LEMMA SkipKeeps ==
    ASSUME SnapshotSeedAssumption, SnapshotInv, SkipNext
    PROVE  SnapshotInv'
<1>1. /\ IndexInv /\ ChainInv /\ CoverageInv /\ SettledInv /\ SeedInv /\ settled \in Nat /\ Floor \in Nat
      /\ next <= Height /\ skipped' = skipped \cup {next} /\ next' = next + 1
      /\ UNCHANGED <<chain, deployed, reparse, rows, account_entry_state, defined, seed, settled>>
      /\ Height' = Height /\ Height \in Nat
  BY ChainTypes DEF SnapshotInv, SkipNext, SnapshotSeedAssumption, tableVars, seedVars, Height
<1>2. IndexInv'
  BY <1>1 DEF IndexInv
<1>3. CoverageInv'
  <2>1. StoredLedgers' = StoredLedgers
    BY <1>1 DEF StoredLedgers, IndexInv
  <2>2. \A l : Covered(l)' = Covered(l) /\ Touched(l)' = Touched(l)
    BY <1>1 DEF Covered, Touched, NoRow
  <2>3. ASSUME NEW l \in ((Floor + 1)..(next' - 1)) \ reparse, l \notin skipped' \/ l <= settled, reparse # {}
        PROVE  Covered(l)
    <3>1. settled < next
      BY <1>1 DEF SettledInv, IndexInv
    <3>2. l \in ((Floor + 1)..(next - 1)) \ reparse /\ (l \notin skipped \/ l <= settled)
      BY <1>1, <2>3, <3>1 DEF IndexInv
    <3> QED
      BY <1>1, <2>3, <3>2 DEF CoverageInv
  <2> QED
    BY <1>1, <2>1, <2>2, <2>3 DEF CoverageInv, Idle, NoRow
<1>4. seed # Idle => reparse' = {} /\ (Native \cup Lines # {} => deployed' < seed.checkpoint)
  BY <1>1 DEF SeedInv
<1>5. next <= next'
  BY <1>1 DEF IndexInv
<1> QED
  BY <1>1, <1>2, <1>3, <1>4, <1>5, IndexStep DEF tableVars, seedVars

LEMMA DeployKeeps ==
    ASSUME SnapshotSeedAssumption, SnapshotInv, Deploy
    PROVE  SnapshotInv'
<1>1. /\ IndexInv /\ ChainInv /\ CoverageInv /\ RowsInv /\ SeedInv /\ settled \in Nat /\ Floor \in Nat
      /\ deployed < 0 /\ deployed' = Height
      /\ UNCHANGED <<chain, next, skipped, reparse, rows, account_entry_state, defined, seed, settled>>
      /\ Height' = Height /\ Height \in Nat
  BY ChainTypes DEF SnapshotInv, Deploy, SnapshotSeedAssumption, tableVars, seedVars, Height
<1>2. IndexInv'
  BY <1>1 DEF IndexInv
<1>3. reparse = {} /\ (seed # Idle \/ settled > 0 => Keys \ Pools = {})
  BY <1>1 DEF IndexInv, CoverageInv
<1>4. CoverageInv'
  <2>1. StoredLedgers' = StoredLedgers /\ \A l \in StoredLedgers : ~ (l > Height)
    BY <1>1 DEF StoredLedgers, IndexInv
  <2>2. \A l : Covered(l)' = Covered(l) /\ Touched(l)' = Touched(l)
    BY <1>1 DEF Covered, Touched, NoRow
  <2> QED
    BY <1>1, <1>3, <2>1, <2>2 DEF CoverageInv, Idle, NoRow
<1>5. seed # Idle => reparse' = {} /\ (Native \cup Lines # {} => deployed' < seed.checkpoint)
  BY <1>1, <1>3, Kinds DEF SeedInv
<1> QED
  BY <1>1, <1>2, <1>4, <1>5, IndexStep DEF tableVars, seedVars, IndexInv

LEMMA StartReparseKeeps ==
    ASSUME SnapshotSeedAssumption, SnapshotInv, StartReparse
    PROVE  SnapshotInv'
<1>1. /\ IndexInv /\ ChainInv /\ CoverageInv /\ SeedInv /\ settled \in Nat /\ Floor \in Nat
      /\ reparse = {} /\ seed.pc = "idle" /\ deployed >= 0 /\ reparse' = (Floor + 1)..(next - 1)
      /\ UNCHANGED <<chain, next, skipped, deployed, rows, account_entry_state, defined, seed, settled>>
      /\ Height' = Height /\ Height \in Nat
      /\ seed = Idle \/ seed.pc \in {"read", "insert"}
  BY ChainTypes DEF SnapshotInv, StartReparse, SnapshotSeedAssumption, tableVars, seedVars, Height
<1>2. IndexInv' /\ seed = Idle
  BY <1>1 DEF IndexInv
<1>3. CoverageInv'
  <2>1. StoredLedgers' = StoredLedgers /\ StoredLedgers \ reparse' \subseteq StoredLedgers \ reparse
    BY <1>1 DEF StoredLedgers
  <2>2. \A l : Covered(l)' = Covered(l) /\ Touched(l)' = Touched(l)
    BY <1>1 DEF Covered, Touched, NoRow
  <2> QED
    BY <1>1, <1>2, <2>1, <2>2 DEF CoverageInv, Idle, NoRow
<1> QED
  BY <1>1, <1>2, <1>3, IndexStep DEF tableVars, seedVars, IndexInv

-----------------------------------------------------------------------------
(* A ledger is stored, by the live indexer or by a re-parse.               *)

LEMMA StoredRows ==
    ASSUME SnapshotSeedAssumption, IndexInv, ChainInv, RowsInv, NEW l \in 1..Height, StoreRows(l),
           chain' = chain, deployed' = deployed
    PROVE  RowsInv'
<1>1. Height' = Height /\ deployed \in Int /\ Height \in Nat
  BY ChainTypes DEF Height, IndexInv
<1>2. ASSUME NEW k \in Keys PROVE Faithful(k, rows[k])' /\ (rows'[k] # NoRow => k \in defined')
  <2>1. PICK row : row = rows'[k]
    OBVIOUS
  <2>2. Faithful(k, rows[k]) /\ (k \in Touched(l) => Faithful(k, RowOf(l, k)))
    BY <1>1, RowOfIs DEF RowsInv
  <2>3. row = rows[k] \/ (k \in Touched(l) /\ RowOf(l, k) # NoRow /\ row = RowOf(l, k))
    BY <2>1, Storing
  <2>4. Faithful(k, row)
    BY <2>2, <2>3
  <2>5. Faithful(k, row)'
    BY <1>1, <2>4, FaithfulStays
  <2>6. row # NoRow => k \in defined'
    BY <2>3 DEF StoreRows, RowsInv, RowsAreDefined
  <2> QED
    BY <2>1, <2>5, <2>6
<1>3. ASSUME NEW k \in Native, account_entry_state'[k] # NoRow
      PROVE  /\ account_entry_state'[k].version \in 1..Height
             /\ chain[account_entry_state'[k].version][k].since = account_entry_state'[k].version
  <2>1. CASE account_entry_state'[k] = account_entry_state[k]
    BY <1>3, <2>1 DEF RowsInv
  <2>2. CASE account_entry_state'[k] # account_entry_state[k]
    <3>1. k \in Touched(l) /\ chain[l][k].live /\ account_entry_state'[k] = StateOf(l, k)
      BY <2>2, Storing
    <3>2. account_entry_state'[k].version = l
      BY <3>1, StateOfIs
    <3> QED
      BY <3>1, <3>2 DEF Touched
  <2> QED
    BY <2>1, <2>2
<1>4. defined' \subseteq Keys
  BY DEF StoreRows, Touched, RowsInv
<1>5. /\ \A k \in Keys : rows'[k] \in RowRecords \cup {NoRow}
      /\ \A k \in Native : account_entry_state'[k] \in StateRecords \cup {NoRow}
  BY Storing
<1>6. /\ rows' \in [Keys -> RowRecords \cup {NoRow}]
      /\ account_entry_state' \in [Native -> StateRecords \cup {NoRow}]
  BY <1>5 DEF StoreRows
<1> QED
  BY <1>1, <1>2, <1>3, <1>4, <1>6 DEF RowsInv, RowsAreDefined, NoRow

\* By the deployed writer: all that was covered stays so, and so is the ledger.
LEMMA StoredCoverage ==
    ASSUME SnapshotSeedAssumption, IndexInv, ChainInv, RowsInv, NEW l \in 1..Height, StoreRows(l),
           chain' = chain, deployed' = deployed, deployed >= 0 \/ Keys \ Pools = {}
    PROVE  /\ \A m \in 1..Height : Covered(m) \/ m = l => Covered(m)'
           /\ \A k \in Touched(l) \ Pools : ~ chain[l][k].live /\ rows'[k].version = l => rows'[k].closed # 0
<1>1. deployed \in Int /\ \A m : Touched(m)' = Touched(m) /\ Touched(m) \subseteq Keys
  BY ChainTypes DEF IndexInv, Touched
<1>2. CASE Keys \ Pools = {}
  BY <1>1, <1>2 DEF Covered
<1>3. CASE deployed >= 0
  <2>1. ASSUME NEW k \in Touched(l) \ Pools
        PROVE  /\ rows'[k] # NoRow /\ rows'[k].version >= l
               /\ rows'[k].version = l /\ ~ chain[l][k].live => rows'[k].closed # 0
    <3>1. /\ k \in Keys /\ RowOf(l, k) # NoRow /\ RowOf(l, k).version = l /\ l \in Nat
          /\ ~ chain[l][k].live => RowOf(l, k).closed # 0
      BY <1>1, <1>3, RowOfIs, ChainTypes
    <3>2. rows'[k] = RowOf(l, k) \/ (rows[k] # NoRow /\ rows[k].version > l /\ rows'[k] = rows[k])
      BY <3>1, Storing
    <3>3. rows[k] # NoRow => rows[k].version \in Nat
      BY <3>1 DEF RowsInv, RowRecords
    <3> QED
      BY <3>1, <3>2, <3>3
  <2>2. ASSUME NEW k \in Native, k \in Touched(l), chain[l][k].live
        PROVE  /\ account_entry_state'[k] # NoRow /\ account_entry_state'[k].version >= l
               /\ account_entry_state'[k].version = l =>
                    account_entry_state'[k].counters = chain[l][k].counters
    <3>1. /\ l \in Nat /\ StateOf(l, k) # NoRow /\ StateOf(l, k).version = l
          /\ StateOf(l, k).counters = chain[l][k].counters
      BY <1>1, <1>3, <2>2, StateOfIs, ChainTypes
    <3>2. \/ account_entry_state'[k] = StateOf(l, k)
          \/ /\ account_entry_state[k] # NoRow /\ account_entry_state[k].version > l
             /\ account_entry_state'[k] = account_entry_state[k]
      BY <2>2, Storing
    <3>3. account_entry_state[k] # NoRow => account_entry_state[k].version \in Nat
      BY DEF RowsInv, StateRecords
    <3> QED
      BY <3>1, <3>2, <3>3
  <2>3. Covered(l)'
    BY <1>1, <2>1, <2>2 DEF Covered, NoRow
  <2>4. Improves
    <3>1. ASSUME NEW k \in Keys \ Pools, rows'[k] # rows[k]
          PROVE  /\ rows'[k] # NoRow
                 /\ rows[k] # NoRow => rows'[k].version >= rows[k].version
                 /\ ~ chain[rows'[k].version][k].live => rows'[k].closed # 0
      <4>1. k \in Touched(l) /\ RowOf(l, k) # NoRow /\ rows'[k] = RowOf(l, k)
        BY <3>1, Storing
      <4>2. rows'[k].version = l
        BY <4>1, RowOfIs
      <4>3. rows[k] # NoRow => rows'[k].version >= rows[k].version
        BY Storing
      <4> QED
        BY <2>1, <4>1, <4>2, <4>3
    <3>2. ASSUME NEW k \in Native, account_entry_state'[k] # account_entry_state[k]
          PROVE  /\ account_entry_state'[k] # NoRow
                 /\ account_entry_state[k] # NoRow =>
                      account_entry_state'[k].version >= account_entry_state[k].version
                 /\ account_entry_state'[k].counters = chain[account_entry_state'[k].version][k].counters
      <4>1. k \in Touched(l) /\ chain[l][k].live /\ account_entry_state'[k] = StateOf(l, k)
        BY <3>2, Storing
      <4>2. account_entry_state'[k].version = l
        BY <4>1, StateOfIs
      <4>3. account_entry_state[k] # NoRow =>
              account_entry_state'[k].version >= account_entry_state[k].version
        BY Storing
      <4> QED
        BY <2>2, <4>1, <4>2, <4>3
    <3> QED
      BY <3>1, <3>2 DEF Improves
  <2>5. /\ \A k \in Keys : rows'[k] \in RowRecords \cup {NoRow}
        /\ \A k \in Native : account_entry_state'[k] \in StateRecords \cup {NoRow}
    BY Storing
  <2>6. \A m \in 1..Height : Covered(m) => Covered(m)'
    BY <2>4, <2>5, CoveredStays
  <2> QED
    BY <2>1, <2>3, <2>6
<1> QED
  BY <1>2, <1>3

LEMMA Within ==
    ASSUME NEW a \in Nat, NEW m \in Nat, NEW n \in Nat, NEW h \in Nat, n <= h + 1, m <= n
    PROVE  /\ \A l \in (a + 1)..(n - 1) : l \in 1..h /\ l \in Nat
           /\ (a + 1)..(m - 1) \subseteq (a + 1)..(n - 1)
  OBVIOUS

LEMMA StoringKeeps ==
    ASSUME SnapshotSeedAssumption, SnapshotInv, NEW l \in (Floor + 1)..(next' - 1), StoreRows(l),
           UNCHANGED <<chain, deployed, seedVars>>,
           \/ l = next /\ next <= Height /\ next' = next + 1 /\ UNCHANGED <<skipped, reparse>>
           \/ l \in reparse /\ next' = next /\ skipped' = skipped \ {l} /\ reparse' = reparse \ {l}
    PROVE  SnapshotInv'
<1>1. /\ IndexInv /\ ChainInv /\ RowsInv /\ CoverageInv /\ SettledInv /\ SeedInv /\ ReadInv /\ InsertInv
      /\ seed = Idle \/ seed.pc \in {"read", "insert"}
      /\ settled \in Nat /\ Floor \in Nat /\ Height \in Nat /\ Height' = Height
      /\ UNCHANGED <<chain, deployed, seed, settled>>
      /\ Checkpoints' = Checkpoints /\ Entry' = Entry
      /\ \A m : Touched(m)' = Touched(m)
  BY ChainTypes DEF SnapshotInv, SnapshotSeedAssumption, Height, seedVars, Checkpoints, Entry, Touched
<1>2. /\ IndexInv' /\ l \in 1..Height /\ l \in Nat /\ next \in Nat /\ next <= next'
      /\ \A m \in (Floor + 1)..(next' - 1) : m \in 1..Height
  <2>1. next \in Nat /\ Floor < next /\ (next <= Height + 1 \/ next = Floor + 1)
    BY <1>1 DEF IndexInv
  <2>2. next' \in Nat /\ next <= next' /\ next' <= Height + 1
    BY <1>1, <2>1
  <2>3. /\ \A m \in (Floor + 1)..(next' - 1) : m \in 1..Height /\ m \in Nat
        /\ (Floor + 1)..(next - 1) \subseteq (Floor + 1)..(next' - 1)
    BY <1>1, <2>1, <2>2, Within
  <2>4. skipped \subseteq (Floor + 1)..(next - 1) /\ reparse \subseteq (Floor + 1)..(next - 1)
    BY <1>1 DEF IndexInv
  <2>5. skipped' \subseteq skipped /\ reparse' \subseteq reparse
    OBVIOUS
  <2>6. /\ skipped' \subseteq (Floor + 1)..(next' - 1) /\ reparse' \subseteq (Floor + 1)..(next' - 1)
        /\ Floor < next' /\ next' <= Height' + 1
    <3>1. Floor < next'
      BY <1>1, <2>1, <2>2
    <3> QED
      BY <1>1, <2>2, <2>3, <2>4, <2>5, <3>1
  <2>7. /\ Height' <= MaxLedger /\ deployed' \in -1..Height'
        /\ reparse' # {} => deployed' >= 0
    BY <1>1, <2>5 DEF IndexInv
  <2>8. IndexInv'
    BY <2>2, <2>6, <2>7 DEF IndexInv
  <2> QED
    BY <2>1, <2>2, <2>3, <2>8
<1>3. RowsInv' /\ ChainInv'
  BY <1>1, <1>2, StoredRows DEF ChainInv
<1>4. /\ \A k \in Keys :
           /\ rows[k] # NoRow => rows'[k] # NoRow /\ rows'[k].version >= rows[k].version
           /\ rows'[k] = rows[k] \/ (k \in Touched(l) /\ RowOf(l, k) # NoRow /\ rows'[k] = RowOf(l, k))
           /\ k \notin Touched(l) => rows'[k] = rows[k]
           /\ k \in Touched(l) /\ RowOf(l, k) # NoRow =>
                IF rows[k] # NoRow /\ rows[k].version > l
                THEN rows'[k] = rows[k] ELSE rows'[k] = RowOf(l, k)
      /\ \A k \in Native : k \notin Touched(l) => account_entry_state'[k] = account_entry_state[k]
  BY <1>1, <1>2, Storing
<1>5. deployed >= 0 \/ Keys \ Pools = {} =>
        /\ \A m \in 1..Height : Covered(m) \/ m = l => Covered(m)'
        /\ \A k \in Touched(l) \ Pools : ~ chain[l][k].live /\ rows'[k].version = l => rows'[k].closed # 0
  BY <1>1, <1>2, StoredCoverage
<1>6. \A m \in StoredLedgers' : m \in 1..Height /\ (m \in StoredLedgers \/ m = l)
  BY <1>1, <1>2 DEF StoredLedgers
<1>7. reparse # {} => deployed >= 0
  BY <1>1 DEF IndexInv
<1>8. CoverageInv'
  <2>1. (seed # Idle \/ settled > 0) => deployed >= 0 \/ Keys \ Pools = {}
    BY <1>1 DEF CoverageInv
  <2>2. ASSUME deployed >= 0, NEW m \in StoredLedgers', m > deployed PROVE Covered(m)'
    BY <1>1, <1>5, <1>6, <2>2 DEF CoverageInv
  <2>3. ASSUME NEW k \in Claims, rows'[k] # NoRow, rows'[k].closed # 0,
               NEW m \in StoredLedgers' \ reparse', m > rows'[k].closed
        PROVE  Covered(m)'
    <3>1. /\ k \in Keys /\ deployed \in Int /\ (k \in Touched(l) => Faithful(k, RowOf(l, k)))
          /\ Faithful(k, rows[k])
      BY <1>1, <1>2, Kinds, RowOfIs, ChainTypes DEF IndexInv, RowsInv
    <3>2. CASE rows'[k] = rows[k]
      <4>1. deployed >= 0
        BY <2>3, <3>1, <3>2 DEF Faithful
      <4>2. m = l \/ m \in StoredLedgers \ reparse
        BY <1>1, <1>6
      <4>3. Covered(m) \/ m = l
        BY <1>1, <2>3, <3>2, <4>2 DEF CoverageInv
      <4> QED
        BY <1>5, <1>6, <4>1, <4>3
    <3>3. CASE rows'[k] # rows[k]
      <4>1. /\ k \in Touched(l) /\ RowOf(l, k) # NoRow /\ rows'[k] = RowOf(l, k)
            /\ RowOf(l, k).version = l
        BY <1>1, <1>2, <1>4, <3>1, <3>3, RowOfIs
      <4>2. deployed >= 0 /\ rows'[k].closed = l
        BY <2>3, <3>1, <4>1 DEF Faithful
      <4>3. m > l /\ m \in 1..Height /\ m \in StoredLedgers
        BY <1>2, <1>6, <2>3, <4>2
      <4>4. m \in (Floor + 1)..(next - 1) /\ m \notin skipped
        BY <4>3 DEF StoredLedgers
      <4>5. l \in reparse /\ m \notin reparse
        BY <1>2, <2>3, <4>3, <4>4
      <4>6. Covered(m)
        BY <1>1, <4>4, <4>5 DEF CoverageInv
      <4> QED
        BY <1>5, <4>2, <4>3, <4>6
    <3> QED
      BY <3>2, <3>3
  <2>4. ASSUME seed # Idle, NEW m \in StoredLedgers', m > seed.upto PROVE Covered(m)'
    BY <1>1, <1>5, <1>6, <2>1, <2>4 DEF CoverageInv
  <2>5. ASSUME settled > 0, NEW m \in StoredLedgers', m > settled PROVE Covered(m)'
    BY <1>1, <1>5, <1>6, <2>1, <2>5 DEF CoverageInv
  <2>6. ASSUME reparse' # {}, NEW m \in ((Floor + 1)..(next' - 1)) \ reparse', m \notin skipped' \/ m <= settled
        PROVE  Covered(m)'
    <3>1. deployed >= 0 /\ m \in 1..Height
      BY <1>2, <1>7, <2>6
    <3>2. m = l \/ (m \in ((Floor + 1)..(next - 1)) \ reparse /\ (m \notin skipped \/ m <= settled))
      BY <1>2, <2>6
    <3>3. m = l \/ Covered(m)
      BY <1>1, <2>6, <3>2 DEF CoverageInv
    <3> QED
      BY <1>5, <3>1, <3>3
  <2>7. ASSUME NEW m \in StoredLedgers', NEW k \in Pools, k \in Touched(m), chain[m][k].live
        PROVE  rows'[k] # NoRow /\ rows'[k].version >= m
    <3>1. k \in Keys /\ m \in Nat
      BY <1>6, Kinds
    <3>2. CASE m = l
      <4>1. RowOf(l, k) # NoRow /\ RowOf(l, k).version = l
        BY <1>1, <1>2, <2>7, <3>2, RowOfIs
      <4>2. rows[k] # NoRow => rows[k].version \in Nat
        BY <1>1, <3>1 DEF RowsInv, RowRecords
      <4> QED
        BY <1>2, <1>4, <2>7, <3>1, <3>2, <4>1, <4>2
    <3>3. CASE m # l
      <4>1. rows[k] # NoRow /\ rows[k].version >= m
        BY <1>1, <1>6, <2>7, <3>3 DEF CoverageInv
      <4>2. rows[k].version \in Nat /\ rows'[k] # NoRow /\ rows'[k].version >= rows[k].version
        BY <1>1, <1>4, <3>1, <4>1 DEF RowsInv, RowRecords
      <4>3. rows'[k].version \in Nat
        BY <1>3, <3>1, <4>2 DEF RowsInv, RowRecords, NoRow
      <4> QED
        BY <3>1, <4>1, <4>2, <4>3
    <3> QED
      BY <3>2, <3>3
  <2> QED
    BY <1>1, <2>1, <2>2, <2>3, <2>4, <2>5, <2>6, <2>7 DEF CoverageInv, Idle, NoRow
<1>9. ASSUME NEW k \in Keys, NEW u \in Nat, u < l, Rests(k, u)
      PROVE  k \notin Touched(l)
  <2>1. Height \in 1..Height /\ Entry = chain[Height]
    BY <1>1, <1>2, EntryIs
  <2>2. Entry[k].since \in Nat /\ (k \in Touched(l) => l <= Entry[k].since)
    BY <1>1, <1>2, <2>1, Lasts
  <2> QED
    BY <1>2, <1>9, <2>2 DEF Rests
<1>10. ASSUME NEW k \in Keys, k \notin Touched(l)
       PROVE  /\ rows'[k] = rows[k] /\ Right(k)' = Right(k) /\ PoolShown(k)' = PoolShown(k)
              /\ k \in Native => CountersShown(k)' = CountersShown(k)
              /\ Corrected(k)' = Corrected(k)
  BY <1>1, <1>4, <1>10 DEF Right, PoolShown, CountersShown, Corrected, NoRow
<1> USE DEF Idle
<1>11. SettledInv'
  <2> SUFFICES ASSUME settled > 0 PROVE SettledInv'
    BY <1>1 DEF SettledInv
  <2>1. /\ settled < next /\ \E c \in Checkpoints : settled <= c
        /\ \A k \in Keys \ Pools : Rests(k, settled) => Right(k) \/ Entry[k].since \in reparse
        /\ \A k \in Pools : Rests(k, settled) => PoolShown(k)
        /\ \A k \in Native : Rests(k, settled) => CountersShown(k)
        /\ \A k : Rests(k, settled)' = Rests(k, settled)
    BY <1>1 DEF SettledInv, Rests
  <2>2. Height \in 1..Height /\ Entry = chain[Height]
    BY <1>1, <1>2, EntryIs
  <2>3. ASSUME NEW k \in Keys, Rests(k, settled), k \in Touched(l)
        PROVE  l \in reparse /\ deployed >= 0 /\ l <= Entry[k].since
    <3>1. ~ (settled < l)
      BY <1>1, <1>9, <2>3
    <3> QED
      BY <1>1, <1>2, <1>7, <2>1, <2>2, <2>3, <3>1, Lasts
  <2>4. ASSUME NEW k \in Keys \ Pools, Rests(k, settled)
        PROVE  Right(k)' \/ Entry[k].since \in reparse'
    <3> DEFINE T == Entry[k].since
    <3>1. /\ T \in Nat /\ T <= settled /\ T \in 0..Height
          /\ T # 0 => k \in Touched(T)
      BY <1>1, <2>2, <2>4, Lasts DEF Rests
    <3>2. CASE k \notin Touched(l)
      <4>1. T = l => k \in Touched(l)
        BY <1>2, <3>1
      <4> QED
        BY <1>10, <2>1, <2>4, <3>2, <4>1
    <3>3. CASE k \in Touched(l) /\ T = l
      <4>1. /\ l \in reparse /\ deployed >= 0 /\ RowOf(l, k) # NoRow /\ RowOf(l, k).version = l
            /\ rows[k] # NoRow => rows[k].version \in Nat
        BY <1>1, <1>2, <2>3, <2>4, <3>3, RowOfIs, ChainTypes DEF IndexInv, RowsInv, RowRecords
      <4>2. rows'[k] # NoRow /\ rows'[k].version \in Nat /\ rows'[k].version >= l
        BY <1>2, <1>4, <2>4, <3>3, <4>1
      <4>3. Entry[k].live \/ rows'[k].closed # 0 \/ rows'[k].version > l
        <5>1. chain[l][k] = Entry[k]
          BY <1>1, <2>2, <2>4, <3>3, <1>2, Lasts
        <5> QED
          BY <1>2, <1>5, <2>4, <3>3, <4>1, <4>2, <5>1
      <4>4. PICK row : row = rows'[k]
        OBVIOUS
      <4>5. Faithful(k, row)
        BY <1>1, <1>2, <1>4, <2>4, <3>3, <4>4, RowOfIs, ChainTypes DEF RowsInv, IndexInv
      <4>6. row # NoRow /\ row.version >= Entry[k].since
            /\ (Entry[k].live \/ row.closed # 0 \/ row.version > Entry[k].since)
        BY <3>3, <4>2, <4>3, <4>4
      <4>7. IF Entry[k].live THEN row.closed = 0 /\ row.amount = Entry[k].amount ELSE row.closed # 0
        BY <1>1, <2>2, <2>4, <4>5, <4>6, NewIsRight
      <4> QED
        BY <1>1, <4>4, <4>6, <4>7 DEF Right, NoRow
    <3>4. CASE k \in Touched(l) /\ T # l
      <4>1. l \in reparse /\ deployed >= 0 /\ l < T
        BY <1>2, <2>3, <2>4, <3>1, <3>4
      <4>2. CASE T \in reparse
        BY <1>2, <3>4, <4>1, <4>2
      <4>3. CASE T \notin reparse
        <5>1. T \in (Floor + 1)..(next - 1)
          BY <1>1, <1>2, <2>1, <3>1, <4>1
        <5>2. Covered(T)
          BY <1>1, <3>1, <4>1, <4>3, <5>1 DEF CoverageInv
        <5>3. rows[k] # NoRow /\ rows[k].version >= T /\ rows[k].version \in Nat
          BY <1>1, <1>2, <2>4, <3>1, <4>1, <5>2 DEF Covered, RowsInv, RowRecords
        <5>4. RowOf(l, k) # NoRow
          BY <1>1, <1>2, <2>4, <3>4, <4>1, RowOfIs, ChainTypes DEF IndexInv
        <5>5. rows'[k] = rows[k]
          BY <1>2, <1>4, <2>4, <3>1, <3>4, <4>1, <5>3, <5>4
        <5>6. Right(k) /\ Right(k)' = Right(k)
          BY <1>1, <2>1, <2>4, <4>3, <5>5 DEF Right, NoRow
        <5> QED
          BY <5>6
      <4> QED
        BY <4>2, <4>3
    <3> QED
      BY <3>2, <3>3, <3>4
  <2>5. ASSUME NEW k \in Pools, Rests(k, settled) PROVE PoolShown(k)'
    <3>1. k \in Keys /\ PoolShown(k) /\ Entry[k].since \in Nat
      BY <1>1, <2>1, <2>2, <2>5, Kinds, Lasts
    <3>2. rows[k] # NoRow => rows[k].version \in Nat
      BY <1>1, <3>1 DEF RowsInv, RowRecords
    <3>3. (rows[k] # NoRow)' => rows'[k].version \in Nat
      BY <1>3, <3>1 DEF RowsInv, RowRecords, NoRow
    <3> QED
      BY <1>1, <1>4, <3>1, <3>2, <3>3 DEF PoolShown, NoRow
  <2>6. ASSUME NEW k \in Native, Rests(k, settled) PROVE CountersShown(k)'
    <3>1. k \in Keys /\ k \notin Pools /\ CountersShown(k)
      BY <2>1, <2>6, Kinds
    <3>2. CASE k \notin Touched(l)
      BY <1>10, <2>6, <3>1, <3>2
    <3>3. CASE k \in Touched(l)
      <4>1. l \in reparse /\ deployed >= 0 /\ l <= Entry[k].since /\ Entry[k].since \in Nat /\ deployed \in Int
        BY <1>1, <2>2, <2>3, <2>6, <3>1, <3>3, Lasts, ChainTypes DEF IndexInv
      <4> SUFFICES ASSUME Entry[k].live
                   PROVE  account_entry_state'[k] = [version |-> Entry[k].since, counters |-> Entry[k].counters]
        BY <1>1 DEF CountersShown
      <4>2. /\ account_entry_state[k] = [version |-> Entry[k].since, counters |-> Entry[k].counters]
            /\ account_entry_state[k] # NoRow
        BY <3>1 DEF CountersShown, NoRow
      <4>3. \/ account_entry_state'[k] = account_entry_state[k]
            \/ /\ chain[l][k].live /\ account_entry_state'[k] = StateOf(l, k)
               /\ ~ (account_entry_state[k].version > l)
        BY <1>1, <1>2, <2>6, <3>3, <4>2, Storing
      <4>4. CASE account_entry_state'[k] # account_entry_state[k]
        <5>1. l = Entry[k].since /\ account_entry_state'[k] = StateOf(l, k)
          BY <1>2, <4>1, <4>2, <4>3, <4>4
        <5>2. chain[l][k] = Entry[k]
          BY <1>1, <1>2, <2>2, <3>1, <5>1, Lasts
        <5>3. ~ (deployed < 0)
          BY <4>1
        <5> QED
          BY <5>1, <5>2, <5>3 DEF StateOf
      <4> QED
        BY <4>2, <4>4
    <3> QED
      BY <3>2, <3>3
  <2>7. settled < next'
    BY <1>1, <1>2, <2>1
  <2> QED
    BY <1>1, <2>1, <2>4, <2>5, <2>6, <2>7 DEF SettledInv
<1>12. ASSUME seed # Idle
       PROVE  /\ \A k \in Keys : Rests(k, seed.upto)' => k \notin Touched(l) /\ Rests(k, seed.upto)
              /\ reparse' = {} /\ seed.upto < next'
              /\ \A k \in Keys : rows[k] # NoRow => rows'[k] # NoRow
              /\ defined \subseteq defined'
  <2>1. seed.upto \in Nat /\ seed.upto < next /\ reparse = {}
    BY <1>1, <1>12 DEF SeedInv
  <2>2. l = next /\ reparse' = {} /\ seed.upto < l
    BY <1>2, <2>1
  <2>3. \A k \in Keys : Rests(k, seed.upto)' => Rests(k, seed.upto)
    BY <1>1 DEF Rests
  <2> QED
    BY <1>2, <1>4, <1>9, <2>1, <2>2, <2>3 DEF StoreRows
<1>13. SeedInv'
  <2> SUFFICES ASSUME seed # Idle PROVE SeedInv'
    BY <1>1 DEF SeedInv
  <2>1. \A k : Sound(k, seed.fix[k], seed.checkpoint)' = Sound(k, seed.fix[k], seed.checkpoint)
    BY <1>1 DEF Sound, NoRow
  <2> QED
    BY <1>1, <1>12, <2>1 DEF SeedInv, NoRow
<1>14. ReadInv'
  <2> SUFFICES ASSUME seed.pc = "read" PROVE ReadInv'
    BY <1>1 DEF ReadInv
  <2>1. seed # Idle
    BY DEF Idle
  <2> QED
    BY <1>1, <1>10, <1>12, <2>1 DEF ReadInv, NoRow
<1>15. InsertInv'
  <2> SUFFICES ASSUME seed.pc = "insert" PROVE InsertInv'
    BY <1>1 DEF InsertInv
  <2>1. seed # Idle
    BY DEF Idle
  <2>2. \A k : Absentee(k)' = Absentee(k) /\ Pending(k)' = Pending(k)
    BY <1>1 DEF Absentee, Pending, Slot
  <2> QED
    BY <1>1, <1>10, <1>12, <2>1, <2>2, Kinds DEF InsertInv, NoRow
<1> QED
  BY <1>1, <1>2, <1>3, <1>8, <1>11, <1>13, <1>14, <1>15 DEF SnapshotInv

LEMMA StoresKeep ==
    ASSUME SnapshotSeedAssumption, SnapshotInv, StoreNext \/ \E l \in reparse : Reparse(l)
    PROVE  SnapshotInv'
<1>1. next \in Nat /\ Floor \in Nat /\ Floor < next /\ reparse \subseteq (Floor + 1)..(next - 1)
  BY DEF SnapshotInv, IndexInv, SnapshotSeedAssumption
<1>2. CASE StoreNext
  <2>1. next \in (Floor + 1)..(next' - 1) /\ next <= Height /\ next' = next + 1 /\ StoreRows(next)
        /\ UNCHANGED <<chain, deployed, seedVars>> /\ UNCHANGED <<skipped, reparse>>
    BY <1>1, <1>2 DEF StoreNext
  <2>2. PICK l \in (Floor + 1)..(next' - 1) : l = next
    BY <2>1
  <2>3. StoreRows(l)
    BY <1>2, <2>2 DEF StoreNext
  <2> QED
    BY <2>1, <2>2, <2>3, StoringKeeps
<1>3. CASE \E l \in reparse : Reparse(l)
  <2>1. PICK l \in reparse : Reparse(l)
    BY <1>3
  <2> QED
    BY <1>1, <2>1, StoringKeeps DEF Reparse
<1> QED
  BY <1>2, <1>3

-----------------------------------------------------------------------------
(* The seed, from its start to its corrections: the tables stay as they    *)
(* are.                                                                    *)

LEMMA AtCheckpoint ==
    ASSUME ChainInv, NEW k \in Keys, NEW c \in 1..Height, NEW u \in Nat, u <= c, Rests(k, u)
    PROVE  chain[c][k] = Entry[k] /\ Entry[k].since \in Nat /\ Entry[k].since <= u
<1>1. Height \in Nat /\ c \in Nat /\ Height \in 1..Height
  BY ChainTypes
<1>2. Entry = chain[Height]
  BY <1>1, EntryIs
<1>3. Entry[k].since \in Nat /\ Entry[k].since <= u /\ Entry[k].since <= c
  BY <1>1, <1>2, Lasts DEF Rests
<1> QED
  BY <1>1, <1>2, <1>3, Lasts

\* What a correction says is what the ledger of its version left.
LEMMA FixIs ==
    ASSUME SnapshotSeedAssumption, ChainInv, NEW k \in Keys, NEW c \in 1..Height, NEW fix, fix # NoRow,
           Sound(k, fix, c), k \notin Pools => deployed >= 0
    PROVE  /\ fix \in RowRecords /\ fix.version \in Nat /\ Faithful(k, fix)
           /\ ~ chain[fix.version][k].live => fix.closed # 0
           /\ fix.closed # 0 => fix.closed = c
           /\ IF chain[c][k].live
              THEN fix.closed = 0 /\ fix.amount = chain[c][k].amount /\ fix.version = chain[c][k].since
              ELSE fix.closed # 0 /\ fix.version = c
<1> DEFINE e == chain[c][k]  s == e.since
<1>1. /\ e \in KeyStates /\ c \in Nat /\ 0 < c /\ e.live \in BOOLEAN /\ e.amount \in Amounts \cup {0}
      /\ s \in Nat
  BY ChainTypes DEF KeyStates
<1>2. CASE e.live /\ fix = LiveRow(e)
  <2>1. s \in 1..Height /\ chain[s][k] = e
    BY <1>2, Lasts
  <2>2. fix = [version |-> s, amount |-> e.amount, closed |-> 0]
    BY <1>2 DEF LiveRow
  <2>3. fix \in RowRecords
    BY <1>1, <2>2 DEF RowRecords
  <2>4. fix.version = s /\ fix.amount = e.amount /\ fix.closed = 0
    BY <2>2
  <2>5. Faithful(k, fix)
    BY <1>2, <2>1, <2>3, <2>4 DEF Faithful
  <2> QED
    BY <1>1, <1>2, <2>1, <2>3, <2>4, <2>5
<1>3. CASE ~ e.live /\ k \notin Pools /\ fix = [version |-> c, amount |-> 0, closed |-> c]
  <2>1. fix \in RowRecords
    BY <1>1, <1>3 DEF RowRecords
  <2>2. fix.version = c /\ fix.amount = 0 /\ fix.closed = c /\ e.amount = 0
    BY <1>3, Lasts
  <2>3. Faithful(k, fix)
    BY <1>1, <1>3, <2>1, <2>2 DEF Faithful
  <2> QED
    BY <1>1, <1>3, <2>1, <2>2, <2>3
<1> QED
  BY <1>2, <1>3 DEF Sound

LEMMA SeedStep ==
    ASSUME SnapshotInv, UNCHANGED <<indexVars, tableVars, settled>>,
           seed' = Idle \/ seed'.pc \in {"read", "insert"}, SeedInv', ReadInv', InsertInv',
           seed' # Idle => /\ Keys \ Pools # {} => deployed >= 0
                           /\ \A l \in StoredLedgers : l > seed'.upto => Covered(l)
    PROVE  SnapshotInv'
<1>1. /\ IndexInv /\ ChainInv /\ RowsInv /\ CoverageInv /\ SettledInv /\ settled \in Nat
  BY DEF SnapshotInv
<1>2. /\ UNCHANGED <<chain, next, skipped, deployed, reparse, rows, account_entry_state, defined, settled>>
      /\ Height' = Height /\ Entry' = Entry /\ Checkpoints' = Checkpoints /\ StoredLedgers' = StoredLedgers
      /\ \A l : Touched(l)' = Touched(l)
  BY DEF tableVars, indexVars, Height, Entry, Checkpoints, Touched, StoredLedgers
<1>3. IndexInv' /\ ChainInv'
  BY <1>1, <1>2 DEF IndexInv, ChainInv
<1>4. RowsInv'
  <2>1. \A k \in Keys : Faithful(k, rows[k])' = Faithful(k, rows[k])
    BY <1>2 DEF Faithful, NoRow
  <2> QED
    BY <1>1, <1>2, <2>1 DEF RowsInv, RowsAreDefined, NoRow
<1>5. \A l : Covered(l)' = Covered(l)
  BY <1>2 DEF Covered, NoRow
<1>6. CoverageInv'
  BY <1>1, <1>2, <1>5 DEF CoverageInv, NoRow, Idle
<1>7. SettledInv'
  <2>1. \A k : /\ Right(k)' = Right(k) /\ PoolShown(k)' = PoolShown(k)
               /\ CountersShown(k)' = CountersShown(k) /\ Rests(k, settled)' = Rests(k, settled)
    BY <1>2 DEF Right, PoolShown, CountersShown, Rests, NoRow
  <2> QED
    BY <1>1, <1>2, <2>1 DEF SettledInv
<1> QED
  BY <1>1, <1>2, <1>3, <1>4, <1>6, <1>7 DEF SnapshotInv, Idle

LEMMA DeathKeeps ==
    ASSUME SnapshotInv, SeedDies
    PROVE  SnapshotInv'
<1>1. seed' = Idle /\ UNCHANGED <<indexVars, tableVars, settled>>
  BY DEF SeedDies
<1>2. SeedInv' /\ ReadInv' /\ InsertInv'
  BY <1>1 DEF SeedInv, ReadInv, InsertInv, Idle
<1> QED
  BY <1>1, <1>2, SeedStep

LEMMA StartKeeps ==
    ASSUME SnapshotSeedAssumption, SnapshotInv, NEW c \in Checkpoints, StartSeed(c)
    PROVE  SnapshotInv'
<1>1. /\ IndexInv /\ ChainInv /\ RowsInv /\ CoverageInv /\ SettledInv /\ settled \in Nat
      /\ c \in 1..Height /\ c \in Nat /\ Height \in Nat /\ Floor \in Nat /\ next \in Nat /\ Floor < next
      /\ deployed \in Int
  BY ChainTypes DEF SnapshotInv, SnapshotSeedAssumption, IndexInv
<1> DEFINE upto == IF next <= c THEN next - 1 ELSE c
<1>2. /\ reparse = {} /\ \A d \in Checkpoints : d <= c
      /\ Native \cup Lines # {} => deployed >= 0 /\ c > deployed
      /\ Claims # {} => WriterCoverage(c)
      /\ seed' = [pc |-> "read", checkpoint |-> c, known |-> defined, upto |-> upto,
                  todo |-> Keys \ Pools, matched |-> {}, fix |-> [k \in Keys |-> NoRow]]
      /\ UNCHANGED <<indexVars, tableVars, settled>>
  BY DEF StartSeed
<1>3. upto \in Nat /\ upto <= c /\ upto < next
  BY <1>1
<1> HIDE DEF upto
<1>4. /\ seed'.pc = "read" /\ seed'.checkpoint = c /\ seed'.known = defined /\ seed'.upto = upto
      /\ seed'.todo = Keys \ Pools /\ seed'.matched = {} /\ seed'.fix = [k \in Keys |-> NoRow]
  BY <1>2
<1>5. seed' \in [pc : {"read"}, checkpoint : Nat, known : SUBSET Keys, upto : Nat, todo : SUBSET Keys,
                 matched : SUBSET Keys, fix : [Keys -> RowRecords \cup {NoRow}]]
  <2>1. defined \subseteq Keys /\ [k \in Keys |-> NoRow] \in [Keys -> RowRecords \cup {NoRow}]
    BY <1>1 DEF RowsInv
  <2> QED
    BY <1>1, <1>2, <1>3, <2>1
<1>6. /\ UNCHANGED <<chain, next, skipped, deployed, reparse, rows, account_entry_state, defined, settled>>
      /\ Checkpoints' = Checkpoints
  BY <1>2 DEF tableVars, indexVars, Height, Checkpoints
<1>7. settled <= c
  <2>1. CASE settled > 0
    <3>1. PICK d \in Checkpoints : settled <= d
      BY <1>1, <2>1 DEF SettledInv
    <3>2. d \in Nat /\ d <= c
      BY <1>1, <1>2, ChainTypes
    <3> QED
      BY <1>1, <3>1, <3>2
  <2>2. CASE settled = 0
    BY <1>1, <2>2
  <2> QED
    BY <1>1, <2>1, <2>2
<1>8. SeedInv'
  <2>1. \A k \in Keys : Sound(k, seed.fix[k], seed.checkpoint)'
    BY <1>4 DEF Sound, NoRow
  <2>2. seed'.fix \in [Keys -> RowRecords \cup {NoRow}] /\ seed'.todo \subseteq Keys
    BY <1>4
  <2> QED
    BY <1>2, <1>3, <1>4, <1>6, <1>7, <2>1, <2>2 DEF SeedInv, NoRow
<1>9. ReadInv'
  <2>1. /\ seed'.todo \cap (Pools \cup seed'.matched) = {}
        /\ \A k \in Keys \ seed'.matched : seed'.fix[k] = NoRow
        /\ Keys \ (Pools \cup seed'.todo) = {}
    BY <1>4
  <2> QED
    BY <1>5, <2>1 DEF ReadInv, NoRow
<1>10. InsertInv'
  BY <1>4 DEF InsertInv
<1>11. Claims # {} => \E k \in Claims : /\ rows[k] # NoRow /\ rows[k].closed # 0 /\ rows[k].closed <= c
                                        /\ rows[k].closed \in Nat /\ deployed >= 0
  <2> SUFFICES ASSUME Claims # {}
               PROVE  \E k \in Claims : /\ rows[k] # NoRow /\ rows[k].closed # 0 /\ rows[k].closed <= c
                                        /\ rows[k].closed \in Nat /\ deployed >= 0
    OBVIOUS
  <2>1. PICK k \in Claims : rows[k] # NoRow /\ rows[k].closed # 0 /\ rows[k].closed <= c
    BY <1>2 DEF WriterCoverage
  <2>2. k \in Keys /\ Faithful(k, rows[k])
    BY <1>1, Kinds DEF RowsInv
  <2>3. rows[k].closed \in Nat /\ deployed >= 0
    BY <2>1, <2>2 DEF Faithful, RowRecords
  <2> QED
    BY <2>1, <2>3
<1>12. Keys \ Pools # {} => deployed >= 0
  BY <1>2, <1>11, Kinds
<1>13. ASSUME NEW l \in StoredLedgers, l > upto PROVE Covered(l)
  <2>1. l \in Nat /\ l <= next - 1
    BY <1>1 DEF StoredLedgers
  <2>2. l > c
    BY <1>1, <1>13, <2>1 DEF upto
  <2>3. CASE Native \cup Lines # {}
    <3>1. deployed >= 0 /\ l > deployed
      BY <1>1, <1>2, <2>1, <2>2, <2>3
    <3> QED
      BY <1>1, <3>1 DEF CoverageInv
  <2>4. CASE Native \cup Lines = {} /\ Claims # {}
    <3>1. PICK k \in Claims : /\ rows[k] # NoRow /\ rows[k].closed # 0 /\ rows[k].closed <= c
                              /\ rows[k].closed \in Nat
      BY <1>11, <2>4
    <3>2. l > rows[k].closed
      BY <1>1, <2>1, <2>2, <3>1
    <3> QED
      BY <1>1, <1>2, <3>1, <3>2 DEF CoverageInv
  <2>5. CASE Native \cup Lines = {} /\ Claims = {}
    BY <2>5 DEF Covered, Touched, Keys
  <2> QED
    BY <2>3, <2>4, <2>5
<1> QED
  BY <1>2, <1>4, <1>8, <1>9, <1>10, <1>12, <1>13, SeedStep

LEMMA Seeding ==
    ASSUME SnapshotSeedAssumption, SnapshotInv, seed # Idle
    PROVE  /\ IndexInv /\ ChainInv /\ RowsInv /\ CoverageInv /\ SettledInv /\ settled \in Nat
           /\ seed.checkpoint \in 1..Height /\ seed.checkpoint \in Checkpoints /\ seed.checkpoint \in Nat
           /\ seed.upto \in Nat /\ seed.upto <= seed.checkpoint /\ seed.upto < next
           /\ reparse = {} /\ settled <= seed.checkpoint
           /\ Native \cup Lines # {} => deployed < seed.checkpoint
           /\ seed.todo \subseteq Keys /\ seed.known \subseteq defined
           /\ seed.matched \subseteq Keys \ Pools /\ \A k \in seed.matched : rows[k] # NoRow
           /\ seed.fix \in [Keys -> RowRecords \cup {NoRow}]
           /\ \A k \in Keys : Sound(k, seed.fix[k], seed.checkpoint)
           /\ Keys \ Pools # {} => deployed >= 0
           /\ \A l \in StoredLedgers : l > seed.upto => Covered(l)
           /\ deployed \in Int
           /\ \A k \in Keys : /\ FirstWins(seed.checkpoint, k) = chain[seed.checkpoint][k]
                              /\ chain[seed.checkpoint][k] \in KeyStates
                              /\ Faithful(k, rows[k]) /\ rows[k] \in RowRecords \cup {NoRow}
                              /\ Rests(k, seed.upto) => /\ chain[seed.checkpoint][k] = Entry[k]
                                                        /\ Entry[k].since \in Nat /\ Entry[k].since <= seed.upto
<1>1. IndexInv /\ ChainInv /\ RowsInv /\ CoverageInv /\ SettledInv /\ settled \in Nat /\ SeedInv
  BY DEF SnapshotInv
<1>2. /\ seed.checkpoint \in 1..Height /\ seed.checkpoint \in Checkpoints /\ seed.checkpoint \in Nat
      /\ deployed \in Int
  BY <1>1, ChainTypes DEF SeedInv, IndexInv
<1>3. /\ seed.upto \in Nat /\ seed.upto <= seed.checkpoint /\ seed.upto < next
      /\ reparse = {} /\ settled <= seed.checkpoint
      /\ Native \cup Lines # {} => deployed < seed.checkpoint
      /\ seed.todo \subseteq Keys /\ seed.known \subseteq defined
      /\ seed.matched \subseteq Keys \ Pools /\ \A k \in seed.matched : rows[k] # NoRow
      /\ seed.fix \in [Keys -> RowRecords \cup {NoRow}]
      /\ \A k \in Keys : Sound(k, seed.fix[k], seed.checkpoint)
  BY <1>1 DEF SeedInv
<1>4. /\ Keys \ Pools # {} => deployed >= 0
      /\ \A l \in StoredLedgers : l > seed.upto => Covered(l)
  BY <1>1 DEF CoverageInv
<1>5. ASSUME NEW k \in Keys
      PROVE  /\ FirstWins(seed.checkpoint, k) = chain[seed.checkpoint][k]
             /\ chain[seed.checkpoint][k] \in KeyStates
             /\ Faithful(k, rows[k]) /\ rows[k] \in RowRecords \cup {NoRow}
             /\ Rests(k, seed.upto) => /\ chain[seed.checkpoint][k] = Entry[k]
                                       /\ Entry[k].since \in Nat /\ Entry[k].since <= seed.upto
  <2>1. Faithful(k, rows[k]) /\ rows[k] \in RowRecords \cup {NoRow}
    BY <1>1 DEF RowsInv
  <2> QED
    BY <1>1, <1>2, <1>3, <2>1, FirstWinsIs, ChainTypes, AtCheckpoint
<1> QED
  BY <1>1, <1>2, <1>3, <1>4, <1>5

\* What the seed reads of a row: it is right, or a correction is kept for it.
LEMMA FixedOrRight ==
    ASSUME SnapshotSeedAssumption, SnapshotInv, seed # Idle, NEW k \in Keys \ Pools, rows[k] # NoRow,
           NEW c, c = seed.checkpoint
    PROVE  /\ Fix(k, c) \in RowRecords \cup {NoRow} /\ Sound(k, Fix(k, c), c)
           /\ Rests(k, seed.upto) =>
                Right(k) \/ (Fix(k, c) # NoRow /\ rows[k].version <= Fix(k, c).version)
<1> DEFINE e == chain[c][k]  row == rows[k]  fix == Fix(k, c)
<1>1. /\ IndexInv /\ ChainInv /\ RowsInv /\ c \in 1..Height /\ c \in Nat /\ deployed \in Int
      /\ FirstWins(c, k) = e /\ e \in KeyStates /\ row \in RowRecords /\ Faithful(k, row)
      /\ deployed >= 0 /\ (k \notin Claims => deployed < c)
      /\ seed.upto \in Nat /\ seed.upto <= c
      /\ Rests(k, seed.upto) => e = Entry[k] /\ Entry[k].since \in Nat /\ Entry[k].since <= seed.upto
  <2>1. k \notin Claims => Native \cup Lines # {}
    BY DEF Keys
  <2> QED
    BY <2>1, Seeding
<1>2. fix = Correction(Verdict(row, e, c), e, c)
  BY <1>1 DEF Fix
<1>3. /\ row.version \in Nat /\ e.since \in Nat /\ e.live \in BOOLEAN /\ e.amount \in Amounts \cup {0}
  BY <1>1 DEF RowRecords, KeyStates
<1>4. /\ \/ fix = NoRow
         \/ e.live /\ fix = LiveRow(e) /\ row.version < e.since
         \/ ~ e.live /\ fix = [version |-> c, amount |-> 0, closed |-> c] /\ row.version < c
      /\ fix = NoRow /\ row.version < c =>
           IF e.live
           THEN \/ row.closed = 0 /\ e.amount = row.amount
                \/ e.since <= row.version
           ELSE row.closed # 0
  <2> HIDE DEF fix, row, e
  <2> QED
    BY <1>1, <1>2, CorrectionIs
<1>5. Sound(k, fix, c)
  <2> HIDE DEF fix
  <2> QED
    BY <1>4 DEF Sound
<1>6. fix \in RowRecords \cup {NoRow}
  <2> HIDE DEF fix
  <2> QED
    BY <1>1, <1>3, <1>4 DEF RowRecords, LiveRow
<1>7. ASSUME Rests(k, seed.upto) PROVE Right(k) \/ (fix # NoRow /\ row.version <= fix.version)
  <2>1. e = Entry[k] /\ e.since <= c
    BY <1>1, <1>3, <1>7
  <2> HIDE DEF fix
  <2>2. CASE fix # NoRow
    <3>1. CASE e.live /\ fix = LiveRow(e) /\ row.version < e.since
      BY <1>1, <1>3, <2>2, <3>1 DEF LiveRow
    <3>2. CASE ~ e.live /\ fix = [version |-> c, amount |-> 0, closed |-> c] /\ row.version < c
      BY <1>1, <1>3, <2>2, <3>2
    <3> QED
      BY <1>4, <2>2, <3>1, <3>2
  <2>3. CASE fix = NoRow /\ row.version < c /\ ~ (e.live /\ e.since <= row.version)
    BY <1>3, <1>4, <2>1, <2>3 DEF Right
  <2>4. CASE fix = NoRow /\ (row.version >= c \/ (e.live /\ e.since <= row.version))
    <3>1. row.version >= e.since /\ Height > 0
      BY <1>1, <1>3, <2>1, <2>4, ChainTypes
    <3>2. e.live \/ row.closed # 0 \/ row.version > e.since
      <4> SUFFICES ASSUME ~ e.live, row.closed = 0, row.version = e.since PROVE FALSE
        BY <1>3, <3>1
      <4>1. row.version = c
        BY <1>1, <1>3, <2>1, <2>4
      <4>2. k \notin Claims /\ row.version <= deployed
        BY <1>1, <2>1, <4>1 DEF Faithful
      <4> QED
        BY <1>1, <4>1, <4>2
    <3>3. IF Entry[k].live THEN row.closed = 0 /\ row.amount = Entry[k].amount ELSE row.closed # 0
      BY <1>1, <2>1, <3>1, <3>2, NewIsRight
    <3> QED
      BY <3>3 DEF Right
  <2> QED
    BY <1>1, <1>3, <2>2, <2>3, <2>4
<1> QED
  BY <1>5, <1>6, <1>7

LEMMA ReadKeeps ==
    ASSUME SnapshotSeedAssumption, SnapshotInv, NEW k \in Keys, ReadRow(k)
    PROVE  SnapshotInv'
<1> DEFINE c == seed.checkpoint  fix == Fix(k, c)
<1>1. /\ seed.pc = "read" /\ k \in seed.todo
      /\ seed' = [seed EXCEPT !.todo = @ \ {k},
                    !.matched = IF rows[k] = NoRow THEN @ ELSE @ \cup {k},
                    !.fix[k] = fix]
      /\ UNCHANGED <<indexVars, tableVars, settled>> /\ seed # Idle
  BY DEF ReadRow, Idle
<1>2. /\ ReadInv
      /\ seed \in [pc : {"read"}, checkpoint : Nat, known : SUBSET Keys, upto : Nat, todo : SUBSET Keys,
                 matched : SUBSET Keys, fix : [Keys -> RowRecords \cup {NoRow}]]
      /\ seed.todo \cap (Pools \cup seed.matched) = {}
      /\ \A j \in Keys \ seed.matched : seed.fix[j] = NoRow
      /\ \A j \in Keys \ (Pools \cup seed.todo) : Rests(j, seed.upto) =>
           IF j \in seed.matched THEN Right(j) \/ Corrected(j) ELSE rows[j] = NoRow
  BY <1>1 DEF SnapshotInv, ReadInv
<1>3. k \in Keys \ Pools /\ k \notin seed.matched
  BY <1>1, <1>2
<1>4. /\ fix \in RowRecords \cup {NoRow} /\ Sound(k, fix, c)
      /\ rows[k] = NoRow => fix = NoRow
      /\ rows[k] # NoRow /\ Rests(k, seed.upto) =>
           Right(k) \/ (fix # NoRow /\ rows[k].version <= fix.version)
  <2>1. CASE rows[k] = NoRow
    BY <2>1 DEF Fix, Sound
  <2>2. CASE rows[k] # NoRow
    BY <1>1, <1>3, <2>2, FixedOrRight
  <2> QED
    BY <2>1, <2>2
<1> HIDE DEF fix
<1>5. /\ seed'.pc = "read" /\ seed'.checkpoint = c /\ seed'.known = seed.known /\ seed'.upto = seed.upto
      /\ seed'.todo = seed.todo \ {k}
      /\ seed'.matched = IF rows[k] = NoRow THEN seed.matched ELSE seed.matched \cup {k}
      /\ seed'.fix = [seed.fix EXCEPT ![k] = fix]
      /\ seed' \in [pc : {"read"}, checkpoint : Nat, known : SUBSET Keys, upto : Nat, todo : SUBSET Keys,
                 matched : SUBSET Keys, fix : [Keys -> RowRecords \cup {NoRow}]]
  BY <1>1, <1>2, <1>4
<1>6. \A j \in Keys : seed'.fix[j] = IF j = k THEN fix ELSE seed.fix[j]
  BY <1>2, <1>5
<1>7. /\ UNCHANGED <<chain, next, skipped, deployed, reparse, rows, account_entry_state, defined, settled>>
      /\ Height' = Height /\ Entry' = Entry /\ Checkpoints' = Checkpoints
  BY <1>1 DEF tableVars, indexVars, Height, Entry, Checkpoints
<1>8. SeedInv'
  <2>1. \A j \in Keys : Sound(j, seed.fix[j], seed.checkpoint)'
    <3> TAKE j \in Keys
    <3>1. PICK new : new = seed'.fix[j]
      OBVIOUS
    <3>2. Sound(j, new, c)
      BY <1>1, <1>4, <1>6, <3>1, Seeding
    <3> QED
      BY <1>5, <1>7, <3>1, <3>2 DEF Sound, NoRow
  <2>2. /\ seed'.matched \subseteq Keys \ Pools /\ \A j \in seed'.matched : rows[j] # NoRow
    BY <1>1, <1>3, <1>5, Seeding
  <2> QED
    BY <1>1, <1>5, <1>7, <2>1, <2>2, Seeding DEF SeedInv, NoRow
<1>9. ReadInv'
  <2>1. seed'.todo \cap (Pools \cup seed'.matched) = {}
    BY <1>2, <1>5
  <2>2. \A j \in Keys \ seed'.matched : seed'.fix[j] = NoRow
    BY <1>2, <1>4, <1>5, <1>6
  <2>3. ASSUME NEW j \in Keys \ (Pools \cup seed'.todo), Rests(j, seed.upto)
        PROVE  IF j \in seed'.matched
               THEN Right(j) \/ (seed'.fix[j] # NoRow /\ (rows[j] # NoRow => rows[j].version <= seed'.fix[j].version))
               ELSE rows[j] = NoRow
    <3>1. CASE j = k
      BY <1>3, <1>4, <1>5, <1>6, <2>3, <3>1
    <3>2. CASE j # k
      <4>1. j \in Keys \ (Pools \cup seed.todo) /\ (j \in seed'.matched <=> j \in seed.matched)
        BY <1>5, <3>2
      <4> QED
        BY <1>2, <1>6, <2>3, <3>2, <4>1 DEF Corrected
    <3> QED
      BY <3>1, <3>2
  <2>4. \A j : Right(j)' = Right(j) /\ Rests(j, seed.upto)' = Rests(j, seed.upto)
    BY <1>5, <1>7 DEF Right, Rests, NoRow
  <2> QED
    BY <1>5, <1>7, <2>1, <2>2, <2>3, <2>4 DEF ReadInv, Corrected, NoRow
<1>10. InsertInv'
  BY <1>5 DEF InsertInv
<1> QED
  BY <1>1, <1>5, <1>8, <1>9, <1>10, SeedStep, Seeding

LEMMA TablesAre ==
    /\ Len(InsertOrder) = 5
    /\ InsertOrder[1] = "stubs" /\ InsertOrder[2] = "pools" /\ InsertOrder[3] = "balances"
    /\ InsertOrder[4] = "claims" /\ InsertOrder[5] = "entries"
    /\ \A s : /\ Writes("stubs", s) = ((LiveAt(s.checkpoint) \ Pools) \ s.matched) \ s.known
              /\ Writes("pools", s) = {k \in Pools : s.fix[k] # NoRow}
              /\ Writes("balances", s) = {k \in Native \cup Lines : s.fix[k] # NoRow}
              /\ Writes("claims", s) = {k \in Claims : s.fix[k] # NoRow}
              /\ Writes("entries", s) = Native \cap LiveAt(s.checkpoint)
  BY DEF InsertOrder, Writes

LEMMA BuildKeeps ==
    ASSUME SnapshotSeedAssumption, SnapshotInv, BuildCorrections
    PROVE  SnapshotInv'
<1> DEFINE c == seed.checkpoint
           missing == MissingHoldings(seed) \cup MissingClaims(seed) \cup PoolsBehind(seed)
           fix == [k \in Keys |-> IF k \in missing THEN LiveRow(FirstWins(c, k)) ELSE seed.fix[k]]
           built == [seed EXCEPT !.fix = fix]
<1>1. /\ seed.pc = "read" /\ seed.todo = {} /\ seed # Idle
      /\ seed' = [pc |-> "insert", checkpoint |-> c, upto |-> seed.upto, table |-> 1,
                    fix |-> fix, known |-> seed.known, matched |-> seed.matched,
                    todo |-> Writes(InsertOrder[1], built)]
      /\ UNCHANGED <<indexVars, tableVars, settled>>
  BY DEF BuildCorrections, Idle
<1>2. /\ ReadInv
      /\ seed \in [pc : {"read"}, checkpoint : Nat, known : SUBSET Keys, upto : Nat, todo : SUBSET Keys,
                 matched : SUBSET Keys, fix : [Keys -> RowRecords \cup {NoRow}]]
      /\ \A j \in Keys \ seed.matched : seed.fix[j] = NoRow
      /\ \A j \in Keys \ Pools : Rests(j, seed.upto) =>
           IF j \in seed.matched THEN Right(j) \/ Corrected(j) ELSE rows[j] = NoRow
  BY <1>1 DEF SnapshotInv, ReadInv
<1>3. \A k \in Keys : /\ FirstWins(c, k) = chain[c][k] /\ chain[c][k] \in KeyStates
                      /\ k \in LiveAt(c) <=> chain[c][k].live
  BY <1>1, Seeding DEF LiveAt
<1>4. Writes(InsertOrder[1], built) = ((LiveAt(c) \ Pools) \ seed.matched) \ seed.known
  <2>1. built.checkpoint = c /\ built.matched = seed.matched /\ built.known = seed.known
    BY <1>2
  <2> HIDE DEF built
  <2> QED
    BY <2>1, TablesAre
<1>5. LiveAt(c) \subseteq Keys /\ missing \subseteq LiveAt(c)
  BY DEF LiveAt, MissingHoldings, MissingClaims, PoolsBehind
<1>6. /\ \A k \in Keys \ Pools : k \in missing <=> k \in LiveAt(c) /\ k \notin seed.matched
      /\ \A k \in Pools : k \in missing <=> k \in LiveAt(c) /\ Need(rows[k], chain[c][k])
  BY <1>1, <1>3, Kinds DEF MissingHoldings, MissingClaims, PoolsBehind
<1>7. \A k \in Keys : fix[k] = IF k \in missing THEN LiveRow(chain[c][k]) ELSE seed.fix[k]
  BY <1>3
<1>8. ASSUME NEW k \in missing
      PROVE  /\ LiveRow(chain[c][k]) \in RowRecords /\ LiveRow(chain[c][k]) # NoRow
             /\ LiveRow(chain[c][k]).version = chain[c][k].since /\ chain[c][k].live
  <2>1. chain[c][k] \in KeyStates /\ chain[c][k].live
    BY <1>3, <1>5
  <2>2. LiveRow(chain[c][k]) \in RowRecords
    BY <2>1 DEF RowRecords, KeyStates, LiveRow
  <2>3. LiveRow(chain[c][k]).version = chain[c][k].since
    BY DEF LiveRow
  <2> QED
    BY <2>1, <2>2, <2>3, Distinct
<1>9. fix \in [Keys -> RowRecords \cup {NoRow}]
  <2> HIDE DEF missing
  <2>1. \A k \in Keys : fix[k] \in RowRecords \cup {NoRow}
    BY <1>2, <1>7, <1>8
  <2> QED
    BY <2>1
<1> HIDE DEF missing, fix, built
<1>10. /\ seed'.pc = "insert" /\ seed'.checkpoint = c /\ seed'.upto = seed.upto /\ seed'.table = 1
       /\ seed'.fix = fix /\ seed'.known = seed.known /\ seed'.matched = seed.matched
       /\ seed'.todo = ((LiveAt(c) \ Pools) \ seed.matched) \ seed.known
  BY <1>1, <1>4
<1>11. seed' \in [pc : {"insert"}, checkpoint : Nat, upto : Nat, table : 1..5,
                  fix : [Keys -> RowRecords \cup {NoRow}],
                  known : SUBSET Keys, matched : SUBSET Keys, todo : SUBSET Keys]
  BY <1>1, <1>2, <1>4, <1>5, <1>9
<1>12. /\ UNCHANGED <<chain, next, skipped, deployed, reparse, rows, account_entry_state, defined, settled>>
       /\ Height' = Height /\ Entry' = Entry /\ Checkpoints' = Checkpoints
  BY <1>1 DEF tableVars, indexVars, Height, Entry, Checkpoints
<1>13. SeedInv'
  <2>1. \A k \in Keys : Sound(k, seed.fix[k], seed.checkpoint)'
    <3> TAKE k \in Keys
    <3>1. PICK new : new = fix[k]
      OBVIOUS
    <3>2. Sound(k, new, c)
      BY <1>1, <1>7, <1>8, <3>1, Seeding DEF Sound
    <3> QED
      BY <1>10, <1>12, <3>1, <3>2 DEF Sound, NoRow
  <2> QED
    BY <1>1, <1>5, <1>9, <1>10, <1>12, <2>1, Seeding DEF SeedInv, NoRow
<1>14. ReadInv'
  BY <1>10 DEF ReadInv
<1>15. \A k \in Keys : /\ Right(k)' = Right(k) /\ PoolShown(k)' = PoolShown(k)
                       /\ Rests(k, seed.upto)' = Rests(k, seed.upto)
                       /\ Absentee(k)' <=> k \notin Pools \cup seed.matched /\ chain[c][k].live
                       /\ Pending(k)' /\ (Corrected(k)' <=> fix[k] # NoRow /\ (rows[k] # NoRow => rows[k].version <= fix[k].version))
  BY <1>10, <1>12 DEF Right, PoolShown, Rests, Absentee, Pending, Slot, Corrected, NoRow
<1>16. InsertInv'
  <2>1. \A k \in seed'.todo : Absentee(k)'
    BY <1>3, <1>5, <1>10, <1>15
  <2>2. \A k \in Keys \ Pools : fix[k] # NoRow => k \in seed.matched \/ Absentee(k)'
    BY <1>2, <1>3, <1>5, <1>6, <1>7, <1>15
  <2>3. \A k \in Keys : Absentee(k)' => k \in defined \/ k \in seed'.todo
    BY <1>1, <1>3, <1>10, <1>15, Seeding
  <2>4. ASSUME NEW k \in Keys, Rests(k, seed.upto)
        PROVE  (IF k \in Pools THEN PoolShown(k) ELSE Right(k)) \/ Corrected(k)'
    <3>1. chain[c][k] = Entry[k] /\ Entry[k].since \in Nat
      BY <1>1, <2>4, Seeding
    <3>2. CASE k \in Pools
      <4>1. CASE k \in missing
        <5>1. fix[k] = LiveRow(chain[c][k]) /\ Need(rows[k], chain[c][k])
          BY <1>6, <1>7, <3>2, <4>1
        <5>2. rows[k] # NoRow => rows[k].version <= chain[c][k].since
          BY <1>1, <3>1, <5>1, Seeding DEF Need, RowRecords
        <5> QED
          BY <1>8, <1>15, <4>1, <5>1, <5>2
      <4>2. CASE k \notin missing
        <5>1. Entry[k].live => rows[k] # NoRow /\ ~ (rows[k].version < Entry[k].since)
          BY <1>3, <1>6, <3>1, <3>2, <4>2 DEF Need
        <5>2. rows[k] # NoRow => rows[k].version \in Nat
          BY <1>1, Seeding DEF RowRecords
        <5> QED
          BY <3>1, <3>2, <5>1, <5>2 DEF PoolShown
      <4> QED
        BY <4>1, <4>2
    <3>3. CASE k \notin Pools /\ k \in seed.matched
      <4>1. fix[k] = seed.fix[k] /\ (Right(k) \/ Corrected(k))
        BY <1>2, <1>6, <1>7, <2>4, <3>3
      <4> QED
        BY <1>15, <3>3, <4>1 DEF Corrected
    <3>4. CASE k \notin Pools /\ k \notin seed.matched
      <4>1. rows[k] = NoRow
        BY <1>2, <2>4, <3>4
      <4>2. CASE chain[c][k].live
        <5>1. k \in missing
          BY <1>3, <1>6, <3>4, <4>2
        <5> QED
          BY <1>7, <1>8, <1>15, <4>1, <5>1
      <4>3. CASE ~ chain[c][k].live
        BY <3>1, <3>4, <4>1, <4>3 DEF Right
      <4> QED
        BY <4>2, <4>3
    <3> QED
      BY <3>2, <3>3, <3>4
  <2>5. \A k \in Native : k \in Keys
    BY Kinds
  <2> QED
    BY <1>10, <1>11, <1>12, <1>15, <2>1, <2>2, <2>3, <2>4, <2>5 DEF InsertInv, NoRow
<1> QED
  BY <1>1, <1>10, <1>13, <1>14, <1>16, SeedStep, Seeding

LEMMA TableKeeps ==
    ASSUME SnapshotSeedAssumption, SnapshotInv, NextTable, seed.table # Len(InsertOrder)
    PROVE  SnapshotInv'
<1> DEFINE c == seed.checkpoint  t == seed.table
<1>1. /\ seed.pc = "insert" /\ seed.todo = {} /\ seed # Idle
      /\ seed' = [seed EXCEPT !.table = @ + 1, !.todo = Writes(InsertOrder[seed.table + 1], seed)]
      /\ UNCHANGED <<indexVars, tableVars, settled>>
  BY DEF NextTable, Idle
<1>2. /\ InsertInv
      /\ seed \in [pc : {"insert"}, checkpoint : Nat, upto : Nat, table : 1..5, fix : [Keys -> RowRecords \cup {NoRow}],
                 known : SUBSET Keys, matched : SUBSET Keys, todo : SUBSET Keys]
      /\ \A k \in Keys \ Pools : seed.fix[k] # NoRow => k \in seed.matched \/ Absentee(k)
      /\ \A k \in Keys : Absentee(k) => k \in defined
      /\ \A k \in Keys : Rests(k, seed.upto) =>
           \/ IF k \in Pools THEN PoolShown(k) ELSE Right(k)
           \/ Corrected(k) /\ Pending(k)
      /\ \A k \in Native : Rests(k, seed.upto) => CountersShown(k) \/ seed.table < 5
  BY <1>1 DEF SnapshotInv, InsertInv
<1> DEFINE todo == Writes(InsertOrder[t + 1], seed)
<1>3. t \in 1..4 /\ t + 1 \in 2..5
  BY <1>2, TablesAre
<1>4. /\ t + 1 = 2 => todo = {k \in Pools : seed.fix[k] # NoRow}
      /\ t + 1 = 3 => todo = {k \in Native \cup Lines : seed.fix[k] # NoRow}
      /\ t + 1 = 4 => todo = {k \in Claims : seed.fix[k] # NoRow}
      /\ t + 1 = 5 => todo = Native \cap LiveAt(c)
  BY TablesAre
<1>5. todo \subseteq Keys
  <2>1. t + 1 = 2 \/ t + 1 = 3 \/ t + 1 = 4 \/ t + 1 = 5
    BY <1>3
  <2> HIDE DEF todo, t
  <2> QED
    BY <1>4, <2>1, Kinds
<1> HIDE DEF todo
<1>6. /\ seed'.pc = "insert" /\ seed'.checkpoint = c /\ seed'.upto = seed.upto /\ seed'.table = t + 1
      /\ seed'.fix = seed.fix /\ seed'.known = seed.known /\ seed'.matched = seed.matched
      /\ seed'.todo = todo
      /\ seed' \in [pc : {"insert"}, checkpoint : Nat, upto : Nat, table : 1..5,
                 fix : [Keys -> RowRecords \cup {NoRow}],
                 known : SUBSET Keys, matched : SUBSET Keys, todo : SUBSET Keys]
  <2>1. seed' = [seed EXCEPT !.table = t + 1, !.todo = todo]
    BY <1>1 DEF todo
  <2> HIDE DEF t
  <2>2. t + 1 \in 1..5
    BY <1>3
  <2> QED
    BY <1>1, <1>2, <1>5, <2>1, <2>2
<1>7. /\ UNCHANGED <<chain, next, skipped, deployed, reparse, rows, account_entry_state, defined, settled>>
      /\ Height' = Height /\ Entry' = Entry /\ Checkpoints' = Checkpoints
  BY <1>1 DEF tableVars, indexVars, Height, Entry, Checkpoints
<1>8. SeedInv'
  <2>1. \A k : Sound(k, seed.fix[k], seed.checkpoint)' = Sound(k, seed.fix[k], seed.checkpoint)
    BY <1>6, <1>7 DEF Sound, NoRow
  <2> QED
    BY <1>1, <1>5, <1>6, <1>7, <2>1, Seeding DEF SeedInv, NoRow
<1>9. ReadInv'
  BY <1>6 DEF ReadInv
<1>10. \A k \in Keys : /\ Right(k)' = Right(k) /\ PoolShown(k)' = PoolShown(k)
                       /\ CountersShown(k)' = CountersShown(k)
                       /\ Rests(k, seed.upto)' = Rests(k, seed.upto)
                       /\ Absentee(k)' = Absentee(k) /\ Corrected(k)' = Corrected(k)
  BY <1>6, <1>7 DEF Right, PoolShown, CountersShown, Rests, Absentee, Corrected, NoRow
<1>11. InsertInv'
  <2>1. ASSUME NEW k \in todo
        PROVE  /\ t + 1 = 2 => k \in Pools
               /\ t + 1 = 3 => k \in Native \cup Lines
               /\ t + 1 = 4 => k \in Claims
               /\ t + 1 = 5 => k \in Native /\ chain[c][k].live
               /\ t + 1 \in 2..4 => seed.fix[k] # NoRow
    <3>1. k \in Keys /\ (k \in LiveAt(c) => chain[c][k].live)
      BY <1>1, <1>5, Seeding DEF LiveAt
    <3>2. t + 1 \in 2..4 => t + 1 = 2 \/ t + 1 = 3 \/ t + 1 = 4
      BY <1>3
    <3> HIDE DEF t
    <3> QED
      BY <1>4, <2>1, <3>1, <3>2
  <2>2. ASSUME NEW k \in Keys, Corrected(k), Pending(k) PROVE Pending(k)'
    <3>1. t < Slot(k) /\ seed.fix[k] # NoRow /\ Slot(k) \in 2..4
      BY <1>1, <2>2 DEF Pending, Corrected, Slot
    <3>2. /\ Slot(k) = 2 => k \in Pools
          /\ Slot(k) = 3 => k \in Native \cup Lines
          /\ Slot(k) = 4 => k \in Claims
      BY <2>2 DEF Slot, Keys
    <3>3. t + 1 < Slot(k) \/ t + 1 = Slot(k)
      BY <1>3, <3>1
    <3>4. t + 1 = Slot(k) => k \in todo
      <4> HIDE DEF t
      <4>1. SUFFICES ASSUME t + 1 = Slot(k) PROVE k \in todo
        OBVIOUS
      <4>2. Slot(k) = 2 \/ Slot(k) = 3 \/ Slot(k) = 4
        BY <3>1
      <4> QED
        BY <1>4, <3>1, <3>2, <4>1, <4>2
    <3> QED
      BY <1>6, <3>3, <3>4 DEF Pending, Slot
  <2>3. ASSUME NEW k \in Native, Rests(k, seed.upto)
        PROVE  CountersShown(k) \/ t + 1 < 5 \/ k \in todo
    <3>1. k \in Keys /\ chain[c][k] = Entry[k]
      BY <1>1, <2>3, Kinds, Seeding
    <3>2. CASE t + 1 = 5
      <4>1. k \in todo <=> Entry[k].live
        BY <1>1, <1>4, <3>1, <3>2, Seeding DEF LiveAt
      <4> QED
        BY <4>1 DEF CountersShown
    <3> QED
      BY <1>3, <3>2
  <2>4. t + 1 # 1
    BY <1>3
  <2>5. \A k \in Native : k \in Keys
    BY Kinds
  <2> HIDE DEF t
  <2> QED
    BY <1>2, <1>6, <1>7, <1>10, <2>1, <2>2, <2>3, <2>4, <2>5 DEF InsertInv, NoRow
<1> QED
  BY <1>1, <1>6, <1>8, <1>9, <1>11, SeedStep, Seeding

\* The seed is through: everything that rests since its time is shown.
LEMMA CompletionKeeps ==
    ASSUME SnapshotSeedAssumption, SnapshotInv, NextTable, seed.table = Len(InsertOrder)
    PROVE  SnapshotInv'
<1>1. /\ seed.pc = "insert" /\ seed.todo = {} /\ seed # Idle /\ seed.table = 5
      /\ seed' = Idle /\ settled' = seed.upto
      /\ UNCHANGED <<indexVars, tableVars>>
  BY TablesAre DEF NextTable, Idle
<1>2. /\ IndexInv /\ ChainInv /\ RowsInv /\ CoverageInv
      /\ \A k \in Keys : Rests(k, seed.upto) =>
           \/ IF k \in Pools THEN PoolShown(k) ELSE Right(k)
           \/ Corrected(k) /\ Pending(k)
      /\ \A k \in Native : Rests(k, seed.upto) => CountersShown(k)
  BY <1>1 DEF SnapshotInv, InsertInv
<1>3. /\ UNCHANGED <<chain, next, skipped, deployed, reparse, rows, account_entry_state, defined>>
      /\ Height' = Height /\ Entry' = Entry /\ Checkpoints' = Checkpoints /\ StoredLedgers' = StoredLedgers
      /\ \A l : Touched(l)' = Touched(l)
  BY <1>1 DEF tableVars, indexVars, Height, Entry, Checkpoints, StoredLedgers, Touched
<1>4. IndexInv' /\ ChainInv'
  BY <1>2, <1>3 DEF IndexInv, ChainInv
<1>5. RowsInv'
  <2>1. \A k \in Keys : Faithful(k, rows[k])' = Faithful(k, rows[k])
    BY <1>3 DEF Faithful, NoRow
  <2> QED
    BY <1>2, <1>3, <2>1 DEF RowsInv, RowsAreDefined, NoRow
<1>6. CoverageInv'
  <2>1. \A l : Covered(l)' = Covered(l)
    BY <1>3 DEF Covered, NoRow
  <2>2. reparse = {} /\ seed' = Idle
    BY <1>1, Seeding
  <2> QED
    BY <1>1, <1>2, <1>3, <2>1, <2>2 DEF CoverageInv, NoRow, Idle
<1>7. SettledInv'
  <2>1. \A k : ~ Pending(k)
    BY <1>1 DEF Pending, Slot
  <2>2. \A k : /\ Right(k)' = Right(k) /\ PoolShown(k)' = PoolShown(k)
               /\ CountersShown(k)' = CountersShown(k) /\ Rests(k, settled)' = Rests(k, seed.upto)
    BY <1>1, <1>3 DEF Right, PoolShown, CountersShown, Rests, NoRow
  <2>3. seed.upto < next /\ \E d \in Checkpoints : seed.upto <= d
    BY <1>1, Seeding
  <2> QED
    BY <1>1, <1>2, <1>3, <2>1, <2>2, <2>3, Kinds DEF SettledInv
<1>8. SeedInv' /\ ReadInv' /\ InsertInv'
  BY <1>1 DEF SeedInv, ReadInv, InsertInv, Idle
<1> QED
  BY <1>1, <1>4, <1>5, <1>6, <1>7, <1>8, Seeding DEF SnapshotInv, Idle

-----------------------------------------------------------------------------
(* The seed inserts a row.                                                 *)

\* What an insert changes: the row of its key by the correction, the counters
\* by the entry, the dimension rows, or nothing that is newer already.
LEMMA Inserting ==
    ASSUME SnapshotSeedAssumption, SnapshotInv, NEW k \in Keys, InsertRow(k)
    PROVE  LET c == seed.checkpoint  fix == seed.fix[k]  e == chain[c][k]  t == seed.table
           IN  /\ seed.pc = "insert" /\ seed # Idle /\ k \in seed.todo /\ t \in 1..5
               /\ \A j \in Keys : j # k => rows'[j] = rows[j]
               /\ rows' \in [Keys -> RowRecords \cup {NoRow}]
               /\ t \notin 2..4 => rows' = rows
               /\ t \in 2..4 =>
                    /\ fix # NoRow /\ t = Slot(k)
                    /\ IF rows[k] # NoRow /\ rows[k].version > fix.version
                       THEN rows'[k] = rows[k] ELSE rows'[k] = fix
               /\ rows[k] # NoRow => rows'[k] # NoRow /\ rows'[k].version >= rows[k].version
               /\ \A j \in Native : j # k => account_entry_state'[j] = account_entry_state[j]
               /\ account_entry_state' \in [Native -> StateRecords \cup {NoRow}]
               /\ t # 5 => account_entry_state' = account_entry_state
               /\ t = 5 => /\ k \in Native /\ e.live
                           /\ IF account_entry_state[k] # NoRow /\ account_entry_state[k].version > e.since
                              THEN account_entry_state'[k] = account_entry_state[k]
                              ELSE account_entry_state'[k] = [version |-> e.since, counters |-> e.counters]
               /\ k \in Native /\ account_entry_state[k] # NoRow =>
                    /\ account_entry_state'[k] # NoRow
                    /\ account_entry_state'[k].version >= account_entry_state[k].version
               /\ defined \subseteq defined' /\ defined' \subseteq defined \cup {k}
               /\ t \in {1, 2} => k \in defined'
<1> DEFINE c == seed.checkpoint  fix == seed.fix[k]  e == chain[c][k]  t == seed.table
           state == [version |-> e.since, counters |-> e.counters]
<1>1. /\ seed.pc = "insert" /\ k \in seed.todo /\ seed # Idle /\ InsertInv /\ RowsInv
  BY DEF InsertRow, SnapshotInv, Idle
<1>2. /\ t \in 1..5
      /\ t = 1 => Absentee(k)
      /\ t = 2 => k \in Pools
      /\ t = 3 => k \in Native \cup Lines
      /\ t = 4 => k \in Claims
      /\ t = 5 => k \in Native /\ e.live
      /\ t \in 2..4 => fix # NoRow
  BY <1>1 DEF InsertInv
<1>3. /\ FirstWins(c, k) = e /\ e \in KeyStates /\ fix \in RowRecords \cup {NoRow}
      /\ rows[k] \in RowRecords \cup {NoRow}
  BY <1>1, Seeding
<1>4. state \in StateRecords
  BY <1>3 DEF KeyStates, StateRecords
<1>5. /\ rows' = IF InsertOrder[t] \in {"pools", "balances", "claims"}
                 THEN [rows EXCEPT ![k] = Put(@, fix)] ELSE rows
      /\ account_entry_state' = IF InsertOrder[t] = "entries"
                                THEN [account_entry_state EXCEPT ![k] = Put(@, state)]
                                ELSE account_entry_state
      /\ defined' = IF InsertOrder[t] \in {"stubs", "pools"} THEN defined \cup {k} ELSE defined
  BY <1>3 DEF InsertRow
<1>6. /\ t \in 2..4 <=> InsertOrder[t] \in {"pools", "balances", "claims"}
      /\ t = 5 <=> InsertOrder[t] = "entries"
      /\ t \in {1, 2} <=> InsertOrder[t] \in {"stubs", "pools"}
  <2>1. t = 1 \/ t = 2 \/ t = 3 \/ t = 4 \/ t = 5
    BY <1>2
  <2> HIDE DEF t
  <2> QED
    BY <2>1, TablesAre
<1>7. /\ \A x \in RowRecords : x # NoRow /\ x.version \in Nat
      /\ \A x \in StateRecords : x # NoRow /\ x.version \in Nat
  BY Distinct DEF RowRecords, StateRecords
<1>8. /\ rows \in [Keys -> RowRecords \cup {NoRow}]
      /\ account_entry_state \in [Native -> StateRecords \cup {NoRow}]
  BY <1>1 DEF RowsInv
<1>9. /\ \A j \in Keys : j # k => rows'[j] = rows[j]
      /\ rows' \in [Keys -> RowRecords \cup {NoRow}]
      /\ t \notin 2..4 => rows' = rows
      /\ t \in 2..4 =>
           /\ fix # NoRow /\ t = Slot(k)
           /\ IF rows[k] # NoRow /\ rows[k].version > fix.version
              THEN rows'[k] = rows[k] ELSE rows'[k] = fix
      /\ rows[k] # NoRow => rows'[k] # NoRow /\ rows'[k].version >= rows[k].version
  <2>1. CASE t \in 2..4
    <3>1. rows' = [rows EXCEPT ![k] = Put(rows[k], fix)] /\ fix # NoRow
      BY <1>2, <1>5, <1>6, <2>1
    <3> DEFINE row == rows[k]  put == Put(row, fix)
    <3>2. /\ put \in RowRecords \cup {NoRow}
          /\ fix # NoRow => IF row # NoRow /\ row.version > fix.version THEN put = row ELSE put = fix
          /\ row # NoRow => put # NoRow /\ put.version >= row.version
      <4> HIDE DEF row, fix
      <4> QED
        BY <1>3, <1>7, PutIs DEF row
    <3>3. t = Slot(k)
      <4>1. t = 2 \/ t = 3 \/ t = 4
        BY <2>1
      <4> HIDE DEF t
      <4> QED
        BY <1>2, <4>1, Kinds DEF Slot
    <3> HIDE DEF fix, put
    <3>4. rows'[k] = put /\ rows' \in [Keys -> RowRecords \cup {NoRow}] /\ \A j \in Keys : j # k => rows'[j] = rows[j]
      BY <1>8, <3>1, <3>2 DEF put
    <3> QED
      BY <2>1, <3>1, <3>2, <3>3, <3>4
  <2>2. CASE t \notin 2..4
    <3>1. rows' = rows /\ (rows[k] # NoRow => rows[k].version >= rows[k].version)
      BY <1>3, <1>5, <1>6, <1>7, <2>2
    <3> QED
      BY <1>8, <2>2, <3>1
  <2> QED
    BY <2>1, <2>2
<1>10. /\ \A j \in Native : j # k => account_entry_state'[j] = account_entry_state[j]
       /\ account_entry_state' \in [Native -> StateRecords \cup {NoRow}]
       /\ t # 5 => account_entry_state' = account_entry_state
       /\ t = 5 => /\ k \in Native /\ e.live
                   /\ IF account_entry_state[k] # NoRow /\ account_entry_state[k].version > e.since
                      THEN account_entry_state'[k] = account_entry_state[k]
                      ELSE account_entry_state'[k] = state
       /\ k \in Native /\ account_entry_state[k] # NoRow =>
            /\ account_entry_state'[k] # NoRow
            /\ account_entry_state'[k].version >= account_entry_state[k].version
  <2>1. CASE t = 5
    <3>1. account_entry_state' = [account_entry_state EXCEPT ![k] = Put(account_entry_state[k], state)]
          /\ k \in Native /\ e.live
      BY <1>2, <1>5, <1>6, <2>1
    <3> DEFINE old == account_entry_state[k]  put == Put(old, state)
    <3>2. state.version = e.since
      OBVIOUS
    <3>3. /\ put \in StateRecords \cup {NoRow}
          /\ IF old # NoRow /\ old.version > state.version THEN put = old ELSE put = state
          /\ old # NoRow => put # NoRow /\ put.version >= old.version
      <4>1. old \in StateRecords \cup {NoRow} /\ state # NoRow
        BY <1>4, <1>7, <1>8, <3>1
      <4> HIDE DEF old, state
      <4> QED
        BY <1>4, <1>7, <4>1, PutIs
    <3> HIDE DEF state, put
    <3>4. /\ account_entry_state'[k] = put /\ account_entry_state' \in [Native -> StateRecords \cup {NoRow}]
          /\ \A j \in Native : j # k => account_entry_state'[j] = account_entry_state[j]
      BY <1>8, <3>1, <3>3 DEF put
    <3> QED
      BY <2>1, <3>1, <3>2, <3>3, <3>4
  <2>2. CASE t # 5
    <3>1. account_entry_state' = account_entry_state
      BY <1>5, <1>6, <2>2
    <3>2. k \in Native /\ account_entry_state[k] # NoRow =>
            account_entry_state[k].version >= account_entry_state[k].version
      BY <1>7, <1>8
    <3> QED
      BY <1>8, <2>2, <3>1, <3>2
  <2> QED
    BY <2>1, <2>2
<1>11. /\ defined \subseteq defined' /\ defined' \subseteq defined \cup {k}
       /\ t \in {1, 2} => k \in defined'
  BY <1>5, <1>6
<1> HIDE DEF t, e, fix
<1> QED
  BY <1>1, <1>2, <1>9, <1>10, <1>11 DEF t, e, fix

LEMMA InsertKeeps ==
    ASSUME SnapshotSeedAssumption, SnapshotInv, NEW k \in Keys, InsertRow(k)
    PROVE  SnapshotInv'
<1> DEFINE c == seed.checkpoint  fix == seed.fix[k]  e == chain[c][k]  t == seed.table
           state == [version |-> e.since, counters |-> e.counters]
<1>1. /\ seed.pc = "insert" /\ seed # Idle /\ k \in seed.todo /\ t \in 1..5
      /\ \A j \in Keys : j # k => rows'[j] = rows[j]
      /\ rows' \in [Keys -> RowRecords \cup {NoRow}]
      /\ t \notin 2..4 => rows' = rows
      /\ t \in 2..4 =>
           /\ fix # NoRow /\ t = Slot(k)
           /\ IF rows[k] # NoRow /\ rows[k].version > fix.version
              THEN rows'[k] = rows[k] ELSE rows'[k] = fix
      /\ rows[k] # NoRow => rows'[k] # NoRow /\ rows'[k].version >= rows[k].version
      /\ \A j \in Native : j # k => account_entry_state'[j] = account_entry_state[j]
      /\ account_entry_state' \in [Native -> StateRecords \cup {NoRow}]
      /\ t # 5 => account_entry_state' = account_entry_state
      /\ t = 5 => /\ k \in Native /\ e.live
                  /\ IF account_entry_state[k] # NoRow /\ account_entry_state[k].version > e.since
                     THEN account_entry_state'[k] = account_entry_state[k]
                     ELSE account_entry_state'[k] = state
      /\ k \in Native /\ account_entry_state[k] # NoRow =>
           /\ account_entry_state'[k] # NoRow
           /\ account_entry_state'[k].version >= account_entry_state[k].version
      /\ defined \subseteq defined' /\ defined' \subseteq defined \cup {k}
      /\ t \in {1, 2} => k \in defined'
  BY Inserting
<1>2. /\ InsertInv /\ IndexInv /\ ChainInv /\ RowsInv /\ CoverageInv /\ SettledInv /\ settled \in Nat
      /\ c \in 1..Height /\ c \in Nat /\ deployed \in Int /\ Height \in Nat
      /\ e \in KeyStates /\ e.since \in Nat
      /\ Sound(k, fix, c) /\ (k \notin Pools => deployed >= 0)
      /\ rows[k] # NoRow => rows[k].version \in Nat
      /\ seed.upto \in Nat /\ seed.upto <= c /\ reparse = {} /\ settled <= c
      /\ UNCHANGED <<chain, next, skipped, deployed, reparse, settled>>
      /\ Height' = Height /\ Entry' = Entry /\ Checkpoints' = Checkpoints /\ StoredLedgers' = StoredLedgers
      /\ \A l : Touched(l)' = Touched(l)
      /\ seed' = [seed EXCEPT !.todo = @ \ {k}]
  <2>1. UNCHANGED <<chain, next, skipped, deployed, reparse, settled>> /\ seed' = [seed EXCEPT !.todo = @ \ {k}]
    BY DEF InsertRow, indexVars
  <2>2. rows[k] # NoRow => rows[k].version \in Nat
    BY <1>1, Seeding DEF RowRecords
  <2>3. e.since \in Nat
    BY <1>1, Seeding DEF KeyStates
  <2>4. Height' = Height /\ Entry' = Entry /\ Checkpoints' = Checkpoints /\ StoredLedgers' = StoredLedgers
        /\ \A l : Touched(l)' = Touched(l)
    BY <2>1 DEF Height, Entry, Checkpoints, StoredLedgers, Touched
  <2>5. InsertInv /\ ChainInv /\ Height \in Nat
    BY ChainTypes DEF SnapshotInv
  <2> QED
    BY <1>1, <2>1, <2>2, <2>3, <2>4, <2>5, Seeding
<1>3. ASSUME t \in 2..4
      PROVE  /\ fix \in RowRecords /\ fix.version \in Nat /\ Faithful(k, fix)
             /\ ~ chain[fix.version][k].live => fix.closed # 0
             /\ fix.closed # 0 => fix.closed = c
             /\ IF e.live THEN fix.closed = 0 /\ fix.amount = e.amount /\ fix.version = e.since
                ELSE fix.closed # 0 /\ fix.version = c
  BY <1>1, <1>2, <1>3, FixIs
<1>4. /\ seed \in [pc : {"insert"}, checkpoint : Nat, upto : Nat, table : 1..5, fix : [Keys -> RowRecords \cup {NoRow}],
                 known : SUBSET Keys, matched : SUBSET Keys, todo : SUBSET Keys]
      /\ \A j \in seed.todo :
           /\ seed.table = 1 => Absentee(j)
           /\ seed.table = 2 => j \in Pools
           /\ seed.table = 3 => j \in Native \cup Lines
           /\ seed.table = 4 => j \in Claims
           /\ seed.table = 5 => j \in Native /\ chain[seed.checkpoint][j].live
           /\ seed.table \in 2..4 => seed.fix[j] # NoRow
      /\ \A j \in Keys \ Pools : seed.fix[j] # NoRow => j \in seed.matched \/ Absentee(j)
      /\ \A j \in Keys : Absentee(j) => j \in defined \/ (seed.table = 1 /\ j \in seed.todo)
      /\ \A j \in Keys : Rests(j, seed.upto) =>
           \/ IF j \in Pools THEN PoolShown(j) ELSE Right(j)
           \/ Corrected(j) /\ Pending(j)
      /\ \A j \in Native : Rests(j, seed.upto) => CountersShown(j) \/ seed.table < 5 \/ j \in seed.todo
  BY <1>1, <1>2 DEF InsertInv
<1>5. /\ seed'.pc = "insert" /\ seed'.checkpoint = c /\ seed'.upto = seed.upto /\ seed'.table = t
      /\ seed'.fix = seed.fix /\ seed'.known = seed.known /\ seed'.matched = seed.matched
      /\ seed'.todo = seed.todo \ {k} /\ seed' # Idle
      /\ seed' \in [pc : {"insert"}, checkpoint : Nat, upto : Nat, table : 1..5, fix : [Keys -> RowRecords \cup {NoRow}],
                 known : SUBSET Keys, matched : SUBSET Keys, todo : SUBSET Keys]
  <2> HIDE DEF t
  <2>1. /\ seed'.pc = "insert" /\ seed'.checkpoint = c /\ seed'.upto = seed.upto /\ seed'.table = seed.table
        /\ seed'.fix = seed.fix /\ seed'.known = seed.known /\ seed'.matched = seed.matched
        /\ seed'.todo = seed.todo \ {k}
        /\ seed' \in [pc : {"insert"}, checkpoint : Nat, upto : Nat, table : 1..5, fix : [Keys -> RowRecords \cup {NoRow}],
                 known : SUBSET Keys, matched : SUBSET Keys, todo : SUBSET Keys]
    BY <1>2, <1>4
  <2>2. seed' # Idle
    BY <2>1 DEF Idle
  <2> QED
    BY <2>1, <2>2 DEF t
<1> HIDE DEF fix, e, t, state
<1>6. /\ IndexInv' /\ ChainInv'
  BY <1>2 DEF IndexInv, ChainInv
<1>7. rows'[k] = rows[k] \/ (t \in 2..4 /\ rows'[k] = fix)
  BY <1>1
<1>8. account_entry_state'[k] = account_entry_state[k] \/ (t = 5 /\ account_entry_state'[k] = state)
  BY <1>1
<1>9. t = 5 => /\ k \in Native /\ e.live /\ e.since \in 1..Height /\ chain[e.since][k] = e
               /\ state.version = e.since /\ state.counters = e.counters
  BY <1>1, <1>2, Lasts DEF e, state
<1>10. RowsInv'
  <2>1. \A j \in Keys : Faithful(j, rows[j])'
    <3> TAKE j \in Keys
    <3>1. PICK row : row = rows'[j]
      OBVIOUS
    <3>2. Faithful(j, row)
      <4>1. CASE j = k
        BY <1>3, <1>7, <3>1, <4>1, <1>2 DEF RowsInv
      <4>2. CASE j # k
        BY <1>1, <1>2, <3>1, <4>2 DEF RowsInv
      <4> QED
        BY <4>1, <4>2
    <3>3. Faithful(j, row)'
      BY <1>2, <3>2 DEF Faithful, NoRow
    <3> QED
      BY <3>1, <3>3
  <2>2. ASSUME NEW j \in Native, account_entry_state'[j] # NoRow
        PROVE  /\ account_entry_state'[j].version \in 1..Height
               /\ chain[account_entry_state'[j].version][j].since = account_entry_state'[j].version
    <3>1. CASE account_entry_state'[j] = account_entry_state[j]
      BY <1>2, <2>2, <3>1 DEF RowsInv
    <3>2. CASE account_entry_state'[j] # account_entry_state[j]
      <4>1. j = k /\ t = 5 /\ account_entry_state'[j] = state
        BY <1>1, <1>8, <3>2
      <4> QED
        BY <1>9, <4>1
    <3> QED
      BY <3>1, <3>2
  <2>3. ASSUME NEW j \in Keys, rows'[j] # NoRow PROVE j \in defined'
    <3>1. CASE rows'[j] = rows[j]
      BY <1>1, <1>2, <2>3, <3>1 DEF RowsInv, RowsAreDefined
    <3>2. CASE rows'[j] # rows[j]
      <4>1. j = k /\ t \in 2..4 /\ t = Slot(k) /\ seed.fix[k] # NoRow
        BY <1>1, <1>7, <3>2 DEF fix
      <4>2. CASE t = 2
        BY <1>1, <4>1, <4>2
      <4>3. CASE t # 2
        <5>1. k \notin Pools
          BY <4>1, <4>3 DEF Slot
        <5>2. k \in seed.matched \/ Absentee(k)
          BY <1>4, <4>1, <5>1
        <5>3. k \in seed.matched => k \in defined
          BY <1>1, <1>2, Seeding DEF RowsInv, RowsAreDefined
        <5>4. Absentee(k) => k \in defined
          BY <1>4, <4>1 DEF t
        <5> QED
          BY <1>1, <4>1, <5>2, <5>3, <5>4
      <4> QED
        BY <4>2, <4>3
    <3> QED
      BY <3>1, <3>2
  <2>4. defined' \subseteq Keys
    BY <1>1, <1>2 DEF RowsInv
  <2> QED
    BY <1>1, <1>2, <2>1, <2>2, <2>3, <2>4 DEF RowsInv, RowsAreDefined, NoRow
<1>11. /\ \A j \in Keys : /\ rows[j] # NoRow => rows'[j] # NoRow /\ rows'[j].version >= rows[j].version
                          /\ rows[j] # NoRow => rows[j].version \in Nat
                          /\ rows'[j] # NoRow => rows'[j].version \in Nat
       /\ \A j \in Native : account_entry_state[j] # NoRow =>
            account_entry_state'[j] # NoRow /\ account_entry_state'[j].version >= account_entry_state[j].version
  <2>1. \A j \in Keys : /\ rows[j] # NoRow => rows[j].version \in Nat
                        /\ rows'[j] # NoRow => rows'[j].version \in Nat
    BY <1>1, <1>2 DEF RowsInv, RowRecords
  <2>2. \A j \in Native : account_entry_state[j] # NoRow =>
            account_entry_state'[j] # NoRow /\ account_entry_state'[j].version >= account_entry_state[j].version
    <3>1. \A j \in Native : account_entry_state[j] # NoRow => account_entry_state[j].version >= account_entry_state[j].version
      BY <1>2 DEF RowsInv, StateRecords
    <3> QED
      BY <1>1, <3>1
  <2>3. \A j \in Keys : rows[j] # NoRow => rows[j].version >= rows[j].version
    BY <2>1
  <2> QED
    BY <1>1, <2>1, <2>2, <2>3
<1>12. \A l \in 1..Height : Covered(l) => Covered(l)'
  <2>1. Improves
    <3>1. ASSUME NEW j \in Keys \ Pools, rows'[j] # rows[j]
          PROVE  /\ rows'[j] # NoRow
                 /\ ~ chain[rows'[j].version][j].live => rows'[j].closed # 0
      <4>1. j = k /\ t \in 2..4 /\ rows'[j] = fix
        BY <1>1, <1>7, <3>1
      <4> QED
        BY <1>1, <1>3, <4>1
    <3>2. ASSUME NEW j \in Native, account_entry_state'[j] # account_entry_state[j]
          PROVE  /\ account_entry_state'[j] # NoRow
                 /\ account_entry_state'[j].counters = chain[account_entry_state'[j].version][j].counters
      <4>1. j = k /\ t = 5 /\ account_entry_state'[j] = state
        BY <1>1, <1>8, <3>2
      <4>2. state # NoRow
        BY <1>2, Distinct DEF KeyStates, StateRecords, state
      <4> QED
        BY <1>9, <4>1, <4>2
    <3> QED
      BY <1>11, <3>1, <3>2, Kinds DEF Improves
  <2> QED
    BY <1>1, <1>2, <2>1, CoveredStays
<1>13. \A l \in StoredLedgers : l \in 1..Height
  BY <1>2 DEF StoredLedgers, IndexInv, SnapshotSeedAssumption
<1>14. CoverageInv'
  <2>1. ASSUME NEW j \in Claims, rows'[j] # NoRow, rows'[j].closed # 0,
               NEW l \in StoredLedgers \ reparse, l > rows'[j].closed
        PROVE  Covered(l)'
    <3>1. CASE rows'[j] = rows[j]
      BY <1>2, <1>12, <1>13, <2>1, <3>1 DEF CoverageInv
    <3>2. CASE rows'[j] # rows[j]
      <4>1. t \in 2..4 /\ rows'[j] = fix
        BY <1>1, <1>7, <3>2, Kinds
      <4>2. rows'[j].closed = c
        BY <1>3, <2>1, <4>1
      <4>3. l > seed.upto
        BY <1>2, <1>13, <2>1, <4>2
      <4> QED
        BY <1>1, <1>2, <1>12, <1>13, <4>3 DEF CoverageInv
    <3> QED
      BY <3>1, <3>2
  <2>2. ASSUME NEW l \in StoredLedgers, NEW j \in Pools, j \in Touched(l), chain[l][j].live
        PROVE  rows'[j] # NoRow /\ rows'[j].version >= l
    <3>1. j \in Keys /\ l \in Nat /\ rows[j] # NoRow /\ rows[j].version >= l
      BY <1>2, <1>13, <2>2, Kinds DEF CoverageInv
    <3> QED
      BY <1>11, <3>1
  <2> QED
    BY <1>1, <1>2, <1>5, <1>12, <1>13, <2>1, <2>2 DEF CoverageInv, NoRow
<1>15. ASSUME NEW u \in Nat, u <= c, Rests(k, u)
       PROVE  /\ e = Entry[k]
              /\ k \notin Pools /\ rows'[k] # rows[k] => Right(k)'
              /\ PoolShown(k) => PoolShown(k)'
              /\ k \in Pools /\ rows'[k] # rows[k] => PoolShown(k)'
              /\ k \in Native /\ CountersShown(k) => CountersShown(k)'
              /\ t = 5 => CountersShown(k)'
  <2>1. e = Entry[k] /\ Entry[k].since \in Nat
    BY <1>2, <1>15, AtCheckpoint DEF e
  <2>2. rows'[k] # rows[k] => /\ rows'[k] = fix /\ fix # NoRow
                              /\ IF e.live THEN fix.closed = 0 /\ fix.amount = e.amount /\ fix.version = e.since
                                 ELSE fix.closed # 0
    BY <1>1, <1>3, <1>7
  <2>3. k \notin Pools /\ rows'[k] # rows[k] => Right(k)'
    BY <1>2, <2>1, <2>2 DEF Right, NoRow
  <2>4. k \in Pools /\ rows'[k] # rows[k] => PoolShown(k)'
    BY <1>2, <2>1, <2>2 DEF PoolShown, NoRow
  <2>5. PoolShown(k) => PoolShown(k)'
    BY <1>2, <1>11, <2>1 DEF PoolShown, NoRow
  <2>6. k \in Native /\ CountersShown(k) => CountersShown(k)'
    <3> SUFFICES ASSUME k \in Native, CountersShown(k), account_entry_state'[k] # account_entry_state[k]
                 PROVE  CountersShown(k)'
      BY <1>2 DEF CountersShown
    <3> QED
      BY <1>2, <1>8, <2>1 DEF CountersShown, state
  <2>7. t = 5 => CountersShown(k)'
    <3> SUFFICES ASSUME t = 5 PROVE CountersShown(k)'
      OBVIOUS
    <3>1. account_entry_state[k] # NoRow =>
            /\ account_entry_state[k].version \in 1..Height
            /\ chain[account_entry_state[k].version][k].since = account_entry_state[k].version
      BY <1>2, <1>9 DEF RowsInv
    <3>2. account_entry_state[k] # NoRow => account_entry_state[k].version <= e.since
      <4> SUFFICES ASSUME account_entry_state[k] # NoRow PROVE account_entry_state[k].version <= e.since
        OBVIOUS
      <4>1. Height \in 1..Height /\ Entry = chain[Height] /\ account_entry_state[k].version \in 1..Height
        BY <1>2, <3>1, EntryIs
      <4>2. chain[account_entry_state[k].version][k].since <= chain[Height][k].since
        BY <1>2, <4>1, Lasts
      <4> QED
        BY <2>1, <3>1, <4>1, <4>2
    <3>3. account_entry_state[k] # NoRow => ~ (account_entry_state[k].version > e.since)
      BY <1>2, <3>1, <3>2
    <3>4. account_entry_state'[k] = state
      BY <1>1, <3>3
    <3> QED
      BY <1>2, <2>1, <3>4 DEF CountersShown, state
  <2> QED
    BY <2>1, <2>3, <2>4, <2>5, <2>6, <2>7
<1>16. \A j \in Keys : j # k =>
         /\ Right(j)' = Right(j) /\ PoolShown(j)' = PoolShown(j) /\ Corrected(j)' = Corrected(j)
         /\ j \in Native => CountersShown(j)' = CountersShown(j)
         /\ Pending(j)' = Pending(j)
  BY <1>1, <1>2, <1>5 DEF Right, PoolShown, Corrected, CountersShown, Pending, Slot, NoRow, t
<1>17. rows'[k] = rows[k] => Right(k)' = Right(k)
  BY <1>2 DEF Right, NoRow
<1>18. \A j : Rests(j, settled)' = Rests(j, settled) /\ Rests(j, seed.upto)' = Rests(j, seed.upto)
              /\ Absentee(j)' = Absentee(j)
  BY <1>2, <1>5 DEF Rests, Absentee
<1>19. SettledInv'
  <2> SUFFICES ASSUME settled > 0 PROVE SettledInv'
    BY <1>2 DEF SettledInv
  <2>1. /\ settled < next /\ \E d \in Checkpoints : settled <= d
        /\ \A j \in Keys \ Pools : Rests(j, settled) => Right(j)
        /\ \A j \in Pools : Rests(j, settled) => PoolShown(j)
        /\ \A j \in Native : Rests(j, settled) => CountersShown(j)
    BY <1>2 DEF SettledInv
  <2>2. ASSUME Rests(k, settled)
        PROVE  /\ k \notin Pools => Right(k)'
               /\ k \in Pools => PoolShown(k)'
               /\ k \in Native => CountersShown(k)'
    BY <1>2, <1>15, <1>17, <2>1, <2>2
  <2> QED
    BY <1>2, <1>16, <1>18, <2>1, <2>2, Kinds DEF SettledInv
<1>20. SeedInv'
  <2>1. \A j : Sound(j, seed.fix[j], seed.checkpoint)' = Sound(j, seed.fix[j], seed.checkpoint)
    BY <1>2, <1>5 DEF Sound, NoRow
  <2> QED
    BY <1>1, <1>2, <1>5, <1>11, <2>1, Seeding DEF SeedInv, NoRow
<1>21. ReadInv'
  BY <1>5 DEF ReadInv
<1>22. InsertInv'
  <2>1. \A j \in Keys : Absentee(j) => j \in defined' \/ (t = 1 /\ j \in seed'.todo)
    <3> TAKE j \in Keys
    <3>1. CASE j = k
      BY <1>1, <1>4, <3>1 DEF t
    <3>2. CASE j # k
      BY <1>1, <1>4, <1>5, <3>2 DEF t
    <3> QED
      BY <3>1, <3>2
  <2>2. ASSUME Rests(k, seed.upto)
        PROVE  /\ (IF k \in Pools THEN PoolShown(k)' ELSE Right(k)') \/ (Corrected(k)' /\ Pending(k)')
               /\ k \in Native => CountersShown(k)' \/ t < 5
    <3>1. /\ k \notin Pools /\ rows'[k] # rows[k] => Right(k)'
          /\ PoolShown(k) => PoolShown(k)'
          /\ k \in Pools /\ rows'[k] # rows[k] => PoolShown(k)'
          /\ t = 5 => CountersShown(k)'
      BY <1>2, <1>15, <2>2
    <3>2. k \in Native => CountersShown(k)' \/ t < 5
      BY <1>1, <3>1
    <3>3. CASE rows'[k] # rows[k] \/ (IF k \in Pools THEN PoolShown(k) ELSE Right(k))
      BY <1>17, <3>1, <3>2, <3>3
    <3>4. CASE rows'[k] = rows[k] /\ ~ (IF k \in Pools THEN PoolShown(k) ELSE Right(k))
      <4>1. Corrected(k) /\ Pending(k)
        BY <1>4, <2>2, <3>4
      <4>2. Corrected(k)'
        BY <1>5, <3>4, <4>1 DEF Corrected, NoRow
      <4>3. t \notin 2..4
        <5> SUFFICES ASSUME t \in 2..4 PROVE FALSE
          OBVIOUS
        <5>1. rows'[k] = fix
          BY <1>1, <1>2, <1>3, <4>1 DEF Corrected, fix
        <5>2. rows[k] = fix /\ fix # NoRow
          BY <1>1, <3>4, <5>1
        <5>3. e = Entry[k] /\ Entry[k].since \in Nat
          BY <1>2, <1>15, <2>2
        <5>4. k \in Pools => PoolShown(k)
          BY <1>3, <5>2, <5>3 DEF PoolShown
        <5>5. Right(k)
          BY <1>3, <5>2, <5>3 DEF Right
        <5> QED
          BY <3>4, <5>4, <5>5
      <4>4. Pending(k)'
        <5>1. Slot(k) \in 2..4
          BY DEF Slot
        <5>2. t < Slot(k)
          BY <4>1, <4>3, <5>1 DEF Pending, t
        <5> QED
          BY <1>5, <5>2 DEF Pending, Slot
      <4> QED
        BY <3>2, <4>2, <4>4
    <3> QED
      BY <3>3, <3>4
  <2>3. \A j \in Keys : Rests(j, seed.upto) =>
           \/ IF j \in Pools THEN PoolShown(j)' ELSE Right(j)'
           \/ Corrected(j)' /\ Pending(j)'
    BY <1>4, <1>16, <2>2
  <2>4. \A j \in Native : Rests(j, seed.upto) => CountersShown(j)' \/ t < 5 \/ j \in seed'.todo
    BY <1>4, <1>5, <1>16, <2>2, Kinds DEF t
  <2>5. \A j \in seed'.todo : j \in seed.todo
    BY <1>5
  <2> QED
    BY <1>2, <1>4, <1>5, <1>18, <2>1, <2>3, <2>4, <2>5 DEF InsertInv, NoRow, t
<1> QED
  BY <1>2, <1>5, <1>6, <1>10, <1>14, <1>19, <1>20, <1>21, <1>22 DEF SnapshotInv

-----------------------------------------------------------------------------
(* The invariant.                                                          *)

LEMMA SnapshotInitial ==
    ASSUME SnapshotSeedAssumption, SeedInit
    PROVE  SnapshotInv
<1>1. /\ chain = <<>> /\ next = Floor + 1 /\ skipped = {} /\ deployed = -1 /\ reparse = {}
      /\ rows = [k \in Keys |-> NoRow] /\ account_entry_state = [k \in Native |-> NoRow]
      /\ defined = {} /\ seed = Idle /\ settled = 0
      /\ Floor \in Nat /\ MaxLedger \in Nat /\ Height = 0
  BY DEF SeedInit, SnapshotSeedAssumption, Height
<1>2. IndexInv
  BY <1>1 DEF IndexInv
<1>3. ChainInv
  BY <1>1 DEF ChainInv
<1>4. RowsInv
  <2>1. \A k \in Keys : Faithful(k, rows[k])
    BY <1>1 DEF Faithful
  <2> QED
    BY <1>1, <2>1, Kinds DEF RowsInv, RowsAreDefined
<1>5. StoredLedgers = {}
  BY <1>1 DEF StoredLedgers
<1>6. CoverageInv
  BY <1>1, <1>5, Kinds DEF CoverageInv
<1>7. SettledInv /\ SeedInv /\ ReadInv /\ InsertInv
  BY <1>1 DEF SettledInv, SeedInv, ReadInv, InsertInv, Idle
<1> QED
  BY <1>1, <1>2, <1>3, <1>4, <1>6, <1>7 DEF SnapshotInv

LEMMA SnapshotStep ==
    ASSUME SnapshotSeedAssumption, SnapshotInv, [SeedNext]_vars
    PROVE  SnapshotInv'
<1>1. CASE \/ \E k \in Keys, v \in Amounts, c \in Counters : ChangeEntry(k, v, c)
           \/ \E k \in Keys : RemoveEntry(k)
           \/ QuietLedger
  <2>1. PICK state : Extends(state)
    BY <1>1, ClosesLedger DEF SnapshotInv
  <2> QED
    BY <2>1, GrowthKeeps
<1>2. CASE StoreNext \/ \E l \in reparse : Reparse(l)
  BY <1>2, StoresKeep
<1>3. CASE SkipNext
  BY <1>3, SkipKeeps
<1>4. CASE Deploy
  BY <1>4, DeployKeeps
<1>5. CASE StartReparse
  BY <1>5, StartReparseKeeps
<1>6. CASE \E c \in Checkpoints : StartSeed(c)
  BY <1>6, StartKeeps
<1>7. CASE \E k \in Keys : ReadRow(k) \/ InsertRow(k)
  BY <1>7, ReadKeeps, InsertKeeps
<1>8. CASE BuildCorrections
  BY <1>8, BuildKeeps
<1>9. CASE NextTable
  BY <1>9, TableKeeps, CompletionKeeps
<1>10. CASE SeedDies
  BY <1>10, DeathKeeps
<1>11. CASE UNCHANGED vars
  <2>1. UNCHANGED <<chain, tableVars, seedVars, next, skipped, deployed, reparse>>
    BY <1>11 DEF vars, indexVars
  <2>2. /\ IndexInv /\ CoverageInv /\ SeedInv /\ next \in Nat
        /\ UNCHANGED <<chain, next, skipped, deployed, reparse, rows, account_entry_state, seed, settled>>
    BY <2>1 DEF SnapshotInv, IndexInv, tableVars, seedVars
  <2>3. IndexInv'
    BY <2>2 DEF IndexInv, Height
  <2>4. CoverageInv'
    <3>1. \A l : Covered(l)' = Covered(l) /\ Touched(l)' = Touched(l)
      BY <2>2 DEF Covered, Touched, NoRow
    <3>2. StoredLedgers' = StoredLedgers
      BY <2>2 DEF StoredLedgers
    <3> QED
      BY <2>2, <3>1, <3>2 DEF CoverageInv, Idle, NoRow
  <2>5. seed # Idle => reparse' = {} /\ (Native \cup Lines # {} => deployed' < seed.checkpoint)
    BY <2>2 DEF SeedInv
  <2> QED
    BY <2>1, <2>2, <2>3, <2>4, <2>5, IndexStep
<1> QED
  BY <1>1, <1>2, <1>3, <1>4, <1>5, <1>6, <1>7, <1>8, <1>9, <1>10, <1>11 DEF SeedNext

\* The invariant of the seed: what the rows, the stored ledgers and the
\* corrections of a running seed have to do with the chain holds in every
\* state, for any keys, amounts, floor, checkpoint frequency and bounds.
THEOREM SeedInvariant ==
    ASSUME SnapshotSeedAssumption
    PROVE  SeedSpec => []SnapshotInv
<1>1. SeedInit => SnapshotInv
  BY SnapshotInitial
<1>2. SnapshotInv /\ [SeedNext]_vars => SnapshotInv'
  BY SnapshotStep
<1> QED
  BY <1>1, <1>2, PTL DEF SeedSpec

\* The cursor, the gaps, the re-parsed ledgers and the versions and closures
\* of the rows (SeedTypeOK) have their types.
THEOREM SeedTypesCorrect ==
    ASSUME SnapshotSeedAssumption
    PROVE  SeedSpec => []SeedTypeOK
<1>1. ASSUME SnapshotInv PROVE SeedTypeOK
  <2>1. IndexInv /\ ChainInv /\ RowsInv /\ SettledInv /\ settled \in Nat /\ Floor \in Nat /\ MaxLedger \in Nat
    BY <1>1 DEF SnapshotInv, SnapshotSeedAssumption
  <2>2. Height \in Nat /\ Height <= MaxLedger
    BY <2>1, ChainTypes DEF IndexInv
  <2>3. next \in (Floor + 1)..(MaxLedger + 1 + Floor)
    BY <2>1, <2>2 DEF IndexInv
  <2>4. settled \in 0..Height
    <3>1. CASE settled > 0
      <4>1. PICK c \in 1..Height : settled <= c
        BY <2>1, <3>1, ChainTypes DEF SettledInv
      <4> QED
        BY <2>1, <2>2, <4>1
    <3> QED
      BY <2>1, <2>2, <3>1
  <2>5. ASSUME NEW k \in Keys, rows[k] # NoRow
        PROVE  rows[k].version \in 1..Height /\ rows[k].closed \in {0, rows[k].version}
    BY <2>1, <2>5 DEF RowsInv, Faithful
  <2> QED
    BY <2>1, <2>3, <2>4, <2>5 DEF SeedTypeOK, IndexInv
<1> QED
  BY <1>1, SeedInvariant, PTL

-----------------------------------------------------------------------------
(* What a seed achieves.                                                   *)

\* The last change of a key that is known since ledger c is stored, or was
\* made before it.
LEMMA LastChange ==
    ASSUME SnapshotInv, SnapshotSeedAssumption, Height > 0, NEW k \in Keys, NEW c \in Nat, KnownSince(c, k)
    PROVE  /\ ChainInv /\ Entry = chain[Height] /\ Height \in 1..Height /\ Entry[k].since \in 0..Height
           /\ Entry[k].since > c => /\ Entry[k].since \in StoredLedgers /\ k \in Touched(Entry[k].since)
                                    /\ chain[Entry[k].since][k] = Entry[k]
<1>1. ChainInv /\ IndexInv /\ Floor \in Nat /\ Height \in Nat
  BY ChainTypes DEF SnapshotInv, SnapshotSeedAssumption
<1>2. Entry = chain[Height] /\ Height \in 1..Height
  BY <1>1, EntryIs
<1>3. Entry[k].since \in 0..Height
  BY <1>1, <1>2, Lasts
<1>4. ASSUME Entry[k].since > c
      PROVE  /\ Entry[k].since \in StoredLedgers /\ k \in Touched(Entry[k].since)
             /\ chain[Entry[k].since][k] = Entry[k]
  <2>1. Entry[k].since \in (c + 1)..Height /\ Entry[k].since # 0
    BY <1>1, <1>3, <1>4
  <2>2. k \in Touched(Entry[k].since) /\ chain[Entry[k].since][k] = Entry[k]
    BY <1>1, <1>2, <2>1, Lasts
  <2>3. Entry[k].since < next /\ Entry[k].since \notin skipped /\ Entry[k].since > Floor
    BY <2>1, <2>2 DEF KnownSince
  <2> QED
    BY <1>1, <1>3, <2>2, <2>3 DEF StoredLedgers, IndexInv
<1> QED
  BY <1>1, <1>2, <1>3, <1>4

LEMMA Settled ==
    ASSUME SnapshotSeedAssumption, SnapshotInv
    PROVE  HoldingsSettle /\ PoolsSettle /\ CountersSettle
<1> SUFFICES ASSUME settled > 0, NEW k \in Keys, KnownSince(settled, k)
             PROVE  /\ k \notin Pools /\ reparse = {} => Right(k)
                    /\ k \in Pools /\ Entry[k].live => Right(k)
                    /\ k \in Native /\ Entry[k].live =>
                         /\ account_entry_state[k] # NoRow
                         /\ account_entry_state[k].counters = Entry[k].counters
  BY Kinds DEF HoldingsSettle, PoolsSettle, CountersSettle
<1> DEFINE T == Entry[k].since
<1>1. /\ ChainInv /\ RowsInv /\ CoverageInv /\ SettledInv /\ settled \in Nat /\ Faithful(k, rows[k])
      /\ rows[k] # NoRow => rows[k].version \in Nat
  BY DEF SnapshotInv, RowsInv, RowRecords
<1>2. Height > 0 /\ Height \in Nat
  <2>1. PICK c \in 1..Height : settled <= c
    BY <1>1, ChainTypes DEF SettledInv
  <2> QED
    BY <1>1, <2>1, ChainTypes
<1>3. /\ Entry = chain[Height] /\ Height \in 1..Height /\ T \in 0..Height /\ T \in Nat
      /\ T > settled => T \in StoredLedgers /\ k \in Touched(T) /\ chain[T][k] = Entry[k]
  BY <1>1, <1>2, LastChange
<1>4. T <= settled <=> Rests(k, settled)
  BY DEF Rests
<1>5. T > settled => Covered(T)
  BY <1>1, <1>3 DEF CoverageInv
<1>6. ASSUME k \notin Pools, reparse = {} PROVE Right(k)
  <2>1. CASE T <= settled
    BY <1>1, <1>4, <1>6, <2>1 DEF SettledInv
  <2>2. CASE T > settled
    <3>1. rows[k] # NoRow /\ rows[k].version >= T /\ (rows[k].version = T /\ ~ Entry[k].live => rows[k].closed # 0)
      BY <1>3, <1>5, <1>6, <2>2 DEF Covered
    <3>2. Entry[k].live \/ rows[k].closed # 0 \/ rows[k].version > T
      BY <1>1, <1>3, <3>1
    <3>3. IF Entry[k].live THEN rows[k].closed = 0 /\ rows[k].amount = Entry[k].amount ELSE rows[k].closed # 0
      BY <1>1, <1>2, <3>1, <3>2, NewIsRight
    <3> QED
      BY <3>1, <3>3 DEF Right
  <2> QED
    BY <1>1, <1>3, <2>1, <2>2
<1>7. ASSUME k \in Pools, Entry[k].live PROVE Right(k)
  <2>1. rows[k] # NoRow /\ rows[k].version >= T
    <3>1. CASE T <= settled
      BY <1>1, <1>4, <1>7, <3>1 DEF SettledInv, PoolShown
    <3>2. CASE T > settled
      BY <1>1, <1>3, <1>7, <3>2 DEF CoverageInv
    <3> QED
      BY <1>1, <1>3, <3>1, <3>2
  <2>2. rows[k].closed = 0 /\ rows[k].amount = Entry[k].amount
    BY <1>1, <1>2, <1>7, <2>1, NewIsRight
  <2> QED
    BY <1>7, <2>1, <2>2 DEF Right
<1>8. ASSUME k \in Native, Entry[k].live
      PROVE  account_entry_state[k] # NoRow /\ account_entry_state[k].counters = Entry[k].counters
  <2>1. CASE T <= settled
    <3>1. account_entry_state[k] = [version |-> T, counters |-> Entry[k].counters]
      BY <1>1, <1>4, <1>8, <2>1 DEF SettledInv, CountersShown
    <3>2. account_entry_state[k].version = T /\ account_entry_state[k].counters = Entry[k].counters
      BY <3>1
    <3> QED
      BY <1>3, <3>2 DEF NoRow
  <2>2. CASE T > settled
    <3>1. /\ account_entry_state[k] # NoRow /\ account_entry_state[k].version >= T
          /\ account_entry_state[k].version = T => account_entry_state[k].counters = Entry[k].counters
      BY <1>3, <1>5, <1>8, <2>2, Kinds DEF Covered
    <3> DEFINE v == account_entry_state[k].version
    <3>2. v \in 1..Height /\ chain[v][k].since = v
      BY <1>1, <1>8, <3>1 DEF RowsInv
    <3>3. v <= T
      BY <1>1, <1>3, <3>2, Lasts
    <3>4. v = T
      BY <1>2, <1>3, <3>1, <3>2, <3>3
    <3> QED
      BY <3>1, <3>4
  <2> QED
    BY <1>1, <1>3, <2>1, <2>2
<1> QED
  BY <1>6, <1>7, <1>8

LEMMA Signals ==
    ASSUME SnapshotSeedAssumption, SnapshotInv
    PROVE  SignalsAreDefects
<1> SUFFICES ASSUME seed.pc = "read", NEW k \in seed.todo, rows[k] # NoRow
             PROVE  Verdict(rows[k], FirstWins(seed.checkpoint, k), seed.checkpoint) \notin
                      {"ClosedButLiveConflict", "DivergentOursNewer", "DivergentSameLedger"}
  BY DEF SignalsAreDefects
<1> DEFINE c == seed.checkpoint  e == chain[c][k]  row == rows[k]  v == row.version
<1>1. seed # Idle
  BY DEF Idle
<1>2. /\ k \in Keys /\ ChainInv /\ c \in 1..Height /\ c \in Nat /\ FirstWins(c, k) = e
      /\ e \in KeyStates /\ row \in RowRecords /\ Faithful(k, row)
  BY <1>1, Seeding
<1>3. /\ v \in Nat /\ v \in 1..Height /\ e.since \in Nat /\ e.live \in BOOLEAN
  BY <1>2 DEF Faithful, RowRecords, KeyStates
<1>4. v < c /\ e.since <= v => chain[v][k] = e
  BY <1>2, <1>3, Lasts
<1>5. v < c /\ e.since <= v /\ e.live => row.closed = 0 /\ row.amount = e.amount
  BY <1>2, <1>4 DEF Faithful
<1> HIDE DEF c, e
<1>6. CASE v >= c
  <2>1. Verdict(row, e, c) = "NewerThanCheckpoint"
    BY <1>2, <1>6, VerdictIs
  <2> QED
    BY <1>2, <2>1 DEF c
<1>7. CASE v < c /\ row.closed # 0
  <2>1. Verdict(row, e, c) \in {"AlreadyClosed", "ClosedButLive"}
    BY <1>2, <1>3, <1>5, <1>7, VerdictIs
  <2> QED
    BY <1>2, <2>1 DEF c
<1>8. CASE v < c /\ row.closed = 0
  <2>1. Verdict(row, e, c) \in {"HealFromSnapshot", "Stale", "Agree", "Closure", "Ghost"}
    BY <1>2, <1>3, <1>5, <1>8, VerdictIs
  <2> QED
    BY <1>2, <2>1 DEF c
<1> QED
  BY <1>2, <1>3, <1>6, <1>7, <1>8

\* Once a seed is through, every holding, pool and counter that was not
\* changed since, or whose later changes are stored, is the network's; and a
\* seed reports no defect of the writer that is none.  What seed.rs promises
\* an operator who runs it beside the live indexer.
THEOREM SeedingSettles ==
    ASSUME SnapshotSeedAssumption
    PROVE  SeedSpec => []SeedSettles
<1>1. SnapshotInv => SeedSettles
  BY Settled, Signals DEF SeedSettles
<1> QED
  BY <1>1, SeedInvariant, PTL

\* No row is ever there without the accounts, assets and pools it refers to,
\* in whatever step a seed dies.
THEOREM RowsHaveDimensions ==
    ASSUME SnapshotSeedAssumption
    PROVE  SeedSpec => []RowsAreDefined
<1>1. SnapshotInv => RowsAreDefined
  BY DEF SnapshotInv, RowsInv
<1> QED
  BY <1>1, SeedInvariant, PTL

LEMMA InsertNotWorse ==
    ASSUME SnapshotSeedAssumption, SnapshotInv
    PROVE  InsertKeepsRight
<1> SUFFICES ASSUME NEW k \in Keys, InsertRow(k), Right(k), KnownSince(seed.checkpoint, k),
                    k \in Pools => Entry[k].live
             PROVE  Right(k)'
  BY DEF InsertKeepsRight
<1> DEFINE c == seed.checkpoint  fix == seed.fix[k]  T == Entry[k].since
<1>1. /\ seed # Idle /\ rows[k] \in RowRecords \cup {NoRow}
      /\ seed.table \notin 2..4 => rows' = rows
      /\ seed.table \in 2..4 =>
           /\ fix # NoRow
           /\ IF rows[k] # NoRow /\ rows[k].version > fix.version
              THEN rows'[k] = rows[k] ELSE rows'[k] = fix
  <2>1. seed # Idle
    BY Inserting
  <2> QED
    BY <2>1, Inserting, Seeding
<1>2. chain' = chain /\ Entry' = Entry
  BY DEF InsertRow, indexVars, Entry, Height
<1>3. CASE rows'[k] = rows[k]
  BY <1>2, <1>3 DEF Right, NoRow
<1>4. CASE rows'[k] # rows[k]
  <2>1. rows'[k] = fix /\ fix # NoRow /\ ~ (rows[k] # NoRow /\ rows[k].version > fix.version)
    BY <1>1, <1>4
  <2>2. /\ ChainInv /\ CoverageInv /\ c \in 1..Height /\ c \in Nat /\ Sound(k, fix, c) /\ (k \notin Pools => deployed >= 0)
        /\ seed.upto \in Nat /\ seed.upto <= c /\ Height > 0
    BY <1>1, Seeding, ChainTypes
  <2>3. /\ fix.version \in Nat
        /\ IF chain[c][k].live
           THEN fix.closed = 0 /\ fix.amount = chain[c][k].amount /\ fix.version = chain[c][k].since
           ELSE fix.closed # 0 /\ fix.version = c
    BY <2>1, <2>2, FixIs
  <2>4. chain[c][k].since <= c
    BY <2>2 DEF ChainInv
  <2>5. /\ T \in Nat /\ T \in 0..Height
        /\ T > c => T \in StoredLedgers /\ k \in Touched(T) /\ chain[T][k] = Entry[k]
    BY <2>2, LastChange
  <2>6. CASE T <= c
    <3>1. chain[c][k] = Entry[k]
      <4>1. Entry = chain[Height] /\ Height \in 1..Height /\ c \in 1..Height
        BY <2>2, LastChange
      <4> QED
        BY <2>2, <2>5, <2>6, <4>1, ChainTypes, Lasts
    <3> QED
      BY <1>2, <2>1, <2>3, <3>1 DEF Right, NoRow
  <2>7. CASE T > c
    <3>1. rows[k] # NoRow /\ rows[k].version >= T
      <4>1. CASE k \in Pools
        BY <2>2, <2>5, <2>7, <4>1 DEF CoverageInv
      <4>2. CASE k \notin Pools
        <5>1. Covered(T)
          BY <1>1, <2>2, <2>5, <2>7 DEF CoverageInv
        <5> QED
          BY <2>5, <2>7, <4>2, <5>1 DEF Covered
      <4> QED
        BY <4>1, <4>2
    <3>2. rows[k].version \in Nat /\ fix.version <= c
      BY <1>1, <2>2, <2>3, <2>4, <3>1 DEF RowRecords
    <3>3. rows[k].version > fix.version
      BY <2>2, <2>3, <2>5, <2>7, <3>1, <3>2
    <3> QED
      BY <2>1, <3>1, <3>3
  <2> QED
    BY <2>2, <2>5, <2>6, <2>7
<1> QED
  BY <1>3, <1>4

\* No insert of a seed makes a row wrong that was right, however far the
\* chain and the indexer have moved since its checkpoint.
THEOREM InsertsNeverWorse ==
    ASSUME SnapshotSeedAssumption
    PROVE  SeedSpec => [][InsertKeepsRight]_vars
<1>1. SnapshotInv /\ [SeedNext]_vars => [InsertKeepsRight]_vars
  BY InsertNotWorse
<1> QED
  BY <1>1, SeedInvariant, PTL DEF SeedSpec
=============================================================================
