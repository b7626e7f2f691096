----------------------- MODULE PartitionWriterProofs -----------------------
(***************************************************************************)
(* Proofs about PartitionWriter, for every number of writers, ledgers and  *)
(* tables and every assignment of staged rows.  The argument is that rows  *)
(* never leave a table, so it is enough that nothing is put into `markers` *)
(* before commit() has seen every entity insert acknowledged.              *)
(***************************************************************************)
EXTENDS PartitionWriter, Integers, WellFoundedInduction, TLAPS

\* A set of natural numbers that is not empty has a least element.
LEMMA Smallest ==
    ASSUME NEW T \in SUBSET Nat, T # {}
    PROVE  \E m \in T : \A x \in T : m <= x
<1> DEFINE Less == {ss \in Nat \X Nat : ss[1] < ss[2]}
<1>1. IsWellFoundedOn(Less, Nat)
  BY NatLessThanWellFounded DEF OpToRel
<1>2. PICK m \in T : \A x \in T : ~ (<<x, m>> \in Less)
  <2> HIDE DEF Less
  <2> QED
    BY <1>1, WFMin
<1>3. ASSUME NEW x \in T PROVE m <= x
  <2>1. ~ (x < m)
    BY <1>2
  <2> QED
    BY <2>1
<1> QED
  BY <1>3

\* A set of numbers that is bounded and not empty has a greatest element.
LEMMA Greatest ==
    ASSUME NEW n \in Nat, NEW T \in SUBSET (0..n), T # {}
    PROVE  \E m \in T : \A x \in T : x <= m
<1> DEFINE U == {n - x : x \in T}
<1>1. U \in SUBSET Nat /\ U # {}
  <2>1. \A x \in T : x \in 0..n /\ n - x \in Nat
    OBVIOUS
  <2> QED
    BY <2>1
<1>2. PICK u \in U : \A v \in U : u <= v
  <2> HIDE DEF U
  <2> QED
    BY <1>1, Smallest
<1>3. PICK m \in T : u = n - m
  OBVIOUS
<1>4. ASSUME NEW x \in T PROVE x <= m
  <2>1. u <= n - x
    BY <1>2
  <2> QED
    BY <1>3, <2>1
<1> QED
  BY <1>4

USE PartitionWriterAssumption DEF Tables

-----------------------------------------------------------------------------
\* A writer that has just been made satisfies what is asked of writers.
LEMMA FreshWriter ==
    ASSUME NEW phase \in Phases
    PROVE  /\ Fresh(phase) \in WriterType
           /\ Fresh(phase).phase = phase
           /\ Fresh(phase).inserts = NoRows
           /\ Fresh(phase).ledger_rows = {}
           /\ Fresh(phase).next = 1
           /\ \A t \in Tables : NoRows[t] = {}
  BY DEF Fresh, NoRows, WriterType

\* A writer after a write, and one after the end of an insert.
Updated(r, p, i, lr) == [r EXCEPT !.phase = p, !.inserts = i, !.ledger_rows = lr]
Proceeding(r, n) == [r EXCEPT !.phase = "commit", !.next = n]

\* They are writers, and their fields are what they were set to.
LEMMA UpdatedWriter ==
    ASSUME NEW r \in WriterType, NEW p \in Phases, NEW i \in [Tables -> SUBSET Ledgers],
           NEW lr \in SUBSET Ledgers
    PROVE  /\ Updated(r, p, i, lr) \in WriterType
           /\ Updated(r, p, i, lr).phase = p
           /\ Updated(r, p, i, lr).inserts = i
           /\ Updated(r, p, i, lr).ledger_rows = lr
           /\ Updated(r, p, i, lr).next = r.next
  BY DEF WriterType, Updated

LEMMA ProceedingWriter ==
    ASSUME NEW r \in WriterType, NEW n \in Nat
    PROVE  /\ Proceeding(r, n) \in WriterType
           /\ Proceeding(r, n).phase = "commit"
           /\ Proceeding(r, n).next = n
           /\ Proceeding(r, n).inserts = r.inserts
           /\ Proceeding(r, n).ledger_rows = r.ledger_rows
  BY DEF WriterType, Phases, Proceeding

\* Every initial state satisfies the invariant: history is seeded complete.
LEMMA InitInv == PWInit => PWInv
<1> SUFFICES ASSUME PWInit PROVE PWInv
  OBVIOUS
<1>1. PICK seeded \in SUBSET Ledgers : StoreHolds(seeded)
  BY DEF PWInit
<1>2. \A w \in Writers : writer[w] = Fresh("closed")
  BY DEF PWInit
<1>3. PWTypeOK
  BY <1>1 DEF PWInit, PWTypeOK, StoreHolds, Fresh, NoRows, WriterType, Phases
<1>4. MarkerImpliesRows /\ MarkersWait /\ RowsOnlyWhereStaged
  BY <1>1 DEF MarkerImpliesRows, MarkersWait, RowsOnlyWhereStaged, StoreHolds,
              Complete, NoRows
<1>5. NothingEnded /\ BufferedIsStreamed /\ InsertsAreStreamed /\ PassedIsLanded
  BY <1>2 DEF NothingEnded, BufferedIsStreamed, InsertsAreStreamed, PassedIsLanded, Fresh, NoRows
<1> QED
  BY <1>3, <1>4, <1>5 DEF PWInv

\* A step that replaces a writer by a fresh one and touches nothing else:
\* open, abort, every failure of commit, and the death of the process.
LEMMA RenewInv ==
    ASSUME PWInv, NEW w \in Writers, NEW phase \in Phases,
           writer' = [writer EXCEPT ![w] = Fresh(phase)],
           UNCHANGED storeVars
    PROVE  PWInv'
<1> USE DEF PWInv, storeVars
<1>1. PWTypeOK'
  BY FreshWriter DEF PWTypeOK
<1>2. (MarkerImpliesRows /\ MarkersWait /\ RowsOnlyWhereStaged)'
  BY DEF MarkerImpliesRows, MarkersWait, RowsOnlyWhereStaged, Complete
<1>3. \A v \in Writers : writer'[v] = IF v = w THEN Fresh(phase) ELSE writer[v]
  BY DEF PWTypeOK
<1>4. (NothingEnded /\ BufferedIsStreamed /\ InsertsAreStreamed /\ PassedIsLanded)'
  BY <1>3, FreshWriter DEF NothingEnded, BufferedIsStreamed, InsertsAreStreamed, PassedIsLanded
<1> QED
  BY <1>1, <1>2, <1>4

\* A write puts rows of one ledger into inserts; when it went through, they
\* are in the insert of every table of `must`.
LEMMA WriteInv ==
    ASSUME PWInv, NEW w \in Writers, NEW l \in Ledgers,
           NEW must \in SUBSET StagedIn[l], NEW S \in SUBSET must,
           NEW buffered \in SUBSET {l}, buffered = {} \/ must = StagedIn[l],
           writer[w].phase = "open",
           writer' = [writer EXCEPT ![w].phase = IF S = must THEN "open" ELSE "failed",
                                    ![w].inserts = Stream(w, l, S),
                                    ![w].ledger_rows = @ \cup buffered],
           streamed' = SentTo(l, S),
           UNCHANGED <<rows, ledgers, markers>>
    PROVE  PWInv'
<1> USE DEF PWInv
<1>1. S \subseteq Tables /\ StagedIn[l] \subseteq Tables
  OBVIOUS
<1>2. /\ Stream(w, l, S) \in [Tables -> SUBSET Ledgers]
      /\ SentTo(l, S) \in [Tables -> SUBSET Ledgers]
  <2>1. writer[w].inserts \in [Tables -> SUBSET Ledgers] /\ streamed \in [Tables -> SUBSET Ledgers]
    BY DEF PWTypeOK, WriterType
  <2>2. \A t \in Tables : writer[w].inserts[t] \cup {l} \in SUBSET Ledgers
                         /\ streamed[t] \cup {l} \in SUBSET Ledgers
    BY <2>1
  <2> QED
    BY <2>1, <2>2 DEF Stream, SentTo
<1>3. \A t \in Tables :
         /\ Stream(w, l, S)[t] = IF t \in S THEN writer[w].inserts[t] \cup {l}
                                           ELSE writer[w].inserts[t]
         /\ SentTo(l, S)[t] = IF t \in S THEN streamed[t] \cup {l} ELSE streamed[t]
  BY DEF Stream, SentTo
<1>4. /\ writer[w] \in WriterType
      /\ writer'[w] = [writer[w] EXCEPT !.phase = IF S = must THEN "open" ELSE "failed",
                                        !.inserts = Stream(w, l, S),
                                        !.ledger_rows = @ \cup buffered]
      /\ \A v \in Writers : v # w => writer'[v] = writer[v]
  BY DEF PWTypeOK
<1>5. /\ writer'[w] \in WriterType
      /\ writer'[w].phase = IF S = must THEN "open" ELSE "failed"
      /\ writer'[w].inserts = Stream(w, l, S)
      /\ writer'[w].ledger_rows = writer[w].ledger_rows \cup buffered
      /\ writer'[w].next = writer[w].next
  <2> DEFINE p == IF S = must THEN "open" ELSE "failed"
             lr == writer[w].ledger_rows \cup buffered
             i == Stream(w, l, S)
             r == writer[w]
  <2>1. p \in Phases /\ lr \in SUBSET Ledgers /\ i \in [Tables -> SUBSET Ledgers]
    BY <1>2, <1>4 DEF WriterType, Phases
  <2>2. writer'[w] = Updated(r, p, i, lr)
    BY <1>4 DEF Updated
  <2>3. r \in WriterType
    BY <1>4
  <2> HIDE DEF p, lr, i, r
  <2>4. /\ writer'[w] \in WriterType
        /\ writer'[w].phase = p
        /\ writer'[w].inserts = i
        /\ writer'[w].ledger_rows = lr
        /\ writer'[w].next = r.next
    BY ONLY <2>1, <2>2, <2>3, UpdatedWriter
  <2> QED
    BY ONLY <2>4 DEF p, lr, i, r
<1>6. PWTypeOK'
  BY <1>2, <1>4, <1>5 DEF PWTypeOK
<1>7. (MarkerImpliesRows /\ MarkersWait)'
  BY DEF MarkerImpliesRows, MarkersWait, Complete
<1>8. RowsOnlyWhereStaged'
  BY <1>1 DEF RowsOnlyWhereStaged, SentTo, PWTypeOK
<1>9. BufferedIsStreamed'
  <2> SUFFICES ASSUME NEW v \in Writers, writer'[v].phase \in Accepting,
                      NEW k \in writer'[v].ledger_rows, NEW t \in StagedIn[k]
               PROVE  k \in writer'[v].inserts[t]
    BY DEF BufferedIsStreamed
  <2>0. k \in Ledgers /\ t \in Tables
    BY <1>6 DEF PWTypeOK, WriterType
  <2>1. CASE v # w
    BY <2>1, <1>4 DEF BufferedIsStreamed
  <2>2. CASE v = w
    <3>1. S = must
      BY <2>2, <1>5 DEF Accepting
    <3>2. CASE k \in buffered
      <4>1. k = l /\ must = StagedIn[l]
        BY <3>2
      <4>2. t \in S
        BY <3>1, <4>1
      <4> QED
        BY ONLY <2>0, <2>2, <4>1, <4>2, <1>5, <1>3
    <3>3. CASE k \in writer[w].ledger_rows
      <4>1. k \in writer[w].inserts[t]
        BY <3>3 DEF BufferedIsStreamed, Accepting
      <4> QED
        BY ONLY <2>0, <2>2, <4>1, <1>5, <1>3
    <3> QED
      BY <2>2, <3>2, <3>3, <1>5
  <2> QED
    BY <2>1, <2>2
<1>10. InsertsAreStreamed'
  <2> SUFFICES ASSUME NEW v \in Writers, NEW t \in Tables, NEW k \in writer'[v].inserts[t]
               PROVE  k \in streamed'[t]
    BY DEF InsertsAreStreamed
  <2>1. streamed[t] \subseteq streamed'[t]
    BY DEF SentTo
  <2>2. CASE v # w
    BY <2>1, <2>2, <1>4 DEF InsertsAreStreamed
  <2>3. CASE v = w
    <3>0. k \in Stream(w, l, S)[t]
      BY <2>3, <1>5
    <3>1. k \in writer[w].inserts[t] \/ (t \in S /\ k = l)
      <4>1. CASE t \in S
        <5>1. Stream(w, l, S)[t] = writer[w].inserts[t] \cup {l}
          BY <4>1, <1>3
        <5> QED
          BY <3>0, <4>1, <5>1
      <4>2. CASE t \notin S
        BY <3>0, <4>2, <1>3
      <4> QED
        BY <4>1, <4>2
    <3>2. CASE k \in writer[w].inserts[t]
      BY <2>1, <3>2 DEF InsertsAreStreamed
    <3>3. CASE t \in S /\ k = l
      BY <3>3, <1>3
    <3> QED
      BY <3>1, <3>2, <3>3
  <2> QED
    BY <2>2, <2>3
<1>11. NothingEnded'
  BY <1>4, <1>5 DEF NothingEnded
<1>12. PassedIsLanded'
  <2>1. writer'[w].phase \notin {"commit", "marker"}
    BY <1>5
  <2> QED
    BY <1>4, <2>1 DEF PassedIsLanded
<1> QED
  BY <1>6, <1>7, <1>8, <1>9, <1>10, <1>11, <1>12

\* Rows appear in the tables; no writer changes.
LEMMA LandInv == ASSUME PWInv, Land PROVE PWInv'
<1> USE DEF PWInv
<1>1. CASE LandMarkers
  BY <1>1 DEF LandMarkers, PWTypeOK, NothingEnded, MarkerImpliesRows, MarkersWait, RowsOnlyWhereStaged,
              BufferedIsStreamed, InsertsAreStreamed, PassedIsLanded, Complete
<1>2. ASSUME NEW t \in Tables, LandRows(t) PROVE PWInv'
  <2>1. /\ \A u \in Tables : rows[u] \subseteq rows'[u] /\ rows'[u] \subseteq rows[u] \cup streamed[u]
        /\ rows' \in [Tables -> SUBSET Ledgers]
        /\ UNCHANGED <<ledgers, streamed, markers, writer>>
    BY <1>2 DEF LandRows, PWTypeOK
  <2>2. PWTypeOK' /\ RowsOnlyWhereStaged'
    BY <2>1 DEF PWTypeOK, RowsOnlyWhereStaged
  <2>3. (MarkerImpliesRows /\ MarkersWait)'
    BY <2>1 DEF MarkerImpliesRows, MarkersWait, Complete, PWTypeOK
  <2>4. (NothingEnded /\ BufferedIsStreamed /\ InsertsAreStreamed)'
    BY <2>1 DEF NothingEnded, BufferedIsStreamed, InsertsAreStreamed
  <2>5. PassedIsLanded'
    BY <2>1 DEF PassedIsLanded
  <2> QED
    BY <2>2, <2>3, <2>4, <2>5
<1> QED
  BY <1>1, <1>2 DEF Land

\* commit() starts, or one table is ended: the writer that moves on keeps its
\* rows, and the tables before `next` have all of them.
LEMMA ProceedInv ==
    ASSUME PWInv, NEW w \in Writers, NEW n \in Nat,
           writer[w].phase \in {"open", "commit"},
           writer' = [writer EXCEPT ![w].phase = "commit", ![w].next = n],
           \A t \in Tables : t < n => writer[w].inserts[t] \subseteq rows'[t],
           rows' \in [Tables -> SUBSET Ledgers],
           \A t \in Tables : rows[t] \subseteq rows'[t],
           \A t \in Tables : rows'[t] \subseteq rows[t] \cup streamed[t],
           UNCHANGED <<ledgers, streamed, markers>>
    PROVE  PWInv'
<1>1. writer[w] \in WriterType
  BY DEF PWInv, PWTypeOK
<1>2. writer'[w] = [writer[w] EXCEPT !.phase = "commit", !.next = n]
  BY DEF PWInv, PWTypeOK
<1>3. /\ writer'[w] \in WriterType
      /\ writer'[w].phase = "commit"
      /\ writer'[w].next = n
      /\ writer'[w].inserts = writer[w].inserts
      /\ writer'[w].ledger_rows = writer[w].ledger_rows
  <2> DEFINE r == writer[w]
  <2>1. r \in WriterType /\ writer'[w] = Proceeding(r, n)
    BY <1>1, <1>2 DEF Proceeding
  <2> HIDE DEF r
  <2>2. n \in Nat
    OBVIOUS
  <2>3. /\ writer'[w] \in WriterType
        /\ writer'[w].phase = "commit"
        /\ writer'[w].next = n
        /\ writer'[w].inserts = r.inserts
        /\ writer'[w].ledger_rows = r.ledger_rows
    BY ONLY <2>1, <2>2, ProceedingWriter
  <2> QED
    BY ONLY <2>3 DEF r
<1>4. \A v \in Writers : v # w => writer'[v] = writer[v]
  BY DEF PWInv, PWTypeOK
<1>5. PWTypeOK'
  BY <1>3, <1>4 DEF PWInv, PWTypeOK
<1>6. (MarkerImpliesRows /\ MarkersWait)'
  BY DEF PWInv, PWTypeOK, MarkerImpliesRows, MarkersWait, Complete
<1>7. RowsOnlyWhereStaged'
  BY DEF PWInv, RowsOnlyWhereStaged
<1>8. (NothingEnded /\ InsertsAreStreamed)'
  <2>1. NothingEnded'
    BY <1>3, <1>4 DEF PWInv, NothingEnded
  <2>2. \A v \in Writers : writer'[v].inserts = writer[v].inserts
    BY <1>3, <1>4
  <2>3. InsertsAreStreamed'
    BY <2>2 DEF PWInv, InsertsAreStreamed
  <2> QED
    BY <2>1, <2>3
<1>9. BufferedIsStreamed'
  <2>1. \A v \in Writers : /\ writer'[v].phase \in Accepting => writer[v].phase \in Accepting
                          /\ writer'[v].inserts = writer[v].inserts
                          /\ writer'[v].ledger_rows = writer[v].ledger_rows
    BY <1>3, <1>4 DEF Accepting
  <2> QED
    BY <2>1 DEF PWInv, BufferedIsStreamed
<1>10. PassedIsLanded'
  <2> SUFFICES ASSUME NEW v \in Writers, writer'[v].phase \in {"commit", "marker"}, NEW t \in Tables,
                      t < writer'[v].next \/ writer'[v].phase = "marker"
               PROVE  writer'[v].inserts[t] \subseteq rows'[t]
    BY DEF PassedIsLanded
  <2>1. CASE v = w
    BY <2>1, <1>3
  <2>2. CASE v # w
    BY <2>2, <1>4 DEF PWInv, PassedIsLanded
  <2> QED
    BY <2>1, <2>2
<1> QED
  BY <1>5, <1>6, <1>7, <1>8, <1>9, <1>10 DEF PWInv

LEMMA CommitInv == ASSUME PWInv, NEW w \in Writers, Commit(w) PROVE PWInv'
<1>1. writer[w].phase = "open" /\ writer[w].next = 1
  BY DEF Commit, PWInv, NothingEnded
<1>2. writer' = [writer EXCEPT ![w].phase = "commit", ![w].next = 1]
  BY <1>1 DEF Commit, PWInv, PWTypeOK, WriterType
<1>3. rows \in [Tables -> SUBSET Ledgers] /\ UNCHANGED <<rows, ledgers, streamed, markers>>
  BY DEF Commit, storeVars, PWInv, PWTypeOK
<1>4. \A t \in Tables : t < 1 => writer[w].inserts[t] \subseteq rows'[t]
  OBVIOUS
<1> QED
  BY <1>1, <1>2, <1>3, <1>4, ProceedInv

LEMMA EndInsertInv == ASSUME PWInv, NEW w \in Writers, EndInsert(w) PROVE PWInv'
<1> DEFINE e == writer[w].next
<1>1. /\ writer[w].phase = "commit" /\ e \in Tables
      /\ rows' = [rows EXCEPT ![e] = @ \cup writer[w].inserts[e]]
      /\ UNCHANGED <<ledgers, streamed, markers>>
  BY DEF EndInsert
<1>2. writer' = [writer EXCEPT ![w].phase = "commit", ![w].next = e + 1]
  BY DEF EndInsert, PWInv, PWTypeOK, WriterType
<1>3. /\ writer[w].inserts \in [Tables -> SUBSET Ledgers]
      /\ rows \in [Tables -> SUBSET Ledgers]
  BY DEF PWInv, PWTypeOK, WriterType
<1>4. \A t \in Tables : rows'[t] = IF t = e THEN rows[t] \cup writer[w].inserts[t] ELSE rows[t]
  BY <1>1, <1>3
<1>5. rows' \in [Tables -> SUBSET Ledgers]
  BY <1>1, <1>3
<1>6. \A t \in Tables : writer[w].inserts[t] \subseteq streamed[t]
  BY DEF PWInv, InsertsAreStreamed
<1>7. \A t \in Tables : t < e + 1 => writer[w].inserts[t] \subseteq rows'[t]
  BY <1>1, <1>4 DEF PWInv, PassedIsLanded
<1>8. e + 1 \in Nat
  BY <1>1
<1> QED
  BY <1>1, <1>2, <1>4, <1>5, <1>6, <1>7, <1>8, ProceedInv

\* When every table was passed, a ledger that the writer buffered is complete.
LEMMA BufferedIsComplete ==
    ASSUME PWInv, NEW w \in Writers,
           \/ writer[w].phase = "commit" /\ writer[w].next = NumTables + 1
           \/ writer[w].phase = "marker",
           NEW l \in writer[w].ledger_rows
    PROVE  Complete(l)
<1> SUFFICES ASSUME NEW t \in StagedIn[l] PROVE l \in rows[t]
  BY DEF Complete
<1>1. l \in Ledgers /\ t \in Tables
  BY DEF PWInv, PWTypeOK, WriterType
<1>2. l \in writer[w].inserts[t]
  BY DEF PWInv, BufferedIsStreamed, Accepting
<1>3. writer[w].inserts[t] \subseteq rows[t]
  BY <1>1 DEF PWInv, PassedIsLanded
<1> QED
  BY <1>2, <1>3

\* The markers go on the wire, unless there are none (a targeted write).
LEMMA SendMarkersInv == ASSUME PWInv, NEW w \in Writers, SendMarkers(w) PROVE PWInv'
<1>1. CASE writer[w].ledger_rows = {}
  BY <1>1, RenewInv DEF SendMarkers, storeVars, Phases
<1>2. CASE writer[w].ledger_rows # {}
  <2>1. \A l \in markers' : Complete(l)
    BY <1>2, BufferedIsComplete DEF SendMarkers, PWInv, MarkersWait
  <2>2. /\ UNCHANGED <<rows, ledgers, streamed>>
        /\ writer' = [writer EXCEPT ![w].phase = "marker"]
        /\ writer[w].phase = "commit" /\ writer[w].next = NumTables + 1
        /\ markers' = markers \cup writer[w].ledger_rows
    BY <1>2 DEF SendMarkers
  <2>3. (PWTypeOK /\ MarkerImpliesRows /\ RowsOnlyWhereStaged)'
    <3>1. writer[w] \in WriterType
      BY DEF PWInv, PWTypeOK
    <3>2. [writer[w] EXCEPT !.phase = "marker"] \in WriterType
      BY <3>1 DEF WriterType, Phases
    <3>3. PWTypeOK'
      BY <2>2, <3>1, <3>2 DEF PWInv, PWTypeOK, WriterType
    <3> QED
      BY <2>2, <3>3 DEF PWInv, MarkerImpliesRows, RowsOnlyWhereStaged, Complete
  <2>4. MarkersWait'
    BY <2>1, <2>2 DEF MarkersWait, Complete
  <2>5. (NothingEnded /\ BufferedIsStreamed /\ InsertsAreStreamed /\ PassedIsLanded)'
    BY <2>2 DEF PWInv, PWTypeOK, WriterType, NothingEnded, BufferedIsStreamed,
                InsertsAreStreamed, PassedIsLanded, Accepting
  <2> QED
    BY <2>3, <2>4, <2>5 DEF PWInv
<1> QED
  BY <1>1, <1>2

\* The markers are acknowledged.
LEMMA AckMarkersInv == ASSUME PWInv, NEW w \in Writers, AckMarkers(w) PROVE PWInv'
<1>1. \A l \in ledgers' : Complete(l)
  BY BufferedIsComplete DEF AckMarkers, PWInv, MarkerImpliesRows
<1>2. /\ UNCHANGED <<rows, streamed, markers>>
      /\ ledgers' = ledgers \cup writer[w].ledger_rows
      /\ \A v \in Writers : writer'[v] = IF v = w THEN Fresh("committed") ELSE writer[v]
      /\ writer' = [writer EXCEPT ![w] = Fresh("committed")]
  BY DEF AckMarkers, PWInv, PWTypeOK
<1>3. "committed" \in Phases
  BY DEF Phases
<1>4. PWTypeOK'
  BY <1>2, <1>3, FreshWriter DEF PWInv, PWTypeOK, WriterType
<1>5. (MarkerImpliesRows /\ MarkersWait /\ RowsOnlyWhereStaged)'
  BY <1>1, <1>2 DEF PWInv, MarkerImpliesRows, MarkersWait, RowsOnlyWhereStaged, Complete
<1>6. (NothingEnded /\ BufferedIsStreamed /\ InsertsAreStreamed /\ PassedIsLanded)'
  BY <1>2, <1>3, FreshWriter DEF PWInv, NothingEnded, BufferedIsStreamed, InsertsAreStreamed,
                                 PassedIsLanded
<1> QED
  BY <1>4, <1>5, <1>6 DEF PWInv

-----------------------------------------------------------------------------
\* Every step of the specification, one action after the other.
LEMMA NextInv == PWInv /\ [PWNext]_pwVars => PWInv'
<1> SUFFICES ASSUME PWInv, [PWNext]_pwVars PROVE PWInv'
  OBVIOUS
<1>1. CASE UNCHANGED pwVars
  BY <1>1 DEF pwVars, PWInv, PWTypeOK, MarkerImpliesRows, MarkersWait, RowsOnlyWhereStaged,
              NothingEnded, BufferedIsStreamed, InsertsAreStreamed, PassedIsLanded, Complete
<1>2. CASE Land
  BY <1>2, LandInv
<1>3. ASSUME NEW w \in Writers, Open(w) \/ Abort(w) \/ Drop(w) PROVE PWInv'
  BY <1>3, RenewInv DEF Open, Abort, Drop, Phases
<1>4. ASSUME NEW w \in Writers, Commit(w) PROVE PWInv'
  BY <1>4, CommitInv
<1>5. ASSUME NEW w \in Writers, CommitStep(w) PROVE PWInv'
  <2>1. CASE EndInsert(w)
    BY <2>1, EndInsertInv
  <2>2. CASE EndInsertFails(w) \/ MarkersFail(w)
    BY <2>2, RenewInv DEF EndInsertFails, MarkersFail, Phases
  <2>3. CASE SendMarkers(w)
    BY <2>3, SendMarkersInv
  <2>4. CASE AckMarkers(w)
    BY <2>4, AckMarkersInv
  <2> QED
    BY <1>5, <2>1, <2>2, <2>3, <2>4 DEF CommitStep
<1>6. ASSUME NEW w \in Writers, NEW l \in Ledgers, WriteLedger(w, l) PROVE PWInv'
  <2>1. PICK S \in SUBSET StagedIn[l] :
          /\ writer' = [writer EXCEPT ![w].phase = IF S = StagedIn[l] THEN "open" ELSE "failed",
                                      ![w].inserts = Stream(w, l, S),
                                      ![w].ledger_rows = @ \cup {l}]
          /\ streamed' = SentTo(l, S)
    BY <1>6 DEF WriteLedger
  <2> QED
    BY <1>6, <2>1, WriteInv DEF WriteLedger
<1>7. ASSUME NEW w \in Writers, NEW l \in Ledgers, NEW only \in SUBSET Tables,
             WriteOnly(w, l, only)
      PROVE  PWInv'
  <2> DEFINE must == StagedIn[l] \cap only
  <2>1. PICK S \in SUBSET must :
          /\ writer' = [writer EXCEPT ![w].phase = IF S = must THEN "open" ELSE "failed",
                                      ![w].inserts = Stream(w, l, S)]
          /\ streamed' = SentTo(l, S)
    BY <1>7 DEF WriteOnly
  <2>2. writer' = [writer EXCEPT ![w].phase = IF S = must THEN "open" ELSE "failed",
                                 ![w].inserts = Stream(w, l, S),
                                 ![w].ledger_rows = @ \cup {}]
    BY <2>1 DEF PWInv, PWTypeOK, WriterType
  <2>3. must \in SUBSET StagedIn[l]
    OBVIOUS
  <2>4. writer[w].phase = "open" /\ UNCHANGED <<rows, ledgers, markers>>
    BY <1>7 DEF WriteOnly
  <2>5. {} \in SUBSET {l}
    OBVIOUS
  <2> HIDE DEF must
  <2> QED
    BY <2>1, <2>2, <2>3, <2>4, <2>5, WriteInv
<1> QED
  BY <1>1, <1>2, <1>3, <1>4, <1>5, <1>6, <1>7 DEF PWNext

\* The inductive invariant of the write path.
THEOREM WriterInvariant == PWSpec => []PWInv
  BY InitInv, NextInv, PTL DEF PWSpec

\* The commit-marker contract of persist/writer.rs: however many writers run,
\* retry, fail and die, a ledger with a `ledgers` row has all its rows.
THEOREM CommitMarker == PWSpec => []MarkerImpliesRows
<1>1. PWInv => MarkerImpliesRows
  BY DEF PWInv
<1> QED
  BY <1>1, WriterInvariant, PTL

-----------------------------------------------------------------------------
(* Refinement.  Under the invariant the refinement mapping is simple: what *)
(* is served is exactly what `ledgers` lists.                              *)

LEMMA ServedIsStaged == PWInv => Served = Store!Serving(ledgers)
<1> SUFFICES ASSUME PWInv, NEW l \in ledgers
             PROVE  {t \in Tables : l \in rows[t]} = StagedIn[l]
  BY DEF Served, Store!Serving
<1>1. l \in Ledgers /\ StagedIn[l] \subseteq Tables
  BY DEF PWInv, PWTypeOK
<1>2. \A t \in StagedIn[l] : l \in rows[t]
  BY DEF PWInv, MarkerImpliesRows, Complete
<1>3. \A t \in Tables : l \in rows[t] => t \in StagedIn[l]
  BY DEF PWInv, RowsOnlyWhereStaged
<1> QED
  BY <1>1, <1>2, <1>3

\* No step removes a `ledgers` row.
LEMMA LedgersGrow == PWInv /\ [PWNext]_pwVars => ledgers \subseteq ledgers'
  BY DEF PWNext, pwVars, storeVars, Land, LandMarkers, LandRows, Open, Abort, Commit, Drop,
         CommitStep, EndInsert, EndInsertFails, SendMarkers, AckMarkers, MarkersFail,
         WriteLedger, WriteOnly

\* Every step of the write path is a publication or a stutter of the store.
LEMMA StepRefines == PWInv /\ PWInv' /\ [PWNext]_pwVars => [Store!StoreNext]_Served
<1> SUFFICES ASSUME PWInv, PWInv', [PWNext]_pwVars PROVE [Store!StoreNext]_Served
  OBVIOUS
<1> DEFINE S == ledgers' \ ledgers
<1>1. Served = Store!Serving(ledgers)
  BY ServedIsStaged
<1>2. Served' = Store!Serving(ledgers')
  <2>1. \A l \in ledgers' : {t \in Tables : l \in rows'[t]} = StagedIn[l]
    BY DEF PWInv, PWTypeOK, MarkerImpliesRows, Complete, RowsOnlyWhereStaged
  <2> QED
    BY <2>1 DEF Served, Store!Serving
<1>3. ledgers' = ledgers \cup S
  BY LedgersGrow
<1>4. S \in SUBSET Ledgers
  BY DEF PWInv, PWTypeOK
<1>5. \A l \in S : Served[l] = {}
  BY <1>1, <1>4 DEF Store!Serving
<1>6. Served' = [l \in Ledgers |-> IF l \in S THEN {StagedIn[l]} ELSE Served[l]]
  BY <1>1, <1>2, <1>3 DEF Store!Serving
<1> HIDE DEF S
<1>7. Store!Publish(S)
  BY <1>5, <1>6 DEF Store!Publish
<1> QED
  BY <1>4, <1>7 DEF Store!StoreNext

\* To a reader that trusts `ledgers`, the write path is the atomic store of
\* LedgerStore: a ledger appears once, with all its rows, and never changes.
THEOREM Refinement == PWSpec => ImplementsStore
<1>1. PWInit => Store!StoreInit
  <2> SUFFICES ASSUME PWInit PROVE Store!StoreInit
    OBVIOUS
  <2>1. Served = Store!Serving(ledgers) /\ ledgers \in SUBSET Ledgers
    BY InitInv, ServedIsStaged DEF PWInv, PWTypeOK
  <2> QED
    BY <2>1 DEF Store!StoreInit
<1> QED
  BY <1>1, StepRefines, WriterInvariant, PTL DEF PWSpec, ImplementsStore, Store!StoreSpec
=============================================================================
