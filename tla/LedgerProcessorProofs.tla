----------------------- MODULE LedgerProcessorProofs -----------------------
(***************************************************************************)
(* Proofs about LedgerProcessor, for every window of ledgers, every number *)
(* of slots, retries and redeliveries, and any order of files and faults.  *)
(* The sequencer only takes steps the write path allows, so what is proved *)
(* of PartitionWriter carries over; and OrderInv is inductive, since a     *)
(* `ledgers` row is sent for a ledger only after all below it are stored.  *)
(***************************************************************************)
EXTENDS LedgerProcessor, PartitionWriterProofs, FiniteSetTheorems

-----------------------------------------------------------------------------
(* The cursor.                                                             *)

\* max(sequence) of a table that is not empty is its greatest ledger.
LEMMA MaxSeqIsGreatest ==
    ASSUME ledgers \in SUBSET Ledgers, ledgers # {}
    PROVE  MaxSeq \in ledgers /\ \A l \in ledgers : l <= MaxSeq
<1> USE LedgerProcessorAssumption
<1> DEFINE T == {Last - l : l \in ledgers}
<1>1. T \in SUBSET Nat /\ T # {}
  OBVIOUS
<1>2. PICK m \in T : \A x \in T : m <= x
  <2> HIDE DEF T
  <2> QED
    BY <1>1, Smallest
<1>3. PICK g \in ledgers : m = Last - g
  OBVIOUS
<1>4. ASSUME NEW l \in ledgers PROVE l <= g
  <2>1. m <= Last - l
    BY <1>2
  <2> QED
    BY <1>3, <2>1
<1>5. \E x \in ledgers : \A l \in ledgers : l <= x
  BY <1>4
<1> QED
  BY <1>5 DEF MaxSeq

\* While there is no gap, the cursor is in the window and everything below
\* the ledger to read next is stored.
LEMMA CursorIsFrontier ==
    ASSUME ledgers \in SUBSET Ledgers, NoGaps
    PROVE  FirstLedgerToRead \in First..(Last + 1) /\ Below(FirstLedgerToRead)
<1> USE LedgerProcessorAssumption
<1>1. CASE ledgers = {}
  BY <1>1 DEF FirstLedgerToRead, MaxSeq, Below
<1>2. CASE ledgers # {}
  <2>1. MaxSeq \in ledgers /\ MaxSeq \in First..Last
    BY <1>2, MaxSeqIsGreatest
  <2>2. FirstLedgerToRead = MaxSeq + 1
    BY <2>1 DEF FirstLedgerToRead
  <2>3. First..MaxSeq \subseteq ledgers
    BY <2>1 DEF NoGaps
  <2> HIDE DEF MaxSeq
  <2> QED
    BY <2>1, <2>2, <2>3 DEF Below
<1> QED
  BY <1>1, <1>2

-----------------------------------------------------------------------------
(* The composition.                                                        *)

\* A slot persists a ledger of the window: one whose file is in the lake.
LEMMA StepIsWriterStep ==
    ASSUME LPTypeOK, SlotsHaveFile, WritersHoldNext, Next
    PROVE  [PWNext]_pwVars
<1>1. CASE Environment
  BY <1>1 DEF Environment, ServerLands, LaterFileLands, FileLands, DeliveredAgain, Throttled, PWNext
<1>2. ASSUME NEW s \in Writers, NEW b \in Bells, Receive(s, b)
      PROVE  UNCHANGED pwVars
  BY <1>2 DEF Receive
<1>3. ASSUME NEW s \in Writers, PersistStep(s)
      PROVE  PWNext
  <2>1. slot[s].next \in Ledgers
    BY <1>3 DEF PersistStep, SlotsHaveFile, LPTypeOK
  <2> QED
    BY <1>3, <2>1 DEF PersistStep, PWNext
<1>4. ASSUME NEW s \in Writers, PersistDone(s) \/ WriteFailed(s)
      PROVE  PWNext
  BY <1>4 DEF PersistDone, WriteFailed, PWNext
<1>5. ASSUME NEW s \in Writers,
             \/ ReadCursor(s) \/ CheckNext(s) \/ Deadline(s) \/ Process(s)
             \/ PublishEnrichment(s) \/ StepFails(s) \/ PrefetchFails(s)
      PROVE  UNCHANGED pwVars
  BY <1>5 DEF ReadCursor, CheckNext, Deadline, Process, PublishEnrichment, StepFails, PrefetchFails
<1>6. ASSUME NEW s \in Writers, Crash(s)
      PROVE  [PWNext]_pwVars
  <2>1. CASE writer[s].phase = "closed"
    <3>1. writer[s] = Fresh("closed") /\ writer \in [Writers -> WriterType]
      BY <2>1 DEF WritersHoldNext, LPTypeOK, PWTypeOK
    <3>2. writer' = writer /\ UNCHANGED storeVars
      BY <1>6, <3>1, Zenon DEF Crash
    <3> QED
      BY <3>2 DEF pwVars, storeVars
  <2>2. CASE writer[s].phase # "closed"
    BY <1>6, <2>2 DEF Crash, Drop, PWNext
  <2> QED
    BY <2>1, <2>2
<1> QED
  BY <1>1, <1>2, <1>3, <1>4, <1>5, <1>6 DEF Next, Work

-----------------------------------------------------------------------------
(* Types.                                                                  *)

LEMMA IdleSlot == Idle \in SlotType
  BY LedgerProcessorAssumption DEF Idle, SlotType, Bells, Later

\* The ways in which an action changes a slot.
LEMMA ReceivingSlot ==
    ASSUME NEW b \in Bells
    PROVE  [Idle EXCEPT !.pc = "cursor", !.bell = b] \in SlotType
  BY IdleSlot DEF SlotType

LEMMA MovedSlot ==
    ASSUME NEW r \in SlotType,
           NEW pc \in {"idle", "cursor", "loop", "process", "persist", "publish"}
    PROVE  [r EXCEPT !.pc = pc] \in SlotType
  BY DEF SlotType

LEMMA AdvancedSlot ==
    ASSUME NEW r \in SlotType, NEW n \in First..(Last + 1)
    PROVE  [r EXCEPT !.pc = "loop", !.next = n] \in SlotType
  BY DEF SlotType

LEMMA StartedSlot ==
    ASSUME NEW r \in SlotType
    PROVE  [r EXCEPT !.pc = "persist", !.attempt = 0] \in SlotType
<1>1. 0 \in 0..Retries
  BY LedgerProcessorAssumption
<1> QED
  BY <1>1 DEF SlotType

LEMMA RetriedSlot ==
    ASSUME NEW r \in SlotType, NEW k \in 0..Retries
    PROVE  [r EXCEPT !.attempt = k] \in SlotType
  BY DEF SlotType

LEMMA PersistedSlot ==
    ASSUME NEW r \in SlotType, NEW n \in First..(Last + 1), NEW k \in Nat
    PROVE  [r EXCEPT !.pc = "loop", !.next = n, !.persisted = k] \in SlotType
  BY DEF SlotType

\* Every action of a slot changes that slot alone, into a slot.
LEMMA SlotsType ==
    ASSUME LPTypeOK, NoGaps, SlotsHaveFile, NEW s \in Writers,
           (\E b \in Bells : Receive(s, b)) \/ Work(s) \/ StepFails(s) \/ PrefetchFails(s) \/ Crash(s)
    PROVE  slot' \in [Writers -> SlotType] /\ \A r \in Writers : r # s => slot'[r] = slot[r]
<1> USE LedgerProcessorAssumption
<1> DEFINE Moves == \E n \in SlotType : slot' = [slot EXCEPT ![s] = n]
<1> SUFFICES Moves
  BY DEF LPTypeOK
<1>0. slot[s] \in SlotType /\ slot \in [Writers -> SlotType]
  BY DEF LPTypeOK
<1>1. ASSUME NEW b \in Bells, Receive(s, b) PROVE Moves
  BY <1>1, ReceivingSlot, Zenon DEF Receive
<1>2. CASE ReturnOk(s) \/ ReturnErr(s)
  BY <1>2, IdleSlot DEF ReturnOk, ReturnErr
<1>3. ASSUME NEW pc \in {"process", "publish"}, Goto(s, pc) PROVE Moves
  <2>1. slot' = [slot EXCEPT ![s] = [slot[s] EXCEPT !.pc = pc]]
    BY <1>3 DEF Goto
  <2> QED
    BY <2>1, <1>0, MovedSlot, Zenon
<1>4. CASE ReadCursor(s)
  <2>1. FirstLedgerToRead \in First..(Last + 1)
    BY CursorIsFrontier DEF LPTypeOK, PWTypeOK
  <2> HIDE DEF FirstLedgerToRead
  <2>2. CASE slot' = [slot EXCEPT ![s].pc = "loop", ![s].next = FirstLedgerToRead]
    <3>1. slot' = [slot EXCEPT ![s] = [slot[s] EXCEPT !.pc = "loop", !.next = FirstLedgerToRead]]
      BY <2>2
    <3> QED
      BY <3>1, <2>1, <1>0, AdvancedSlot, Zenon
  <2> QED
    BY <1>4, <1>2, <2>2 DEF ReadCursor
<1>5. CASE CheckNext(s) \/ Deadline(s) \/ StepFails(s) \/ Crash(s)
  BY <1>2, <1>3, <1>5 DEF CheckNext, Deadline, StepFails, Crash
<1>6. CASE Process(s)
  <2>1. slot' = [slot EXCEPT ![s] = [slot[s] EXCEPT !.pc = "persist", !.attempt = 0]]
    BY <1>6 DEF Process
  <2> QED
    BY <2>1, <1>0, StartedSlot, Zenon
<1>7. CASE PersistStep(s)
  BY <1>7, <1>0 DEF PersistStep
<1>8. CASE PersistDone(s)
  BY <1>3, <1>8 DEF PersistDone
<1>9. CASE AttemptEnds(s)
  <2>1. CASE slot[s].attempt < Retries /\ slot' = [slot EXCEPT ![s].attempt = @ + 1]
    <3>1. slot[s].attempt + 1 \in 0..Retries
      BY <1>0, <2>1 DEF SlotType
    <3>2. slot' = [slot EXCEPT ![s] = [slot[s] EXCEPT !.attempt = slot[s].attempt + 1]]
      BY <2>1
    <3> QED
      BY <3>1, <3>2, <1>0, RetriedSlot, Zenon
  <2> QED
    BY <1>2, <1>9, <2>1 DEF AttemptEnds
<1>10. CASE WriteFailed(s) \/ PrefetchFails(s)
  BY <1>9, <1>10 DEF WriteFailed, PrefetchFails
<1>11. CASE PublishEnrichment(s)
  <2>1. slot[s].next \in Ledgers
    BY <1>11 DEF PublishEnrichment, SlotsHaveFile, LPTypeOK
  <2>2. slot[s].next + 1 \in First..(Last + 1)
    BY <2>1
  <2>3. slot[s].persisted + 1 \in Nat
    BY <1>0 DEF SlotType
  <2>4. slot' = [slot EXCEPT ![s] = [slot[s] EXCEPT !.pc = "loop", !.next = slot[s].next + 1,
                                                  !.persisted = slot[s].persisted + 1]]
    BY <1>11 DEF PublishEnrichment
  <2> QED
    BY <2>2, <2>3, <2>4, <1>0, PersistedSlot, Zenon
<1> QED
  BY <1>1, <1>4, <1>5, <1>6, <1>7, <1>8, <1>10, <1>11 DEF Work

\* Typing is preserved.
LEMMA TypesPreserved ==
    ASSUME LPTypeOK, NoGaps, SlotsHaveFile, PWTypeOK', [Next]_vars
    PROVE  LPTypeOK'
<1> USE LedgerProcessorAssumption
<1>1. CASE UNCHANGED vars
  BY <1>1 DEF vars, lpVars, LPTypeOK
<1>2. CASE Next
  <2> USE <1>2 DEF LPTypeOK
  <2>1. slot' \in [Writers -> SlotType]
    <3>1. CASE Environment
      BY <3>1 DEF Environment, ServerLands, lpVars, LaterFileLands, FileLands, DeliveredAgain, Throttled
    <3> QED
      BY <3>1, SlotsType DEF Next
  <2>2. lake' \in SUBSET Ledgers
    BY DEF Next, Environment, ServerLands, lpVars, LaterFileLands, FileLands, DeliveredAgain, Throttled,
           Receive, Work, ReadCursor, CheckNext, Deadline, Process, PersistStep, PersistDone,
           WriteFailed, PublishEnrichment, StepFails, PrefetchFails, Crash
  <2>3. published' \in SUBSET Ledgers
    <3>1. ASSUME NEW s \in Writers, PublishEnrichment(s)
          PROVE  published' \in SUBSET Ledgers
      BY <3>1 DEF PublishEnrichment, SlotsHaveFile
    <3> QED
      BY <3>1 DEF Next, Environment, ServerLands, lpVars, LaterFileLands, FileLands, DeliveredAgain, Throttled,
           Receive, Work, ReadCursor, CheckNext, Deadline, Process, PersistStep, PersistDone,
           WriteFailed, StepFails, PrefetchFails, Crash
  <2>4. /\ doorbell' \in [Bells -> {"none", "queued", "inflight", "done", "dead"}]
        /\ received' \in [Bells -> Nat]
    <3>1. ASSUME NEW s \in Writers, ReturnOk(s) \/ ReturnErr(s)
          PROVE  doorbell' \in [Bells -> {"none", "queued", "inflight", "done", "dead"}]
      BY <3>1 DEF ReturnOk, ReturnErr, AfterFailure
    <3>2. CASE Environment
      <4>1. Ledgers \subseteq Bells /\ Later \in Bells
        BY DEF Bells, Later
      <4>2. ASSUME NEW b \in Bells, Throttled(b)
            PROVE  /\ doorbell' \in [Bells -> {"none", "queued", "inflight", "done", "dead"}]
                   /\ received' \in [Bells -> Nat]
        BY <4>2 DEF Throttled, AfterFailure
      <4>3. ASSUME NEW l \in Ledgers, FileLands(l)
            PROVE  /\ doorbell' \in [Bells -> {"none", "queued", "inflight", "done", "dead"}]
                   /\ received' \in [Bells -> Nat]
        BY <4>1, <4>3 DEF FileLands
      <4>4. CASE ServerLands \/ LaterFileLands \/ \E b \in Bells : DeliveredAgain(b)
        BY <4>1, <4>4 DEF ServerLands, lpVars, LaterFileLands, DeliveredAgain
      <4> QED
        BY <3>2, <4>2, <4>3, <4>4 DEF Environment
    <3>3. ASSUME NEW s \in Writers, NEW b \in Bells, Receive(s, b)
          PROVE  /\ doorbell' \in [Bells -> {"none", "queued", "inflight", "done", "dead"}]
                 /\ received' \in [Bells -> Nat]
      BY <3>3 DEF Receive
    <3>4. ASSUME NEW s \in Writers, Work(s) \/ StepFails(s) \/ PrefetchFails(s) \/ Crash(s)
          PROVE  /\ doorbell' \in [Bells -> {"none", "queued", "inflight", "done", "dead"}]
                 /\ received' \in [Bells -> Nat]
      BY <3>1, <3>4 DEF Work, ReadCursor, CheckNext, Deadline, Process, PersistStep, PersistDone,
           WriteFailed, PublishEnrichment, StepFails, PrefetchFails, Crash, AttemptEnds
    <3> QED
      BY <3>2, <3>3, <3>4 DEF Next
  <2>5. faults' \in 0..MaxFaults
    <3>1. UNCHANGED faults \/ Fault
      BY DEF Next, Environment, ServerLands, lpVars, LaterFileLands, FileLands, DeliveredAgain, Throttled,
             Receive, Work, ReadCursor, CheckNext, Deadline, Process, PersistStep, PersistDone,
             WriteFailed, PublishEnrichment, StepFails, PrefetchFails, Crash
    <3> QED
      BY <3>1 DEF Fault
  <2> QED
    BY <2>1, <2>2, <2>3, <2>4, <2>5
<1> QED
  BY <1>1, <1>2

-----------------------------------------------------------------------------
(* Order.                                                                  *)

\* What OrderInv asks of one slot and its writer.
SlotInOrder(s) ==
    /\ slot[s].pc \in {"loop", "process", "persist", "publish"} => Below(slot[s].next)
    /\ slot[s].pc \in {"process", "persist", "publish"} => slot[s].next \in lake
    /\ slot[s].pc = "publish" => slot[s].next \in ledgers
    /\ writer[s].phase # "closed" => slot[s].pc = "persist"
    /\ writer[s].phase = "closed" => writer[s] = Fresh("closed")
    /\ writer[s].phase \in {"commit", "marker"} => writer[s].ledger_rows # {}
    /\ writer[s].ledger_rows \subseteq {slot[s].next}
    /\ writer[s].phase = "committed" => slot[s].next \in ledgers

StoreInOrder == NoGaps /\ MarkersInOrder /\ PublishedAreStored

LEMMA OrderInvParts ==
    /\ OrderInv <=> StoreInOrder /\ \A s \in Writers : SlotInOrder(s)
    /\ OrderInv' <=> StoreInOrder' /\ \A s \in Writers : SlotInOrder(s)'
  BY DEF OrderInv, StoreInOrder, SlotInOrder, SlotsAtFrontier, SlotsHaveFile,
         PublishedSlotIsStored, WritersHoldNext

\* The tables and the lake grow: whatever a step leaves alone stays in order.
LEMMA Frame ==
    ASSUME \A r \in Writers : SlotInOrder(r), NEW s \in Writers,
           slot'[s] = slot[s], writer'[s] = writer[s],
           ledgers \subseteq ledgers', lake \subseteq lake'
    PROVE  SlotInOrder(s)'
  BY DEF SlotInOrder, Below

LEMMA StoreFrame ==
    ASSUME StoreInOrder, UNCHANGED <<ledgers, markers, published>>, lake \subseteq lake'
    PROVE  StoreInOrder'
  BY DEF StoreInOrder, NoGaps, MarkersInOrder, Below, PublishedAreStored

\* Ledgers whose predecessors are stored are added: no gap appears.
LEMMA Extend ==
    ASSUME StoreInOrder, ledgers \in SUBSET Ledgers, NEW S \in SUBSET Ledgers,
           \A l \in S : Below(l), ledgers' = ledgers \cup S,
           UNCHANGED <<markers, published>>, lake \subseteq lake'
    PROVE  StoreInOrder'
<1> USE LedgerProcessorAssumption
<1>1. NoGaps'
  <2> SUFFICES ASSUME NEW l \in ledgers' PROVE First..l \subseteq ledgers'
    BY DEF NoGaps
  <2>1. First..l \subseteq First..(l - 1) \cup {l}
    BY DEF Below
  <2>2. First..(l - 1) \subseteq ledgers
    BY DEF StoreInOrder, NoGaps, Below
  <2> QED
    BY <2>1, <2>2
<1>2. MarkersInOrder' /\ PublishedAreStored'
  BY DEF StoreInOrder, MarkersInOrder, Below, PublishedAreStored
<1> QED
  BY <1>1, <1>2 DEF StoreInOrder

\* What is left of a slot that is done, and of one whose writer is renewed.
LEMMA IdleInOrder ==
    ASSUME NEW s \in Writers, slot'[s] = Idle, writer'[s] = Fresh("closed")
    PROVE  SlotInOrder(s)'
  BY FreshWriter DEF SlotInOrder, Idle, Phases

LEMMA WriterStepInOrder ==
    ASSUME LPTypeOK, StoreInOrder, \A r \in Writers : SlotInOrder(r), NEW s \in Writers,
           PersistStep(s)
    PROVE  StoreInOrder' /\ SlotInOrder(s)'
<1> USE LedgerProcessorAssumption
<1>1. /\ slot[s].pc = "persist" /\ slot'[s] = slot[s] /\ UNCHANGED <<lake, published>>
      /\ writer \in [Writers -> WriterType] /\ ledgers \in SUBSET Ledgers
      /\ SlotInOrder(s) /\ Below(slot[s].next) /\ slot[s].next \in lake
  BY DEF PersistStep, LPTypeOK, PWTypeOK, SlotInOrder
<1>2. ASSUME NEW phase \in {"open", "rejected"}, UNCHANGED storeVars,
             writer' = [writer EXCEPT ![s] = Fresh(phase)]
      PROVE  StoreInOrder' /\ SlotInOrder(s)'
  <2>1. writer'[s] = Fresh(phase)
    BY <1>1, <1>2
  <2>2. StoreInOrder'
    BY <1>1, <1>2, StoreFrame DEF storeVars
  <2> QED
    BY <1>1, <1>2, <2>1, <2>2, FreshWriter DEF storeVars, SlotInOrder, Below, Phases
<1>3. CASE Open(s) \/ Abort(s) \/ EndInsertFails(s) \/ MarkersFail(s)
  BY <1>2, <1>3 DEF Open, Abort, EndInsertFails, MarkersFail
<1>4. CASE WriteLedger(s, slot[s].next)
  <2>1. UNCHANGED <<ledgers, markers>>
    BY <1>4 DEF WriteLedger
  <2>2. writer'[s].phase \in {"open", "failed"}
    BY <1>1, <1>4 DEF WriteLedger
  <2>3. writer'[s].ledger_rows = writer[s].ledger_rows \cup {slot[s].next}
    BY <1>1, <1>4 DEF WriteLedger, WriterType
  <2> QED
    BY <1>1, <2>1, <2>2, <2>3, StoreFrame DEF SlotInOrder, Below
<1>5. CASE writer[s].ledger_rows # {} /\ Commit(s)
  <2>1. UNCHANGED <<ledgers, markers>> /\ writer'[s].phase = "commit"
        /\ writer'[s].ledger_rows = writer[s].ledger_rows
    BY <1>1, <1>5 DEF Commit, storeVars, WriterType
  <2> QED
    BY <1>1, <1>5, <2>1, StoreFrame DEF SlotInOrder, Below
<1>6. CASE EndInsert(s)
  <2>1. UNCHANGED <<ledgers, markers>> /\ writer'[s].phase = "commit"
        /\ writer'[s].ledger_rows = writer[s].ledger_rows /\ writer[s].phase = "commit"
    BY <1>1, <1>6 DEF EndInsert, WriterType
  <2> QED
    BY <1>1, <2>1, StoreFrame DEF SlotInOrder, Below
<1>7. CASE SendMarkers(s)
  <2>1. /\ UNCHANGED ledgers /\ markers' = markers \cup writer[s].ledger_rows
        /\ writer'[s].phase = "marker" /\ writer'[s].ledger_rows = writer[s].ledger_rows
        /\ writer[s].ledger_rows # {}
    BY <1>1, <1>7 DEF SendMarkers, SlotInOrder, WriterType
  <2>2. StoreInOrder'
    BY <1>1, <2>1 DEF StoreInOrder, NoGaps, MarkersInOrder, PublishedAreStored, Below, SlotInOrder
  <2> QED
    BY <1>1, <2>1, <2>2 DEF SlotInOrder, Below
<1>8. CASE AckMarkers(s)
  <2>1. /\ writer'[s] = Fresh("committed") /\ UNCHANGED markers
        /\ ledgers' = ledgers \cup writer[s].ledger_rows
        /\ writer[s].ledger_rows = {slot[s].next}
    BY <1>1, <1>8 DEF AckMarkers, SlotInOrder
  <2>2. writer[s].ledger_rows \in SUBSET Ledgers
    BY <1>1 DEF WriterType
  <2>3. StoreInOrder'
    BY <1>1, <2>1, <2>2, Extend
  <2> QED
    BY <1>1, <2>1, <2>3, FreshWriter DEF SlotInOrder, Below, Phases
<1> QED
  BY <1>3, <1>4, <1>5, <1>6, <1>7, <1>8 DEF PersistStep, CommitStep

LEMMA OrderPreserved ==
    ASSUME LPTypeOK, OrderInv, [Next]_vars
    PROVE  OrderInv'
<1> USE LedgerProcessorAssumption
<1>0. /\ StoreInOrder /\ \A r \in Writers : SlotInOrder(r)
      /\ ledgers \in SUBSET Ledgers /\ markers \in SUBSET Ledgers
      /\ writer \in [Writers -> WriterType] /\ slot \in [Writers -> SlotType]
  BY OrderInvParts DEF LPTypeOK, PWTypeOK
<1>1. CASE UNCHANGED vars
  <2>1. StoreInOrder'
    BY <1>0, <1>1, StoreFrame DEF vars, pwVars, lpVars
  <2>2. \A s \in Writers : SlotInOrder(s)'
    BY <1>0, <1>1, Frame DEF vars, pwVars, lpVars
  <2> QED
    BY <2>1, <2>2, OrderInvParts
<1>2. CASE Environment
  <2>1. /\ UNCHANGED slot /\ lake \subseteq lake' /\ UNCHANGED <<markers, published, writer>>
        /\ ledgers \subseteq ledgers'
    BY <1>2 DEF Environment, ServerLands, Land, LandRows, LandMarkers, lpVars, pwVars, LaterFileLands,
                FileLands, DeliveredAgain, Throttled
  <2>2. \A s \in Writers : SlotInOrder(s)'
    BY <1>0, <2>1, Frame
  <2>3. CASE UNCHANGED ledgers
    BY <1>0, <2>1, <2>2, <2>3, StoreFrame, OrderInvParts
  <2>4. CASE LandMarkers
    <3>1. PICK S \in SUBSET (markers \ ledgers) : ledgers' = ledgers \cup S
      BY <2>4 DEF LandMarkers
    <3>2. S \in SUBSET Ledgers /\ \A l \in S : Below(l)
      BY <1>0, <3>1 DEF StoreInOrder, MarkersInOrder
    <3>3. StoreInOrder'
      BY <1>0, <2>1, <3>1, <3>2, Extend
    <3> QED
      BY <2>2, <3>3, OrderInvParts
  <2> QED
    BY <1>2, <2>3, <2>4 DEF Environment, ServerLands, Land, LandRows, pwVars, LaterFileLands, FileLands,
                            DeliveredAgain, Throttled
<1>3. ASSUME NEW s \in Writers,
             (\E b \in Bells : Receive(s, b)) \/ Work(s) \/ StepFails(s) \/ PrefetchFails(s) \/ Crash(s)
      PROVE  OrderInv'
  <2>1. slot' \in [Writers -> SlotType] /\ \A r \in Writers : r # s => slot'[r] = slot[r]
    BY <1>0, <1>3, SlotsType DEF StoreInOrder, SlotInOrder, SlotsHaveFile
  <2>2. /\ UNCHANGED lake /\ ledgers \subseteq ledgers'
        /\ \A r \in Writers : r # s => writer'[r] = writer[r]
    BY <1>0, <1>3 DEF Receive, Work, ReadCursor, CheckNext, Deadline, Process, PersistStep, PersistDone,
           WriteFailed, PublishEnrichment, StepFails, PrefetchFails, Crash, pwVars, storeVars, Open,
           WriteLedger, Commit, Abort, CommitStep, EndInsert, EndInsertFails, SendMarkers, AckMarkers,
           MarkersFail, Drop
  <2>3. SUFFICES StoreInOrder' /\ SlotInOrder(s)'
    BY <1>0, <2>1, <2>2, Frame, OrderInvParts
  <2>4. /\ SlotInOrder(s)
        /\ slot[s].pc # "persist" => writer[s] = Fresh("closed")
    BY <1>0 DEF SlotInOrder
  \* Steps that leave the store alone and put the writer aside.
  <2>5. ASSUME UNCHANGED <<ledgers, markers, published>>, ReturnOk(s) \/ ReturnErr(s),
               writer'[s] = Fresh("closed")
        PROVE  StoreInOrder' /\ SlotInOrder(s)'
    BY <1>0, <2>2, <2>5, StoreFrame, IdleInOrder DEF ReturnOk, ReturnErr
  \* Steps that leave the store and the writer alone and move the slot on.
  <2>6. ASSUME UNCHANGED <<pwVars, published>>, slot[s].pc # "persist",
               slot'[s].pc \in {"loop", "process", "persist"} => Below(slot'[s].next),
               slot'[s].pc \in {"process", "persist"} => slot'[s].next \in lake,
               slot'[s].pc # "publish"
        PROVE  StoreInOrder' /\ SlotInOrder(s)'
    <3>1. writer'[s] = Fresh("closed") /\ UNCHANGED <<ledgers, markers, published>>
      BY <2>4, <2>6 DEF pwVars
    <3>2. writer'[s].phase = "closed" /\ writer'[s].ledger_rows = {}
      BY <3>1, FreshWriter DEF Phases
    <3> QED
      BY <1>0, <2>2, <2>6, <3>1, <3>2, StoreFrame DEF SlotInOrder, Below
  <2>7. ASSUME NEW b \in Bells, Receive(s, b)
        PROVE  StoreInOrder' /\ SlotInOrder(s)'
    <3>1. slot[s].pc = "idle" /\ slot'[s].pc = "cursor" /\ UNCHANGED <<pwVars, published>>
      BY <1>0, <2>7 DEF Receive, Idle
    <3> QED
      BY <2>6, <3>1
  <2>8. CASE ReadCursor(s)
    <3>1. CASE HasCursor
      <4>1. Below(FirstLedgerToRead)
        BY <1>0, CursorIsFrontier DEF StoreInOrder
      <4>2. /\ slot[s].pc = "cursor" /\ UNCHANGED <<pwVars, published>>
            /\ slot'[s].pc = "loop" /\ slot'[s].next = FirstLedgerToRead
        BY <1>0, <2>8, <3>1 DEF ReadCursor, SlotType
      <4> QED
        BY <2>6, <4>1, <4>2
    <3>2. CASE ~ HasCursor
      BY <2>4, <2>5, <2>8, <3>2 DEF ReadCursor, pwVars
    <3> QED
      BY <3>1, <3>2
  <2>9. CASE CheckNext(s) \/ Deadline(s) \/ StepFails(s)
    <3>1. /\ slot[s].pc \in {"cursor", "loop", "process"} /\ UNCHANGED <<pwVars, published>>
          /\ \/ ReturnOk(s) \/ ReturnErr(s)
             \/ slot[s].pc = "loop" /\ slot[s].next \in lake /\ Goto(s, "process")
      BY <2>9 DEF CheckNext, Deadline, StepFails
    <3>2. CASE ReturnOk(s) \/ ReturnErr(s)
      BY <2>4, <2>5, <3>1, <3>2 DEF pwVars
    <3>3. CASE slot[s].pc = "loop" /\ slot[s].next \in lake /\ Goto(s, "process")
      <4>1. slot'[s].pc = "process" /\ slot'[s].next = slot[s].next
        BY <1>0, <3>3 DEF Goto, SlotType
      <4> QED
        BY <2>4, <2>6, <3>1, <3>3, <4>1 DEF SlotInOrder
    <3> QED
      BY <3>1, <3>2, <3>3
  <2>10. CASE Process(s)
    <3>1. /\ slot[s].pc = "process" /\ UNCHANGED <<pwVars, published>>
          /\ slot'[s].pc = "persist" /\ slot'[s].next = slot[s].next
      BY <1>0, <2>10 DEF Process, SlotType
    <3> QED
      BY <2>4, <2>6, <3>1 DEF SlotInOrder
  <2>11. CASE PersistStep(s)
    BY <1>0, <2>11, WriterStepInOrder
  <2>12. CASE PersistDone(s)
    <3>1. /\ writer'[s] = Fresh("closed") /\ UNCHANGED <<ledgers, markers, published>>
          /\ slot[s].pc = "persist" /\ writer[s].phase = "committed"
          /\ slot'[s].pc = "publish" /\ slot'[s].next = slot[s].next
      BY <1>0, <2>12 DEF PersistDone, Drop, Goto, storeVars, SlotType
    <3> QED
      BY <1>0, <2>2, <2>4, <3>1, StoreFrame, FreshWriter DEF SlotInOrder, Below, Phases
  <2>13. CASE WriteFailed(s) \/ PrefetchFails(s)
    <3>1. /\ writer'[s] = Fresh("closed") /\ UNCHANGED <<ledgers, markers, published>>
          /\ slot[s].pc = "persist" /\ AttemptEnds(s)
      BY <1>0, <2>4, <2>13 DEF WriteFailed, PrefetchFails, Drop, storeVars, pwVars, SlotInOrder
    <3>2. CASE ReturnErr(s)
      BY <2>5, <3>1, <3>2
    <3>3. CASE slot' = [slot EXCEPT ![s].attempt = @ + 1]
      <4>1. slot'[s].pc = "persist" /\ slot'[s].next = slot[s].next
        BY <1>0, <3>1, <3>3 DEF SlotType
      <4> QED
        BY <1>0, <2>2, <2>4, <3>1, <4>1, StoreFrame, FreshWriter DEF SlotInOrder, Below, Phases
    <3> QED
      BY <3>1, <3>2, <3>3 DEF AttemptEnds
  <2>14. CASE PublishEnrichment(s)
    <3>1. /\ slot[s].pc = "publish" /\ UNCHANGED pwVars
          /\ published' \subseteq published \cup {slot[s].next}
          /\ slot'[s].pc = "loop" /\ slot'[s].next = slot[s].next + 1
      BY <1>0, <2>14 DEF PublishEnrichment, SlotType
    <3>2. slot[s].next \in ledgers /\ Below(slot[s].next)
      BY <2>4, <3>1 DEF SlotInOrder
    <3>3. Below(slot'[s].next)
      <4> DEFINE n == slot[s].next
      <4>1. n \in Int /\ n \in ledgers /\ First..(n - 1) \subseteq ledgers
        <5>1. n \in ledgers /\ ledgers \subseteq Int
          BY <1>0, <3>2
        <5>2. First..(n - 1) \subseteq ledgers
          BY <3>2 DEF Below
        <5> QED
          BY <5>1, <5>2
      <4>2. slot'[s].next = n + 1 /\ ledgers' = ledgers
        BY <3>1 DEF pwVars
      <4> HIDE DEF n
      <4>3. First..((n + 1) - 1) \subseteq First..(n - 1) \cup {n}
        BY <4>1
      <4> QED
        BY <4>1, <4>2, <4>3 DEF Below
    <3>4. StoreInOrder'
      BY <1>0, <2>2, <3>1, <3>2 DEF StoreInOrder, NoGaps, MarkersInOrder, PublishedAreStored, Below, pwVars
    <3>5. writer'[s].phase = "closed" /\ writer'[s].ledger_rows = {} /\ writer'[s] = Fresh("closed")
      BY <2>4, <3>1, FreshWriter DEF Phases, pwVars
    <3> QED
      BY <3>1, <3>3, <3>4, <3>5 DEF SlotInOrder, Below, pwVars
  <2>15. CASE Crash(s)
    <3>1. /\ writer'[s] = Fresh("closed") /\ UNCHANGED <<ledgers, markers, published>> /\ ReturnErr(s)
      BY <1>0, <2>15 DEF Crash, storeVars
    <3> QED
      BY <2>5, <3>1
  <2> QED
    BY <1>3, <2>7, <2>8, <2>9, <2>10, <2>11, <2>12, <2>13, <2>14, <2>15 DEF Work
<1> QED
  BY <1>1, <1>2, <1>3 DEF Next

-----------------------------------------------------------------------------
(* The specification.                                                      *)

LPInv == PWInv /\ LPTypeOK /\ OrderInv

LEMMA LPInitInv == Init => PWInit /\ LPInv
<1> USE LedgerProcessorAssumption
<1> SUFFICES ASSUME Init PROVE PWInit /\ LPInv
  OBVIOUS
<1>1. PICK n \in (First - 1)..Last : StoreHolds(First..n)
  BY DEF Init
<1>2. PWInit
  <2>1. First..n \in SUBSET Ledgers
    OBVIOUS
  <2> QED
    BY <1>1, <2>1 DEF Init, PWInit
<1>3. PWInv
  BY <1>2, InitInv
<1>4. LPTypeOK
  <2>1. Idle \in SlotType
    BY IdleSlot
  <2> QED
    BY <1>3, <2>1 DEF Init, LPTypeOK, PWInv
<1>5. OrderInv
  <2>1. \A s \in Writers : SlotInOrder(s)
    BY FreshWriter DEF Init, SlotInOrder, Idle, Phases
  <2>2. StoreInOrder
    BY <1>1 DEF Init, StoreHolds, StoreInOrder, NoGaps, MarkersInOrder, PublishedAreStored
  <2> QED
    BY <2>1, <2>2, OrderInvParts
<1> QED
  BY <1>2, <1>3, <1>4, <1>5 DEF LPInv

LEMMA LPNextInv == LPInv /\ [Next]_vars => LPInv' /\ [PWNext]_pwVars
<1> SUFFICES ASSUME LPInv, [Next]_vars PROVE LPInv' /\ [PWNext]_pwVars
  OBVIOUS
<1>1. [PWNext]_pwVars
  BY StepIsWriterStep DEF LPInv, OrderInv, vars
<1>2. PWInv'
  BY <1>1, NextInv DEF LPInv
<1>3. LPTypeOK'
  BY <1>2, TypesPreserved DEF LPInv, OrderInv, PWInv
<1>4. OrderInv'
  BY OrderPreserved DEF LPInv
<1> QED
  BY <1>1, <1>2, <1>3, <1>4 DEF LPInv

\* The inductive invariant of the live indexer.
THEOREM SequencerInvariant == Spec => []LPInv
  BY LPInitInv, LPNextInv, PTL DEF Spec

\* Every variable of the live indexer keeps its type: no retry counter, receive
\* count or cursor leaves its range.
THEOREM SequencerTypes == Spec => []LPTypeOK
<1>1. LPInv => LPTypeOK
  BY DEF LPInv
<1> QED
  BY <1>1, SequencerInvariant, PTL

\* Whatever the order of files, doorbells and failures, and however many
\* invocations run at once, the stored ledgers have no gap (reconcile: "this
\* gate is what guarantees no gaps").
THEOREM Contiguous == Spec => []NoGaps
<1>1. LPInv => NoGaps
  BY DEF LPInv, OrderInv
<1> QED
  BY <1>1, SequencerInvariant, PTL

\* The same, with what it rests on: slots, writers and rows on the wire are at
\* the frontier.
THEOREM Ordered == Spec => []OrderInv
<1>1. LPInv => OrderInv
  BY DEF LPInv
<1> QED
  BY <1>1, SequencerInvariant, PTL

\* The live indexer drives its writers only as the write path allows, so all
\* that holds of the write path holds of it.
THEOREM WritePath == Spec => PWSpec
  BY LPInitInv, LPNextInv, SequencerInvariant, PTL DEF Spec, PWSpec

\* A reader of the tables the live indexer writes sees an atomic store.
THEOREM SequencerStore == Spec => ImplementsStore
  BY WritePath, Refinement, PTL

\* An enrichment message names a ledger whose rows and marker are stored
\* (process_s3_object publishes after the write).
THEOREM Durable == Spec => []PublishedIsDurable
<1>1. LPInv => PublishedIsDurable
  BY DEF LPInv, OrderInv, PublishedAreStored, PWInv, MarkerImpliesRows, PublishedIsDurable
<1> QED
  BY <1>1, SequencerInvariant, PTL

-----------------------------------------------------------------------------
(* The log.                                                                *)

\* Without gaps, the height determines the stored ledgers.
HeightInv == Height \in (First - 1)..Last /\ ledgers = First..Height

LEMMA HeightIsFrontier == LPInv => HeightInv
<1> USE LedgerProcessorAssumption DEF HeightInv
<1> SUFFICES ASSUME ledgers \in SUBSET Ledgers, NoGaps PROVE HeightInv
  BY DEF LPInv, OrderInv, LPTypeOK, PWTypeOK
<1>1. CASE ledgers = {}
  BY <1>1 DEF Height
<1>2. CASE ledgers # {}
  <2>1. MaxSeq \in ledgers /\ MaxSeq \in First..Last /\ \A l \in ledgers : l <= MaxSeq
    BY <1>2, MaxSeqIsGreatest
  <2>2. First..MaxSeq \subseteq ledgers
    BY <2>1 DEF NoGaps
  <2>3. Height = MaxSeq
    BY <1>2 DEF Height
  <2> HIDE DEF MaxSeq, Height
  <2>4. ledgers = First..MaxSeq
    <3>1. ASSUME NEW l \in ledgers PROVE l \in First..MaxSeq
      <4>1. l \in First..Last /\ l <= MaxSeq
        BY <2>1
      <4> QED
        BY <2>1, <4>1
    <3> QED
      BY <2>2, <3>1
  <2>5. MaxSeq \in (First - 1)..Last
    BY <2>1
  <2> QED
    BY <2>3, <2>4, <2>5
<1> QED
  BY <1>1, <1>2

\* In a step, the `ledgers` table gains nothing or the one ledger after the
\* height, whose file is in the lake.
LEMMA StoredNext ==
    ASSUME LPInv, [Next]_vars
    PROVE  /\ ledgers \subseteq ledgers'
           /\ \A l \in ledgers' \ ledgers : Below(l) /\ l \in lake
<1> USE LedgerProcessorAssumption
<1>1. CASE Land
  BY <1>1 DEF Land, LandMarkers, LandRows, LPInv, OrderInv, MarkersInOrder
<1>2. ASSUME NEW s \in Writers, PersistStep(s)
      PROVE  /\ ledgers \subseteq ledgers'
             /\ \A l \in ledgers' \ ledgers : Below(l) /\ l \in lake
  <2>1. ledgers' \in {ledgers, ledgers \cup writer[s].ledger_rows}
    BY <1>2 DEF PersistStep, Open, WriteLedger, Commit, Abort, CommitStep, EndInsert, EndInsertFails,
                SendMarkers, AckMarkers, MarkersFail, storeVars
  <2>2. writer[s].ledger_rows \subseteq {slot[s].next} /\ Below(slot[s].next) /\ slot[s].next \in lake
    BY <1>2 DEF PersistStep, LPInv, OrderInv, WritersHoldNext, SlotsAtFrontier, SlotsHaveFile
  <2> QED
    BY <2>1, <2>2
<1>3. CASE UNCHANGED ledgers
  BY <1>3
<1>4. Land \/ (\E s \in Writers : PersistStep(s)) \/ UNCHANGED ledgers
  BY DEF Next, vars, pwVars, storeVars, Environment, ServerLands, LaterFileLands, FileLands, DeliveredAgain,
         Throttled, Receive, Work, ReadCursor, CheckNext, Deadline, Process, PersistDone,
         WriteFailed, PublishEnrichment, StepFails, PrefetchFails, Crash, Drop
<1> QED
  BY <1>1, <1>2, <1>3, <1>4

\* A file lands, or the lake is unchanged.
LEMMA LakeGrows ==
    ASSUME [Next]_vars
    PROVE  \/ UNCHANGED lake
           \/ UNCHANGED ledgers /\ \E l \in Ledgers : lake' = lake \cup {l}
  BY DEF Next, vars, lpVars, pwVars, Environment, ServerLands, LaterFileLands, FileLands, DeliveredAgain,
         Throttled, Receive, Work, ReadCursor, CheckNext, Deadline, Process, PersistStep, PersistDone,
         WriteFailed, PublishEnrichment, StepFails, PrefetchFails, Crash

LEMMA StepAppends ==
    ASSUME LPInv, HeightInv, LPInv', HeightInv', [Next]_vars
    PROVE  [Log!LogNext]_(Log!logVars)
<1> USE LedgerProcessorAssumption
<1> DEFINE h == Height
           k == Height'
<1>1. /\ h \in (First - 1)..Last /\ ledgers = First..h
      /\ k \in (First - 1)..Last /\ ledgers' = First..k
  BY DEF HeightInv
<1>2. /\ ledgers \subseteq ledgers'
      /\ \A l \in ledgers' \ ledgers : First..(l - 1) \subseteq ledgers /\ l \in lake
  BY StoredNext DEF LPInv, OrderInv, LPTypeOK, PWTypeOK, Below
<1> HIDE DEF h, k
<1>3. CASE k = h
  <2>1. UNCHANGED lake \/ \E l \in First..Last : lake' = lake \cup {l}
    BY LakeGrows
  <2> QED
    BY <1>3, <2>1 DEF h, k, Log!LogNext, Log!Arrive, Log!logVars
<1>4. CASE k # h
  <2>1. h < k
    <3>1. CASE k < h
      <4>1. h \in ledgers /\ h \notin ledgers'
        BY <1>1, <3>1
      <4> QED
        BY <1>2, <4>1
    <3> QED
      BY <1>1, <1>4, <3>1
  <2>2. k \in ledgers' \ ledgers
    BY <1>1, <2>1
  <2>3. k = h + 1
    <3>1. CASE h + 1 < k
      <4>1. h + 1 \in First..(k - 1) /\ h + 1 \notin ledgers
        BY <1>1, <3>1
      <4> QED
        BY <1>2, <2>2, <4>1
    <3> QED
      BY <1>1, <2>1, <3>1
  <2>4. h + 1 \in lake
    BY <1>2, <2>2, <2>3
  <2>5. UNCHANGED lake
    BY <2>2, LakeGrows
  <2> QED
    BY <2>3, <2>4, <2>5 DEF h, k, Log!LogNext, Log!Append
<1> QED
  BY <1>3, <1>4

\* The live indexer implements a log that grows at its end by one ledger at a
\* time, and only by a ledger whose file is in the lake.
THEOREM LogRefinement == Spec => ImplementsLog
<1>1. Init => Log!LogInit
  <2> SUFFICES ASSUME Init PROVE Log!LogInit
    OBVIOUS
  <2>1. HeightInv
    BY LPInitInv, HeightIsFrontier
  <2> QED
    BY <2>1 DEF HeightInv, Log!LogInit, Init
<1>2. LPInv /\ HeightInv /\ LPInv' /\ HeightInv' /\ [Next]_vars => [Log!LogNext]_(Log!logVars)
  BY StepAppends
<1> QED
  BY <1>1, <1>2, HeightIsFrontier, SequencerInvariant, PTL DEF Spec, ImplementsLog, Log!LogSpec

-----------------------------------------------------------------------------
(* One invocation at a time.                                               *)

\* The ledgers that are stored, or will be as soon as their rows land.
Sent == ledgers \cup markers

\* The invocation in slot s is past the cursor read, and nothing is stored or
\* on the wire above the ledger it is at.
AheadOfAll(s) ==
    slot[s].pc \in {"loop", "process", "persist", "publish"} => \A l \in Sent : l <= slot[s].next

CursorInv ==
    /\ \A s, t \in Busy : s = t
    /\ \A s \in Writers : AheadOfAll(s)

\* A step sends a marker or stores a ledger only if it is sent already, or is
\* the ledger a slot persists.
LEMMA SentBySlot ==
    ASSUME LPInv, NEW s \in Writers,
           (\E b \in Bells : Receive(s, b)) \/ Work(s) \/ StepFails(s) \/ PrefetchFails(s) \/ Crash(s)
    PROVE  \/ UNCHANGED <<ledgers, markers>>
           \/ PersistStep(s) /\ Sent' \subseteq Sent \cup {slot[s].next}
<1>1. CASE PersistStep(s)
  <2>1. Sent' \subseteq Sent \cup writer[s].ledger_rows
    BY <1>1 DEF PersistStep, Open, WriteLedger, Commit, Abort, CommitStep, EndInsert, EndInsertFails,
                SendMarkers, AckMarkers, MarkersFail, storeVars, Sent
  <2>2. writer[s].ledger_rows \subseteq {slot[s].next}
    BY DEF LPInv, OrderInv, WritersHoldNext
  <2> QED
    BY <1>1, <2>1, <2>2
<1>2. CASE ~ PersistStep(s)
  BY <1>2 DEF Receive, Work, ReadCursor, CheckNext, Deadline, Process, PersistDone, WriteFailed, Drop,
              PublishEnrichment, StepFails, PrefetchFails, Crash, pwVars, storeVars
<1> QED
  BY <1>1, <1>2

\* The cursor is above everything that is stored, and at least at everything
\* on the wire.
LEMMA CursorIsAhead ==
    ASSUME LPInv, NEW l \in Sent
    PROVE  l <= FirstLedgerToRead
<1> USE LedgerProcessorAssumption
<1>1. /\ HeightInv /\ l \in First..Last
      /\ l \in markers => First..(l - 1) \subseteq ledgers
  BY HeightIsFrontier DEF LPInv, OrderInv, MarkersInOrder, Below, LPTypeOK, PWTypeOK, Sent
<1>2. FirstLedgerToRead = Height + 1
  <2>1. CASE ledgers = {}
    BY <2>1 DEF FirstLedgerToRead, MaxSeq, Height
  <2>2. CASE ledgers # {}
    <3>1. MaxSeq \in First..Last
      BY <2>2, MaxSeqIsGreatest DEF LPInv, LPTypeOK, PWTypeOK
    <3> QED
      BY <2>2, <3>1 DEF FirstLedgerToRead, Height
  <2> QED
    BY <2>1, <2>2
<1> DEFINE h == Height
<1>3. h \in (First - 1)..Last /\ ledgers = First..h /\ FirstLedgerToRead = h + 1
  BY <1>1, <1>2 DEF HeightInv
<1> HIDE DEF h
<1>4. CASE l \in ledgers
  BY <1>3, <1>4
<1>5. CASE l \in markers
  <2>1. CASE l > h + 1
    <3>1. h + 1 \in First..(l - 1) /\ h + 1 \notin First..h
      BY <1>1, <1>3, <2>1
    <3> QED
      BY <1>1, <1>3, <1>5, <3>1
  <2> QED
    BY <1>1, <1>3, <2>1
<1> QED
  BY <1>4, <1>5 DEF Sent

LEMMA CursorPreserved ==
    ASSUME Concurrency = 1, LPInv, CursorInv, [Next]_vars
    PROVE  CursorInv'
<1> USE LedgerProcessorAssumption
<1>0. /\ slot \in [Writers -> SlotType] /\ Sent \subseteq Ledgers
      /\ \A s, t \in Busy : s = t
      /\ \A s \in Writers : AheadOfAll(s)
  BY DEF LPInv, LPTypeOK, PWTypeOK, CursorInv, Sent
<1>1. CASE UNCHANGED slot /\ Sent' \subseteq Sent
  BY <1>0, <1>1 DEF CursorInv, Busy, AheadOfAll
<1>2. CASE UNCHANGED vars \/ Environment
  BY <1>1, <1>2 DEF vars, pwVars, lpVars, Environment, ServerLands, Land, LandMarkers, LandRows,
                    LaterFileLands, FileLands, DeliveredAgain, Throttled, Sent
<1>3. ASSUME NEW s \in Writers,
             (\E b \in Bells : Receive(s, b)) \/ Work(s) \/ StepFails(s) \/ PrefetchFails(s) \/ Crash(s)
      PROVE  CursorInv'
  <2>1. slot' \in [Writers -> SlotType] /\ \A r \in Writers : r # s => slot'[r] = slot[r]
    BY <1>3, SlotsType DEF LPInv, OrderInv
  <2>2. Busy' \subseteq {s} /\ \A r \in Writers \ {s} : slot'[r].pc = "idle"
    <3>1. Busy \subseteq {s}
      <4>1. CASE slot[s].pc = "idle"
        <5>1. PICK b \in Bells : Receive(s, b)
          BY <1>3, <4>1 DEF Work, ReadCursor, CheckNext, Deadline, Process, PersistStep, PersistDone,
                WriteFailed, PublishEnrichment, StepFails, PrefetchFails, Crash
        <5>2. Cardinality(Busy) < 1
          BY <5>1 DEF Receive
        <5>3. ASSUME NEW t \in Busy PROVE FALSE
          <6>1. Busy = {t}
            BY <1>0, <5>3
          <6>2. Cardinality({t}) = 1
            BY FS_Singleton
          <6> QED
            BY <5>2, <6>1, <6>2
        <5> QED
          BY <5>3
      <4>2. CASE slot[s].pc # "idle"
        BY <1>0, <4>2 DEF Busy
      <4> QED
        BY <4>1, <4>2
    <3> QED
      BY <2>1, <3>1 DEF Busy
  <2>3. SUFFICES AheadOfAll(s)'
    BY <2>2 DEF CursorInv, AheadOfAll, Busy
  <2>4. CASE PersistStep(s) /\ Sent' \subseteq Sent \cup {slot[s].next}
    <3>1. slot' = slot /\ slot[s].pc = "persist" /\ slot[s].next \in First..(Last + 1)
      BY <1>0, <2>4 DEF PersistStep, SlotType
    <3> QED
      BY <1>0, <2>4, <3>1 DEF AheadOfAll
  <2>5. CASE UNCHANGED <<ledgers, markers>>
    <3>1. Sent' = Sent
      BY <2>5 DEF Sent
    \* The slot is at the same ledger as before.
    <3>2. ASSUME slot[s].pc \in {"loop", "process", "persist", "publish"}, slot'[s].next = slot[s].next
          PROVE  AheadOfAll(s)'
      BY <1>0, <3>1, <3>2 DEF AheadOfAll
    \* It has just read the cursor.
    <3>3. CASE ReadCursor(s)
      <4>1. slot'[s].pc = "idle" \/ slot'[s].next = FirstLedgerToRead
        BY <1>0, <3>3 DEF ReadCursor, ReturnOk, Idle, SlotType
      <4> QED
        BY <3>1, <4>1, CursorIsAhead DEF AheadOfAll
    \* It goes on to the next ledger.
    <3>4. CASE PublishEnrichment(s)
      <4>1. /\ slot[s].pc = "publish" /\ slot'[s].next = slot[s].next + 1
            /\ slot[s].next \in First..(Last + 1)
        BY <1>0, <3>4 DEF PublishEnrichment, SlotType
      <4> DEFINE n == slot[s].next
      <4>2. n \in Int /\ slot'[s].next = n + 1 /\ \A l \in Sent : l <= n /\ l \in Int
        BY <1>0, <4>1 DEF AheadOfAll
      <4> HIDE DEF n
      <4>3. \A l \in Sent : l <= n + 1
        BY <4>2
      <4> QED
        BY <3>1, <4>2, <4>3 DEF AheadOfAll
    <3>5. ASSUME slot'[s].pc \in {"idle", "cursor"} PROVE AheadOfAll(s)'
      BY <3>5 DEF AheadOfAll
    <3>6. CASE (\E b \in Bells : Receive(s, b)) \/ ReturnOk(s) \/ ReturnErr(s)
      <4>1. ASSUME NEW b \in Bells, Receive(s, b) PROVE slot'[s].pc = "cursor"
        BY <1>0, <4>1 DEF Receive, Idle
      <4>2. CASE ReturnOk(s) \/ ReturnErr(s)
        BY <1>0, <3>5, <4>2 DEF ReturnOk, ReturnErr, Idle
      <4> QED
        BY <3>5, <3>6, <4>1, <4>2
    <3>7. ASSUME NEW pc \in {"process", "publish"}, Goto(s, pc), slot[s].pc \in {"loop", "persist"}
          PROVE  AheadOfAll(s)'
      BY <1>0, <3>2, <3>7 DEF Goto, SlotType
    <3>8. CASE CheckNext(s) \/ Deadline(s) \/ StepFails(s) \/ PersistDone(s) \/ Crash(s)
      BY <3>6, <3>7, <3>8 DEF CheckNext, Deadline, StepFails, PersistDone, Crash
    <3>9. CASE Process(s) \/ PersistStep(s)
      BY <1>0, <3>2, <3>9 DEF Process, PersistStep, SlotType
    <3>10. CASE WriteFailed(s) \/ PrefetchFails(s)
      <4>1. slot[s].pc = "persist" /\ AttemptEnds(s)
        BY <3>10 DEF WriteFailed, PrefetchFails
      <4>2. CASE slot' = [slot EXCEPT ![s].attempt = @ + 1]
        BY <1>0, <3>2, <4>1, <4>2 DEF SlotType
      <4> QED
        BY <3>6, <4>1, <4>2 DEF AttemptEnds
    <3> QED
      BY <1>3, <3>3, <3>4, <3>6, <3>8, <3>9, <3>10 DEF Work
  <2> QED
    BY <1>3, <2>4, <2>5, SentBySlot
<1> QED
  BY <1>2, <1>3 DEF Next

\* What reservedConcurrentExecutions = 1 buys: the one invocation persists the
\* ledger after the cursor, or the cursor itself when a lost answer or a late
\* insert stored it; history below is never written again.
THEOREM AtCursor ==
    ASSUME Concurrency = 1
    PROVE  Spec => []WritesAtCursor
<1>1. Init => CursorInv
  BY DEF Init, CursorInv, Busy, AheadOfAll, Idle
<1>2. LPInv /\ CursorInv /\ [Next]_vars => CursorInv'
  BY CursorPreserved
<1>3. LPInv /\ CursorInv => WritesAtCursor
  <2> SUFFICES ASSUME LPInv, CursorInv, NEW s \in Writers, slot[s].pc = "persist"
               PROVE  slot[s].next \in {Height, Height + 1}
    BY DEF WritesAtCursor
  <2> USE LedgerProcessorAssumption
  <2> DEFINE n == slot[s].next
             h == Height
  <2>1. n \in First..(Last + 1) /\ First..(n - 1) \subseteq ledgers /\ \A l \in ledgers : l <= n
    BY DEF LPInv, LPTypeOK, SlotType, OrderInv, SlotsAtFrontier, Below, CursorInv, AheadOfAll, Sent
  <2>2. h \in (First - 1)..Last /\ ledgers = First..h
    BY HeightIsFrontier DEF HeightInv
  <2> SUFFICES n \in {h, h + 1}
    OBVIOUS
  <2> HIDE DEF n, h
  <2>3. h <= n
    BY <2>1, <2>2
  <2>4. n - 1 <= h
    BY <2>1, <2>2
  <2> QED
    BY <2>1, <2>2, <2>3, <2>4
<1> QED
  BY <1>1, <1>2, <1>3, SequencerInvariant, PTL DEF Spec
=============================================================================
