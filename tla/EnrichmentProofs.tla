------------------------- MODULE EnrichmentProofs -------------------------
(***************************************************************************)
(* Proofs about Enrichment, for all keys, batches, sources and faults: no  *)
(* message is acknowledged before its row is stored, and a drain that      *)
(* fails at no key passes none over; while no drain runs beside the        *)
(* worker, a value disappears only for a newer answer, and what a drain    *)
(* reports is so.  And about NftFetcher, for pools of any size, tokens and *)
(* tasks: who waits has a load to wait for, and a load that fails has      *)
(* asked every endpoint of its pool.                                       *)
(***************************************************************************)
EXTENDS Enrichment, NftFetcher, Integers, FiniteSets, FiniteSetTheorems, WellFoundedInduction, TLAPS

\* A set of natural numbers that is not empty has a least element.
LEMMA Smallest ==
    ASSUME NEW T \in SUBSET Nat, T # {}
    PROVE  \E m \in T : \A x \in T : m <= x
<1> DEFINE Less == {ss \in Nat \X Nat : ss[1] < ss[2]}
<1>1. IsWellFoundedOn(Less, Nat)
  BY NatLessThanWellFounded DEF OpToRel
<1>2. PICK m \in T : \A x \in T : ~ (<<x, m>> \in Less)
  <2> HIDE DEF Less
  <2> QED
    BY <1>1, WFMin
<1>3. ASSUME NEW x \in T PROVE m <= x
  <2>1. ~ (x < m)
    BY <1>2
  <2> QED
    BY <2>1
<1> QED
  BY <1>3

\* A finite set of natural numbers has a greatest element: the larger an element is, the fewer
\* elements are as large.
LEMMA GreatestOfFinite ==
    ASSUME NEW T \in SUBSET Nat, IsFiniteSet(T), T # {}
    PROVE  \E m \in T : \A x \in T : x <= m
<1> DEFINE above(m) == {x \in T : m <= x}
           U == {above(m) : m \in T}
<1>1. U \subseteq FiniteSubsetsOf(Nat) /\ U # {}
  <2>1. ASSUME NEW m \in T PROVE above(m) \in FiniteSubsetsOf(Nat)
    <3>1. above(m) \in SUBSET T
      OBVIOUS
    <3>2. IsFiniteSet(above(m))
      BY <3>1, FS_Subset
    <3> QED
      BY <3>1, <3>2 DEF FiniteSubsetsOf
  <2> QED
    BY <2>1
<1>2. \E u \in U : \A v \in U : ~ (<<v, u>> \in StrictSubsetOrdering(Nat))
  <2> HIDE DEF U
  <2> QED
    BY <1>1, FS_StrictSubsetOrderingWellFounded, WFMin
<1>3. PICK m \in T : \A v \in U : ~ (<<v, above(m)>> \in StrictSubsetOrdering(Nat))
  BY <1>2
<1>4. ASSUME NEW x \in T PROVE x <= m
  <2>1. ~ (<<above(x), above(m)>> \in StrictSubsetOrdering(Nat))
    BY <1>3
  <2>2. above(x) \in SUBSET Nat /\ above(m) \in SUBSET Nat
    OBVIOUS
  <2>3. ~ (above(x) \subseteq above(m) /\ above(x) # above(m))
    BY <2>1, <2>2 DEF StrictSubsetOrdering
  <2>4. CASE m < x
    <3>1. \A y \in T : x <= y => m <= y
      BY <2>4
    <3>2. m <= m /\ ~ (x <= m)
      BY <2>4
    <3>3. above(x) \subseteq above(m)
      BY <3>1
    <3>4. m \in above(m) /\ m \notin above(x)
      BY <3>2
    <3> QED
      BY <3>3, <3>4, <2>3
  <2> QED
    BY <2>4
<1> QED
  BY <1>4

-----------------------------------------------------------------------------
(* Rows, tasks and the two processes.                                      *)

LEMMA Constants ==
    /\ NoTask.pc = "fetch" /\ Transient.pc = "transient" /\ NoTask # Transient
    /\ DOMAIN Asleep = {"batch", "failures", "task"}
    /\ Asleep.batch = {} /\ Asleep.failures = {} /\ Asleep.task = NoTask
    /\ DOMAIN NoDrain = {"mode", "kind", "after", "tasks", "failed", "known", "real", "sentinel"}
    /\ NoDrain.mode = "none" /\ DOMAIN NoDrain.tasks = {}
    /\ Untried \in Rows /\ Untried.version = 0 /\ Untried.meta = FALSE /\ Untried.coll = FALSE
    /\ Untried.seen = 0 /\ Untried.named = 0
<1>1. NoTask.pc = "fetch" /\ Transient.pc = "transient"
  BY DEF NoTask, Transient
<1>2. NoTask # Transient
  BY <1>1
<1> QED
  BY <1>1, <1>2 DEF Asleep, NoDrain, Untried, Rows

LEMMA RowOfIs ==
    ASSUME NEW i \in Inserts
    PROVE  /\ RowOf(i) \in Rows /\ RowOf(i) # Untried
           /\ RowOf(i).version = i.version /\ RowOf(i).meta = i.meta /\ RowOf(i).coll = i.coll
           /\ RowOf(i).seen = i.seen /\ RowOf(i).named = i.named
<1>1. /\ RowOf(i) \in Rows
      /\ RowOf(i).version = i.version /\ RowOf(i).meta = i.meta /\ RowOf(i).coll = i.coll
      /\ RowOf(i).seen = i.seen /\ RowOf(i).named = i.named
  BY DEF RowOf, Rows, Inserts
<1>2. i.version # 0
  BY DEF Inserts
<1> QED
  BY <1>1, <1>2, Constants

\* One insert replaces the row of its key, unless that is newer.
LEMMA MergeOne ==
    ASSUME NEW table \in [Keys -> Rows], NEW i \in Inserts
    PROVE  /\ Merge(table, {i}) \in [Keys -> Rows]
           /\ \A k \in Keys \ {i.key} : Merge(table, {i})[k] = table[k]
           /\ Merge(table, {i})[i.key] = IF i.version >= table[i.key].version THEN RowOf(i)
                                         ELSE table[i.key]
<1> DEFINE new(k) == IF \E j \in {i} : j.key = k /\ j.version >= table[k].version
                     THEN RowOf(CHOOSE j \in {i} : j.key = k) ELSE table[k]
<1>1. i.key \in Keys
  BY DEF Inserts
<1>2. Merge(table, {i}) = [k \in Keys |-> new(k)]
  BY DEF Merge
<1>3. \A k \in Keys \ {i.key} : new(k) = table[k]
  OBVIOUS
<1>4. new(i.key) = IF i.version >= table[i.key].version THEN RowOf(i) ELSE table[i.key]
  <2>1. (CHOOSE j \in {i} : j.key = i.key) = i
    OBVIOUS
  <2> QED
    BY <2>1
<1>5. \A k \in Keys : new(k) \in Rows
  BY <1>3, <1>4, RowOfIs
<1> HIDE DEF new
<1> QED
  BY <1>1, <1>2, <1>3, <1>4, <1>5

LEMMA StampedIs ==
    ASSUME NEW k \in Keys, NEW task \in BoundTasks, NEW at \in Nat \ {0}
    PROVE  /\ Stamped(k, task, at) \in Inserts
           /\ Stamped(k, task, at).key = k /\ Stamped(k, task, at).version = at
           /\ Stamped(k, task, at).meta = task.meta /\ Stamped(k, task, at).coll = task.coll
           /\ Stamped(k, task, at).seen = task.seen /\ Stamped(k, task, at).named = task.named
  BY DEF Stamped, Inserts, BoundTasks

\* The record that is handled is one of the batch.
LEMMA HandledIs ==
    ASSUME worker.batch \subseteq MessageType, worker.batch # {}
    PROVE  Handled \in worker.batch /\ Handled \in MessageType /\ Handled.key \in Keys
<1> DEFINE ids == {m.id : m \in worker.batch}
<1>1. ids \in SUBSET Nat /\ ids # {}
  BY DEF MessageType
<1>2. PICK n \in ids : \A x \in ids : n <= x
  <2> HIDE DEF ids
  <2> QED
    BY <1>1, Smallest
<1>3. PICK m \in worker.batch : m.id = n
  BY <1>2
<1>4. \A x \in worker.batch : m.id <= x.id
  BY <1>2, <1>3
<1>5. Handled \in worker.batch
  BY <1>3, <1>4 DEF Handled
<1> QED
  BY <1>5 DEF MessageType

LEMMA TaskKinds ==
    ASSUME NEW k, NEW task, IsTask(k, task)
    PROVE  /\ task.pc = "bind" <=> task \in BoundTasks
           /\ task.pc = "sent" => /\ task \in [pc : {"sent"}, insert : Inserts] /\ task.insert.key = k
                                  /\ task.insert \in inserts \/ Tried(k)
           /\ task.pc = "transient" => task = Transient
           /\ task.pc = "fetch" => task = NoTask
  BY Constants DEF IsTask, BoundTasks

-----------------------------------------------------------------------------
(* After a step: the definitions that speak of a constant key.             *)

TriedNow(k) == row'[k] # Untried

IsTaskNow(k, task) ==
    \/ task = NoTask \/ task = Transient \/ task \in BoundTasks
    \/ /\ task \in [pc : {"sent"}, insert : Inserts] /\ task.insert.key = k
       /\ task.insert \in inserts' \/ TriedNow(k)

\* Rows stay, and an insert that is no longer on its way has left one.
Keeps ==
    /\ \A k \in Keys : Tried(k) => TriedNow(k)
    /\ \A i \in inserts : i \in inserts' \/ TriedNow(i.key)

LEMMA TaskStays ==
    ASSUME Keeps, NEW k \in Keys, NEW task, IsTask(k, task)
    PROVE  IsTaskNow(k, task)
  BY DEF Keeps, IsTask, IsTaskNow

\* Nothing of the store changes.
LEMMA KeepsIfSame ==
    ASSUME row' = row, inserts \subseteq inserts'
    PROVE  Keeps
  BY DEF Keeps, Tried, TriedNow

-----------------------------------------------------------------------------
(* Shapes, and who runs.                                                   *)

TableShapes ==
    /\ base \subseteq Keys /\ dlq \subseteq Keys /\ sent \subseteq Keys
    /\ row \in [Keys -> Rows] /\ inserts \subseteq Inserts /\ queue \subseteq MessageType
    /\ warm \in [Keys -> Nat] /\ clock \in Nat
    /\ source \in [Keys \cup Collections -> {"real", "gone", "down"}]
    /\ count \in [messages : Nat, faults : Nat, changes : Nat \ {0}, drains : Nat]

WorkerShape ==
    /\ DOMAIN worker = DOMAIN Asleep /\ worker.batch \subseteq MessageType
    /\ worker.task # NoTask => worker.batch # {}
    /\ worker.batch # {} => IsTask(Handled.key, worker.task)

LEMMA ShapesAre == /\ Shapes <=> TableShapes /\ WorkerShape /\ DOMAIN drain = DOMAIN NoDrain
                   /\ Shapes' <=> TableShapes' /\ WorkerShape' /\ DOMAIN drain' = DOMAIN NoDrain
<1>1. Shapes <=> TableShapes /\ WorkerShape /\ DOMAIN drain = DOMAIN NoDrain
  BY DEF Shapes, TableShapes, WorkerShape
<1>2. Shapes' <=> TableShapes' /\ WorkerShape' /\ DOMAIN drain' = DOMAIN NoDrain
  BY DEF Shapes, TableShapes, WorkerShape
<1> QED
  BY <1>1, <1>2

\* A step that leaves the worker alone, or takes it a message further.
LEMMA WorkerStays ==
    ASSUME WorkerShape, Keeps, worker' = worker
    PROVE  WorkerShape'
<1>1. ASSUME worker.batch # {} PROVE IsTaskNow(Handled.key, worker.task)
  BY <1>1, HandledIs, TaskStays DEF WorkerShape
<1>2. Handled' = Handled
  BY DEF Handled
<1> QED
  BY <1>1, <1>2 DEF WorkerShape, IsTask, IsTaskNow, Tried, TriedNow

LEMMA WorkerFree ==
    ASSUME DOMAIN worker' = DOMAIN Asleep, worker'.batch \subseteq MessageType, worker'.task = NoTask
    PROVE  WorkerShape'
  BY DEF WorkerShape, IsTask

LEMMA AsleepShape ==
    ASSUME worker' = Asleep
    PROVE  WorkerShape'
  BY Constants, WorkerFree

LEMMA DrainStays ==
    ASSUME TableShapes, Exclusive, Tasks, Keeps, drain' = drain, base \subseteq base',
           ~ Beside /\ Draining => worker' = Asleep /\ inserts' \subseteq inserts
    PROVE  Exclusive' /\ Tasks'
<1>1. ASSUME drain.mode \in Modes \ {"CollectionName"}, NEW k \in DOMAIN drain.tasks
      PROVE  IsTaskNow(k, drain.tasks[k])
  BY <1>1, TaskStays DEF Tasks, TableShapes
<1>2. Tasks'
  BY <1>1 DEF Tasks, Draining, Modes, IsTask, IsTaskNow, Tried, TriedNow
<1>3. Exclusive'
  BY Constants DEF Exclusive, Draining
<1> QED
  BY <1>2, <1>3

\* Without a drain beside it, the worker runs only while no drain does.
LEMMA WorkerAlone ==
    ASSUME Exclusive, Tasks, ~ Beside, worker # Asleep
    PROVE  ~ Draining /\ drain = NoDrain
  BY DEF Exclusive, Tasks

LEMMA NotAsleep ==
    ASSUME worker.batch # {}
    PROVE  worker # Asleep
  BY Constants

LEMMA CardinalityIs ==
    ASSUME EnrichmentAssumption, NEW ks \in SUBSET Keys
    PROVE  IsFiniteSet(ks) /\ Cardinality(ks) \in Nat
  BY FS_Subset, FS_CardinalityType DEF EnrichmentAssumption

LEMMA MessagesAre ==
    ASSUME EnrichmentAssumption, TableShapes, NEW ks \in SUBSET Keys
    PROVE  Messages(ks) \subseteq MessageType /\ \A m \in Messages(ks) : m.visible
<1>1. \A k \in ks : Cardinality({j \in ks : j <= k}) \in Nat
  <2>1. \A k \in ks : {j \in ks : j <= k} \in SUBSET Keys
    OBVIOUS
  <2> QED
    BY <2>1, CardinalityIs
<1>2. count.messages \in Nat
  BY DEF TableShapes
<1> DEFINE id(k) == count.messages + Cardinality({j \in ks : j <= k})
<1>3. \A k \in ks : id(k) \in Nat
  BY <1>1, <1>2
<1>4. Messages(ks) = {[id |-> id(k), key |-> k, receives |-> 0, visible |-> TRUE] : k \in ks}
  BY DEF Messages
<1> HIDE DEF id
<1>5. ASSUME NEW k \in ks
      PROVE  [id |-> id(k), key |-> k, receives |-> 0, visible |-> TRUE] \in MessageType
  BY <1>3, <1>5 DEF MessageType
<1>6. \A m \in Messages(ks) : \E k \in ks : m = [id |-> id(k), key |-> k, receives |-> 0, visible |-> TRUE]
  BY <1>4
<1> QED
  BY <1>5, <1>6

LEMMA CountSum ==
    ASSUME NEW c \in [messages : Nat, faults : Nat, changes : Nat \ {0}, drains : Nat],
           NEW m \in Nat, NEW f \in Nat
    PROVE  LET d == [c EXCEPT !.messages = @ + m, !.faults = @ + f]
           IN  /\ d \in [messages : Nat, faults : Nat, changes : Nat \ {0}, drains : Nat]
               /\ d.changes = c.changes
<1>1. c.messages + m \in Nat /\ c.faults + f \in Nat
  OBVIOUS
<1> QED
  BY <1>1

LEMMA IndexShapes ==
    ASSUME EnrichmentAssumption, TableShapes, NEW ks \in SUBSET Keys, NEW lost, NEW fails,
           Index(ks, fails, lost)
    PROVE  /\ TableShapes'
           /\ UNCHANGED <<row, inserts, dlq, worker, warm, drain, source, clock>>
           /\ base \subseteq base' /\ count'.changes = count.changes
           /\ \E new \in SUBSET Keys : /\ sent' = sent \cup new /\ queue' = queue \cup Messages(new)
<1> DEFINE new == ToPublish(CandidateKeys(ks), fails) \ lost
<1>1. /\ base' = base \cup ks /\ sent' = sent \cup new /\ queue' = queue \cup Messages(new)
      /\ UNCHANGED <<row, inserts, dlq, worker, warm, drain, source, clock>>
      /\ count' = [count EXCEPT !.messages = @ + Cardinality(new),
                                !.faults = @ + IF fails \/ lost # {} THEN 1 ELSE 0]
  BY DEF Index
<1>2. new \in SUBSET Keys
  BY DEF ToPublish, CandidateKeys, Unenriched
<1> HIDE DEF new
<1>3. Messages(new) \subseteq MessageType /\ Cardinality(new) \in Nat
  BY <1>2, MessagesAre, CardinalityIs
<1>4. count' \in [messages : Nat, faults : Nat, changes : Nat \ {0}, drains : Nat]
      /\ count'.changes = count.changes
  <2> DEFINE faults == IF fails \/ lost # {} THEN 1 ELSE 0
  <2>1. faults \in Nat
    OBVIOUS
  <2>2. count' = [count EXCEPT !.messages = @ + Cardinality(new), !.faults = @ + faults]
    BY <1>1
  <2> HIDE DEF faults
  <2> QED
    BY <1>3, <2>1, <2>2, CountSum DEF TableShapes
<1>5. TableShapes'
  BY <1>1, <1>2, <1>3, <1>4 DEF TableShapes
<1> QED
  BY <1>1, <1>2, <1>4, <1>5

LEMMA FaultIs ==
    ASSUME TableShapes, Fault \/ count' = count
    PROVE  /\ count' \in [messages : Nat, faults : Nat, changes : Nat \ {0}, drains : Nat]
           /\ count'.changes = count.changes
  BY DEF TableShapes, Fault

-----------------------------------------------------------------------------
(* What a step sends, takes and fetches.                                   *)

Taken(m) == [m EXCEPT !.receives = @ + 1, !.visible = FALSE]
Returned(m) == [m EXCEPT !.visible = TRUE]

LEMMA TakenIs ==
    ASSUME NEW m \in MessageType
    PROVE  /\ Taken(m) \in MessageType /\ Taken(m).id = m.id /\ Taken(m).key = m.key
           /\ Taken(m).visible = FALSE
           /\ Returned(m) \in MessageType /\ Returned(m).id = m.id /\ Returned(m).key = m.key
           /\ Returned(m).visible = TRUE
<1>1. m.receives + 1 \in Nat
  BY DEF MessageType
<1> QED
  BY <1>1 DEF MessageType, Taken, Returned

\* A message is delivered again, or its key is a dead letter.
LEMMA BackOrDead ==
    ASSUME EnrichmentAssumption, NEW ms \in SUBSET MessageType
    PROVE  /\ Back(ms) \subseteq MessageType /\ \A m \in Back(ms) : m.visible
           /\ DeadLetters(ms) \subseteq Keys
           /\ \A m \in ms : m.key \in DeadLetters(ms) \/ \E b \in Back(ms) : b.key = m.key
<1>1. Back(ms) = {Returned(m) : m \in {x \in ms : x.receives < MaxReceive}}
  BY DEF Back, Returned
<1>2. \A m \in Back(ms) : \E x \in ms : m = Returned(x)
  BY <1>1
<1>3. DeadLetters(ms) \subseteq Keys
  BY DEF DeadLetters, MessageType
<1>4. ASSUME NEW m \in ms PROVE m.key \in DeadLetters(ms) \/ \E b \in Back(ms) : b.key = m.key
  <2>1. CASE m.receives >= MaxReceive
    BY <2>1 DEF DeadLetters
  <2>2. CASE ~ (m.receives >= MaxReceive)
    <3>1. m.receives < MaxReceive
      BY <2>2 DEF MessageType, EnrichmentAssumption
    <3> QED
      BY <3>1, <1>1, TakenIs
  <2> QED
    BY <2>1, <2>2
<1>5. ASSUME NEW m \in Back(ms) PROVE m \in MessageType /\ m.visible = TRUE
  <2>1. PICK x \in ms : m = Returned(x)
    BY <1>2
  <2>2. x \in MessageType
    OBVIOUS
  <2> QED
    BY <2>1, <2>2, TakenIs
<1> QED
  BY <1>3, <1>4, <1>5

Bound(meta, coll, seen, named) ==
    [pc |-> "bind", meta |-> meta, coll |-> coll, seen |-> seen, named |-> named]

LEMMA BoundIs ==
    ASSUME NEW meta \in BOOLEAN, NEW coll \in BOOLEAN, NEW seen \in Nat, NEW named \in Nat
    PROVE  /\ Bound(meta, coll, seen, named) \in BoundTasks
           /\ Bound(meta, coll, seen, named).meta = meta /\ Bound(meta, coll, seen, named).coll = coll
           /\ Bound(meta, coll, seen, named).seen = seen /\ Bound(meta, coll, seen, named).named = named
  BY DEF Bound, BoundTasks

LEMMA FetchedIs ==
    ASSUME EnrichmentAssumption, TableShapes, NEW k \in Keys, NEW held, held[k] \in Nat
    PROVE  \/ Fetched(k, held) = Transient
           \/ /\ Fetched(k, held) \in BoundTasks
              /\ Fetched(k, held).meta <=> Answer(k, held) = "real"
              /\ Fetched(k, held).seen = Recent(k, held)
              /\ k \in AssetKeys => ~ Fetched(k, held).coll /\ Fetched(k, held).named = 0
              /\ k \notin AssetKeys => /\ k \in NftKeys /\ Fetched(k, held).named = count.changes
                                       /\ Fetched(k, held).coll <=> source[ContractOf[k]] = "real"
<1> DEFINE meta == Answer(k, held) = "real"
<1> DEFINE coll == source[ContractOf[k]] = "real"
<1> DEFINE no == FALSE
<1>1. count.changes \in Nat /\ Recent(k, held) \in Nat
  BY DEF TableShapes, Recent
<1>2. meta \in BOOLEAN /\ coll \in BOOLEAN
  OBVIOUS
<1>3. CASE k \in AssetKeys
  <2>1. \/ Fetched(k, held) = Transient
        \/ Fetched(k, held) = Bound(meta, no, Recent(k, held), 0)
    BY <1>3 DEF Fetched, FetchAsset, Bound
  <2>2. Fetched(k, held) # Transient =>
          /\ Fetched(k, held) \in BoundTasks /\ Fetched(k, held).meta = meta
          /\ Fetched(k, held).coll = no /\ Fetched(k, held).seen = Recent(k, held)
          /\ Fetched(k, held).named = 0
    <3>1. no \in BOOLEAN /\ 0 \in Nat
      OBVIOUS
    <3> HIDE DEF meta, coll, no
    <3> QED
      BY <1>1, <1>2, <2>1, <3>1, BoundIs
  <2> QED
    BY <1>3, <2>2
<1>4. CASE k \notin AssetKeys
  <2>1. \/ Fetched(k, held) = Transient
        \/ Fetched(k, held) = Bound(meta, coll, Recent(k, held), count.changes)
    BY <1>4 DEF Fetched, FetchNft, Bound
  <2>2. Fetched(k, held) # Transient =>
          /\ Fetched(k, held) \in BoundTasks /\ Fetched(k, held).meta = meta
          /\ Fetched(k, held).coll = coll /\ Fetched(k, held).seen = Recent(k, held)
          /\ Fetched(k, held).named = count.changes
    <3> HIDE DEF meta, coll
    <3> QED
      BY <1>1, <1>2, <2>1, BoundIs
  <2> QED
    BY <1>4, <2>2 DEF Keys
<1> QED
  BY <1>3, <1>4

-----------------------------------------------------------------------------
(* Every step keeps the shapes and who runs.                               *)

TypesHold == TableShapes /\ WorkerShape /\ DOMAIN drain = DOMAIN NoDrain /\ Exclusive /\ Tasks

LEMMA IndexTypes ==
    ASSUME EnrichmentAssumption, TypesHold, NEW ks \in SUBSET Keys, NEW lost, NEW fails,
           Index(ks, fails, lost)
    PROVE  TypesHold' /\ Keeps
<1>1. /\ TableShapes' /\ base \subseteq base'
      /\ UNCHANGED <<row, inserts, dlq, worker, warm, drain, source, clock>>
  BY IndexShapes DEF TypesHold
<1>2. Keeps
  BY <1>1, KeepsIfSame
<1>3. WorkerShape'
  BY <1>1, <1>2, WorkerStays DEF TypesHold
<1>4. Exclusive' /\ Tasks'
  BY <1>1, <1>2, DrainStays DEF TypesHold, Exclusive
<1> QED
  BY <1>1, <1>2, <1>3, <1>4 DEF TypesHold

LEMMA SourceTypes ==
    ASSUME TypesHold, NEW s, NEW a \in {"real", "gone", "down"}, SourceChanges(s, a)
    PROVE  TypesHold' /\ Keeps /\ count'.changes = count.changes + 1
<1>1. /\ UNCHANGED <<base, row, inserts, queue, dlq, sent, worker, warm, drain, clock>>
      /\ source' = [source EXCEPT ![s] = a] /\ count' = [count EXCEPT !.changes = @ + 1]
  BY DEF SourceChanges
<1>2. /\ count' \in [messages : Nat, faults : Nat, changes : Nat \ {0}, drains : Nat]
      /\ count'.changes = count.changes + 1
  <2>1. count.changes + 1 \in Nat \ {0}
    BY DEF TypesHold, TableShapes
  <2> QED
    BY <1>1, <2>1 DEF TypesHold, TableShapes
<1>3. source' \in [Keys \cup Collections -> {"real", "gone", "down"}]
  BY <1>1 DEF TypesHold, TableShapes
<1>4. TableShapes'
  BY <1>1, <1>2, <1>3 DEF TypesHold, TableShapes
<1>5. Keeps
  BY <1>1, KeepsIfSame
<1>6. WorkerShape'
  BY <1>1, <1>5, WorkerStays DEF TypesHold
<1>7. Exclusive' /\ Tasks'
  BY <1>1, <1>5, DrainStays DEF TypesHold, Exclusive
<1> QED
  BY <1>1, <1>2, <1>4, <1>5, <1>6, <1>7 DEF TypesHold

\* No drain runs after the step.
LEMMA IdleTasks ==
    ASSUME drain' = NoDrain
    PROVE  Exclusive' /\ Tasks'
  BY Constants DEF Exclusive, Tasks, Draining, Modes

\* A step of the worker leaves the drain alone, and runs only without one or
\* beside it.
LEMMA WorkerLeaves ==
    ASSUME TypesHold, Keeps, drain' = drain, base' = base, Beside \/ ~ Draining \/ worker # Asleep
    PROVE  Exclusive' /\ Tasks'
<1>1. CASE Beside
  BY <1>1, DrainStays DEF TypesHold
<1>2. CASE ~ Beside
  <2>1. ~ Draining /\ drain = NoDrain
    BY <1>2, WorkerAlone DEF TypesHold, Tasks
  <2> QED
    BY <2>1, IdleTasks
<1> QED
  BY <1>1, <1>2

LEMMA ReceiveTypes ==
    ASSUME TypesHold, NEW ms \in SUBSET queue, Receive(ms)
    PROVE  TypesHold' /\ Keeps
<1>1. /\ UNCHANGED <<base, row, inserts, dlq, sent, warm, drain, source, clock, count>>
      /\ worker' = [Asleep EXCEPT !.batch = ms] /\ (Beside \/ ~ Draining)
      /\ queue' = (queue \ ms) \cup {Taken(m) : m \in ms}
  BY DEF Receive, Taken
<1>2. ms \subseteq MessageType
  BY DEF TypesHold, TableShapes
<1>3. \A m \in {Taken(x) : x \in ms} : m \in MessageType
  <2>1. \A x \in ms : Taken(x) \in MessageType
    BY <1>2, TakenIs
  <2> QED
    BY <2>1
<1>4. TableShapes'
  <2>1. queue' \subseteq MessageType
    BY <1>1, <1>3 DEF TypesHold, TableShapes
  <2> QED
    BY <1>1, <2>1 DEF TypesHold, TableShapes
<1>5. Keeps
  BY <1>1, KeepsIfSame
<1>6. /\ DOMAIN worker' = DOMAIN Asleep /\ worker'.batch = ms /\ worker'.task = NoTask
  BY <1>1 DEF Asleep
<1>7. WorkerShape'
  BY <1>2, <1>6, WorkerFree
<1>8. Exclusive' /\ Tasks'
  BY <1>1, <1>5, WorkerLeaves
<1> QED
  BY <1>1, <1>4, <1>5, <1>7, <1>8 DEF TypesHold

\* A step that leaves the batch with the worker.
LEMMA WorkerOn ==
    ASSUME TypesHold, worker.batch # {}
    PROVE  /\ worker # Asleep
           /\ Handled \in worker.batch /\ Handled \in MessageType /\ Handled.key \in Keys
           /\ IsTask(Handled.key, worker.task) /\ warm[Handled.key] \in Nat
<1>1. worker # Asleep
  BY NotAsleep
<1>2. Handled \in worker.batch /\ Handled \in MessageType /\ Handled.key \in Keys
  BY HandledIs DEF TypesHold, WorkerShape
<1> QED
  BY <1>1, <1>2 DEF TypesHold, WorkerShape, TableShapes

LEMMA WorkerSet ==
    ASSUME WorkerShape, worker.batch # {}, NEW task, worker' = [worker EXCEPT !.task = task]
    PROVE  /\ DOMAIN worker' = DOMAIN worker /\ worker'.batch = worker.batch
           /\ worker'.failures = worker.failures /\ worker'.task = task /\ Handled' = Handled
<1>1. DOMAIN worker = {"batch", "failures", "task"}
  BY Constants DEF WorkerShape
<1>2. /\ DOMAIN worker' = DOMAIN worker /\ worker'.batch = worker.batch
      /\ worker'.failures = worker.failures /\ worker'.task = task
  BY <1>1
<1> QED
  BY <1>2 DEF Handled

LEMMA WorkerFetchTypes ==
    ASSUME EnrichmentAssumption, TypesHold, WorkerFetch
    PROVE  TypesHold' /\ Keeps
<1> DEFINE task == Fetched(Handled.key, warm)
<1>1. /\ UNCHANGED <<base, row, inserts, queue, dlq, sent, drain, source, clock, count>>
      /\ worker.batch # {} /\ worker' = [worker EXCEPT !.task = task]
      /\ warm' = IF task.pc = "bind" /\ task.meta THEN [warm EXCEPT ![Handled.key] = task.seen] ELSE warm
  BY DEF WorkerFetch
<1>2. worker # Asleep /\ Handled.key \in Keys /\ warm[Handled.key] \in Nat
  BY <1>1, WorkerOn
<1>3. task = Transient \/ task \in BoundTasks
  BY <1>2, FetchedIs DEF TypesHold
<1> HIDE DEF task
<1>4. task.pc = "bind" => task.seen \in Nat
  BY <1>3, Constants DEF BoundTasks
<1>5. warm' \in [Keys -> Nat]
  BY <1>1, <1>2, <1>4 DEF TypesHold, TableShapes
<1>6. TableShapes'
  BY <1>1, <1>5 DEF TypesHold, TableShapes
<1>7. WorkerShape'
  <2>1. /\ DOMAIN worker' = DOMAIN worker /\ worker'.batch = worker.batch /\ worker'.task = task
        /\ Handled' = Handled
    BY <1>1, WorkerSet DEF TypesHold
  <2> QED
    BY <1>1, <1>3, <2>1 DEF TypesHold, WorkerShape, IsTask
<1>8. Keeps
  BY <1>1, KeepsIfSame
<1>9. Exclusive' /\ Tasks'
  BY <1>1, <1>2, <1>8, WorkerLeaves
<1> QED
  BY <1>1, <1>6, <1>7, <1>8, <1>9 DEF TypesHold

Sent(insert) == [pc |-> "sent", insert |-> insert]

LEMMA SentIs ==
    ASSUME NEW i \in Inserts
    PROVE  /\ Sent(i).pc = "sent" /\ Sent(i).insert = i
           /\ Sent(i) \in [pc : {"sent"}, insert : Inserts]
           /\ Sent(i) # NoTask /\ Sent(i) # Transient /\ Sent(i) \notin BoundTasks
<1>1. /\ Sent(i).pc = "sent" /\ Sent(i).insert = i
      /\ Sent(i) \in [pc : {"sent"}, insert : Inserts]
  BY DEF Sent
<1> QED
  BY <1>1, Constants DEF BoundTasks

LEMMA WorkerInsertTypes ==
    ASSUME TypesHold, WorkerInsert
    PROVE  TypesHold' /\ Keeps
<1> DEFINE insert == Stamped(Handled.key, worker.task, clock + 1)
<1>1. /\ UNCHANGED <<base, row, queue, dlq, sent, warm, drain, source, count>>
      /\ worker.batch # {} /\ worker.task.pc = "bind"
      /\ clock' = clock + 1 /\ inserts' = inserts \cup {insert}
      /\ worker' = [worker EXCEPT !.task = Sent(insert)]
  BY DEF WorkerInsert, Sent
<1>2. worker # Asleep /\ Handled.key \in Keys /\ IsTask(Handled.key, worker.task)
  BY <1>1, WorkerOn
<1>3. clock \in Nat /\ clock + 1 \in Nat \ {0}
  BY DEF TypesHold, TableShapes
<1>4. insert \in Inserts /\ insert.key = Handled.key
  BY <1>1, <1>2, <1>3, TaskKinds, StampedIs
<1> HIDE DEF insert
<1>5. TableShapes'
  BY <1>1, <1>3, <1>4 DEF TypesHold, TableShapes
<1>6. WorkerShape'
  <2>1. /\ DOMAIN worker' = DOMAIN worker /\ worker'.batch = worker.batch
        /\ worker'.task = Sent(insert) /\ Handled' = Handled
    BY <1>1, WorkerSet DEF TypesHold
  <2>2. IsTask(Handled.key, worker.task)'
    BY <1>1, <1>4, <2>1, SentIs DEF IsTask
  <2> QED
    BY <1>1, <2>1, <2>2 DEF TypesHold, WorkerShape
<1>7. Keeps
  BY <1>1, KeepsIfSame
<1>8. Exclusive' /\ Tasks'
  BY <1>1, <1>2, <1>7, WorkerLeaves
<1> QED
  BY <1>1, <1>5, <1>6, <1>7, <1>8 DEF TypesHold

\* The messages the worker holds.
Mine == {m \in queue : ~ m.visible}

LEMMA ReturnTypes ==
    ASSUME EnrichmentAssumption, TableShapes, NEW ms \in SUBSET queue, NEW gone,
           queue' = (queue \ gone) \cup Back(ms), dlq' = dlq \cup DeadLetters(ms)
    PROVE  queue' \subseteq MessageType /\ dlq' \subseteq Keys
<1>1. ms \in SUBSET MessageType
  BY DEF TableShapes
<1>2. Back(ms) \subseteq MessageType /\ DeadLetters(ms) \subseteq Keys
  BY <1>1, BackOrDead
<1> QED
  BY <1>2 DEF TableShapes

\* The batch and the failures after a record.
Failing(task, insertFails) == IF Fails(task, insertFails) THEN {Handled.id} ELSE {}
Reported(insertFails) == {m \in Mine : m.id \in worker.failures \cup Failing(worker.task, insertFails)}

LEMMA RecordIs ==
    ASSUME TypesHold, NEW fails, Record(fails)
    PROVE  /\ UNCHANGED <<base, row, inserts, sent, warm, drain, source, clock>>
           /\ worker.batch # {} /\ worker.task.pc \in {"transient", "sent"}
           /\ ~ fails /\ worker.task.pc = "sent" => worker.task.insert \notin inserts
           /\ Fault \/ count' = count
           /\ DOMAIN worker' = DOMAIN worker /\ worker'.batch = worker.batch \ {Handled}
           /\ worker'.task = NoTask
           /\ worker'.failures = worker.failures \cup Failing(worker.task, fails)
           /\ worker'.batch # {} => queue' = queue /\ dlq' = dlq
           /\ worker'.batch = {} => /\ queue' = (queue \ Mine) \cup Back(Reported(fails))
                                    /\ dlq' = dlq \cup DeadLetters(Reported(fails))
<1>1. /\ UNCHANGED <<base, row, inserts, sent, warm, drain, source, clock>>
      /\ worker.batch # {} /\ worker.task.pc \in {"transient", "sent"}
      /\ ~ fails /\ worker.task.pc = "sent" => worker.task.insert \notin inserts
      /\ Fault \/ count' = count
  BY DEF Record
<1> DEFINE more == Failing(worker.task, fails)
<1>2. worker' = [worker EXCEPT !.batch = @ \ {Handled}, !.task = NoTask, !.failures = @ \cup more]
  BY DEF Record, Failing
<1>3. DOMAIN worker = {"batch", "failures", "task"}
  BY Constants DEF TypesHold, WorkerShape
<1>4. /\ DOMAIN worker' = DOMAIN worker /\ worker'.batch = worker.batch \ {Handled}
      /\ worker'.task = NoTask /\ worker'.failures = worker.failures \cup more
  <2> HIDE DEF more
  <2> QED
    BY <1>2, <1>3
<1>5. worker'.batch # {} => queue' = queue /\ dlq' = dlq
  BY DEF Record
<1>6. ASSUME worker'.batch = {}
      PROVE  /\ queue' = (queue \ Mine) \cup Back(Reported(fails))
             /\ dlq' = dlq \cup DeadLetters(Reported(fails))
  <2>1. LET mine == {m \in queue : ~ m.visible}
            failed == {m \in mine : m.id \in worker'.failures}
        IN  queue' = (queue \ mine) \cup Back(failed) /\ dlq' = dlq \cup DeadLetters(failed)
    BY <1>6 DEF Record
  <2>2. {m \in Mine : m.id \in worker'.failures} = Reported(fails)
    BY <1>4 DEF Reported
  <2> QED
    BY <2>1, <2>2 DEF Mine
<1> QED
  BY <1>1, <1>4, <1>5, <1>6

LEMMA RecordTypes ==
    ASSUME EnrichmentAssumption, TypesHold, NEW fails, Record(fails)
    PROVE  TypesHold' /\ Keeps
<1>1. /\ UNCHANGED <<base, row, inserts, sent, warm, drain, source, clock>>
      /\ worker.batch # {} /\ (Fault \/ count' = count)
      /\ DOMAIN worker' = DOMAIN worker /\ worker'.batch = worker.batch \ {Handled}
      /\ worker'.task = NoTask
      /\ worker'.batch # {} => queue' = queue /\ dlq' = dlq
      /\ worker'.batch = {} => /\ queue' = (queue \ Mine) \cup Back(Reported(fails))
                               /\ dlq' = dlq \cup DeadLetters(Reported(fails))
  BY RecordIs
<1>2. queue' \subseteq MessageType /\ dlq' \subseteq Keys
  <2>1. Reported(fails) \subseteq queue
    BY DEF Reported, Mine
  <2>2. CASE worker'.batch = {}
    BY <1>1, <2>1, <2>2, ReturnTypes DEF TypesHold
  <2> QED
    BY <1>1, <2>2 DEF TypesHold, TableShapes
<1>3. TableShapes'
  BY <1>1, <1>2, FaultIs DEF TypesHold, TableShapes
<1>4. WorkerShape'
  BY <1>1, WorkerFree DEF TypesHold, WorkerShape
<1>5. Keeps
  BY <1>1, KeepsIfSame
<1>6. Exclusive' /\ Tasks'
  BY <1>1, <1>5, WorkerOn, WorkerLeaves
<1> QED
  BY <1>1, <1>3, <1>4, <1>5, <1>6 DEF TypesHold

LEMMA DoneTypes ==
    ASSUME TypesHold, Done
    PROVE  TypesHold' /\ Keeps
<1>1. /\ worker # Asleep /\ worker' = Asleep
      /\ UNCHANGED <<base, row, inserts, queue, dlq, sent, warm, drain, source, clock, count>>
  BY DEF Done
<1>2. Keeps
  BY <1>1, KeepsIfSame
<1>3. TableShapes'
  BY <1>1 DEF TypesHold, TableShapes
<1>4. Exclusive' /\ Tasks'
  BY <1>1, <1>2, WorkerLeaves
<1> QED
  BY <1>1, <1>2, <1>3, <1>4, AsleepShape DEF TypesHold

LEMMA CrashIs ==
    ASSUME Crash
    PROVE  /\ UNCHANGED <<base, row, inserts, sent, drain, source, clock>>
           /\ worker # Asleep /\ Fault /\ worker' = Asleep /\ warm' = [k \in Keys |-> 0]
           /\ queue' = (queue \ Mine) \cup Back(Mine) /\ dlq' = dlq \cup DeadLetters(Mine)
  BY DEF Crash, Mine

LEMMA CrashTypes ==
    ASSUME EnrichmentAssumption, TypesHold, Crash
    PROVE  TypesHold' /\ Keeps
<1>1. Keeps
  BY CrashIs, KeepsIfSame
<1>2. queue' \subseteq MessageType /\ dlq' \subseteq Keys
  <2>1. Mine \in SUBSET queue
    BY DEF Mine
  <2> QED
    BY <2>1, CrashIs, ReturnTypes DEF TypesHold
<1>3. TableShapes'
  BY <1>2, CrashIs, FaultIs DEF TypesHold, TableShapes
<1>4. Exclusive' /\ Tasks'
  BY <1>1, CrashIs, WorkerLeaves
<1> QED
  BY <1>1, <1>3, <1>4, CrashIs, AsleepShape DEF TypesHold

LEMMA DuplicateTypes ==
    ASSUME TypesHold, NEW k \in Keys, Duplicate(k)
    PROVE  TypesHold' /\ Keeps
<1> DEFINE m == [id |-> count.messages + 1, key |-> k, receives |-> 0, visible |-> TRUE]
<1>1. /\ queue' = queue \cup {m}
      /\ count' = [count EXCEPT !.messages = @ + 1, !.faults = @ + 1]
      /\ UNCHANGED <<base, row, inserts, dlq, sent, worker, warm, drain, source, clock>>
  BY DEF Duplicate
<1>2. m \in MessageType
  <2>1. count.messages + 1 \in Nat
    BY DEF TypesHold, TableShapes
  <2> QED
    BY <2>1 DEF MessageType
<1>3. count' \in [messages : Nat, faults : Nat, changes : Nat \ {0}, drains : Nat]
  BY <1>1, CountSum DEF TypesHold, TableShapes
<1> HIDE DEF m
<1>4. TableShapes'
  BY <1>1, <1>2, <1>3 DEF TypesHold, TableShapes
<1>5. Keeps
  BY <1>1, KeepsIfSame
<1>6. WorkerShape'
  BY <1>1, <1>5, WorkerStays DEF TypesHold
<1>7. Exclusive' /\ Tasks'
  BY <1>1, <1>5, DrainStays DEF TypesHold, Exclusive
<1> QED
  BY <1>1, <1>4, <1>5, <1>6, <1>7 DEF TypesHold

\* An insert that lands leaves a row.
LEMMA LandIs ==
    ASSUME TypesHold, NEW i \in inserts, Land(i)
    PROVE  /\ UNCHANGED <<base, queue, dlq, sent, worker, warm, drain, source, clock, count>>
           /\ inserts' = inserts \ {i} /\ i \in Inserts /\ i.key \in Keys
           /\ row' \in [Keys -> Rows]
           /\ \A k \in Keys \ {i.key} : row'[k] = row[k]
           /\ i.version >= row[i.key].version => row'[i.key] = RowOf(i)
           /\ ~ (i.version >= row[i.key].version) => row'[i.key] = row[i.key]
           /\ TriedNow(i.key)
<1>1. row' = Merge(row, {i}) /\ inserts' = inserts \ {i}
      /\ UNCHANGED <<base, queue, dlq, sent, worker, warm, drain, source, clock, count>>
  BY DEF Land
<1>2. i \in Inserts /\ i.key \in Keys /\ i.version \in Nat \ {0} /\ row \in [Keys -> Rows]
  BY DEF TypesHold, TableShapes, Inserts
<1>3. /\ row' \in [Keys -> Rows]
      /\ \A k \in Keys \ {i.key} : row'[k] = row[k]
      /\ row'[i.key] = IF i.version >= row[i.key].version THEN RowOf(i) ELSE row[i.key]
  BY <1>1, <1>2, MergeOne
<1>4. TriedNow(i.key)
  <2>1. CASE i.version >= row[i.key].version
    BY <1>2, <1>3, <2>1, RowOfIs DEF TriedNow
  <2>2. CASE ~ (i.version >= row[i.key].version)
    <3>1. row[i.key].version # 0
      BY <1>2, <2>2
    <3> QED
      BY <1>3, <2>2, <3>1, Constants DEF TriedNow
  <2> QED
    BY <2>1, <2>2
<1> QED
  BY <1>1, <1>2, <1>3, <1>4

LEMMA LandTypes ==
    ASSUME TypesHold, NEW i \in inserts, Land(i)
    PROVE  TypesHold' /\ Keeps
<1>1. /\ UNCHANGED <<base, queue, dlq, sent, worker, warm, drain, source, clock, count>>
      /\ inserts' = inserts \ {i} /\ i.key \in Keys /\ row' \in [Keys -> Rows]
      /\ \A k \in Keys \ {i.key} : row'[k] = row[k]
      /\ TriedNow(i.key)
  BY LandIs
<1>2. TableShapes'
  BY <1>1 DEF TypesHold, TableShapes
<1>3. Keeps
  BY <1>1 DEF Keeps, Tried, TriedNow
<1>4. WorkerShape'
  BY <1>1, <1>3, WorkerStays DEF TypesHold
<1>5. Exclusive' /\ Tasks'
  BY <1>1, <1>3, DrainStays DEF TypesHold, Exclusive
<1> QED
  BY <1>1, <1>2, <1>3, <1>4, <1>5 DEF TypesHold

-----------------------------------------------------------------------------
(* The steps of a drain: the tables keep.                                  *)

LEMMA DrainSet ==
    ASSUME DOMAIN drain = DOMAIN NoDrain, NEW tasks, drain' = [drain EXCEPT !.tasks = tasks]
    PROVE  /\ DOMAIN drain' = DOMAIN NoDrain /\ drain'.tasks = tasks
           /\ drain'.mode = drain.mode /\ drain'.kind = drain.kind /\ drain'.after = drain.after
           /\ drain'.known = drain.known /\ drain'.failed = drain.failed
           /\ drain'.real = drain.real /\ drain'.sentinel = drain.sentinel
  BY Constants

LEMMA WithIs ==
    ASSUME NEW tasks, NEW t \in DOMAIN tasks, NEW task
    PROVE  /\ DOMAIN With(tasks, t, task) = DOMAIN tasks /\ With(tasks, t, task)[t] = task
           /\ \A j \in DOMAIN tasks \ {t} : With(tasks, t, task)[j] = tasks[j]
           /\ DOMAIN Without(tasks, t) = DOMAIN tasks \ {t}
           /\ \A j \in DOMAIN tasks \ {t} : Without(tasks, t)[j] = tasks[j]
  BY DEF With, Without

LEMMA DrainWith ==
    ASSUME DOMAIN drain = DOMAIN NoDrain, NEW t \in DOMAIN drain.tasks, NEW task,
           drain' = [drain EXCEPT !.tasks = With(drain.tasks, t, task)]
    PROVE  /\ DOMAIN drain' = DOMAIN NoDrain
           /\ drain'.mode = drain.mode /\ drain'.kind = drain.kind /\ drain'.after = drain.after
           /\ drain'.known = drain.known /\ drain'.failed = drain.failed
           /\ drain'.real = drain.real /\ drain'.sentinel = drain.sentinel
           /\ DOMAIN drain'.tasks = DOMAIN drain.tasks /\ drain'.tasks[t] = task
           /\ \A j \in DOMAIN drain.tasks \ {t} : drain'.tasks[j] = drain.tasks[j]
<1> DEFINE tasks == With(drain.tasks, t, task)
<1>1. /\ DOMAIN tasks = DOMAIN drain.tasks /\ tasks[t] = task
      /\ \A j \in DOMAIN drain.tasks \ {t} : tasks[j] = drain.tasks[j]
  BY DEF With
<1>2. drain' = [drain EXCEPT !.tasks = tasks]
  OBVIOUS
<1> HIDE DEF tasks
<1>3. /\ DOMAIN drain' = DOMAIN NoDrain /\ drain'.tasks = tasks
      /\ drain'.mode = drain.mode /\ drain'.kind = drain.kind /\ drain'.after = drain.after
      /\ drain'.known = drain.known /\ drain'.failed = drain.failed
      /\ drain'.real = drain.real /\ drain'.sentinel = drain.sentinel
  BY <1>2, DrainSet
<1> QED
  BY <1>1, <1>3

\* A drain that goes on with tasks of the kinds it may have.
LEMMA DrainGoesOn ==
    ASSUME TypesHold, Draining, TableShapes', Keeps, worker' = worker, base \subseteq base',
           DOMAIN drain' = DOMAIN NoDrain, drain'.mode = drain.mode, drain'.kind = drain.kind,
           drain.mode = "CollectionName" =>
             /\ inserts' = inserts
             /\ \A c \in DOMAIN drain'.tasks : c \in DOMAIN drain.tasks /\ drain'.tasks[c] = drain.tasks[c],
           drain.mode # "CollectionName" =>
             \A k \in DOMAIN drain'.tasks :
               /\ k \in base \cap drain.kind
               /\ \/ k \in DOMAIN drain.tasks /\ drain'.tasks[k] = drain.tasks[k]
                  \/ IsTaskNow(k, drain'.tasks[k])
    PROVE  TypesHold'
<1>1. WorkerShape'
  BY WorkerStays DEF TypesHold
<1>2. Exclusive'
  BY DEF TypesHold, Exclusive, Draining
<1>3. ASSUME drain.mode = "CollectionName" PROVE Tasks'
  BY <1>3 DEF TypesHold, Tasks, Draining, Modes
<1>4. ASSUME drain.mode # "CollectionName" PROVE Tasks'
  <2>1. ASSUME drain.mode \in Modes, NEW k \in DOMAIN drain'.tasks
        PROVE  k \in base \cap drain.kind /\ IsTaskNow(k, drain'.tasks[k])
    <3>1. k \in base \cap drain.kind /\ k \in Keys
      BY <1>4, <2>1 DEF TypesHold, TableShapes
    <3>2. ASSUME k \in DOMAIN drain.tasks, drain'.tasks[k] = drain.tasks[k]
          PROVE  IsTaskNow(k, drain'.tasks[k])
      <4>1. IsTask(k, drain.tasks[k])
        BY <1>4, <2>1, <3>2 DEF TypesHold, Tasks
      <4> QED
        BY <3>1, <3>2, <4>1, TaskStays
    <3> QED
      BY <1>4, <2>1, <3>1, <3>2
  <2>2. ASSUME drain.mode \in Modes, NEW k \in DOMAIN drain'.tasks
        PROVE  IsTask(k, drain.tasks[k])'
    BY <2>1, <2>2 DEF IsTask, IsTaskNow, Tried, TriedNow
  <2>3. drain'.mode \in Modes /\ drain'.mode # "none"
    BY DEF TypesHold, Tasks, Draining
  <2> QED
    BY <1>4, <2>1, <2>2, <2>3 DEF Tasks, Draining
<1> QED
  BY <1>1, <1>2, <1>3, <1>4 DEF TypesHold

\* What the drain has under way.
LEMMA DrainOn ==
    ASSUME TypesHold, drain.mode # "CollectionName", NEW k \in DOMAIN drain.tasks
    PROVE  /\ Draining /\ k \in base \cap drain.kind /\ k \in Keys /\ IsTask(k, drain.tasks[k])
           /\ drain.mode \in Modes \ {"CollectionName"}
<1>1. drain.mode # "none"
  BY Constants DEF TypesHold, Tasks, Draining
<1> QED
  BY <1>1 DEF TypesHold, Tasks, Draining, TableShapes, Modes

LEMMA StartIs ==
    ASSUME NEW mode, NEW kind, StartDrain(mode, kind)
    PROVE  /\ UNCHANGED <<base, row, inserts, queue, dlq, sent, worker, warm, source, clock>>
           /\ ~ Draining /\ mode \in Drains
           /\ ~ Beside => worker = Asleep /\ inserts = {}
           /\ kind \in {AssetKeys, NftKeys}
           /\ count' = [count EXCEPT !.drains = @ + 1]
           /\ DOMAIN drain' = DOMAIN NoDrain /\ drain'.mode = mode /\ drain'.kind = kind
           /\ drain'.after = 0 /\ drain'.known = base \cap kind /\ drain'.failed = FALSE
           /\ drain'.real = {} /\ drain'.sentinel = {}
           /\ mode = "CollectionName" => drain'.tasks = [c \in Uncollected |-> NoTask]
           /\ mode # "CollectionName" => DOMAIN drain'.tasks = {}
<1> DEFINE tasks == IF mode = "CollectionName" THEN [c \in Uncollected |-> NoTask] ELSE <<>>
<1>1. drain' = [NoDrain EXCEPT !.mode = mode, !.kind = kind, !.known = base \cap kind, !.tasks = tasks]
  BY DEF StartDrain
<1>2. /\ NoDrain.after = 0 /\ NoDrain.failed = FALSE /\ NoDrain.real = {} /\ NoDrain.sentinel = {}
  BY DEF NoDrain
<1>3. /\ DOMAIN drain' = DOMAIN NoDrain /\ drain'.mode = mode /\ drain'.kind = kind
      /\ drain'.after = 0 /\ drain'.known = base \cap kind /\ drain'.failed = FALSE
      /\ drain'.real = {} /\ drain'.sentinel = {} /\ drain'.tasks = tasks
  <2> HIDE DEF tasks
  <2> QED
    BY <1>1, <1>2, Constants
<1>4. /\ mode = "CollectionName" => tasks = [c \in Uncollected |-> NoTask]
      /\ mode # "CollectionName" => DOMAIN tasks = {}
  OBVIOUS
<1> HIDE DEF tasks
<1> QED
  BY <1>3, <1>4 DEF StartDrain

LEMMA StartTypes ==
    ASSUME EnrichmentAssumption, TypesHold, NEW mode, NEW kind, StartDrain(mode, kind)
    PROVE  TypesHold' /\ Keeps /\ count'.changes = count.changes
<1>1. Keeps
  BY StartIs, KeepsIfSame
<1>2. /\ count' \in [messages : Nat, faults : Nat, changes : Nat \ {0}, drains : Nat]
      /\ count'.changes = count.changes
  <2>1. count' = [count EXCEPT !.drains = @ + 1]
    BY StartIs
  <2>2. count.drains + 1 \in Nat
    BY DEF TypesHold, TableShapes
  <2> QED
    BY <2>1, <2>2 DEF TypesHold, TableShapes
<1>3. TableShapes'
  BY <1>2, StartIs DEF TypesHold, TableShapes
<1>4. WorkerShape'
  BY <1>1, StartIs, WorkerStays DEF TypesHold
<1>5. mode \in Modes /\ "none" \notin Modes
  BY StartIs DEF EnrichmentAssumption, Modes
<1>6. drain'.mode = mode /\ (~ Beside => worker' = Asleep /\ inserts' = {})
  BY StartIs
<1>7. mode = "CollectionName" =>
        DOMAIN drain'.tasks \subseteq Collections /\ \A c \in DOMAIN drain'.tasks : drain'.tasks[c] = NoTask
  <2>1. Uncollected \subseteq Collections
    BY DEF Uncollected
  <2>2. mode = "CollectionName" => drain'.tasks = [c \in Uncollected |-> NoTask]
    BY StartIs
  <2> QED
    BY <2>1, <2>2
<1>8. mode # "CollectionName" => DOMAIN drain'.tasks = {}
  BY StartIs
<1>9. Exclusive' /\ Tasks'
  BY <1>5, <1>6, <1>7, <1>8 DEF Exclusive, Tasks, Draining
<1> QED
  BY <1>1, <1>2, <1>3, <1>4, <1>9, StartIs DEF TypesHold

LEMMA CandidatesAre ==
    ASSUME NEW kind, NEW mode \in Modes \ {"CollectionName"}
    PROVE  Candidates(mode, kind) \subseteq base \cap kind
  BY DEF Candidates, Modes, Unenriched

LEMMA SelectIs ==
    ASSUME TypesHold, Select
    PROVE  LET chunk == Chunk(drain.mode, drain.kind, drain.after)
           IN  /\ UNCHANGED <<base, row, inserts, queue, dlq, sent, worker, warm, source, clock, count>>
               /\ drain.mode \in Modes \ {"CollectionName"} /\ DOMAIN drain.tasks = {} /\ chunk # {}
               /\ DOMAIN drain' = DOMAIN NoDrain /\ drain'.mode = drain.mode
               /\ drain'.kind = drain.kind /\ drain'.known = drain.known
               /\ drain'.failed = drain.failed
               /\ drain'.real = drain.real /\ drain'.sentinel = drain.sentinel
               /\ drain'.after = Max(chunk) /\ DOMAIN drain'.tasks = chunk
               /\ \A k \in chunk : drain'.tasks[k] = NoTask
<1> DEFINE chunk == Chunk(drain.mode, drain.kind, drain.after)
<1>1. /\ UNCHANGED <<base, row, inserts, queue, dlq, sent, worker, warm, source, clock, count>>
      /\ drain.mode \in Modes \ {"CollectionName"} /\ DOMAIN drain.tasks = {} /\ chunk # {}
      /\ drain' = [drain EXCEPT !.after = Max(chunk), !.tasks = [k \in chunk |-> NoTask]]
  BY DEF Select
<1> HIDE DEF chunk
<1>2. /\ DOMAIN drain' = DOMAIN NoDrain /\ drain'.mode = drain.mode
      /\ drain'.kind = drain.kind /\ drain'.known = drain.known
      /\ drain'.failed = drain.failed
      /\ drain'.real = drain.real /\ drain'.sentinel = drain.sentinel
      /\ drain'.after = Max(chunk) /\ drain'.tasks = [k \in chunk |-> NoTask]
  BY <1>1, Constants DEF TypesHold
<1>3. DOMAIN drain'.tasks = chunk /\ \A k \in chunk : drain'.tasks[k] = NoTask
  BY <1>2
<1> QED
  BY <1>1, <1>2, <1>3 DEF chunk

LEMMA SelectTypes ==
    ASSUME TypesHold, Select
    PROVE  TypesHold' /\ Keeps
<1> DEFINE chunk == Chunk(drain.mode, drain.kind, drain.after)
<1>1. /\ UNCHANGED <<base, row, inserts, queue, dlq, sent, worker, warm, source, clock, count>>
      /\ drain.mode \in Modes \ {"CollectionName"}
      /\ DOMAIN drain' = DOMAIN NoDrain /\ drain'.mode = drain.mode /\ drain'.kind = drain.kind
      /\ DOMAIN drain'.tasks = chunk /\ \A k \in chunk : drain'.tasks[k] = NoTask
  BY SelectIs
<1>2. chunk \subseteq base \cap drain.kind
  BY <1>1, CandidatesAre DEF Chunk
<1> HIDE DEF chunk
<1>3. Keeps /\ Draining
  BY <1>1, KeepsIfSame DEF Draining, Modes
<1>4. TableShapes'
  BY <1>1 DEF TypesHold, TableShapes
<1>5. \A k \in DOMAIN drain'.tasks : k \in base \cap drain.kind /\ IsTaskNow(k, drain'.tasks[k])
  BY <1>1, <1>2 DEF IsTaskNow
<1> QED
  BY <1>1, <1>3, <1>4, <1>5, DrainGoesOn DEF TypesHold

LEMMA DrainFetchIs ==
    ASSUME TypesHold, NEW k, DrainFetch(k)
    PROVE  /\ UNCHANGED <<base, row, inserts, queue, dlq, sent, worker, warm, source, clock, count>>
           /\ drain.mode \in Modes \ {"CollectionName"} /\ Draining /\ k \in Keys
           /\ k \in DOMAIN drain.tasks /\ drain.tasks[k].pc = "fetch"
           /\ drain' = [drain EXCEPT !.tasks = With(drain.tasks, k, Fetched(k, [j \in Keys |-> 0]))]
<1>1. /\ UNCHANGED <<base, row, inserts, queue, dlq, sent, worker, warm, source, clock, count>>
      /\ drain.mode # "CollectionName" /\ k \in DOMAIN drain.tasks /\ drain.tasks[k].pc = "fetch"
      /\ drain' = [drain EXCEPT !.tasks = With(drain.tasks, k, Fetched(k, [j \in Keys |-> 0]))]
  BY DEF DrainFetch, SetTask
<1> QED
  BY <1>1, DrainOn

LEMMA DrainFetchTypes ==
    ASSUME EnrichmentAssumption, TypesHold, NEW k, DrainFetch(k)
    PROVE  TypesHold' /\ Keeps
<1> DEFINE task == Fetched(k, [j \in Keys |-> 0])
<1>1. k \in Keys /\ (task = Transient \/ task \in BoundTasks)
  <2>1. k \in Keys /\ [j \in Keys |-> 0][k] \in Nat
    BY DrainFetchIs
  <2> QED
    BY <2>1, FetchedIs DEF TypesHold
<1>2. drain' = [drain EXCEPT !.tasks = With(drain.tasks, k, task)] /\ k \in DOMAIN drain.tasks
  BY DrainFetchIs
<1> HIDE DEF task
<1>3. /\ DOMAIN drain' = DOMAIN NoDrain /\ drain'.mode = drain.mode /\ drain'.kind = drain.kind
      /\ DOMAIN drain'.tasks = DOMAIN drain.tasks /\ drain'.tasks[k] = task
      /\ \A j \in DOMAIN drain.tasks \ {k} : drain'.tasks[j] = drain.tasks[j]
  BY <1>2, DrainWith DEF TypesHold
<1>4. Keeps
  BY DrainFetchIs, KeepsIfSame
<1>5. TableShapes'
  BY DrainFetchIs DEF TypesHold, TableShapes
<1>6. \A j \in DOMAIN drain'.tasks :
        /\ j \in base \cap drain.kind
        /\ \/ j \in DOMAIN drain.tasks /\ drain'.tasks[j] = drain.tasks[j]
           \/ IsTaskNow(j, drain'.tasks[j])
  <2>1. IsTaskNow(k, task)
    BY <1>1 DEF IsTaskNow
  <2> QED
    BY <1>3, <2>1, DrainFetchIs, DrainOn DEF TypesHold, Tasks
<1> QED
  BY <1>3, <1>4, <1>5, <1>6, DrainFetchIs, DrainGoesOn DEF TypesHold

\* A task that is not to be fetched is not of a rewrite of names.
LEMMA DrainBusy ==
    ASSUME TypesHold, NEW k \in DOMAIN drain.tasks, drain.tasks[k].pc # "fetch"
    PROVE  /\ Draining /\ k \in base \cap drain.kind /\ k \in Keys
           /\ IsTask(k, drain.tasks[k]) /\ drain.mode \in Modes \ {"CollectionName"}
<1>1. drain.mode # "CollectionName"
  BY Constants DEF TypesHold, Tasks
<1> QED
  BY <1>1, DrainOn

LEMMA DrainInsertIs ==
    ASSUME TypesHold, NEW k, DrainInsert(k)
    PROVE  LET insert == Stamped(k, drain.tasks[k], clock + 1)
           IN  /\ UNCHANGED <<base, row, queue, dlq, sent, worker, warm, source, count>>
               /\ k \in DOMAIN drain.tasks /\ drain.tasks[k].pc = "bind"
               /\ drain.tasks[k] \in BoundTasks
               /\ clock' = clock + 1 /\ inserts' = inserts \cup {insert}
               /\ insert \in Inserts /\ insert.key = k /\ insert.version = clock + 1
               /\ DOMAIN drain' = DOMAIN NoDrain
               /\ drain'.mode = drain.mode /\ drain'.kind = drain.kind /\ drain'.after = drain.after
               /\ drain'.known = drain.known /\ drain'.failed = drain.failed
               /\ drain'.real = drain.real /\ drain'.sentinel = drain.sentinel
               /\ DOMAIN drain'.tasks = DOMAIN drain.tasks /\ drain'.tasks[k] = Sent(insert)
               /\ \A j \in DOMAIN drain.tasks \ {k} : drain'.tasks[j] = drain.tasks[j]
<1> DEFINE insert == Stamped(k, drain.tasks[k], clock + 1)
<1>1. /\ UNCHANGED <<base, row, queue, dlq, sent, worker, warm, source, count>>
      /\ k \in DOMAIN drain.tasks /\ drain.tasks[k].pc = "bind"
      /\ clock' = clock + 1 /\ inserts' = inserts \cup {insert}
      /\ drain' = [drain EXCEPT !.tasks = With(drain.tasks, k, Sent(insert))]
  BY DEF DrainInsert, SetTask, Sent
<1>2. k \in Keys /\ drain.tasks[k] \in BoundTasks
  BY <1>1, DrainBusy, TaskKinds
<1>3. clock + 1 \in Nat \ {0}
  BY DEF TypesHold, TableShapes
<1>4. insert \in Inserts /\ insert.key = k /\ insert.version = clock + 1
  BY <1>2, <1>3, StampedIs
<1> HIDE DEF insert
<1>5. /\ DOMAIN drain' = DOMAIN NoDrain
      /\ drain'.mode = drain.mode /\ drain'.kind = drain.kind /\ drain'.after = drain.after
      /\ drain'.known = drain.known /\ drain'.failed = drain.failed
      /\ drain'.real = drain.real /\ drain'.sentinel = drain.sentinel
      /\ DOMAIN drain'.tasks = DOMAIN drain.tasks /\ drain'.tasks[k] = Sent(insert)
      /\ \A j \in DOMAIN drain.tasks \ {k} : drain'.tasks[j] = drain.tasks[j]
  BY <1>1, DrainWith DEF TypesHold
<1> QED
  BY <1>1, <1>2, <1>4, <1>5 DEF insert

LEMMA DrainInsertTypes ==
    ASSUME TypesHold, NEW k, DrainInsert(k)
    PROVE  TypesHold' /\ Keeps
<1> DEFINE insert == Stamped(k, drain.tasks[k], clock + 1)
<1>1. /\ UNCHANGED <<base, row, queue, dlq, sent, worker, warm, source, count>>
      /\ k \in DOMAIN drain.tasks /\ drain.tasks[k].pc = "bind"
      /\ clock' = clock + 1 /\ inserts' = inserts \cup {insert}
      /\ insert \in Inserts /\ insert.key = k
      /\ DOMAIN drain' = DOMAIN NoDrain
      /\ drain'.mode = drain.mode /\ drain'.kind = drain.kind
      /\ DOMAIN drain'.tasks = DOMAIN drain.tasks /\ drain'.tasks[k] = Sent(insert)
      /\ \A j \in DOMAIN drain.tasks \ {k} : drain'.tasks[j] = drain.tasks[j]
  BY DrainInsertIs
<1> HIDE DEF insert
<1>2. Keeps
  BY <1>1, KeepsIfSame
<1>3. clock' \in Nat
  BY <1>1 DEF TypesHold, TableShapes
<1>4. TableShapes'
  BY <1>1, <1>3 DEF TypesHold, TableShapes
<1>5. IsTaskNow(k, Sent(insert))
  BY <1>1, SentIs DEF IsTaskNow
<1>6. drain.mode \in Modes \ {"CollectionName"} /\ Draining
  BY <1>1, DrainBusy
<1>7. \A j \in DOMAIN drain'.tasks :
        /\ j \in base \cap drain.kind
        /\ \/ j \in DOMAIN drain.tasks /\ drain'.tasks[j] = drain.tasks[j]
           \/ IsTaskNow(j, drain'.tasks[j])
  BY <1>1, <1>5, <1>6 DEF TypesHold, Tasks
<1> QED
  BY <1>1, <1>2, <1>4, <1>6, <1>7, DrainGoesOn DEF TypesHold

\* A task that ended well, and what it is counted as.
Ended(k, insertFails) == drain.tasks[k].pc = "sent" /\ ~ insertFails
Counted(k, insertFails, o) ==
    IF Ended(k, insertFails) /\ Outcome(k, drain.tasks[k].insert) = o THEN {k} ELSE {}

LEMMA TallyIs ==
    ASSUME TypesHold, NEW k, NEW fails \in BOOLEAN, Tally(k, fails)
    PROVE  /\ UNCHANGED <<base, row, inserts, queue, dlq, sent, worker, warm, source, clock>>
           /\ k \in DOMAIN drain.tasks /\ drain.tasks[k].pc \in {"transient", "sent"}
           /\ Ended(k, fails) => drain.tasks[k].insert \notin inserts
           /\ Fault \/ count' = count
           /\ DOMAIN drain' = DOMAIN NoDrain
           /\ drain'.mode = drain.mode /\ drain'.kind = drain.kind /\ drain'.after = drain.after
           /\ drain'.known = drain.known
           /\ drain'.failed <=> drain.failed \/ ~ Ended(k, fails)
           /\ drain'.real = drain.real \cup Counted(k, fails, "real")
           /\ drain'.sentinel = drain.sentinel \cup Counted(k, fails, "sentinel")
           /\ DOMAIN drain'.tasks = DOMAIN drain.tasks \ {k}
           /\ \A j \in DOMAIN drain.tasks \ {k} : drain'.tasks[j] = drain.tasks[j]
<1>1. /\ UNCHANGED <<base, row, inserts, queue, dlq, sent, worker, warm, source, clock>>
      /\ k \in DOMAIN drain.tasks /\ drain.tasks[k].pc \in {"transient", "sent"}
      /\ Fault \/ count' = count
  BY DEF Tally
<1>2. Ended(k, fails) => drain.tasks[k].insert \notin inserts
  BY DEF Tally, Ended
<1> DEFINE tasks == Without(drain.tasks, k)
           failed == drain.failed \/ ~ Ended(k, fails)
           real == Counted(k, fails, "real")
           sentinel == Counted(k, fails, "sentinel")
<1>3. drain' = [drain EXCEPT !.tasks = tasks, !.failed = failed, !.real = @ \cup real,
                             !.sentinel = @ \cup sentinel]
  BY DEF Tally, Ended, Counted
<1>4. /\ DOMAIN drain' = DOMAIN NoDrain
      /\ drain'.mode = drain.mode /\ drain'.kind = drain.kind /\ drain'.after = drain.after
      /\ drain'.known = drain.known /\ drain'.failed = failed /\ drain'.tasks = tasks
      /\ drain'.real = drain.real \cup real /\ drain'.sentinel = drain.sentinel \cup sentinel
  <2> HIDE DEF tasks, failed, real, sentinel
  <2> QED
    BY <1>3, Constants DEF TypesHold
<1>5. DOMAIN tasks = DOMAIN drain.tasks \ {k} /\ \A j \in DOMAIN drain.tasks \ {k} : tasks[j] = drain.tasks[j]
  BY DEF Without
<1>6. drain'.failed <=> failed
  BY <1>4
<1> HIDE DEF tasks
<1> QED
  BY <1>1, <1>2, <1>4, <1>5, <1>6

LEMMA TallyTypes ==
    ASSUME TypesHold, NEW k, NEW fails \in BOOLEAN, Tally(k, fails)
    PROVE  TypesHold' /\ Keeps
<1>1. /\ UNCHANGED <<base, row, inserts, queue, dlq, sent, worker, warm, source, clock>>
      /\ k \in DOMAIN drain.tasks /\ drain.tasks[k].pc # "fetch"
      /\ (Fault \/ count' = count)
      /\ DOMAIN drain' = DOMAIN NoDrain
      /\ drain'.mode = drain.mode /\ drain'.kind = drain.kind
      /\ DOMAIN drain'.tasks = DOMAIN drain.tasks \ {k}
      /\ \A j \in DOMAIN drain.tasks \ {k} : drain'.tasks[j] = drain.tasks[j]
  BY TallyIs
<1>2. Keeps
  BY <1>1, KeepsIfSame
<1>3. TableShapes'
  BY <1>1, FaultIs DEF TypesHold, TableShapes
<1>4. drain.mode \in Modes \ {"CollectionName"} /\ Draining
  BY <1>1, DrainBusy
<1>5. \A j \in DOMAIN drain'.tasks :
        j \in base \cap drain.kind /\ j \in DOMAIN drain.tasks /\ drain'.tasks[j] = drain.tasks[j]
  BY <1>1, <1>4 DEF TypesHold, Tasks
<1> QED
  BY <1>1, <1>2, <1>3, <1>4, <1>5, DrainGoesOn DEF TypesHold

LEMMA RenamedIs ==
    ASSUME TableShapes, NEW k \in Keys, NEW version \in Nat \ {0}
    PROVE  /\ Renamed(k, version) \in Inserts
           /\ Renamed(k, version).key = k /\ Renamed(k, version).version = version
           /\ Renamed(k, version).meta = row[k].meta /\ Renamed(k, version).seen = row[k].seen
           /\ Renamed(k, version).coll = TRUE /\ Renamed(k, version).named = count.changes
<1> DEFINE s == Stamped(k, row[k], version)
<1>1. row[k] \in Rows /\ count.changes \in Nat
  BY DEF TableShapes
<1>2. s \in Inserts /\ s.key = k /\ s.version = version /\ s.meta = row[k].meta /\ s.seen = row[k].seen
  BY <1>1 DEF Stamped, Inserts, Rows
<1>3. Renamed(k, version) = [s EXCEPT !.coll = TRUE, !.named = count.changes]
  BY DEF Renamed
<1> HIDE DEF s
<1> QED
  BY <1>1, <1>2, <1>3 DEF Inserts

\* The keys of a contract whose rows get its name.
Named(c) == {j \in NftKeys : ContractOf[j] = c /\ Tried(j) /\ ~ row[j].coll}

LEMMA CollectionIs ==
    ASSUME TypesHold, NEW c, NEW fails \in BOOLEAN, CollectionName(c, fails)
    PROVE  /\ UNCHANGED <<base, inserts, queue, dlq, sent, worker, warm, source>>
           /\ drain.mode = "CollectionName" /\ Draining /\ (~ Beside => inserts = {})
           /\ (Fault \/ count' = count)
           /\ DOMAIN drain' = DOMAIN NoDrain
           /\ drain'.mode = drain.mode /\ drain'.kind = drain.kind
           /\ DOMAIN drain'.tasks = DOMAIN drain.tasks \ {c}
           /\ \A j \in DOMAIN drain.tasks \ {c} : drain'.tasks[j] = drain.tasks[j]
           /\ \/ row' = row /\ clock' = clock
              \/ /\ clock' = clock + 1 /\ source[c] = "real" /\ row' \in [Keys -> Rows]
                 /\ \A k \in Keys : row'[k] # row[k] =>
                      k \in Named(c) /\ row'[k] = RowOf(Renamed(k, clock + 1))
<1> DEFINE tasks == Without(drain.tasks, c)
           failed == drain.failed \/ fails \/ source[c] = "down"
           rows == {Renamed(k, clock + 1) : k \in Named(c)}
<1>1. /\ UNCHANGED <<base, inserts, queue, dlq, sent, worker, warm, source>>
      /\ drain.mode = "CollectionName" /\ (Fault \/ count' = count)
      /\ drain' = [drain EXCEPT !.tasks = tasks, !.failed = failed]
  BY DEF CollectionName
<1>2. Draining /\ (~ Beside => inserts = {})
  BY <1>1 DEF TypesHold, Exclusive, Draining
<1>3. /\ DOMAIN drain' = DOMAIN NoDrain /\ drain'.mode = drain.mode /\ drain'.kind = drain.kind
      /\ drain'.tasks = tasks
  <2> HIDE DEF tasks, failed
  <2> QED
    BY <1>1, Constants DEF TypesHold
<1>4. DOMAIN tasks = DOMAIN drain.tasks \ {c} /\ \A j \in DOMAIN drain.tasks \ {c} : tasks[j] = drain.tasks[j]
  BY DEF Without
<1>5. ASSUME row' = Merge(row, rows), clock' = clock + 1
      PROVE  /\ row' \in [Keys -> Rows]
             /\ \A k \in Keys : row'[k] # row[k] =>
                  k \in Named(c) /\ row'[k] = RowOf(Renamed(k, clock + 1))
  <2>1. clock + 1 \in Nat \ {0} /\ row \in [Keys -> Rows]
    BY DEF TypesHold, TableShapes
  <2>2. \A k \in Named(c) : Renamed(k, clock + 1) \in Inserts /\ Renamed(k, clock + 1).key = k
    <3>1. Named(c) \subseteq Keys
      BY DEF Named, Keys
    <3> QED
      BY <2>1, <3>1, RenamedIs DEF TypesHold
  <2> HIDE DEF rows
  <2>3. ASSUME NEW k \in Keys
        PROVE  \/ row'[k] = row[k]
               \/ k \in Named(c) /\ row'[k] = RowOf(Renamed(k, clock + 1))
    <3>1. row'[k] = IF \E i \in rows : i.key = k /\ i.version >= row[k].version
                    THEN RowOf(CHOOSE i \in rows : i.key = k) ELSE row[k]
      BY <1>5 DEF Merge
    <3>2. ASSUME NEW i \in rows, i.key = k
          PROVE  k \in Named(c) /\ (CHOOSE j \in rows : j.key = k) = Renamed(k, clock + 1)
      <4>1. \A j \in rows : j.key = k => k \in Named(c) /\ j = Renamed(k, clock + 1)
        BY <2>2 DEF rows
      <4>2. (CHOOSE j \in rows : j.key = k) \in rows /\ (CHOOSE j \in rows : j.key = k).key = k
        BY <3>2
      <4> QED
        BY <3>2, <4>1, <4>2
    <3>3. CASE \E i \in rows : i.key = k /\ i.version >= row[k].version
      BY <3>1, <3>2, <3>3
    <3>4. CASE ~ \E i \in rows : i.key = k /\ i.version >= row[k].version
      BY <3>1, <3>4
    <3> QED
      BY <3>3, <3>4
  <2>4. \A k \in Named(c) : RowOf(Renamed(k, clock + 1)) \in Rows
    BY <2>2, RowOfIs
  <2>5. row' = [k \in Keys |-> row'[k]]
    BY <1>5 DEF Merge
  <2>6. \A k \in Keys : row'[k] \in Rows
    BY <2>1, <2>3, <2>4
  <2> QED
    BY <2>3, <2>5, <2>6
<1>6. \/ row' = row /\ clock' = clock
      \/ clock' = clock + 1 /\ source[c] = "real" /\ row' = Merge(row, rows)
  BY DEF CollectionName, Named
<1> HIDE DEF tasks, rows
<1> QED
  BY <1>1, <1>2, <1>3, <1>4, <1>5, <1>6

LEMMA CollectionTypes ==
    ASSUME TypesHold, NEW c, NEW fails \in BOOLEAN, CollectionName(c, fails)
    PROVE  TypesHold' /\ Keeps
<1>1. /\ UNCHANGED <<base, inserts, queue, dlq, sent, worker, warm, source>>
      /\ drain.mode = "CollectionName" /\ Draining
      /\ (Fault \/ count' = count)
      /\ DOMAIN drain' = DOMAIN NoDrain
      /\ drain'.mode = drain.mode /\ drain'.kind = drain.kind
      /\ DOMAIN drain'.tasks = DOMAIN drain.tasks \ {c}
      /\ \A j \in DOMAIN drain.tasks \ {c} : drain'.tasks[j] = drain.tasks[j]
  BY CollectionIs
<1>2. /\ clock' \in Nat /\ row' \in [Keys -> Rows]
      /\ \A k \in Keys : Tried(k) => TriedNow(k)
  <2>1. CASE row' = row /\ clock' = clock
    BY <2>1 DEF TypesHold, TableShapes, Tried, TriedNow
  <2>2. CASE /\ clock' = clock + 1 /\ row' \in [Keys -> Rows]
             /\ \A k \in Keys : row'[k] # row[k] =>
                  k \in Named(c) /\ row'[k] = RowOf(Renamed(k, clock + 1))
    <3>1. clock + 1 \in Nat \ {0}
      BY DEF TypesHold, TableShapes
    <3>2. \A k \in Keys : RowOf(Renamed(k, clock + 1)) # Untried
      BY <3>1, RenamedIs, RowOfIs DEF TypesHold
    <3> QED
      BY <2>2, <3>1, <3>2 DEF Tried, TriedNow
  <2> QED
    BY <2>1, <2>2, CollectionIs
<1>3. Keeps
  BY <1>1, <1>2 DEF Keeps
<1>4. TableShapes'
  BY <1>1, <1>2, FaultIs DEF TypesHold, TableShapes
<1> QED
  BY <1>1, <1>3, <1>4, DrainGoesOn DEF TypesHold

LEMMA EndTypes ==
    ASSUME TypesHold, EndDrain
    PROVE  TypesHold' /\ Keeps
<1>1. /\ UNCHANGED <<base, row, inserts, queue, dlq, sent, worker, warm, source, clock, count>>
      /\ drain' = NoDrain
  BY DEF EndDrain
<1>2. Keeps
  BY <1>1, KeepsIfSame
<1>3. TableShapes'
  BY <1>1 DEF TypesHold, TableShapes
<1>4. WorkerShape'
  BY <1>1, <1>2, WorkerStays DEF TypesHold
<1> QED
  BY <1>1, <1>2, <1>3, <1>4, IdleTasks DEF TypesHold

LEMMA StutterTypes ==
    ASSUME TypesHold, UNCHANGED enrichmentVars
    PROVE  TypesHold' /\ Keeps
<1>1. Keeps
  BY KeepsIfSame DEF enrichmentVars
<1>2. TableShapes'
  BY DEF TypesHold, TableShapes, enrichmentVars
<1>3. WorkerShape'
  BY <1>1, WorkerStays DEF TypesHold, enrichmentVars
<1>4. Exclusive' /\ Tasks'
  BY <1>1, DrainStays DEF TypesHold, Exclusive, enrichmentVars
<1> QED
  BY <1>1, <1>2, <1>3, <1>4 DEF TypesHold, enrichmentVars

-----------------------------------------------------------------------------
(* No message is acknowledged before its row is stored.                    *)

\* A step that leaves the queue, the batch and the failures as they are.
LEMMA DeliveryStays ==
    ASSUME TypesHold, Delivery, Keeps, queue' = queue, dlq' = dlq, sent' = sent,
           worker'.batch = worker.batch, worker'.failures = worker.failures
    PROVE  Delivery'
<1>1. \A m \in queue : m.key \in Keys
  BY DEF TypesHold, TableShapes, MessageType
<1>2. \A k \in Keys : Tried(k) => Tried(k)'
  BY DEF Keeps, Tried, TriedNow
<1>3. ASSUME NEW m \in queue, ~ m.visible PROVE worker'.batch # {} /\ Held(m)'
  BY <1>1, <1>2, <1>3 DEF Delivery, Held
<1>4. AckedIsTried'
  BY <1>2 DEF TypesHold, TableShapes, Delivery, AckedIsTried
<1> QED
  BY <1>3, <1>4 DEF Delivery

LEMMA IndexDelivery ==
    ASSUME EnrichmentAssumption, TypesHold, Delivery, NEW ks \in SUBSET Keys, NEW lost, NEW fails,
           Index(ks, fails, lost)
    PROVE  Delivery'
<1>1. PICK new \in SUBSET Keys : sent' = sent \cup new /\ queue' = queue \cup Messages(new)
  BY IndexShapes DEF TypesHold
<1>2. UNCHANGED <<row, inserts, dlq, worker, warm, drain, source, clock>>
  BY IndexShapes DEF TypesHold
<1>3. \A m \in Messages(new) : m.visible
  BY MessagesAre DEF TypesHold
<1>4. ASSUME NEW k \in new PROVE \E m \in Messages(new) : m.key = k
  <2> DEFINE m == [id |-> count.messages + Cardinality({j \in new : j <= k}), key |-> k,
                   receives |-> 0, visible |-> TRUE]
  <2>1. m \in Messages(new)
    BY DEF Messages
  <2>2. m.key = k
    OBVIOUS
  <2> QED
    BY <2>1, <2>2
<1>5. ASSUME NEW m \in queue', ~ m.visible PROVE worker'.batch # {} /\ Held(m)'
  <2>1. m \in queue
    BY <1>1, <1>3, <1>5
  <2>2. worker.batch # {} /\ Held(m)
    BY <1>5, <2>1 DEF Delivery
  <2> QED
    BY <1>2, <2>2 DEF Held, Tried
<1>6. AckedIsTried'
  BY <1>1, <1>2, <1>4 DEF Delivery, AckedIsTried, Tried
<1> QED
  BY <1>5, <1>6 DEF Delivery

LEMMA ReceiveDelivery ==
    ASSUME TypesHold, Delivery, NEW ms \in SUBSET queue, Receive(ms)
    PROVE  Delivery'
<1>1. /\ UNCHANGED <<row, dlq, sent>> /\ worker = Asleep /\ ms # {}
      /\ worker' = [Asleep EXCEPT !.batch = ms]
      /\ queue' = (queue \ ms) \cup {Taken(m) : m \in ms}
  BY DEF Receive, Taken
<1>2. worker'.batch = ms /\ worker.batch = {}
  BY <1>1 DEF Asleep
<1>3. \A m \in ms : m \in MessageType
  BY DEF TypesHold, TableShapes
<1>4. ASSUME NEW m \in queue', ~ m.visible PROVE worker'.batch # {} /\ Held(m)'
  <2>1. m \notin queue
    BY <1>2, <1>4 DEF Delivery
  <2>2. PICK b \in ms : m = Taken(b)
    BY <1>1, <2>1
  <2>3. b.id = m.id /\ b.key = m.key
    BY <1>3, <2>2, TakenIs
  <2> QED
    BY <1>1, <1>2, <2>3 DEF Held
<1>5. ASSUME NEW m \in queue PROVE \E x \in queue' : x.key = m.key
  <2>1. CASE m \in ms
    BY <1>1, <1>3, <2>1, TakenIs
  <2>2. CASE m \notin ms
    BY <1>1, <2>2
  <2> QED
    BY <2>1, <2>2
<1>6. AckedIsTried'
  BY <1>1, <1>5 DEF Delivery, AckedIsTried, Tried
<1> QED
  BY <1>4, <1>6 DEF Delivery

LEMMA FetchDelivery ==
    ASSUME EnrichmentAssumption, TypesHold, Delivery, WorkerFetch \/ WorkerInsert
    PROVE  Delivery'
<1>1. Keeps
  BY WorkerFetchTypes, WorkerInsertTypes
<1>2. queue' = queue /\ dlq' = dlq /\ sent' = sent
  BY DEF WorkerFetch, WorkerInsert
<1>3. worker'.batch = worker.batch /\ worker'.failures = worker.failures
  BY WorkerSet DEF TypesHold, WorkerFetch, WorkerInsert
<1> QED
  BY <1>1, <1>2, <1>3, DeliveryStays

\* Messages the worker gives back are in the queue, or among the dead letters.
LEMMA ReturnDelivery ==
    ASSUME EnrichmentAssumption, TypesHold, Delivery, NEW ms \in SUBSET Mine,
           row' = row, sent' = sent,
           queue' = (queue \ Mine) \cup Back(ms), dlq' = dlq \cup DeadLetters(ms),
           \A m \in Mine \ ms : Tried(m.key)
    PROVE  Delivery'
<1>1. ms \in SUBSET MessageType /\ Mine \subseteq queue
  BY DEF TypesHold, TableShapes, Mine
<1>2. /\ \A m \in Back(ms) : m.visible
      /\ \A m \in ms : m.key \in DeadLetters(ms) \/ \E b \in Back(ms) : b.key = m.key
  BY <1>1, BackOrDead
<1>3. \A m \in queue' : m.visible
  BY <1>2 DEF Mine
<1>4. ASSUME NEW k \in sent PROVE Tried(k) \/ k \in dlq' \/ \E m \in queue' : m.key = k
  <2>1. Tried(k) \/ k \in dlq \/ \E m \in queue : m.key = k
    BY DEF Delivery, AckedIsTried
  <2>2. ASSUME NEW m \in queue, m.key = k
        PROVE  Tried(k) \/ k \in dlq' \/ \E x \in queue' : x.key = k
    <3>1. CASE m \notin Mine
      BY <2>2, <3>1
    <3>2. CASE m \in Mine \ ms
      BY <2>2, <3>2
    <3>3. CASE m \in ms
      BY <1>2, <2>2, <3>3
    <3> QED
      BY <3>1, <3>2, <3>3
  <2> QED
    BY <2>1, <2>2
<1> QED
  BY <1>3, <1>4 DEF Delivery, AckedIsTried, Tried

LEMMA RecordDelivery ==
    ASSUME EnrichmentAssumption, TypesHold, Delivery, NEW fails \in BOOLEAN, Record(fails)
    PROVE  Delivery'
<1> DEFINE more == Failing(worker.task, fails)
<1>1. /\ row' = row /\ sent' = sent
      /\ worker.batch # {} /\ worker.task.pc \in {"transient", "sent"}
      /\ ~ fails /\ worker.task.pc = "sent" => worker.task.insert \notin inserts
      /\ worker'.batch = worker.batch \ {Handled}
      /\ worker'.failures = worker.failures \cup more
      /\ worker'.batch # {} => queue' = queue /\ dlq' = dlq
      /\ worker'.batch = {} => /\ queue' = (queue \ Mine) \cup Back(Reported(fails))
                               /\ dlq' = dlq \cup DeadLetters(Reported(fails))
  BY RecordIs
<1>2. IsTask(Handled.key, worker.task)
  BY <1>1, WorkerOn
<1>3. Handled.id \in more \/ Tried(Handled.key)
  BY <1>1, <1>2, TaskKinds DEF Failing, Fails
\* What was held is still held, by what is left of the batch or by its outcome.
<1>4. ASSUME NEW m \in queue, ~ m.visible
      PROVE  \/ \E b \in worker'.batch : b.id = m.id /\ b.key = m.key
             \/ m.id \in worker.failures \cup more \/ Tried(m.key)
  <2>1. Held(m)
    BY <1>4 DEF Delivery
  <2> HIDE DEF more
  <2>2. ASSUME NEW b \in worker.batch, b.id = m.id, b.key = m.key, b \notin worker'.batch
        PROVE  m.id \in more \/ Tried(m.key)
    <3>1. b = Handled
      BY <1>1, <2>2
    <3> QED
      BY <1>3, <2>2, <3>1
  <2> QED
    BY <2>1, <2>2 DEF Held
<1>5. CASE worker'.batch # {}
  <2> HIDE DEF more
  <2>1. \A m \in queue' : ~ m.visible => worker'.batch # {} /\ Held(m)'
    BY <1>1, <1>4, <1>5 DEF Held, Tried
  <2> QED
    BY <1>1, <1>5, <2>1 DEF Delivery, AckedIsTried, Tried
<1>6. CASE worker'.batch = {}
  <2>1. Reported(fails) = {m \in Mine : m.id \in worker.failures \cup more}
    BY DEF Reported
  <2> HIDE DEF more
  <2>2. \A m \in Mine \ Reported(fails) : Tried(m.key)
    BY <1>4, <1>6, <2>1 DEF Mine
  <2>3. Reported(fails) \in SUBSET Mine
    BY <2>1
  <2> QED
    BY <1>1, <1>6, <2>2, <2>3, ReturnDelivery
<1> QED
  BY <1>5, <1>6

LEMMA DoneDelivery ==
    ASSUME TypesHold, Delivery, Done
    PROVE  Delivery'
<1>1. worker.batch = {} /\ UNCHANGED <<row, queue, dlq, sent>>
  BY DEF Done
<1> QED
  BY <1>1 DEF Delivery, AckedIsTried, Tried

LEMMA CrashDelivery ==
    ASSUME EnrichmentAssumption, TypesHold, Delivery, Crash
    PROVE  Delivery'
  BY CrashIs, ReturnDelivery

LEMMA DuplicateDelivery ==
    ASSUME TypesHold, Delivery, NEW k, Duplicate(k)
    PROVE  Delivery'
<1> DEFINE new == [id |-> count.messages + 1, key |-> k, receives |-> 0, visible |-> TRUE]
<1>1. queue' = queue \cup {new} /\ UNCHANGED <<row, dlq, sent, worker>>
  BY DEF Duplicate
<1>2. new.visible
  OBVIOUS
<1> HIDE DEF new
<1>3. ASSUME NEW m \in queue', ~ m.visible PROVE worker'.batch # {} /\ Held(m)'
  BY <1>1, <1>2, <1>3 DEF Delivery, Held, Tried
<1>4. AckedIsTried'
  BY <1>1 DEF Delivery, AckedIsTried, Tried
<1> QED
  BY <1>3, <1>4 DEF Delivery

-----------------------------------------------------------------------------
(* Without a drain beside the worker, a value goes only for a newer one.   *)

EntriesNow(k) == {row'[k]} \cup {RowOf(i) : i \in {j \in inserts' : j.key = k}}

TruthfulNow(k, a) ==
    /\ a.seen <= count'.changes /\ a.named <= count'.changes
    /\ a.meta /\ a.seen = count'.changes => source'[k] = "real"
    /\ a.coll => k \in NftKeys
    /\ a.coll /\ a.named = count'.changes => source'[ContractOf[k]] = "real"

PrevailsNow(k, task) ==
    task.pc = "bind" => TruthfulNow(k, task) /\ \A a \in EntriesNow(k) : Supersedes(task, a)

Fields(a) == a.meta \in BOOLEAN /\ a.coll \in BOOLEAN /\ a.seen \in Nat /\ a.named \in Nat

TruthKept == \A k \in Keys : \A a : Fields(a) /\ Truthful(k, a) => TruthfulNow(k, a)

StoredValues ==
    \A k \in Keys : \A a \in Entries(k) :
      /\ a.version <= clock /\ Truthful(k, a)
      /\ \A b \in Entries(k) : a.version <= b.version => Supersedes(b, a)

WarmValues == \A k \in Keys : warm[k] <= count.changes /\ (warm[k] = count.changes => source[k] = "real")

LEMMA ValuesAre ==
    /\ Values <=> /\ StoredValues /\ WarmValues
                  /\ worker.batch # {} => Prevails(Handled.key, worker.task)
                  /\ \A k \in DOMAIN drain.tasks : Prevails(k, drain.tasks[k])
    /\ Values' <=> /\ StoredValues' /\ WarmValues'
                   /\ worker'.batch # {} => PrevailsNow(Handled'.key, worker'.task)
                   /\ \A k \in DOMAIN drain'.tasks : PrevailsNow(k, drain'.tasks[k])
<1>1. Values <=> /\ StoredValues /\ WarmValues
                 /\ worker.batch # {} => Prevails(Handled.key, worker.task)
                 /\ \A k \in DOMAIN drain.tasks : Prevails(k, drain.tasks[k])
  BY DEF Values, StoredValues, WarmValues
<1>2. Values' <=> /\ StoredValues' /\ WarmValues'
                  /\ worker'.batch # {} => Prevails(Handled.key, worker.task)'
                  /\ \A k \in DOMAIN drain'.tasks : Prevails(k, drain.tasks[k])'
  BY DEF Values, StoredValues, WarmValues
<1>3. Prevails(Handled.key, worker.task)' <=> PrevailsNow(Handled'.key, worker'.task)
  BY DEF Prevails, PrevailsNow, Truthful, TruthfulNow, Entries, EntriesNow
<1>4. ASSUME NEW k \in DOMAIN drain'.tasks
      PROVE  Prevails(k, drain.tasks[k])' <=> PrevailsNow(k, drain'.tasks[k])
  BY DEF Prevails, PrevailsNow, Truthful, TruthfulNow, Entries, EntriesNow
<1> QED
  BY <1>1, <1>2, <1>3, <1>4

LEMMA StoredNow ==
    StoredValues' <=>
      \A k \in Keys : \A a \in EntriesNow(k) :
        /\ a.version <= clock' /\ TruthfulNow(k, a)
        /\ \A b \in EntriesNow(k) : a.version <= b.version => Supersedes(b, a)
  BY DEF StoredValues, Entries, EntriesNow, Truthful, TruthfulNow

LEMMA EntryIs ==
    ASSUME TableShapes, NEW k \in Keys, NEW a \in Entries(k)
    PROVE  a \in Rows /\ Fields(a) /\ a.version \in Nat
<1>1. \A i \in inserts : RowOf(i) \in Rows
  BY RowOfIs DEF TableShapes
<1>2. a \in Rows
  BY <1>1 DEF Entries, TableShapes
<1> QED
  BY <1>2 DEF Rows, Fields

LEMMA BoundFields ==
    ASSUME NEW task \in BoundTasks
    PROVE  Fields(task) /\ task.pc = "bind"
  BY DEF BoundTasks, Fields

\* While nothing changes outside, what was so is so; once something changes,
\* all that was read is older.
LEMMA TruthSame ==
    ASSUME source' = source, count'.changes = count.changes
    PROVE  TruthKept
  BY DEF TruthKept, Truthful, TruthfulNow

LEMMA TruthAges ==
    ASSUME TableShapes, count'.changes = count.changes + 1
    PROVE  TruthKept
<1>1. count.changes \in Nat
  BY DEF TableShapes
<1> DEFINE n == count.changes
           m == count'.changes
<1>2. n \in Nat /\ m = n + 1
  BY <1>1
<1>3. ASSUME NEW k \in Keys, NEW a, Fields(a), Truthful(k, a) PROVE TruthfulNow(k, a)
  <2>1. a.seen \in Nat /\ a.named \in Nat /\ a.seen <= n /\ a.named <= n /\ (a.coll => k \in NftKeys)
    BY <1>3 DEF Fields, Truthful
  <2> HIDE DEF n, m
  <2>2. a.seen <= m /\ a.named <= m /\ a.seen # m /\ a.named # m
    BY <1>2, <2>1
  <2> QED
    BY <2>1, <2>2 DEF TruthfulNow, m
<1> QED
  BY <1>3 DEF TruthKept

\* Nothing is added to what is stored or on its way.
NothingAdded == \A k \in Keys : EntriesNow(k) \subseteq Entries(k)

LEMMA NothingAddedIfSame ==
    ASSUME row' = row, inserts' \subseteq inserts
    PROVE  NothingAdded
  BY DEF NothingAdded, Entries, EntriesNow

LEMMA StoredStays ==
    ASSUME TableShapes, StoredValues, TruthKept, NothingAdded, clock' \in Nat, clock <= clock'
    PROVE  StoredValues'
<1>1. ASSUME NEW k \in Keys, NEW a \in EntriesNow(k)
      PROVE  /\ a.version <= clock' /\ TruthfulNow(k, a)
             /\ \A b \in EntriesNow(k) : a.version <= b.version => Supersedes(b, a)
  <2>1. a \in Entries(k) /\ \A b \in EntriesNow(k) : b \in Entries(k)
    BY DEF NothingAdded
  <2>2. a.version \in Nat /\ Fields(a) /\ clock \in Nat
    BY <2>1, EntryIs DEF TableShapes
  <2>3. a.version <= clock /\ Truthful(k, a)
    BY <2>1 DEF StoredValues
  <2>4. a.version <= clock'
    BY <2>2, <2>3
  <2> QED
    BY <2>1, <2>2, <2>3, <2>4 DEF StoredValues, TruthKept
<1> QED
  BY <1>1, StoredNow

LEMMA PrevailsStays ==
    ASSUME NEW k \in Keys, EntriesNow(k) \subseteq Entries(k), TruthKept,
           NEW task, task.pc = "bind" => task \in BoundTasks, Prevails(k, task)
    PROVE  PrevailsNow(k, task)
  BY BoundFields DEF Prevails, PrevailsNow, TruthKept

\* The steps that add nothing, and bind no task.
LEMMA ValuesStay ==
    ASSUME TypesHold, Values, TruthKept, NothingAdded, clock' \in Nat, clock <= clock', WarmValues',
           worker' = worker \/ worker'.task = NoTask,
           \A k \in DOMAIN drain'.tasks :
             \/ k \in DOMAIN drain.tasks /\ drain'.tasks[k] = drain.tasks[k]
             \/ drain'.tasks[k].pc # "bind"
    PROVE  Values'
<1>1. StoredValues'
  BY ValuesAre, StoredStays DEF TypesHold
<1>2. ASSUME worker'.batch # {} PROVE PrevailsNow(Handled'.key, worker'.task)
  <2>1. CASE worker'.task = NoTask
    BY <2>1, Constants DEF PrevailsNow
  <2>2. CASE worker' = worker
    <3>1. Handled' = Handled /\ worker.batch # {}
      BY <1>2, <2>2 DEF Handled
    <3>2. Handled.key \in Keys /\ IsTask(Handled.key, worker.task)
      BY <3>1, WorkerOn
    <3>3. Prevails(Handled.key, worker.task)
      BY <3>1, ValuesAre
    <3>4. EntriesNow(Handled.key) \subseteq Entries(Handled.key)
      BY <3>2 DEF NothingAdded
    <3>5. worker.task.pc = "bind" => worker.task \in BoundTasks
      BY <3>2, TaskKinds
    <3> QED
      BY <2>2, <3>1, <3>2, <3>3, <3>4, <3>5, PrevailsStays
  <2> QED
    BY <2>1, <2>2
<1>3. ASSUME NEW k \in DOMAIN drain'.tasks PROVE PrevailsNow(k, drain'.tasks[k])
  <2>1. CASE drain'.tasks[k].pc # "bind"
    BY <2>1 DEF PrevailsNow
  <2>2. CASE k \in DOMAIN drain.tasks /\ drain'.tasks[k] = drain.tasks[k] /\ drain'.tasks[k].pc = "bind"
    <3>1. k \in Keys /\ IsTask(k, drain.tasks[k])
      BY <2>2, DrainBusy
    <3>2. Prevails(k, drain.tasks[k])
      BY <2>2, ValuesAre
    <3>3. drain.tasks[k].pc = "bind" => drain.tasks[k] \in BoundTasks
      BY <3>1, TaskKinds
    <3> QED
      BY <2>2, <3>1, <3>2, <3>3, PrevailsStays DEF NothingAdded
  <2> QED
    BY <2>1, <2>2
<1> QED
  BY <1>1, <1>2, <1>3, ValuesAre

LEMMA WarmSame ==
    ASSUME WarmValues, warm' = warm, source' = source, count'.changes = count.changes
    PROVE  WarmValues'
  BY DEF WarmValues

\* A step of the outside, the queue or an operator.
LEMMA QuietValues ==
    ASSUME TypesHold, Values, row' = row, inserts' = inserts, clock' = clock, warm' = warm,
           source' = source, count'.changes = count.changes,
           worker' = worker \/ worker'.task = NoTask,
           \A k \in DOMAIN drain'.tasks :
             \/ k \in DOMAIN drain.tasks /\ drain'.tasks[k] = drain.tasks[k]
             \/ drain'.tasks[k].pc # "bind"
    PROVE  Values'
<1>1. WarmValues'
  BY ValuesAre, WarmSame
<1>2. clock' \in Nat /\ clock <= clock'
  BY DEF TypesHold, TableShapes
<1> QED
  BY <1>1, <1>2, TruthSame, NothingAddedIfSame, ValuesStay

LEMMA IndexValues ==
    ASSUME EnrichmentAssumption, TypesHold, Values, NEW ks \in SUBSET Keys, NEW lost, NEW fails,
           Index(ks, fails, lost)
    PROVE  Values'
<1>1. /\ UNCHANGED <<row, inserts, dlq, worker, warm, drain, source, clock>>
      /\ count'.changes = count.changes
  BY IndexShapes DEF TypesHold
<1> QED
  BY <1>1, QuietValues

LEMMA SourceValues ==
    ASSUME TypesHold, Values, NEW s, NEW a \in {"real", "gone", "down"}, SourceChanges(s, a)
    PROVE  Values'
<1>1. UNCHANGED <<base, row, inserts, queue, dlq, sent, worker, warm, drain, clock>>
  BY DEF SourceChanges
<1>2. count'.changes = count.changes + 1
  BY SourceTypes
<1>3. TruthKept
  BY <1>2, TruthAges DEF TypesHold
<1>4. WarmValues'
  <2>1. count.changes \in Nat /\ \A k \in Keys : warm[k] \in Nat
    BY DEF TypesHold, TableShapes
  <2>2. \A k \in Keys : warm[k] <= count.changes
    BY ValuesAre DEF WarmValues
  <2> DEFINE n == count.changes
             m == count'.changes
  <2>3. \A k \in Keys : warm[k] <= m /\ warm[k] # m
    <3>1. n \in Nat /\ m = n + 1 /\ \A k \in Keys : warm[k] \in Nat /\ warm[k] <= n
      BY <1>2, <2>1, <2>2
    <3> HIDE DEF n, m
    <3> QED
      BY <3>1
  <2> QED
    BY <1>1, <2>3 DEF WarmValues
<1>5. clock' \in Nat /\ clock <= clock'
  BY <1>1 DEF TypesHold, TableShapes
<1> QED
  BY <1>1, <1>3, <1>4, <1>5, NothingAddedIfSame, ValuesStay

LEMMA ReceiveValues ==
    ASSUME TypesHold, Values, NEW ms, Receive(ms)
    PROVE  Values'
<1>1. /\ UNCHANGED <<row, inserts, warm, drain, source, clock, count>>
      /\ worker'.task = NoTask
  BY DEF Receive, Asleep
<1> QED
  BY <1>1, QuietValues

LEMMA RecordValues ==
    ASSUME TypesHold, Values, NEW fails, Record(fails)
    PROVE  Values'
<1>1. /\ UNCHANGED <<row, inserts, warm, drain, source, clock>>
      /\ worker'.task = NoTask /\ (Fault \/ count' = count)
  BY RecordIs
<1>2. count'.changes = count.changes
  BY <1>1, FaultIs DEF TypesHold
<1> QED
  BY <1>1, <1>2, QuietValues

LEMMA DoneValues ==
    ASSUME TypesHold, Values, Done
    PROVE  Values'
<1>1. UNCHANGED <<row, inserts, warm, drain, source, clock, count>> /\ worker'.task = NoTask
  BY Constants DEF Done
<1> QED
  BY <1>1, QuietValues

LEMMA CrashValues ==
    ASSUME TypesHold, Values, Crash
    PROVE  Values'
<1>1. /\ UNCHANGED <<row, inserts, drain, source, clock>>
      /\ warm' = [k \in Keys |-> 0] /\ worker'.task = NoTask /\ Fault
  BY CrashIs, Constants
<1>2. count'.changes = count.changes /\ count.changes \in Nat \ {0}
  BY <1>1, FaultIs DEF TypesHold, TableShapes
<1>3. WarmValues'
  <2>1. \A k \in Keys : warm'[k] = 0
    BY <1>1
  <2>2. 0 <= count'.changes /\ count'.changes # 0
    BY <1>2
  <2> QED
    BY <2>1, <2>2 DEF WarmValues
<1>4. clock' \in Nat /\ clock <= clock'
  BY <1>1 DEF TypesHold, TableShapes
<1> QED
  BY <1>1, <1>2, <1>3, <1>4, TruthSame, NothingAddedIfSame, ValuesStay

LEMMA DuplicateValues ==
    ASSUME TypesHold, Values, NEW k, Duplicate(k)
    PROVE  Values'
<1>1. /\ UNCHANGED <<row, inserts, worker, warm, drain, source, clock>>
      /\ count' = [count EXCEPT !.messages = @ + 1, !.faults = @ + 1]
  BY DEF Duplicate
<1>2. count'.changes = count.changes
  BY <1>1, CountSum DEF TypesHold, TableShapes
<1> QED
  BY <1>1, <1>2, QuietValues

LEMMA LandAddsNothing ==
    ASSUME TypesHold, NEW i \in inserts, Land(i)
    PROVE  NothingAdded
<1>1. /\ inserts' = inserts \ {i} /\ i.key \in Keys
      /\ \A k \in Keys \ {i.key} : row'[k] = row[k]
      /\ row'[i.key] = RowOf(i) \/ row'[i.key] = row[i.key]
  BY LandIs
<1>2. ASSUME NEW k \in Keys PROVE row'[k] \in Entries(k)
  <2>1. CASE k = i.key
    BY <1>1, <2>1 DEF Entries
  <2>2. CASE k # i.key
    BY <1>1, <2>2 DEF Entries
  <2> QED
    BY <2>1, <2>2
<1> QED
  BY <1>1, <1>2 DEF NothingAdded, Entries, EntriesNow

LEMMA LandValues ==
    ASSUME TypesHold, Values, NEW i \in inserts, Land(i)
    PROVE  Values'
<1>1. UNCHANGED <<worker, warm, drain, source, clock, count>>
  BY LandIs
<1>2. WarmValues'
  BY <1>1, ValuesAre, WarmSame
<1>3. clock' \in Nat /\ clock <= clock'
  BY <1>1 DEF TypesHold, TableShapes
<1> QED
  BY <1>1, <1>2, <1>3, TruthSame, LandAddsNothing, ValuesStay

LEMMA StartValues ==
    ASSUME EnrichmentAssumption, TypesHold, Values, NEW mode, NEW kind, StartDrain(mode, kind)
    PROVE  Values'
<1>1. /\ UNCHANGED <<row, inserts, worker, warm, source, clock>> /\ count'.changes = count.changes
  BY StartIs, StartTypes
<1>2. \A k \in DOMAIN drain'.tasks : drain'.tasks[k].pc # "bind"
  <2>1. CASE mode = "CollectionName"
    <3>1. drain'.tasks = [c \in Uncollected |-> NoTask]
      BY <2>1, StartIs
    <3> QED
      BY <3>1, Constants
  <2>2. CASE mode # "CollectionName"
    BY <2>2, StartIs
  <2> QED
    BY <2>1, <2>2
<1> QED
  BY <1>1, <1>2, QuietValues

LEMMA SelectValues ==
    ASSUME TypesHold, Values, Select
    PROVE  Values'
<1>1. /\ UNCHANGED <<row, inserts, worker, warm, source, clock, count>>
      /\ \A k \in DOMAIN drain'.tasks : drain'.tasks[k] = NoTask
  BY SelectIs
<1>2. \A k \in DOMAIN drain'.tasks : drain'.tasks[k].pc # "bind"
  BY <1>1, Constants
<1> QED
  BY <1>1, <1>2, QuietValues

LEMMA TallyValues ==
    ASSUME TypesHold, Values, NEW k, NEW fails \in BOOLEAN, Tally(k, fails)
    PROVE  Values'
<1>1. /\ UNCHANGED <<row, inserts, worker, warm, source, clock>> /\ (Fault \/ count' = count)
      /\ \A j \in DOMAIN drain'.tasks : j \in DOMAIN drain.tasks /\ drain'.tasks[j] = drain.tasks[j]
  BY TallyIs
<1>2. count'.changes = count.changes
  BY <1>1, FaultIs DEF TypesHold
<1> QED
  BY <1>1, <1>2, QuietValues

LEMMA EndValues ==
    ASSUME TypesHold, Values, EndDrain
    PROVE  Values'
<1>1. /\ UNCHANGED <<row, inserts, worker, warm, source, clock, count>>
      /\ DOMAIN drain'.tasks = {}
  BY Constants DEF EndDrain
<1> QED
  BY <1>1, QuietValues

LEMMA StutterValues ==
    ASSUME TypesHold, Values, UNCHANGED enrichmentVars
    PROVE  Values'
  BY QuietValues DEF enrichmentVars

\* A value the cache may hold.
Current(k, n) == n # 0 => n <= count.changes /\ (n = count.changes => source[k] = "real")

\* What is fetched supersedes what is stored: an answer that is not cached is
\* of this moment, and one that is cached has a value.
LEMMA FetchedPrevails ==
    ASSUME EnrichmentAssumption, TypesHold, StoredValues, NEW k \in Keys, NEW held,
           held[k] \in Nat, Current(k, held[k])
    PROVE  Prevails(k, Fetched(k, held))
<1> DEFINE task == Fetched(k, held)
<1>1. CASE task = Transient
  BY <1>1, Constants DEF Prevails
<1>2. CASE task # Transient
  <2>1. /\ task \in BoundTasks
        /\ task.meta <=> Answer(k, held) = "real"
        /\ task.seen = Recent(k, held)
        /\ k \in AssetKeys => ~ task.coll /\ task.named = 0
        /\ k \notin AssetKeys => /\ k \in NftKeys /\ task.named = count.changes
                                 /\ task.coll <=> source[ContractOf[k]] = "real"
    BY <1>2, FetchedIs DEF TypesHold
  <2> HIDE DEF task
  <2>2. count.changes \in Nat \ {0}
    BY DEF TypesHold, TableShapes
  <2>3. Truthful(k, task)
    <3>1. task.seen <= count.changes /\ (task.meta /\ task.seen = count.changes => source[k] = "real")
      <4>1. CASE held[k] # 0
        BY <2>1, <2>2, <4>1 DEF Current, Recent
      <4>2. CASE held[k] = 0
        BY <2>1, <2>2, <4>2 DEF Recent, Answer
      <4> QED
        BY <4>1, <4>2
    <3>2. /\ task.named <= count.changes
          /\ task.coll => k \in NftKeys
          /\ task.coll /\ task.named = count.changes => source[ContractOf[k]] = "real"
      BY <2>1, <2>2
    <3> QED
      BY <3>1, <3>2 DEF Truthful
  <2>4. ASSUME NEW a \in Entries(k) PROVE Supersedes(task, a)
    <3>1. Truthful(k, a) /\ Fields(a)
      BY EntryIs DEF TypesHold, StoredValues
    <3>2. ASSUME a.meta, ~ task.meta PROVE a.seen < task.seen
      <4>1. held[k] = 0
        BY <2>1, <3>2 DEF Answer
      <4>2. task.seen = count.changes /\ source[k] # "real"
        BY <2>1, <3>2, <4>1 DEF Answer, Recent
      <4>3. a.seen <= count.changes /\ a.seen # count.changes /\ a.seen \in Nat
        BY <3>1, <3>2, <4>2 DEF Truthful, Fields
      <4> QED
        BY <2>2, <4>2, <4>3
    <3>3. ASSUME a.coll, ~ task.coll PROVE a.named < task.named
      <4>1. k \notin AssetKeys
        BY <3>1, <3>3 DEF Truthful, EnrichmentAssumption
      <4>2. task.named = count.changes /\ source[ContractOf[k]] # "real"
        BY <2>1, <3>3, <4>1
      <4>3. a.named <= count.changes /\ a.named # count.changes /\ a.named \in Nat
        BY <3>1, <3>3, <4>2 DEF Truthful, Fields
      <4> QED
        BY <2>2, <4>2, <4>3
    <3> QED
      BY <3>2, <3>3 DEF Supersedes
  <2> QED
    BY <2>3, <2>4 DEF Prevails, task
<1> QED
  BY <1>1, <1>2

LEMMA WorkerFetchValues ==
    ASSUME EnrichmentAssumption, ~ Beside, TypesHold, Values, WorkerFetch
    PROVE  Values'
<1> DEFINE key == Handled.key
           task == Fetched(key, warm)
<1>1. /\ UNCHANGED <<row, inserts, drain, source, clock, count>>
      /\ worker.batch # {} /\ worker' = [worker EXCEPT !.task = task]
      /\ warm' = IF task.pc = "bind" /\ task.meta THEN [warm EXCEPT ![key] = task.seen] ELSE warm
  BY DEF WorkerFetch
<1>2. key \in Keys /\ drain = NoDrain /\ warm[key] \in Nat
  BY <1>1, WorkerOn, WorkerAlone DEF TypesHold
<1>3. Current(key, warm[key])
  BY <1>2, ValuesAre DEF WarmValues, Current
<1>4. Prevails(key, task)
  BY <1>2, <1>3, ValuesAre, FetchedPrevails
<1>5. worker'.task = task /\ Handled' = Handled
  BY <1>1, WorkerSet DEF TypesHold
<1>6. task = Transient \/ task \in BoundTasks
  BY <1>2, FetchedIs DEF TypesHold
<1> HIDE DEF task
<1>7. TruthKept /\ NothingAdded
  BY <1>1, TruthSame, NothingAddedIfSame
<1>8. WarmValues'
  <2>1. CASE task.pc = "bind" /\ task.meta
    <3>1. \A k \in Keys : warm'[k] = IF k = key THEN task.seen ELSE warm[k]
      BY <1>1, <1>2, <2>1 DEF TypesHold, TableShapes
    <3>2. task.seen <= count.changes /\ (task.seen = count.changes => source[key] = "real")
      BY <1>4, <2>1 DEF Prevails, Truthful
    <3> HIDE DEF key
    <3> QED
      BY <1>1, <3>1, <3>2, ValuesAre DEF WarmValues
  <2>2. CASE ~ (task.pc = "bind" /\ task.meta)
    <3>1. warm' = warm
      BY <1>1, <2>2
    <3> QED
      BY <1>1, <3>1, ValuesAre, WarmSame
  <2> QED
    BY <2>1, <2>2
<1>9. StoredValues'
  <2>1. clock' \in Nat /\ clock <= clock'
    BY <1>1 DEF TypesHold, TableShapes
  <2> QED
    BY <1>7, <2>1, ValuesAre, StoredStays DEF TypesHold
<1>10. PrevailsNow(key, task)
  <2>1. task.pc = "bind" => task \in BoundTasks
    BY <1>6, Constants
  <2> HIDE DEF key
  <2> QED
    BY <1>2, <1>4, <1>7, <2>1, PrevailsStays DEF NothingAdded
<1>11. DOMAIN drain'.tasks = {}
  BY <1>1, <1>2, Constants
<1> QED
  BY <1>5, <1>8, <1>9, <1>10, <1>11, ValuesAre

LEMMA DrainFetchValues ==
    ASSUME EnrichmentAssumption, ~ Beside, TypesHold, Values, NEW k, DrainFetch(k)
    PROVE  Values'
<1> DEFINE none == [j \in Keys |-> 0]
           task == Fetched(k, none)
<1>1. /\ UNCHANGED <<row, inserts, worker, warm, source, clock, count>>
      /\ k \in Keys /\ Draining /\ k \in DOMAIN drain.tasks
      /\ drain' = [drain EXCEPT !.tasks = With(drain.tasks, k, task)]
  BY DrainFetchIs
<1>2. none[k] \in Nat /\ Current(k, none[k])
  BY <1>1 DEF Current
<1>3. Prevails(k, task)
  BY <1>1, <1>2, ValuesAre, FetchedPrevails
<1>4. task = Transient \/ task \in BoundTasks
  BY <1>1, <1>2, FetchedIs DEF TypesHold
<1> HIDE DEF none, task
<1>5. /\ DOMAIN drain'.tasks = DOMAIN drain.tasks /\ drain'.tasks[k] = task
      /\ \A j \in DOMAIN drain.tasks \ {k} : drain'.tasks[j] = drain.tasks[j]
  BY <1>1, DrainWith DEF TypesHold
<1>6. TruthKept /\ NothingAdded
  BY <1>1, TruthSame, NothingAddedIfSame
<1>7. StoredValues' /\ WarmValues'
  <2>1. clock' \in Nat /\ clock <= clock'
    BY <1>1 DEF TypesHold, TableShapes
  <2> QED
    BY <1>1, <1>6, <2>1, ValuesAre, StoredStays, WarmSame DEF TypesHold
<1>8. PrevailsNow(k, task)
  <2>1. task.pc = "bind" => task \in BoundTasks
    BY <1>4, Constants
  <2> QED
    BY <1>1, <1>3, <1>6, <2>1, PrevailsStays DEF NothingAdded
<1>9. worker'.batch = {}
  BY <1>1, Constants DEF TypesHold, Exclusive
<1>10. ASSUME NEW j \in DOMAIN drain'.tasks PROVE PrevailsNow(j, drain'.tasks[j])
  <2>1. CASE j # k /\ drain.tasks[j].pc = "bind"
    <3>1. j \in DOMAIN drain.tasks /\ drain'.tasks[j] = drain.tasks[j]
      BY <1>5, <2>1
    <3>2. j \in Keys /\ IsTask(j, drain.tasks[j])
      BY <2>1, <3>1, DrainBusy
    <3>3. drain.tasks[j] \in BoundTasks
      BY <2>1, <3>2, TaskKinds
    <3>4. Prevails(j, drain.tasks[j])
      BY <3>1, ValuesAre
    <3> QED
      BY <1>6, <3>1, <3>2, <3>3, <3>4, PrevailsStays DEF NothingAdded
  <2>2. CASE j # k /\ drain.tasks[j].pc # "bind"
    BY <1>5, <2>2 DEF PrevailsNow
  <2> QED
    BY <1>5, <1>8, <2>1, <2>2
<1> QED
  BY <1>7, <1>9, <1>10, ValuesAre

\* a says the same as b.
Alike(a, b) == a.meta = b.meta /\ a.coll = b.coll /\ a.seen = b.seen /\ a.named = b.named

LEMMA AlikeIs ==
    ASSUME NEW a, NEW b, Alike(a, b)
    PROVE  /\ \A k : Truthful(k, b) => Truthful(k, a)
           /\ \A x : Supersedes(b, x) => Supersedes(a, x)
  BY DEF Alike, Truthful, Supersedes

\* An insert of the clock's next version is the newest of its key.
LEMMA StoredGrows ==
    ASSUME TableShapes, StoredValues, TruthKept, NEW i \in Inserts, i.version = clock + 1,
           row' = row, clock' = clock + 1, inserts' = inserts \cup {i},
           Truthful(i.key, RowOf(i)), \A a \in Entries(i.key) : Supersedes(RowOf(i), a)
    PROVE  /\ StoredValues'
           /\ \A k \in Keys \ {i.key} : EntriesNow(k) \subseteq Entries(k)
<1> DEFINE new == RowOf(i)
<1>1. new \in Rows /\ new.version = clock + 1 /\ clock \in Nat /\ i.key \in Keys
  BY RowOfIs DEF TableShapes, Inserts
<1>2. \A k \in Keys \ {i.key} : EntriesNow(k) \subseteq Entries(k)
  BY DEF Entries, EntriesNow
<1>3. EntriesNow(i.key) \subseteq Entries(i.key) \cup {new}
  BY DEF Entries, EntriesNow
<1> HIDE DEF new
<1>4. Fields(new)
  BY <1>1 DEF Rows, Fields
<1>5. ASSUME NEW k \in Keys, NEW a \in EntriesNow(k)
      PROVE  /\ a.version <= clock' /\ TruthfulNow(k, a)
             /\ \A b \in EntriesNow(k) : a.version <= b.version => Supersedes(b, a)
  <2>1. ASSUME a \in Entries(k) PROVE a.version \in Nat /\ a.version <= clock /\ TruthfulNow(k, a)
    BY <2>1, EntryIs DEF StoredValues, TruthKept
  <2>2. \A b \in EntriesNow(k) : b \in Entries(k) \/ (b = new /\ k = i.key)
    BY <1>2, <1>3
  <2>3. Truthful(i.key, new) /\ \A b \in Entries(i.key) : Supersedes(new, b)
    BY DEF new
  <2>4. CASE a \in Entries(k)
    <3>1. a.version <= clock'
      BY <1>1, <2>1, <2>4
    <3>2. \A b \in EntriesNow(k) : a.version <= b.version => Supersedes(b, a)
      BY <2>2, <2>3, <2>4 DEF StoredValues
    <3> QED
      BY <2>1, <2>4, <3>1, <3>2
  <2>5. CASE a = new /\ k = i.key
    <3>1. a.version <= clock' /\ TruthfulNow(k, a)
      BY <1>1, <1>4, <2>3, <2>5 DEF TruthKept
    <3>2. ASSUME NEW b \in EntriesNow(k), a.version <= b.version PROVE Supersedes(b, a)
      <4>1. b = new
        <5>1. CASE b \in Entries(k)
          <6>1. b.version \in Nat /\ b.version <= clock
            BY <5>1, EntryIs DEF StoredValues
          <6> QED
            BY <1>1, <2>5, <3>2, <6>1
        <5> QED
          BY <2>2, <5>1
      <4> QED
        BY <2>5, <4>1 DEF Supersedes
    <3> QED
      BY <3>1, <3>2
  <2> QED
    BY <2>2, <2>4, <2>5
<1> QED
  BY <1>2, <1>5, StoredNow

LEMMA WorkerInsertValues ==
    ASSUME ~ Beside, TypesHold, Values, WorkerInsert
    PROVE  Values'
<1> DEFINE key == Handled.key
           insert == Stamped(key, worker.task, clock + 1)
<1>1. /\ UNCHANGED <<row, warm, drain, source, count>>
      /\ worker.batch # {} /\ worker.task.pc = "bind"
      /\ clock' = clock + 1 /\ inserts' = inserts \cup {insert}
      /\ worker' = [worker EXCEPT !.task = Sent(insert)]
  BY DEF WorkerInsert, Sent
<1>2. drain = NoDrain /\ key \in Keys /\ worker.task \in BoundTasks
  BY <1>1, WorkerOn, WorkerAlone, TaskKinds DEF TypesHold
<1>3. clock + 1 \in Nat \ {0}
  BY DEF TypesHold, TableShapes
<1>4. insert \in Inserts /\ insert.key = key /\ insert.version = clock + 1 /\ Alike(insert, worker.task)
  BY <1>2, <1>3, StampedIs DEF Alike
<1> HIDE DEF insert
<1>5. Alike(RowOf(insert), worker.task)
  BY <1>4, RowOfIs DEF Alike
<1>6. Prevails(key, worker.task)
  BY <1>1, ValuesAre
<1> HIDE DEF key
<1>7. StoredValues'
  BY <1>1, <1>4, <1>5, <1>6, AlikeIs, ValuesAre, TruthSame, StoredGrows DEF TypesHold, Prevails
<1>8. WarmValues'
  BY <1>1, ValuesAre, WarmSame
<1>9. PrevailsNow(Handled'.key, worker'.task)
  <2>1. worker'.task = Sent(insert)
    BY <1>1, WorkerSet DEF TypesHold
  <2> QED
    BY <1>4, <2>1, SentIs DEF PrevailsNow
<1>10. DOMAIN drain'.tasks = {}
  BY <1>1, <1>2, Constants
<1> QED
  BY <1>7, <1>8, <1>9, <1>10, ValuesAre

LEMMA DrainInsertValues ==
    ASSUME ~ Beside, TypesHold, Values, NEW k, DrainInsert(k)
    PROVE  Values'
<1> DEFINE task == drain.tasks[k]
           insert == Stamped(k, task, clock + 1)
<1>1. /\ UNCHANGED <<row, worker, warm, source, count>>
      /\ k \in DOMAIN drain.tasks /\ task.pc = "bind" /\ task \in BoundTasks
      /\ clock' = clock + 1 /\ inserts' = inserts \cup {insert}
      /\ insert \in Inserts /\ insert.key = k /\ insert.version = clock + 1
      /\ DOMAIN drain'.tasks = DOMAIN drain.tasks /\ drain'.tasks[k] = Sent(insert)
      /\ \A j \in DOMAIN drain.tasks \ {k} : drain'.tasks[j] = drain.tasks[j]
  BY DrainInsertIs
<1>2. k \in Keys /\ worker = Asleep
  BY <1>1, DrainBusy DEF TypesHold, Exclusive
<1>3. Alike(insert, task)
  <2>1. clock + 1 \in Nat \ {0}
    BY DEF TypesHold, TableShapes
  <2> QED
    BY <1>1, <1>2, <2>1, StampedIs DEF Alike
<1>4. Prevails(k, task)
  BY <1>1, ValuesAre
<1> HIDE DEF insert, task
<1>5. Alike(RowOf(insert), task)
  BY <1>1, <1>3, RowOfIs DEF Alike
<1>6. TruthKept
  BY <1>1, TruthSame
<1>7. StoredValues' /\ \A j \in Keys \ {k} : EntriesNow(j) \subseteq Entries(j)
  BY <1>1, <1>4, <1>5, <1>6, AlikeIs, ValuesAre, StoredGrows DEF TypesHold, Prevails
<1>8. WarmValues'
  BY <1>1, ValuesAre, WarmSame
<1>9. worker'.batch = {}
  BY <1>1, <1>2, Constants
<1>10. ASSUME NEW j \in DOMAIN drain'.tasks PROVE PrevailsNow(j, drain'.tasks[j])
  <2>1. CASE j # k /\ drain.tasks[j].pc = "bind"
    <3>1. j \in DOMAIN drain.tasks /\ drain'.tasks[j] = drain.tasks[j]
      BY <1>1, <2>1
    <3>2. j \in Keys /\ IsTask(j, drain.tasks[j])
      BY <2>1, <3>1, DrainBusy
    <3>3. drain.tasks[j] \in BoundTasks
      BY <2>1, <3>2, TaskKinds
    <3>4. Prevails(j, drain.tasks[j])
      BY <3>1, ValuesAre
    <3> QED
      BY <1>6, <1>7, <2>1, <3>1, <3>2, <3>3, <3>4, PrevailsStays
  <2>2. CASE j # k /\ drain.tasks[j].pc # "bind"
    BY <1>1, <2>2 DEF PrevailsNow
  <2>3. CASE j = k
    BY <1>1, <2>3, SentIs DEF PrevailsNow
  <2> QED
    BY <2>1, <2>2, <2>3
<1> QED
  BY <1>7, <1>8, <1>9, <1>10, ValuesAre

\* The rewrite of names keeps the metadata and adds the name of this moment.
LEMMA CollectionValues ==
    ASSUME ~ Beside, TypesHold, Values, NEW c, NEW fails \in BOOLEAN, CollectionName(c, fails)
    PROVE  Values'
<1>1. /\ UNCHANGED <<inserts, worker, warm, source>>
      /\ drain.mode = "CollectionName" /\ Draining /\ inserts = {} /\ (Fault \/ count' = count)
      /\ \A j \in DOMAIN drain'.tasks : j \in DOMAIN drain.tasks /\ drain'.tasks[j] = drain.tasks[j]
      /\ \/ row' = row /\ clock' = clock
         \/ /\ clock' = clock + 1 /\ source[c] = "real" /\ row' \in [Keys -> Rows]
            /\ \A k \in Keys : row'[k] # row[k] =>
                 k \in Named(c) /\ row'[k] = RowOf(Renamed(k, clock + 1))
  BY CollectionIs
<1>2. count'.changes = count.changes
  BY <1>1, FaultIs DEF TypesHold
<1>3. CASE row' = row /\ clock' = clock
  BY <1>1, <1>2, <1>3, QuietValues
<1>4. CASE /\ clock' = clock + 1 /\ source[c] = "real" /\ row' \in [Keys -> Rows]
           /\ \A k \in Keys : row'[k] # row[k] =>
                k \in Named(c) /\ row'[k] = RowOf(Renamed(k, clock + 1))
  <2>1. TruthKept
    BY <1>1, <1>2, TruthSame
  <2>2. clock \in Nat /\ clock + 1 \in Nat \ {0} /\ count.changes \in Nat
    BY DEF TypesHold, TableShapes
  <2>3. \A k \in Keys : Entries(k) = {row[k]} /\ EntriesNow(k) = {row'[k]}
    BY <1>1 DEF Entries, EntriesNow
  <2>4. ASSUME NEW k \in Keys PROVE row'[k].version <= clock' /\ TruthfulNow(k, row'[k])
    <3>1. row[k].version \in Nat /\ row[k].version <= clock /\ Fields(row[k]) /\ Truthful(k, row[k])
      BY <2>3, EntryIs, ValuesAre DEF TypesHold, StoredValues
    <3>2. CASE row'[k] = row[k]
      BY <1>4, <2>1, <2>2, <3>1, <3>2 DEF TruthKept
    <3>3. CASE k \in Named(c) /\ row'[k] = RowOf(Renamed(k, clock + 1))
      <4>1. k \in NftKeys /\ ContractOf[k] = c
        BY <3>3 DEF Named
      <4>2. /\ row'[k].version = clock + 1 /\ row'[k].meta = row[k].meta /\ row'[k].seen = row[k].seen
            /\ row'[k].coll = TRUE /\ row'[k].named = count.changes
        <5> DEFINE i == Renamed(k, clock + 1)
        <5>1. /\ i \in Inserts /\ i.version = clock + 1 /\ i.meta = row[k].meta /\ i.seen = row[k].seen
              /\ i.coll = TRUE /\ i.named = count.changes
          BY <2>2, RenamedIs DEF TypesHold
        <5>2. row'[k] = RowOf(i)
          BY <3>3
        <5> HIDE DEF i
        <5> QED
          BY <5>1, <5>2, RowOfIs
      <4>3. Truthful(k, row'[k])
        BY <1>4, <2>2, <3>1, <4>1, <4>2 DEF Truthful
      <4>4. Fields(row'[k])
        BY <2>2, <3>1, <4>2 DEF Fields
      <4> QED
        BY <1>4, <2>1, <2>2, <4>2, <4>3, <4>4 DEF TruthKept
    <3> QED
      BY <1>4, <3>2, <3>3
  <2>5. \A a : Supersedes(a, a)
    BY DEF Supersedes
  <2>6. StoredValues'
    BY <2>3, <2>4, <2>5, StoredNow
  <2>7. WarmValues'
    BY <1>1, <1>2, ValuesAre, WarmSame
  <2>8. worker'.batch = {}
    BY <1>1, Constants DEF TypesHold, Exclusive
  <2>9. \A k \in DOMAIN drain'.tasks : PrevailsNow(k, drain'.tasks[k])
    BY <1>1, Constants DEF TypesHold, Tasks, PrevailsNow
  <2> QED
    BY <2>6, <2>7, <2>8, <2>9, ValuesAre
<1> QED
  BY <1>1, <1>3, <1>4

-----------------------------------------------------------------------------
(* A drain passes no key over.                                             *)

\* A step that leaves the drain: rows stay.
LEMMA WalkStays ==
    ASSUME TypesHold, Walk, Keeps, drain' = drain, base \subseteq base'
    PROVE  Walk'
<1>1. Walking' <=> Walking
  BY DEF Walking
<1>2. ASSUME Walking PROVE Reach' /\ Passed'
  <2>1. Reach /\ Passed
    BY <1>2 DEF Walk
  <2>2. \A k \in drain.known : k \in Keys
    BY <2>1 DEF Reach
  <2> QED
    BY <2>1, <2>2 DEF Reach, Passed, Keeps, Tried, TriedNow
<1> QED
  BY <1>1, <1>2 DEF Walk

LEMMA IdleWalk ==
    ASSUME drain' = NoDrain \/ drain'.mode = "CollectionName"
    PROVE  Walk' /\ ~ Walking'
  BY Constants DEF Walk, Walking, Modes

\* A drain that goes on with the same tasks.
LEMMA TasksWalk ==
    ASSUME Walk, base' = base, row' = row,
           drain'.mode = drain.mode, drain'.kind = drain.kind, drain'.after = drain.after,
           drain'.known = drain.known, drain'.failed = drain.failed,
           DOMAIN drain'.tasks = DOMAIN drain.tasks
    PROVE  Walk'
  BY DEF Walk, Walking, Reach, Passed, Tried

LEMMA StartWalk ==
    ASSUME EnrichmentAssumption, NEW mode, NEW kind, StartDrain(mode, kind)
    PROVE  Walk'
<1>1. /\ base' = base /\ kind \in {AssetKeys, NftKeys}
      /\ drain'.mode = mode /\ drain'.kind = kind
      /\ drain'.after = 0 /\ drain'.known = base \cap kind
      /\ mode # "CollectionName" => DOMAIN drain'.tasks = {}
  BY StartIs
<1>2. CASE mode = "CollectionName"
  BY <1>1, <1>2, IdleWalk
<1>3. CASE mode # "CollectionName"
  <2>1. kind \subseteq Keys /\ \A k \in Keys : k \in Nat /\ k # 0
    BY <1>1 DEF Keys, EnrichmentAssumption
  <2>2. \A k \in drain'.known : ~ (k <= drain'.after)
    BY <1>1, <2>1
  <2> QED
    BY <1>1, <1>3, <2>1, <2>2 DEF Walk, Reach, Passed
<1> QED
  BY <1>2, <1>3

\* The first keys after the cursor.
LEMMA ChunkIs ==
    ASSUME EnrichmentAssumption, NEW mode \in Modes \ {"CollectionName"}, NEW kind \in SUBSET Keys,
           NEW after \in Nat
    PROVE  LET rest == {k \in Candidates(mode, kind) : k > after}
               chunk == Chunk(mode, kind, after)
           IN  /\ chunk \subseteq rest /\ rest \subseteq Keys
               /\ \A k \in chunk, j \in rest : j <= k => j \in chunk
               /\ chunk = {} => rest = {}
               /\ chunk # {} => Max(chunk) \in chunk /\ \A k \in chunk : k <= Max(chunk)
<1> DEFINE rest == {k \in Candidates(mode, kind) : k > after}
           chunk == Chunk(mode, kind, after)
           below(k) == {j \in rest : j < k}
<1>1. rest \subseteq Keys
  BY CandidatesAre
<1>2. chunk = {k \in rest : Cardinality(below(k)) < ChunkSize}
  BY DEF Chunk
<1>3. rest \in SUBSET Nat /\ IsFiniteSet(rest) /\ ChunkSize \in Nat \ {0}
  BY <1>1, FS_Subset DEF EnrichmentAssumption
<1> HIDE DEF rest, chunk
<1>4. ASSUME NEW k \in chunk, NEW j \in rest, j <= k PROVE j \in chunk
  <2>1. k \in rest /\ k \in Nat /\ j \in Nat
    BY <1>2, <1>3
  <2>2. below(j) \in SUBSET below(k) /\ below(k) \in SUBSET rest
    <3>1. ASSUME NEW x \in rest, x < j PROVE x < k
      BY <1>3, <1>4, <2>1, <3>1
    <3> QED
      BY <3>1
  <2>3. IsFiniteSet(below(k))
    BY <1>3, <2>2, FS_Subset
  <2>4. Cardinality(below(j)) <= Cardinality(below(k)) /\ IsFiniteSet(below(j))
    BY <2>2, <2>3, FS_Subset
  <2>5. Cardinality(below(j)) \in Nat /\ Cardinality(below(k)) \in Nat
    BY <2>3, <2>4, FS_CardinalityType
  <2>6. Cardinality(below(k)) < ChunkSize
    BY <1>2
  <2> HIDE DEF below
  <2>7. Cardinality(below(j)) < ChunkSize
    BY <1>3, <2>4, <2>5, <2>6
  <2> QED
    BY <1>2, <2>7
<1>5. ASSUME rest # {} PROVE chunk # {}
  <2>1. PICK k \in rest : \A j \in rest : k <= j
    BY <1>3, <1>5, Smallest
  <2>2. below(k) = {}
    <3>1. \A j \in rest : ~ (j < k)
      BY <1>3, <2>1
    <3> QED
      BY <3>1
  <2>3. Cardinality(below(k)) = 0
    BY <2>2, FS_EmptySet
  <2> HIDE DEF below
  <2> QED
    BY <1>2, <1>3, <2>3
<1>6. ASSUME chunk # {} PROVE Max(chunk) \in chunk /\ \A k \in chunk : k <= Max(chunk)
  <2>1. IsFiniteSet(chunk) /\ chunk \in SUBSET Nat
    BY <1>2, <1>3, FS_Subset
  <2>2. PICK m \in chunk : \A k \in chunk : k <= m
    BY <1>6, <2>1, GreatestOfFinite
  <2>3. \A k \in chunk : m >= k
    BY <2>1, <2>2
  <2>4. Max(chunk) \in chunk /\ \A k \in chunk : Max(chunk) >= k
    BY <2>3 DEF Max
  <2> QED
    BY <2>1, <2>4
<1> QED
  BY <1>1, <1>2, <1>4, <1>5, <1>6 DEF rest, chunk

\* The chunk is the next of the keys after the cursor.
LEMMA SelectChunk ==
    ASSUME EnrichmentAssumption, TypesHold, Walk, Select
    PROVE  LET chunk == Chunk(drain.mode, drain.kind, drain.after)
               rest == {k \in Candidates(drain.mode, drain.kind) : k > drain.after}
           IN  /\ Walking /\ Reach /\ Passed /\ drain.kind \in SUBSET Keys /\ drain.after \in Nat
               /\ \A k \in Keys : k \in Nat
               /\ chunk \subseteq rest /\ rest \subseteq Keys
               /\ \A k \in chunk, j \in rest : j <= k => j \in chunk
               /\ Max(chunk) \in chunk /\ \A k \in chunk : k <= Max(chunk)
               /\ Max(chunk) \in Nat /\ Max(chunk) > drain.after /\ drain'.after = Max(chunk)
               /\ \A k \in Nat : k <= drain.after => k <= drain'.after /\ k \notin chunk
<1> DEFINE chunk == Chunk(drain.mode, drain.kind, drain.after)
           rest == {k \in Candidates(drain.mode, drain.kind) : k > drain.after}
           most == Max(chunk)
<1>1. Walking /\ chunk # {} /\ drain'.after = most
  BY SelectIs DEF Walking
<1>2. Reach /\ Passed /\ drain.kind \in SUBSET Keys /\ drain.after \in Nat
  BY <1>1 DEF Walk, Reach
<1>3. /\ chunk \subseteq rest /\ rest \subseteq Keys
      /\ \A k \in chunk, j \in rest : j <= k => j \in chunk
      /\ most \in chunk /\ \A k \in chunk : k <= most
  BY <1>1, <1>2, ChunkIs DEF Walking
<1>4. \A k \in rest : k > drain.after
  OBVIOUS
<1>5. \A k \in Keys : k \in Nat
  BY DEF EnrichmentAssumption
<1> HIDE DEF chunk, rest, most
<1>6. most \in Nat /\ most > drain.after
  BY <1>3, <1>4, <1>5
<1>7. \A k \in Nat : k <= drain.after => k <= drain'.after /\ k \notin chunk
  BY <1>1, <1>2, <1>3, <1>4, <1>6
<1> QED
  BY <1>1, <1>2, <1>3, <1>5, <1>6, <1>7 DEF chunk, rest, most

LEMMA SelectWalk ==
    ASSUME EnrichmentAssumption, TypesHold, Walk, Select
    PROVE  Walk'
<1> DEFINE chunk == Chunk(drain.mode, drain.kind, drain.after)
           rest == {k \in Candidates(drain.mode, drain.kind) : k > drain.after}
           most == Max(chunk)
<1>1. /\ UNCHANGED <<base, row>>
      /\ drain'.mode = drain.mode /\ drain'.kind = drain.kind /\ drain'.known = drain.known
      /\ drain'.failed = drain.failed /\ DOMAIN drain.tasks = {} /\ DOMAIN drain'.tasks = chunk
  BY SelectIs
<1>2. /\ Walking /\ Reach /\ Passed /\ drain.kind \in SUBSET Keys
      /\ \A k \in Keys : k \in Nat
      /\ \A k \in chunk, j \in rest : j <= k => j \in chunk
      /\ most \in chunk /\ \A k \in chunk : k <= most
      /\ most \in Nat /\ most > drain.after /\ drain'.after = most /\ drain.after \in Nat
  BY SelectChunk
<1>3. \A k \in drain.known : k > drain.after /\ ~ Tried(k) /\ drain.mode = "Untried" => k \in rest
  BY <1>2 DEF Reach, Candidates, Unenriched
<1> HIDE DEF chunk, rest, most
<1>4. Reach'
  BY <1>1, <1>2 DEF Reach
<1>5. ASSUME drain.mode = "Untried", ~ drain.failed, NEW k \in drain.known, k <= drain'.after
      PROVE  Tried(k) \/ k \in chunk
  <2>1. k \in Nat
    BY <1>2 DEF Reach
  <2>2. CASE k <= drain.after
    BY <1>1, <1>2, <1>5, <2>2 DEF Passed
  <2>3. CASE k > drain.after
    BY <1>2, <1>3, <1>5, <2>3
  <2> QED
    BY <1>2, <2>1, <2>2, <2>3
<1>6. Passed'
  BY <1>1, <1>5 DEF Passed, Tried
<1> QED
  BY <1>4, <1>6 DEF Walk

LEMMA DrainFetchWalk ==
    ASSUME TypesHold, Walk, NEW k, DrainFetch(k)
    PROVE  Walk'
<1> DEFINE task == Fetched(k, [j \in Keys |-> 0])
<1>1. /\ UNCHANGED <<base, row>> /\ k \in DOMAIN drain.tasks
      /\ drain' = [drain EXCEPT !.tasks = With(drain.tasks, k, task)]
  BY DrainFetchIs
<1> HIDE DEF task
<1>2. /\ drain'.mode = drain.mode /\ drain'.kind = drain.kind /\ drain'.after = drain.after
      /\ drain'.known = drain.known /\ drain'.failed = drain.failed
      /\ DOMAIN drain'.tasks = DOMAIN drain.tasks
  BY <1>1, DrainWith DEF TypesHold
<1> QED
  BY <1>1, <1>2, TasksWalk

LEMMA DrainInsertWalk ==
    ASSUME TypesHold, Walk, NEW k, DrainInsert(k)
    PROVE  Walk'
  BY DrainInsertIs, TasksWalk

\* A task that has sent its row, and its key.
LEMMA SentTask ==
    ASSUME TypesHold, NEW k \in DOMAIN drain.tasks, drain.tasks[k].pc = "sent"
    PROVE  /\ k \in base \cap drain.kind /\ k \in Keys
           /\ drain.tasks[k].insert \in Inserts /\ drain.tasks[k].insert.key = k
           /\ drain.tasks[k].insert \in inserts \/ Tried(k)
           /\ drain.tasks[k] = Sent(drain.tasks[k].insert)
<1>1. k \in base \cap drain.kind /\ k \in Keys /\ IsTask(k, drain.tasks[k])
  BY DrainBusy
<1>2. /\ drain.tasks[k] \in [pc : {"sent"}, insert : Inserts] /\ drain.tasks[k].insert.key = k
      /\ drain.tasks[k].insert \in inserts \/ Tried(k)
  BY <1>1, TaskKinds
<1> QED
  BY <1>1, <1>2 DEF Sent

LEMMA TallyWalk ==
    ASSUME TypesHold, Walk, NEW k, NEW fails \in BOOLEAN, Tally(k, fails)
    PROVE  Walk'
<1>1. /\ UNCHANGED <<base, row, inserts>> /\ k \in DOMAIN drain.tasks
      /\ drain.tasks[k].pc \in {"transient", "sent"}
      /\ Ended(k, fails) => drain.tasks[k].insert \notin inserts
      /\ drain'.mode = drain.mode /\ drain'.kind = drain.kind /\ drain'.after = drain.after
      /\ drain'.known = drain.known
      /\ drain'.failed <=> drain.failed \/ ~ Ended(k, fails)
      /\ DOMAIN drain'.tasks = DOMAIN drain.tasks \ {k}
  BY TallyIs
<1>2. Ended(k, fails) => Tried(k)
  BY <1>1, SentTask DEF Ended
<1>3. Walking /\ Reach /\ Passed
  BY <1>1, DrainBusy DEF Walk, Walking
<1>4. Reach'
  BY <1>1, <1>3 DEF Reach
<1>5. Passed'
  BY <1>1, <1>2, <1>3 DEF Passed, Tried
<1> QED
  BY <1>4, <1>5 DEF Walk

-----------------------------------------------------------------------------
(* In the worker's place: what a drain reports is so.                      *)

Attempts == Walking => OneAttempt /\ SentIsKept /\ CountedIsSo

\* A step that leaves the drain, the rows and the inserts.
LEMMA AttemptsStay ==
    ASSUME Attempts, drain' = drain, row' = row, inserts' = inserts, base \subseteq base'
    PROVE  Attempts'
<1>1. Walking' <=> Walking
  BY DEF Walking
<1>2. ASSUME Walking PROVE OneAttempt' /\ SentIsKept' /\ CountedIsSo'
  BY <1>2 DEF Attempts, OneAttempt, SentIsKept, CountedIsSo, Tried
<1> QED
  BY <1>1, <1>2 DEF Attempts

LEMMA IdleAttempts ==
    ASSUME drain' = NoDrain \/ drain'.mode = "CollectionName"
    PROVE  Attempts'
  BY IdleWalk DEF Attempts

LEMMA StartAttempts ==
    ASSUME ~ Beside, NEW mode, NEW kind, StartDrain(mode, kind)
    PROVE  Attempts'
<1>1. /\ inserts' = {} /\ drain'.mode = mode /\ drain'.real = {} /\ drain'.sentinel = {}
      /\ mode # "CollectionName" => DOMAIN drain'.tasks = {}
  BY StartIs
<1>2. CASE mode = "CollectionName"
  BY <1>1, <1>2, IdleAttempts
<1>3. CASE mode # "CollectionName"
  BY <1>1, <1>3 DEF Attempts, OneAttempt, SentIsKept, CountedIsSo
<1> QED
  BY <1>2, <1>3

LEMMA SelectAttempts ==
    ASSUME EnrichmentAssumption, TypesHold, Walk, Attempts, Select
    PROVE  Attempts'
<1> DEFINE chunk == Chunk(drain.mode, drain.kind, drain.after)
<1>1. /\ UNCHANGED <<base, row, inserts>> /\ DOMAIN drain.tasks = {}
      /\ drain'.mode = drain.mode /\ drain'.kind = drain.kind
      /\ drain'.real = drain.real /\ drain'.sentinel = drain.sentinel
      /\ DOMAIN drain'.tasks = chunk /\ \A k \in chunk : drain'.tasks[k] = NoTask
  BY SelectIs
<1>2. /\ Walking /\ drain.kind \in SUBSET Keys /\ \A k \in Keys : k \in Nat
      /\ \A k \in Nat : k <= drain.after => k <= drain'.after /\ k \notin chunk
  BY SelectChunk
<1>3. OneAttempt /\ CountedIsSo
  BY <1>2 DEF Attempts
<1> HIDE DEF chunk
<1>4. OneAttempt'
  <2>1. \A i \in inserts : i.key \in Nat
    BY <1>2 DEF TypesHold, TableShapes, Inserts
  <2> QED
    BY <1>1, <1>2, <1>3, <2>1 DEF OneAttempt
<1>5. SentIsKept'
  BY <1>1, Constants DEF SentIsKept
<1>6. CountedIsSo'
  <2>1. \A k \in drain.real \cup drain.sentinel : k \in Nat
    BY <1>2, <1>3 DEF CountedIsSo
  <2> QED
    BY <1>1, <1>2, <1>3, <2>1 DEF CountedIsSo, Tried
<1> QED
  BY <1>4, <1>5, <1>6 DEF Attempts

\* A key whose task has not sent its row has none on its way.
LEMMA NotYetSent ==
    ASSUME TableShapes, OneAttempt, NEW k \in DOMAIN drain.tasks,
           drain.tasks[k].pc \notin {"transient", "sent"}, NEW i \in inserts
    PROVE  i.key # k
<1>1. ASSUME i.key = k PROVE FALSE
  <2>1. drain.tasks[k] = Sent(i)
    BY <1>1 DEF OneAttempt, Sent
  <2>2. drain.tasks[k].pc = "sent"
    BY <2>1, SentIs DEF TableShapes
  <2> QED
    BY <2>2
<1> QED
  BY <1>1

LEMMA DrainFetchAttempts ==
    ASSUME EnrichmentAssumption, TypesHold, Attempts, NEW k, DrainFetch(k)
    PROVE  Attempts'
<1> DEFINE task == Fetched(k, [j \in Keys |-> 0])
<1>1. /\ UNCHANGED <<base, row, inserts>> /\ Walking
      /\ k \in Keys /\ k \in DOMAIN drain.tasks /\ drain.tasks[k].pc = "fetch"
      /\ drain' = [drain EXCEPT !.tasks = With(drain.tasks, k, task)]
  BY DrainFetchIs DEF Walking
<1>2. task.pc # "sent"
  <2>1. [j \in Keys |-> 0][k] \in Nat
    BY <1>1
  <2>2. task = Transient \/ task \in BoundTasks
    BY <1>1, <2>1, FetchedIs DEF TypesHold
  <2> QED
    BY <2>2, Constants DEF BoundTasks
<1> HIDE DEF task
<1>3. /\ drain'.mode = drain.mode /\ drain'.kind = drain.kind /\ drain'.after = drain.after
      /\ drain'.known = drain.known /\ drain'.failed = drain.failed
      /\ drain'.real = drain.real /\ drain'.sentinel = drain.sentinel
      /\ DOMAIN drain'.tasks = DOMAIN drain.tasks /\ drain'.tasks[k] = task
      /\ \A j \in DOMAIN drain.tasks \ {k} : drain'.tasks[j] = drain.tasks[j]
  BY <1>1, DrainWith DEF TypesHold
<1>4. OneAttempt /\ SentIsKept /\ CountedIsSo
  BY <1>1 DEF Attempts
<1>5. \A i \in inserts : i.key # k
  BY <1>1, <1>4, NotYetSent, Constants DEF TypesHold
<1>6. CountedIsSo'
  BY <1>1, <1>3, <1>4 DEF CountedIsSo, Tried
<1>7. OneAttempt'
  BY <1>1, <1>3, <1>4, <1>5 DEF OneAttempt
<1>8. SentIsKept'
  BY <1>1, <1>2, <1>3, <1>4 DEF SentIsKept
<1> QED
  BY <1>6, <1>7, <1>8 DEF Attempts

LEMMA DrainInsertAttempts ==
    ASSUME TypesHold, Values, Walk, Attempts, NEW k, DrainInsert(k)
    PROVE  Attempts'
<1> DEFINE new == Stamped(k, drain.tasks[k], clock + 1)
<1>1. /\ UNCHANGED <<base, row>> /\ k \in DOMAIN drain.tasks /\ drain.tasks[k].pc = "bind"
      /\ inserts' = inserts \cup {new} /\ new \in Inserts /\ new.key = k /\ new.version = clock + 1
      /\ drain'.mode = drain.mode /\ drain'.kind = drain.kind /\ drain'.after = drain.after
      /\ drain'.known = drain.known /\ drain'.failed = drain.failed
      /\ drain'.real = drain.real /\ drain'.sentinel = drain.sentinel
      /\ DOMAIN drain'.tasks = DOMAIN drain.tasks /\ drain'.tasks[k] = Sent(new)
      /\ \A j \in DOMAIN drain.tasks \ {k} : drain'.tasks[j] = drain.tasks[j]
  BY DrainInsertIs
<1> HIDE DEF new
<1>2. Walking /\ k \in Keys
  BY <1>1, DrainBusy DEF Walking
<1>3. Reach /\ OneAttempt /\ SentIsKept /\ CountedIsSo
  BY <1>2 DEF Walk, Attempts
<1>4. \A i \in inserts : i.key # k
  BY <1>1, <1>3, NotYetSent, Constants DEF TypesHold
<1>5. row[k].version < new.version
  <2>1. row[k].version \in Nat /\ clock \in Nat
    BY <1>2 DEF TypesHold, TableShapes, Rows
  <2>2. row[k].version <= clock
    BY <1>2, ValuesAre DEF StoredValues, Entries
  <2> QED
    BY <1>1, <2>1, <2>2
<1>6. CountedIsSo'
  <2>1. \A j \in drain.real \cup drain.sentinel : j # k
    BY <1>1, <1>3 DEF CountedIsSo
  <2> QED
    BY <1>1, <1>3, <2>1 DEF CountedIsSo, Tried
<1>7. OneAttempt'
  <2>1. \A i \in inserts' :
          /\ i.key <= drain'.after /\ row'[i.key].version < i.version
          /\ \A j \in inserts' : j.key = i.key => j = i
    BY <1>1, <1>3, <1>4, <1>5 DEF OneAttempt, Reach
  <2>2. ASSUME NEW i \in inserts', i.key \in DOMAIN drain'.tasks, drain'.tasks[i.key].pc # "transient"
        PROVE  drain'.tasks[i.key] = Sent(i)
    <3>1. CASE i = new
      BY <1>1, <3>1
    <3>2. CASE i \in inserts
      BY <1>1, <1>3, <1>4, <2>2, <3>2 DEF OneAttempt, Sent
    <3> QED
      BY <1>1, <3>1, <3>2
  <2> QED
    BY <2>1, <2>2 DEF OneAttempt, Sent
<1>8. SentIsKept'
  <2>1. drain'.tasks[k].insert \in inserts'
    BY <1>1, SentIs
  <2> QED
    BY <1>1, <1>3, <2>1 DEF SentIsKept
<1> QED
  BY <1>6, <1>7, <1>8 DEF Attempts

LEMMA TallyAttempts ==
    ASSUME TypesHold, Walk, Attempts, NEW k, NEW fails \in BOOLEAN, Tally(k, fails)
    PROVE  Attempts'
<1> DEFINE insert == drain.tasks[k].insert
<1>1. /\ UNCHANGED <<base, row, inserts>>
      /\ k \in DOMAIN drain.tasks /\ drain.tasks[k].pc \in {"transient", "sent"}
      /\ Ended(k, fails) => insert \notin inserts
      /\ drain'.mode = drain.mode /\ drain'.kind = drain.kind /\ drain'.after = drain.after
      /\ drain'.real = drain.real \cup Counted(k, fails, "real")
      /\ drain'.sentinel = drain.sentinel \cup Counted(k, fails, "sentinel")
      /\ DOMAIN drain'.tasks = DOMAIN drain.tasks \ {k}
      /\ \A j \in DOMAIN drain.tasks \ {k} : drain'.tasks[j] = drain.tasks[j]
  BY TallyIs
<1>2. Walking /\ k \in base \cap drain.kind /\ k \in Keys
  BY <1>1, DrainBusy DEF Walking
<1>3. Reach /\ OneAttempt /\ SentIsKept /\ CountedIsSo
  BY <1>2 DEF Walk, Attempts
\* What ended well has its row, and nothing else of its key is on its way.
<1>4. ASSUME Ended(k, fails)
      PROVE  /\ Tried(k) /\ \A i \in inserts : i.key # k
             /\ row[k].meta <=> Outcome(k, insert) = "real"
  <2>1. drain.tasks[k].pc = "sent" /\ insert \notin inserts
    BY <1>1, <1>4 DEF Ended
  <2>2. insert \in Inserts /\ Tried(k) /\ drain.tasks[k] = Sent(insert)
    BY <1>1, <2>1, SentTask
  <2>3. row[k] = RowOf(insert)
    BY <1>1, <1>3, <2>1 DEF SentIsKept
  <2>4. row[k].meta = insert.meta /\ insert.meta \in BOOLEAN
    BY <2>2, <2>3, RowOfIs DEF Inserts
  <2>5. ASSUME NEW i \in inserts, i.key = k PROVE FALSE
    <3>1. drain.tasks[k] = Sent(i) /\ i \in Inserts
      BY <1>1, <1>3, <2>1, <2>5 DEF OneAttempt, Sent, TypesHold, TableShapes
    <3>2. i = insert
      BY <3>1, SentIs
    <3> QED
      BY <2>1, <2>5, <3>2
  <2> QED
    BY <2>2, <2>4, <2>5 DEF Outcome
<1> HIDE DEF insert
<1>5. /\ \A j \in Counted(k, fails, "real") : j = k /\ Ended(k, fails) /\ Outcome(k, insert) = "real"
      /\ \A j \in Counted(k, fails, "sentinel") : j = k /\ Ended(k, fails) /\ Outcome(k, insert) = "sentinel"
  BY DEF Counted, insert
<1>6. OneAttempt' /\ SentIsKept'
  BY <1>1, <1>3 DEF OneAttempt, SentIsKept
<1>7. k \notin drain.real \cup drain.sentinel /\ k <= drain.after
  BY <1>1, <1>3 DEF CountedIsSo, Reach
<1>8. CountedIsSo'
  <2>1. drain'.real \cap drain'.sentinel = {}
    BY <1>1, <1>3, <1>5, <1>7 DEF CountedIsSo
  <2>2. ASSUME NEW j \in drain'.real \cup drain'.sentinel
        PROVE  /\ j \in base \cap drain.kind /\ j <= drain.after /\ j \notin DOMAIN drain'.tasks
               /\ j \notin {i.key : i \in inserts} /\ Tried(j)
               /\ row[j].meta <=> j \in drain'.real
    <3>1. CASE j = k
      <4>1. Ended(k, fails) /\ Tried(k) /\ (\A i \in inserts : i.key # k)
            /\ (row[k].meta <=> Outcome(k, insert) = "real")
        BY <1>1, <1>4, <1>5, <1>7, <2>2, <3>1 DEF insert
      <4>2. k \in drain'.real <=> Outcome(k, insert) = "real"
        BY <1>1, <1>7, <4>1 DEF Counted, insert
      <4> QED
        BY <1>1, <1>2, <1>7, <3>1, <4>1, <4>2
    <3>2. CASE j # k
      <4>1. j \in drain.real \cup drain.sentinel /\ (j \in drain'.real <=> j \in drain.real)
        BY <1>1, <1>5, <2>2, <3>2
      <4> QED
        BY <1>1, <1>3, <4>1 DEF CountedIsSo
    <3> QED
      BY <3>1, <3>2
  <2> QED
    BY <1>1, <2>1, <2>2 DEF CountedIsSo, Tried
<1> QED
  BY <1>6, <1>8 DEF Attempts

\* What lands is the newest of its key, and its row.
LEMMA LandAttempts ==
    ASSUME TypesHold, Walk, Attempts, NEW i \in inserts, Land(i)
    PROVE  Attempts'
<1>1. /\ UNCHANGED <<base, drain>> /\ inserts' = inserts \ {i} /\ i \in Inserts /\ i.key \in Keys
      /\ row' \in [Keys -> Rows] /\ \A k \in Keys \ {i.key} : row'[k] = row[k]
      /\ i.version >= row[i.key].version => row'[i.key] = RowOf(i)
      /\ TriedNow(i.key)
  BY LandIs
<1>2. Walking' <=> Walking
  BY <1>1 DEF Walking
<1>3. ASSUME Walking PROVE OneAttempt' /\ SentIsKept' /\ CountedIsSo'
  <2>1. Reach /\ OneAttempt /\ SentIsKept /\ CountedIsSo
    BY <1>3 DEF Walk, Attempts
  <2>2. row'[i.key] = RowOf(i)
    <3>1. row[i.key].version < i.version
      BY <2>1 DEF OneAttempt
    <3>2. row[i.key].version \in Nat /\ i.version \in Nat
      BY <1>1 DEF TypesHold, TableShapes, Rows, Inserts
    <3> QED
      BY <1>1, <3>1, <3>2
  <2>3. \A j \in inserts' : j \in inserts /\ j.key # i.key /\ j.key \in Keys
    BY <1>1, <2>1 DEF OneAttempt, TypesHold, TableShapes, Inserts
  <2>4. OneAttempt'
    BY <1>1, <2>1, <2>3 DEF OneAttempt
  <2>5. ASSUME NEW k \in DOMAIN drain.tasks, drain.tasks[k].pc = "sent"
        PROVE  drain.tasks[k].insert \in inserts' \/ row'[k] = RowOf(drain.tasks[k].insert)
    <3>1. k \in Keys /\ drain.tasks[k].insert \in Inserts /\ drain.tasks[k].insert.key = k
      BY <2>5, SentTask
    <3>2. CASE k = i.key
      <4>1. drain.tasks[k] = Sent(i)
        BY <2>1, <2>5, <3>2 DEF OneAttempt, Sent
      <4>2. drain.tasks[k].insert = i
        BY <1>1, <4>1, SentIs
      <4> QED
        BY <2>2, <3>2, <4>2
    <3>3. CASE k # i.key
      BY <1>1, <2>1, <2>5, <3>1, <3>3 DEF SentIsKept
    <3> QED
      BY <3>2, <3>3
  <2>6. SentIsKept'
    BY <1>1, <2>5 DEF SentIsKept
  <2>7. \A k \in Keys : Tried(k) => TriedNow(k)
    BY <1>1 DEF Tried, TriedNow
  <2>8. CountedIsSo'
    <3>1. \A k \in drain.real \cup drain.sentinel : k \in Keys /\ k # i.key
      BY <2>1 DEF CountedIsSo, Reach
    <3> QED
      BY <1>1, <2>1, <2>3, <2>7, <3>1 DEF CountedIsSo, Tried, TriedNow
  <2> QED
    BY <2>4, <2>6, <2>8
<1> QED
  BY <1>2, <1>3 DEF Attempts

-----------------------------------------------------------------------------
(* The invariant.                                                          *)

Holds == /\ TypesHold /\ Delivery /\ Walk
         /\ ~ Beside => Values /\ Attempts

LEMMA InvIs == /\ EnrichmentInv <=> Holds
               /\ EnrichmentInv' <=> Holds'
  BY ShapesAre DEF EnrichmentInv, Holds, TypesHold, AloneInv, Attempts

LEMMA InitHolds ==
    ASSUME EnrichmentAssumption, EnrichmentInit
    PROVE  Holds
<1>1. /\ base = {} /\ row = [k \in Keys |-> Untried] /\ inserts = {}
      /\ queue = {} /\ dlq = {} /\ sent = {} /\ worker = Asleep /\ warm = [k \in Keys |-> 0]
      /\ drain = NoDrain /\ clock = 0
      /\ source \in [Keys \cup Collections -> {"real", "gone", "down"}]
      /\ count = [messages |-> 0, faults |-> 0, changes |-> 1, drains |-> 0]
  BY DEF EnrichmentInit
<1>2. /\ count \in [messages : Nat, faults : Nat, changes : Nat \ {0}, drains : Nat]
      /\ count.changes = 1
  BY <1>1
<1>3. TableShapes
  BY <1>1, <1>2, Constants DEF TableShapes
<1>4. WorkerShape
  BY <1>1, Constants DEF WorkerShape
<1>5. Exclusive /\ Tasks
  BY <1>1, Constants DEF Exclusive, Tasks, Draining, Modes
<1>6. Delivery
  BY <1>1 DEF Delivery, AckedIsTried
<1>7. Values
  <2>1. \A k \in Keys : Entries(k) = {Untried}
    BY <1>1 DEF Entries
  <2>2. \A k \in Keys : Truthful(k, Untried)
    BY <1>2, Constants DEF Truthful
  <2>3. StoredValues
    BY <1>1, <2>1, <2>2, Constants DEF StoredValues, Supersedes
  <2>4. WarmValues
    BY <1>1, <1>2 DEF WarmValues
  <2> QED
    BY <1>1, <2>3, <2>4, Constants, ValuesAre
<1>8. Walk /\ Attempts
  BY <1>1, Constants DEF Walk, Attempts, Walking, Modes
<1> QED
  BY <1>1, <1>3, <1>4, <1>5, <1>6, <1>7, <1>8 DEF Holds, TypesHold

LEMMA IndexHolds ==
    ASSUME EnrichmentAssumption, Holds, NEW ks \in SUBSET Keys, NEW lost, NEW fails,
           Index(ks, fails, lost)
    PROVE  Holds'
<1>1. /\ UNCHANGED <<row, inserts, dlq, worker, warm, drain, source, clock>> /\ base \subseteq base'
  BY IndexShapes DEF Holds, TypesHold
<1> QED
  BY <1>1, IndexTypes, IndexDelivery, WalkStays, IndexValues, AttemptsStay DEF Holds

LEMMA SourceHolds ==
    ASSUME Holds, NEW s, NEW a \in {"real", "gone", "down"}, SourceChanges(s, a)
    PROVE  Holds'
<1>1. UNCHANGED <<base, row, inserts, queue, dlq, sent, worker, warm, drain, clock>>
  BY DEF SourceChanges
<1> QED
  BY <1>1, SourceTypes, DeliveryStays, WalkStays, SourceValues, AttemptsStay DEF Holds

\* The steps of the worker leave the drain, the rows and the tables.
LEMMA ReceiveHolds ==
    ASSUME Holds, NEW ms \in SUBSET queue, Receive(ms)
    PROVE  Holds'
<1>1. UNCHANGED <<base, row, inserts, drain>>
  BY DEF Receive
<1> QED
  BY <1>1, ReceiveTypes, ReceiveDelivery, WalkStays, ReceiveValues, AttemptsStay DEF Holds

LEMMA WorkerHolds ==
    ASSUME EnrichmentAssumption, Holds, WorkerFetch \/ WorkerInsert
    PROVE  Holds'
<1>1. worker.batch # {} /\ drain' = drain /\ base' = base
  BY DEF WorkerFetch, WorkerInsert
<1>2. TypesHold' /\ Delivery' /\ Walk'
  BY <1>1, WorkerFetchTypes, WorkerInsertTypes, FetchDelivery, WalkStays DEF Holds
<1>3. ASSUME ~ Beside PROVE Values' /\ Attempts'
  <2>1. drain' = NoDrain
    BY <1>1, <1>3, WorkerOn, WorkerAlone DEF Holds, TypesHold
  <2> QED
    BY <1>3, <2>1, WorkerFetchValues, WorkerInsertValues, IdleAttempts DEF Holds
<1> QED
  BY <1>2, <1>3 DEF Holds

LEMMA RecordHolds ==
    ASSUME EnrichmentAssumption, Holds, NEW fails \in BOOLEAN, Record(fails)
    PROVE  Holds'
<1>1. UNCHANGED <<base, row, inserts, drain>>
  BY RecordIs DEF Holds
<1> QED
  BY <1>1, RecordTypes, RecordDelivery, WalkStays, RecordValues, AttemptsStay DEF Holds

LEMMA DoneHolds ==
    ASSUME Holds, Done
    PROVE  Holds'
<1>1. UNCHANGED <<base, row, inserts, drain>>
  BY DEF Done
<1> QED
  BY <1>1, DoneTypes, DoneDelivery, WalkStays, DoneValues, AttemptsStay DEF Holds

LEMMA CrashHolds ==
    ASSUME EnrichmentAssumption, Holds, Crash
    PROVE  Holds'
<1>1. UNCHANGED <<base, row, inserts, drain>>
  BY CrashIs
<1> QED
  BY <1>1, CrashTypes, CrashDelivery, WalkStays, CrashValues, AttemptsStay DEF Holds

LEMMA DuplicateHolds ==
    ASSUME Holds, NEW k \in Keys, Duplicate(k)
    PROVE  Holds'
<1>1. UNCHANGED <<base, row, inserts, drain>>
  BY DEF Duplicate
<1> QED
  BY <1>1, DuplicateTypes, DuplicateDelivery, WalkStays, DuplicateValues, AttemptsStay DEF Holds

LEMMA LandHolds ==
    ASSUME Holds, NEW i \in inserts, Land(i)
    PROVE  Holds'
<1>1. UNCHANGED <<base, drain, queue, dlq, sent, worker>>
  BY LandIs DEF Holds
<1> QED
  BY <1>1, LandTypes, DeliveryStays, WalkStays, LandValues, LandAttempts DEF Holds

LEMMA StartHolds ==
    ASSUME EnrichmentAssumption, Holds, NEW mode, NEW kind, StartDrain(mode, kind)
    PROVE  Holds'
<1>1. UNCHANGED <<queue, dlq, sent, worker>>
  BY DEF StartDrain
<1> QED
  BY <1>1, StartTypes, DeliveryStays, StartWalk, StartValues, StartAttempts DEF Holds

LEMMA SelectHolds ==
    ASSUME EnrichmentAssumption, Holds, Select
    PROVE  Holds'
<1>1. UNCHANGED <<queue, dlq, sent, worker>>
  BY DEF Select
<1> QED
  BY <1>1, SelectTypes, DeliveryStays, SelectWalk, SelectValues, SelectAttempts DEF Holds

LEMMA DrainFetchHolds ==
    ASSUME EnrichmentAssumption, Holds, NEW k, DrainFetch(k)
    PROVE  Holds'
<1>1. UNCHANGED <<queue, dlq, sent, worker>>
  BY DEF DrainFetch
<1> QED
  BY <1>1, DrainFetchTypes, DeliveryStays, DrainFetchWalk, DrainFetchValues, DrainFetchAttempts
     DEF Holds

LEMMA DrainInsertHolds ==
    ASSUME Holds, NEW k, DrainInsert(k)
    PROVE  Holds'
<1>1. UNCHANGED <<queue, dlq, sent, worker>>
  BY DEF DrainInsert
<1> QED
  BY <1>1, DrainInsertTypes, DeliveryStays, DrainInsertWalk, DrainInsertValues, DrainInsertAttempts
     DEF Holds

LEMMA TallyHolds ==
    ASSUME Holds, NEW k, NEW fails \in BOOLEAN, Tally(k, fails)
    PROVE  Holds'
<1>1. UNCHANGED <<queue, dlq, sent, worker>>
  BY DEF Tally
<1> QED
  BY <1>1, TallyTypes, DeliveryStays, TallyWalk, TallyValues, TallyAttempts DEF Holds

LEMMA CollectionHolds ==
    ASSUME Holds, NEW c, NEW fails \in BOOLEAN, CollectionName(c, fails)
    PROVE  Holds'
<1>1. UNCHANGED <<queue, dlq, sent, worker>>
  BY DEF CollectionName
<1>2. drain'.mode = "CollectionName"
  BY CollectionIs DEF Holds
<1> QED
  BY <1>1, <1>2, CollectionTypes, DeliveryStays, IdleWalk, CollectionValues, IdleAttempts DEF Holds

LEMMA EndHolds ==
    ASSUME Holds, EndDrain
    PROVE  Holds'
<1>1. UNCHANGED <<queue, dlq, sent, worker>> /\ drain' = NoDrain
  BY DEF EndDrain
<1> QED
  BY <1>1, EndTypes, DeliveryStays, IdleWalk, EndValues, IdleAttempts DEF Holds

LEMMA StutterHolds ==
    ASSUME Holds, UNCHANGED enrichmentVars
    PROVE  Holds'
  BY StutterTypes, DeliveryStays, WalkStays, StutterValues, AttemptsStay DEF Holds, enrichmentVars

\* What a step can be.
Steps ==
    \/ \E ks \in SUBSET Keys, lost \in SUBSET Keys, fails \in BOOLEAN : Index(ks, fails, lost)
    \/ \E s \in Keys \cup Collections, a \in {"real", "gone", "down"} : SourceChanges(s, a)
    \/ \E ms \in SUBSET queue : Receive(ms)
    \/ WorkerFetch \/ WorkerInsert
    \/ \E fails \in BOOLEAN : Record(fails)
    \/ Done \/ Crash
    \/ \E k \in Keys : Duplicate(k)
    \/ \E i \in inserts : Land(i)
    \/ \E mode \in Modes, kind \in {AssetKeys, NftKeys} : StartDrain(mode, kind)
    \/ Select
    \/ \E k \in Keys : DrainFetch(k)
    \/ \E k \in Keys : DrainInsert(k)
    \/ \E k \in Keys, fails \in BOOLEAN : Tally(k, fails)
    \/ \E c \in Collections, fails \in BOOLEAN : CollectionName(c, fails)
    \/ EndDrain

LEMMA NextIs ==
    ASSUME EnrichmentNext
    PROVE  Steps
<1>1. CASE WorkerStep
  BY <1>1 DEF WorkerStep, Steps
<1>2. CASE DrainStep
  BY <1>2 DEF DrainStep, Steps
<1>3. CASE ~ WorkerStep /\ ~ DrainStep
  BY <1>3 DEF EnrichmentNext, Steps
<1> QED
  BY <1>1, <1>2, <1>3

LEMMA NextHolds ==
    ASSUME EnrichmentAssumption, Holds, [EnrichmentNext]_enrichmentVars
    PROVE  Holds'
<1>1. CASE Steps
  BY <1>1, IndexHolds, SourceHolds, ReceiveHolds, WorkerHolds, RecordHolds, DoneHolds, CrashHolds,
     DuplicateHolds, LandHolds, StartHolds, SelectHolds, DrainFetchHolds, DrainInsertHolds,
     TallyHolds, CollectionHolds, EndHolds DEF Steps
<1>2. CASE UNCHANGED enrichmentVars
  BY <1>2, StutterHolds
<1> QED
  BY <1>1, <1>2, NextIs

-----------------------------------------------------------------------------
(* What follows.                                                           *)

\* Rows are written by an insert that lands and by the rewrite of names only.
LEMMA WhoWrites ==
    ASSUME Holds, Steps
    PROVE  \/ row' = row
           \/ \E i \in inserts : Land(i)
           \/ \E c \in Collections, fails \in BOOLEAN : CollectionName(c, fails)
<1>1. ASSUME NEW ks, NEW lost, NEW fails, Index(ks, fails, lost) PROVE row' = row
  BY <1>1 DEF Index
<1>2. ASSUME NEW s, NEW a, SourceChanges(s, a) PROVE row' = row
  BY <1>2 DEF SourceChanges
<1>3. ASSUME NEW ms, Receive(ms) PROVE row' = row
  BY <1>3 DEF Receive
<1>4. ASSUME NEW fails, Record(fails) PROVE row' = row
  BY <1>4 DEF Record
<1>5. ASSUME NEW k, Duplicate(k) PROVE row' = row
  BY <1>5 DEF Duplicate
<1>6. ASSUME NEW mode, NEW kind, StartDrain(mode, kind) PROVE row' = row
  BY <1>6 DEF StartDrain
<1>7. ASSUME NEW k, DrainFetch(k) \/ DrainInsert(k) PROVE row' = row
  BY <1>7 DEF DrainFetch, DrainInsert
<1>8. ASSUME NEW k, NEW fails, Tally(k, fails) PROVE row' = row
  BY <1>8 DEF Tally
<1>9. ASSUME WorkerFetch \/ WorkerInsert \/ Done \/ Crash \/ Select \/ EndDrain PROVE row' = row
  BY <1>9 DEF WorkerFetch, WorkerInsert, Done, Crash, Select, EndDrain
<1> QED
  BY <1>1, <1>2, <1>3, <1>4, <1>5, <1>6, <1>7, <1>8, <1>9 DEF Steps

LEMMA LandKeeps ==
    ASSUME ~ Beside, Holds, NEW i \in inserts, Land(i)
    PROVE  KeepsValues
<1>1. /\ i.key \in Keys /\ i \in Inserts /\ \A k \in Keys \ {i.key} : row'[k] = row[k]
      /\ i.version >= row[i.key].version => row'[i.key] = RowOf(i)
      /\ ~ (i.version >= row[i.key].version) => row'[i.key] = row[i.key]
  BY LandIs DEF Holds
<1>2. ASSUME NEW k \in Keys PROVE row'[k] = row[k] \/ Supersedes(row'[k], row[k])
  <2>1. CASE k = i.key /\ i.version >= row[k].version
    <3>1. row[k] \in Entries(k) /\ RowOf(i) \in Entries(k)
      BY <2>1 DEF Entries
    <3>2. row[k].version <= RowOf(i).version
      <4>1. row[k].version \in Nat /\ i.version \in Nat /\ RowOf(i).version = i.version
        BY <1>1, RowOfIs DEF Holds, TypesHold, TableShapes, Rows, Inserts
      <4> QED
        BY <2>1, <4>1
    <3> QED
      BY <1>1, <2>1, <3>1, <3>2, ValuesAre DEF Holds, StoredValues
  <2>2. CASE ~ (k = i.key /\ i.version >= row[k].version)
    BY <1>1, <2>2
  <2> QED
    BY <2>1, <2>2
<1>3. ASSUME NEW k \in Keys
      PROVE  /\ row[k].meta /\ ~ row'[k].meta => row[k].seen < row'[k].seen
             /\ row[k].coll /\ ~ row'[k].coll => row[k].named < row'[k].named
  BY <1>2 DEF Supersedes
<1>4. ASSUME NEW k \in Keys
      PROVE  {row[k].seen, row'[k].seen, row[k].named, row'[k].named} \subseteq Nat
  BY LandTypes DEF Holds, TypesHold, TableShapes, Rows
<1> QED
  BY <1>3, <1>4 DEF KeepsValues

LEMMA CollectionKeeps ==
    ASSUME Holds, NEW c, NEW fails \in BOOLEAN, CollectionName(c, fails)
    PROVE  KeepsValues
<1>1. \A k \in Keys : row'[k] # row[k] => k \in Named(c) /\ row'[k] = RowOf(Renamed(k, clock + 1))
  BY CollectionIs DEF Holds
<1>2. clock + 1 \in Nat \ {0}
  BY DEF Holds, TypesHold, TableShapes
<1>3. ASSUME NEW k \in Keys, row'[k] # row[k]
      PROVE  row'[k].meta = row[k].meta /\ row'[k].coll = TRUE
  <2> DEFINE i == Renamed(k, clock + 1)
  <2>1. i \in Inserts /\ i.meta = row[k].meta /\ i.coll = TRUE
    BY <1>2, RenamedIs DEF Holds, TypesHold
  <2>2. row'[k] = RowOf(i)
    BY <1>1, <1>3
  <2> HIDE DEF i
  <2> QED
    BY <2>1, <2>2, RowOfIs
<1> QED
  BY <1>3 DEF KeepsValues

LEMMA StepKeepsThem ==
    ASSUME ~ Beside, Holds, Steps
    PROVE  KeepsValues
<1>1. CASE row' = row
  BY <1>1 DEF KeepsValues
<1> QED
  BY <1>1, WhoWrites, LandKeeps, CollectionKeeps

\* A drain goes on until EndDrain.
LEMMA ModeStays ==
    ASSUME Holds, Steps, drain.mode # "none"
    PROVE  EndDrain \/ drain'.mode = drain.mode
<1>1. ASSUME NEW ks, NEW lost, NEW fails, Index(ks, fails, lost) PROVE drain' = drain
  BY <1>1 DEF Index
<1>2. ASSUME NEW s, NEW a, SourceChanges(s, a) PROVE drain' = drain
  BY <1>2 DEF SourceChanges
<1>3. ASSUME NEW ms, Receive(ms) PROVE drain' = drain
  BY <1>3 DEF Receive
<1>4. ASSUME NEW fails, Record(fails) PROVE drain' = drain
  BY <1>4 DEF Record
<1>5. ASSUME NEW k, Duplicate(k) PROVE drain' = drain
  BY <1>5 DEF Duplicate
<1>6. ASSUME NEW mode, NEW kind, StartDrain(mode, kind) PROVE FALSE
  BY <1>6 DEF StartDrain, Draining
<1>7. ASSUME NEW k, DrainFetch(k) PROVE drain'.mode = drain.mode
  <2>1. /\ k \in DOMAIN drain.tasks
        /\ drain' = [drain EXCEPT !.tasks = With(drain.tasks, k, Fetched(k, [j \in Keys |-> 0]))]
    BY <1>7, DrainFetchIs DEF Holds
  <2> QED
    BY <2>1, DrainWith DEF Holds, TypesHold
<1>8. ASSUME NEW k, DrainInsert(k) PROVE drain'.mode = drain.mode
  BY <1>8, DrainInsertIs DEF Holds
<1>9. ASSUME NEW k, NEW fails \in BOOLEAN, Tally(k, fails) PROVE drain'.mode = drain.mode
  BY <1>9, TallyIs DEF Holds
<1>10. ASSUME NEW c, NEW fails \in BOOLEAN, CollectionName(c, fails) PROVE drain'.mode = drain.mode
  BY <1>10, CollectionIs DEF Holds
<1>11. ASSUME Select PROVE drain'.mode = drain.mode
  BY <1>11, SelectIs DEF Holds
<1>12. ASSUME WorkerFetch \/ WorkerInsert \/ Done \/ Crash PROVE drain' = drain
  BY <1>12 DEF WorkerFetch, WorkerInsert, Done, Crash
<1>13. ASSUME NEW i, Land(i) PROVE drain' = drain
  BY <1>13 DEF Land
<1> QED
  BY <1>1, <1>2, <1>3, <1>4, <1>5, <1>6, <1>7, <1>8, <1>9, <1>10, <1>11, <1>12, <1>13 DEF Steps

\* At its end nothing is left after the cursor, and nothing under way.
LEMMA EndCovers ==
    ASSUME EnrichmentAssumption, Holds, EndDrain
    PROVE  DrainCovers /\ (~ Beside => ReportAgrees)
<1>1. DOMAIN drain.tasks = {}
  BY DEF EndDrain
<1>2. ASSUME drain.mode = "Untried", ~ drain.failed, NEW k \in drain.known PROVE Tried(k)
  <2>1. Walking /\ Reach /\ Passed
    BY <1>2 DEF Holds, Walk, Walking, Modes
  <2>2. k \in base \cap drain.kind /\ k \in Nat /\ drain.kind \in SUBSET Keys /\ drain.after \in Nat
    BY <2>1 DEF Reach, EnrichmentAssumption
  <2>3. CASE k <= drain.after
    BY <1>1, <1>2, <2>1, <2>3 DEF Passed
  <2>4. CASE k > drain.after
    <3>1. {j \in Candidates(drain.mode, drain.kind) : j > drain.after} = {}
      <4>1. Chunk(drain.mode, drain.kind, drain.after) = {}
        BY <1>2 DEF EndDrain
      <4> QED
        BY <2>1, <2>2, <4>1, ChunkIs DEF Walking
    <3>2. k \notin Candidates(drain.mode, drain.kind)
      BY <2>4, <3>1
    <3> QED
      BY <1>2, <2>2, <3>2 DEF Candidates, Unenriched
  <2> QED
    BY <2>2, <2>3, <2>4
<1>3. ASSUME ~ Beside, drain.mode \in {"Untried", "Sentinels", "All"}
      PROVE  /\ drain.sentinel \subseteq Candidates("Sentinels", drain.kind)
             /\ drain.real \cap Candidates("Sentinels", drain.kind) = {}
  <2>1. CountedIsSo
    BY <1>3 DEF Holds, Attempts, Walking, Modes
  <2>2. Candidates("Sentinels", drain.kind) = {k \in base \cap drain.kind : Tried(k) /\ ~ row[k].meta}
    BY DEF Candidates
  <2> QED
    BY <2>1, <2>2 DEF CountedIsSo
<1> QED
  BY <1>2, <1>3 DEF DrainCovers, ReportAgrees

LEMMA StepReports ==
    ASSUME EnrichmentAssumption, Holds, Steps
    PROVE  DrainCovers /\ (~ Beside => ReportAgrees)
<1>1. CASE drain.mode = "none" \/ drain'.mode # "none"
  BY <1>1 DEF DrainCovers, ReportAgrees
<1>2. CASE drain.mode # "none" /\ drain'.mode = "none"
  BY <1>2, ModeStays, EndCovers
<1> QED
  BY <1>1, <1>2

(***************************************************************************)
(* Everything the two processes rely on: no message is held without a      *)
(* reason and a drain passes no key over, beside the worker or in its      *)
(* place; and in its place, what is stored or on its way says what was so  *)
(* when it was read, of two entries of a key the later one supersedes the  *)
(* other, and a drain has one attempt at a key.                            *)
(***************************************************************************)
THEOREM EnrichmentInvariant ==
    ASSUME EnrichmentAssumption
    PROVE  EnrichmentSpec => []EnrichmentInv
<1>1. EnrichmentInit => Holds
  BY InitHolds
<1>2. Holds /\ [EnrichmentNext]_enrichmentVars => Holds'
  BY NextHolds
<1>3. Holds => EnrichmentInv
  BY InvIs
<1> QED
  BY <1>1, <1>2, <1>3, PTL DEF EnrichmentSpec

(***************************************************************************)
(* Whatever fails, crashes, lands late or comes twice: a published key has *)
(* a row, a message in the queue or a dead letter (handle_event,           *)
(* classify_outcome).                                                      *)
(***************************************************************************)
THEOREM AckedKeysAreTried ==
    ASSUME EnrichmentAssumption
    PROVE  EnrichmentSpec => []AckedIsTried
<1>1. EnrichmentInv => AckedIsTried
  BY DEF EnrichmentInv, Delivery
<1> QED
  BY <1>1, EnrichmentInvariant, PTL

(***************************************************************************)
(* A drain of the untried keys that reports no failure leaves a row for    *)
(* every key the tables held when it began, whatever the worker does       *)
(* beside it (select_sep1_chunk, collect_join, tally).                     *)
(***************************************************************************)
THEOREM DrainsCoverTheirKeys ==
    ASSUME EnrichmentAssumption
    PROVE  EnrichmentSpec => [][DrainCovers]_enrichmentVars
<1>1. Holds /\ EnrichmentNext => DrainCovers
  BY NextIs, StepReports
<1>2. EnrichmentInv => Holds
  BY InvIs
<1> QED
  BY <1>1, <1>2, EnrichmentInvariant, PTL DEF EnrichmentSpec

(***************************************************************************)
(* While no drain runs beside the worker, a value disappears only for an   *)
(* answer that is newer than the value (now_ms as the version,             *)
(* rewrite_nft_collection_name).                                           *)
(***************************************************************************)
THEOREM ValuesAreKept ==
    ASSUME EnrichmentAssumption, ~ Beside
    PROVE  EnrichmentSpec => ValuesKept
<1>1. Holds /\ EnrichmentNext => KeepsValues
  BY NextIs, StepKeepsThem
<1>2. EnrichmentInv => Holds
  BY InvIs
<1> QED
  BY <1>1, <1>2, EnrichmentInvariant, PTL DEF EnrichmentSpec, ValuesKept

(***************************************************************************)
(* What a drain in the worker's place reports as sentinels is what         *)
(* --retry-sentinels walks (collect_join, tally, print_report).            *)
(***************************************************************************)
THEOREM ReportsAgree ==
    ASSUME EnrichmentAssumption, ~ Beside
    PROVE  EnrichmentSpec => [][ReportAgrees]_enrichmentVars
<1>1. Holds /\ EnrichmentNext => ReportAgrees
  BY NextIs, StepReports
<1>2. EnrichmentInv => Holds
  BY InvIs
<1> QED
  BY <1>1, <1>2, EnrichmentInvariant, PTL DEF EnrichmentSpec

-----------------------------------------------------------------------------
(* The fetcher.                                                            *)

\* A rotation goes round the pool at most once.
LEMMA RotationIs ==
    ASSUME FetcherAssumption, NEW s \in 0..(Nodes - 1), NEW i \in 0..(Nodes - 1)
    PROVE  Rotation(s, i) = IF s + i < Nodes THEN s + i ELSE s + i - Nodes
<1> DEFINE q == (s + i) \div Nodes
           m == (s + i) % Nodes
<1>1. Nodes \in Nat /\ Nodes > 0 /\ s \in Nat /\ i \in Nat
  BY DEF FetcherAssumption
<1>2. q \in Int /\ m \in 0..(Nodes - 1) /\ s + i = Nodes * q + m
  BY <1>1
<1>3. q = 0 \/ q = 1
  <2>1. q < 0 => Nodes * q <= -Nodes
    BY <1>1, <1>2
  <2>2. q > 1 => Nodes * q >= 2 * Nodes
    BY <1>1, <1>2
  <2> QED
    BY <1>1, <1>2, <2>1, <2>2
<1> HIDE DEF q, m
<1> QED
  BY <1>1, <1>2, <1>3 DEF Rotation, m

LEMMA RotationInPool ==
    ASSUME FetcherAssumption, NEW s \in 0..(Nodes - 1), NEW i \in 0..(Nodes - 1)
    PROVE  Rotation(s, i) \in 0..(Nodes - 1)
BY RotationIs DEF FetcherAssumption

LEMMA RotationDiffers ==
    ASSUME FetcherAssumption, NEW s \in 0..(Nodes - 1),
           NEW i \in 0..(Nodes - 1), NEW j \in 0..(Nodes - 1), i # j
    PROVE  Rotation(s, i) # Rotation(s, j)
BY RotationIs DEF FetcherAssumption

\* One more attempt asks one more endpoint.
LEMMA TriesOn ==
    ASSUME FetcherAssumption, NEW a \in LoadRecords, AskedInTurn(a), a.pc \in {"rpc", "ipfs"},
           a.tried + 1 < IF a.pc = "rpc" THEN Nodes ELSE Gateways,
           NEW b, b = [a EXCEPT !.tried = @ + 1, !.asked = @ \cup {EndpointOf(a, a.tried)}]
    PROVE  b \in LoadRecords /\ AskedInTurn(b)
<1> DEFINE e == EndpointOf(a, a.tried)
<1>1. a.tried \in Nat /\ a.start \in 0..(Nodes - 1)
  BY DEF LoadRecords
<1>2. e \in Nat /\ e \notin a.asked
  <2>1. CASE a.pc = "rpc"
    <3>1. a.tried \in 0..(Nodes - 1)
      BY <1>1, <2>1 DEF FetcherAssumption
    <3>2. e = Rotation(a.start, a.tried) /\ e \in 0..(Nodes - 1)
      BY <1>1, <2>1, <3>1, RotationInPool DEF EndpointOf
    <3>3. ASSUME NEW i \in 0..(a.tried - 1) PROVE EndpointOf(a, i) # e
      <4>1. i \in 0..(Nodes - 1) /\ i # a.tried
        BY <1>1, <3>1 DEF FetcherAssumption
      <4>2. Rotation(a.start, i) # Rotation(a.start, a.tried)
        BY <1>1, <3>1, <4>1, RotationDiffers
      <4> QED
        BY <2>1, <3>2, <4>2 DEF EndpointOf
    <3> HIDE DEF e
    <3> QED
      BY <3>2, <3>3 DEF AskedInTurn, FetcherAssumption
  <2>2. CASE a.pc = "ipfs"
    BY <1>1, <2>2 DEF EndpointOf, AskedInTurn
  <2> QED
    BY <2>1, <2>2
<1>3. b \in LoadRecords /\ b.pc = a.pc /\ b.start = a.start /\ b.tried = a.tried + 1 /\ b.asked = a.asked \cup {e}
  <2> HIDE DEF e
  <2>1. b = [a EXCEPT !.tried = @ + 1, !.asked = @ \cup {e}]
    BY DEF e
  <2>2. a.asked \cup {e} \in SUBSET Nat /\ a.tried + 1 \in Nat
    BY <1>1, <1>2 DEF LoadRecords
  <2> DEFINE more == a.asked \cup {e}
             tries == a.tried + 1
  <2> HIDE DEF more, tries
  <2>3. b = [a EXCEPT !.tried = tries, !.asked = more] /\ more \in SUBSET Nat /\ tries \in Nat
    BY <2>1, <2>2 DEF more, tries
  <2>4. b \in LoadRecords /\ b.pc = a.pc /\ b.start = a.start /\ b.tried = tries /\ b.asked = more
    BY <2>3 DEF LoadRecords
  <2> QED
    BY <2>4 DEF more, tries
<1>4. \A i : EndpointOf(b, i) = EndpointOf(a, i)
  BY <1>3 DEF EndpointOf
<1>5. b.asked = {EndpointOf(b, i) : i \in 0..(b.tried - 1)}
  <2>1. b.tried - 1 = a.tried /\ 0..(b.tried - 1) = (0..(a.tried - 1)) \cup {a.tried}
    BY <1>1, <1>3
  <2>2. a.asked = {EndpointOf(a, i) : i \in 0..(a.tried - 1)}
    BY DEF AskedInTurn
  <2>3. {EndpointOf(b, i) : i \in 0..(b.tried - 1)} = {EndpointOf(a, i) : i \in 0..(a.tried - 1)} \cup {e}
    <3>1. ASSUME NEW i \in 0..(b.tried - 1) PROVE EndpointOf(b, i) \in {EndpointOf(a, j) : j \in 0..(a.tried - 1)} \cup {e}
      BY <1>4, <2>1
    <3>2. ASSUME NEW i \in 0..(a.tried - 1) PROVE EndpointOf(a, i) \in {EndpointOf(b, j) : j \in 0..(b.tried - 1)}
      <4>1. i \in 0..(b.tried - 1) /\ EndpointOf(a, i) = EndpointOf(b, i)
        BY <1>4, <2>1
      <4> QED
        BY <4>1
    <3>3. e \in {EndpointOf(b, j) : j \in 0..(b.tried - 1)}
      <4>1. a.tried \in 0..(b.tried - 1) /\ e = EndpointOf(b, a.tried)
        BY <1>4, <2>1
      <4> QED
        BY <4>1
    <3> HIDE DEF e
    <3> QED
      BY <3>1, <3>2, <3>3
  <2> QED
    BY <1>3, <2>2, <2>3
<1>6. IsFiniteSet(b.asked) /\ Cardinality(b.asked) = b.tried
  <2>1. IsFiniteSet(a.asked) /\ Cardinality(a.asked) = a.tried
    BY DEF AskedInTurn
  <2>2. IsFiniteSet(a.asked \cup {e}) /\ Cardinality(a.asked \cup {e}) = Cardinality(a.asked) + 1
    <3> HIDE DEF e
    <3> QED
      BY <1>2, <2>1, FS_AddElement
  <2> QED
    BY <1>3, <2>1, <2>2
<1> QED
  BY <1>3, <1>5, <1>6 DEF AskedInTurn

\* A load that begins has asked nobody.
LEMMA Fresh ==
    ASSUME FetcherAssumption, NEW a \in LoadRecords, a.tried = 0, a.asked = {}
    PROVE  AskedInTurn(a)
<1>1. 0..(a.tried - 1) = {}
  OBVIOUS
<1> QED
  BY <1>1, FS_EmptySet DEF AskedInTurn, FetcherAssumption

Results == {"string", "fails", "badMetadata", "busy", "refused", "redirects"}

\* The result of a load reaches all who wait for it.
LEMMA Finishing ==
    ASSUME FetcherAssumption, FetcherInv, NEW k \in Loads, load[k].pc # "none",
           NEW result \in Results, NEW heard \in BOOLEAN, Finish(k, result, heard),
           UNCHANGED <<node, gateway, contract, cursor, tally>>
    PROVE  /\ FetcherInv'
           /\ load' = [load EXCEPT ![k] = NoLoad]
           /\ \E c \in Callers : caller'[c].key = k /\ caller'[c].heard = heard
<1> DEFINE value == Folded(k, result)
<1>1. value \in Answers \cup EndpointStates /\ value # Empty
  BY DEF Folded, Results, Answers, EndpointStates, Empty
<1>2. value = "none" => k = Name
  BY DEF Folded, Results
<1> HIDE DEF value
<1>3. load' = [load EXCEPT ![k] = NoLoad] /\ NoLoad \in LoadRecords /\ NoLoad.pc = "none"
  <2>1. load' = [load EXCEPT ![k] = NoLoad]
    BY DEF Finish
  <2>2. 0 \in 0..(Nodes - 1)
    BY DEF FetcherAssumption
  <2> QED
    BY <2>1, <2>2 DEF NoLoad, LoadRecords
<1> DEFINE answered(c) == [caller[c] EXCEPT !.got = value, !.heard = heard]
<1>4. cache' = IF value \in {"string", "none"} THEN [cache EXCEPT ![k] = value] ELSE cache
  BY DEF Finish, value
<1>5. caller' = [c \in Callers |-> IF caller[c].key = k /\ caller[c].got = Empty
                                    THEN answered(c) ELSE caller[c]]
  BY DEF Finish, value
<1>6. ASSUME NEW c \in Callers
       PROVE  /\ answered(c) \in CallerRecords /\ answered(c).key = caller[c].key
              /\ answered(c).got = value /\ answered(c).heard = heard
  <2>1. PICK r \in CallerRecords : r = caller[c]
    BY DEF FetcherInv, FetcherTypes
  <2>2. LET d == [r EXCEPT !.got = value, !.heard = heard]
        IN  d \in CallerRecords /\ d.key = r.key /\ d.got = value /\ d.heard = heard
    BY <1>1 DEF CallerRecords
  <2> QED
    BY <2>1, <2>2
<1> HIDE DEF answered
<1>7. FetcherTypes'
  <2>1. load' \in [Loads -> LoadRecords]
    BY <1>3 DEF FetcherInv, FetcherTypes
  <2>2. caller' \in [Callers -> CallerRecords]
    BY <1>5, <1>6 DEF FetcherInv, FetcherTypes
  <2>3. cache' \in [Loads -> {Empty, "string", "none"}] /\ \A t \in Tokens : cache'[t] \in {Empty, "string"}
    BY <1>2, <1>4 DEF FetcherInv, FetcherTypes, FetcherAssumption, Loads
  <2> QED
    BY <2>1, <2>2, <2>3 DEF FetcherInv, FetcherTypes
<1>8. ASSUME NEW c \in Callers
      PROVE  /\ caller'[c].key = caller[c].key
             /\ caller[c].key = k => caller'[c].got # Empty
             /\ caller[c].key # k => caller'[c] = caller[c]
             /\ caller[c].key = k /\ caller[c].got = Empty => caller'[c].heard = heard
  BY <1>1, <1>5, <1>6 DEF FetcherInv, FetcherTypes, CallerRecords
<1>9. WaitsForLoad'
  BY <1>3, <1>8 DEF FetcherInv, FetcherTypes, WaitsForLoad, CallerRecords
<1>10. ASSUME NEW j \in Loads, load'[j].pc # "none" PROVE Awaited(j)' /\ AskedInTurn(load[j])'
  <2>1. j # k /\ load'[j] = load[j]
    BY <1>3, <1>10 DEF FetcherInv, FetcherTypes
  <2>2. Awaited(j) /\ AskedInTurn(load[j])
    BY <1>10, <2>1 DEF FetcherInv
  <2> QED
    BY <1>8, <2>1, <2>2 DEF Awaited, AskedInTurn, EndpointOf
<1>11. \E c \in Callers : caller'[c].key = k /\ caller'[c].heard = heard
  BY <1>8 DEF FetcherInv, Awaited
<1> QED
  BY <1>3, <1>7, <1>9, <1>10, <1>11 DEF FetcherInv

-----------------------------------------------------------------------------

\* A step of an attempt: it fails over, keeping the load awaited, or ends.
LEMMA FailingOver ==
    ASSUME FetcherAssumption, FetcherInv, NEW k \in Loads, load[k].pc \in {"rpc", "ipfs"},
           NEW fault \in EndpointStates \ {"up"},
           FailOver(k, IF load[k].pc = "rpc" THEN Nodes ELSE Gateways,
                    EndpointOf(load[k], load[k].tried), fault),
           UNCHANGED <<node, gateway, contract, cursor, tally>>
    PROVE  FetcherInv' /\ AsksEveryEndpoint
<1> DEFINE pool == IF load[k].pc = "rpc" THEN Nodes ELSE Gateways
           e == EndpointOf(load[k], load[k].tried)
<1>1. load[k] \in LoadRecords /\ AskedInTurn(load[k]) /\ load[k].tried < pool
  BY DEF FetcherInv, FetcherTypes, AskedInTurn
<1>2. EndpointFault(fault)
  BY DEF EndpointFault, EndpointStates
<1>3. CASE load[k].tried + 1 < pool
  <2> DEFINE b == [load[k] EXCEPT !.tried = @ + 1, !.asked = @ \cup {e}]
  <2>1. load' = [load EXCEPT ![k].tried = @ + 1, ![k].asked = @ \cup {e}] /\ UNCHANGED <<cache, caller>>
    BY <1>2, <1>3 DEF FailOver
  <2>2. load' = [load EXCEPT ![k] = b]
    BY <2>1 DEF FetcherInv, FetcherTypes, LoadRecords
  <2>3. b \in LoadRecords /\ AskedInTurn(b)
    BY <1>1, <1>3, TriesOn
  <2>4. b.pc = load[k].pc
    BY <1>1 DEF LoadRecords
  <2> HIDE DEF b
  <2>5. FetcherTypes' /\ WaitsForLoad'
    <3>1. FetcherTypes'
      BY <2>1, <2>2, <2>3 DEF FetcherInv, FetcherTypes
    <3>2. \A j \in Loads : load'[j].pc = load[j].pc
      BY <2>2, <2>4 DEF FetcherInv, FetcherTypes
    <3>3. \A c \in Callers : caller[c].key \in Loads \cup {Empty}
      BY DEF FetcherInv, FetcherTypes, CallerRecords
    <3>4. WaitsForLoad'
      BY <2>1, <3>2, <3>3 DEF FetcherInv, WaitsForLoad
    <3> QED
      BY <3>1, <3>4
  <2>6. ASSUME NEW j \in Loads, load'[j].pc # "none" PROVE Awaited(j)' /\ AskedInTurn(load[j])'
    <3>1. load'[j].pc = load[j].pc /\ Awaited(j)
      BY <2>2, <2>4, <2>6 DEF FetcherInv, FetcherTypes
    <3>2. AskedInTurn(load'[j])
      BY <2>2, <2>3, <2>6, <3>1 DEF FetcherInv, FetcherTypes
    <3> QED
      BY <2>1, <3>1, <3>2 DEF Awaited, AskedInTurn, EndpointOf
  <2>7. AsksEveryEndpoint
    BY <2>2, <2>4 DEF AsksEveryEndpoint, FetcherInv, FetcherTypes
  <2> QED
    BY <2>5, <2>6, <2>7 DEF FetcherInv
<1>4. CASE ~ (load[k].tried + 1 < pool)
  <2>1. Finish(k, fault, FALSE) /\ fault \in Results
    BY <1>4 DEF FailOver, EndpointStates, Results
  <2>2. FetcherInv' /\ load' = [load EXCEPT ![k] = NoLoad]
    BY <2>1, Finishing
  <2>3. Cardinality(load[k].asked) + 1 = pool
    BY <1>1, <1>4 DEF AskedInTurn, LoadRecords, FetcherAssumption
  <2> QED
    BY <2>2, <2>3 DEF AsksEveryEndpoint, FetcherInv, FetcherTypes
<1> QED
  BY <1>3, <1>4

\* An answer is heard by somebody who waits.
LEMMA Answering ==
    ASSUME FetcherAssumption, FetcherInv, NEW k \in Loads, load[k].pc # "none",
           Finish(k, contract[k], TRUE), UNCHANGED <<node, gateway, contract, cursor, tally>>
    PROVE  FetcherInv' /\ AsksEveryEndpoint
<1>1. contract[k] \in Results
  BY DEF FetcherInv, FetcherTypes, Results
<1>2. /\ FetcherInv' /\ load' = [load EXCEPT ![k] = NoLoad]
      /\ \E c \in Callers : caller'[c].key = k /\ caller'[c].heard
  BY <1>1, Finishing
<1> QED
  BY <1>2 DEF AsksEveryEndpoint, FetcherInv, FetcherTypes

LEMMA NodeAsked ==
    ASSUME FetcherAssumption, FetcherInv, NEW k \in Loads, AskNode(k)
    PROVE  FetcherInv' /\ AsksEveryEndpoint
<1> DEFINE n == Rotation(load[k].start, load[k].tried)
<1>1. load[k].pc = "rpc" /\ UNCHANGED <<node, gateway, contract, cursor, tally>>
  BY DEF AskNode
<1>2. load[k] \in LoadRecords /\ AskedInTurn(load[k]) /\ n = EndpointOf(load[k], load[k].tried)
  BY <1>1 DEF FetcherInv, FetcherTypes, EndpointOf
<1>3. n \in 0..(Nodes - 1)
  <2>1. load[k].start \in 0..(Nodes - 1) /\ load[k].tried \in 0..(Nodes - 1)
    BY <1>1, <1>2 DEF LoadRecords, AskedInTurn, FetcherAssumption
  <2> QED
    BY <2>1, RotationInPool
<1>4. CASE node[n] # "up"
  <2>1. FailOver(k, Nodes, n, node[n])
    BY <1>4 DEF AskNode
  <2>2. node[n] \in EndpointStates \ {"up"}
    BY <1>3, <1>4 DEF FetcherInv, FetcherTypes
  <2> HIDE DEF n
  <2> QED
    BY <1>1, <1>2, <2>1, <2>2, FailingOver
<1>5. CASE node[n] = "up" /\ (k = Name \/ contract[k] = "fails")
  <2>1. Finish(k, contract[k], TRUE)
    BY <1>5 DEF AskNode
  <2> QED
    BY <1>1, <2>1, Answering
<1>6. CASE node[n] = "up" /\ ~ (k = Name \/ contract[k] = "fails")
  <2> DEFINE b == [NoLoad EXCEPT !.pc = "ipfs"]
  <2>1. load' = [load EXCEPT ![k] = b] /\ UNCHANGED <<cache, caller>>
    BY <1>6 DEF AskNode
  <2>2. b \in LoadRecords /\ b.pc = "ipfs" /\ b.tried = 0 /\ b.asked = {}
    <3>1. 0 \in 0..(Nodes - 1)
      BY DEF FetcherAssumption
    <3> QED
      BY <3>1 DEF NoLoad, LoadRecords
  <2>3. AskedInTurn(b)
    BY <2>2, Fresh
  <2> HIDE DEF b
  <2>4. FetcherTypes' /\ WaitsForLoad'
    BY <1>1, <2>1, <2>2 DEF FetcherInv, FetcherTypes, WaitsForLoad, CallerRecords
  <2>5. ASSUME NEW j \in Loads, load'[j].pc # "none" PROVE Awaited(j)' /\ AskedInTurn(load[j])'
    <3>1. load[j].pc # "none" /\ Awaited(j)
      BY <1>1, <2>1, <2>5 DEF FetcherInv, FetcherTypes
    <3>2. AskedInTurn(load'[j])
      BY <2>1, <2>3, <3>1 DEF FetcherInv, FetcherTypes
    <3> QED
      BY <2>1, <3>1, <3>2 DEF Awaited, AskedInTurn, EndpointOf
  <2>6. AsksEveryEndpoint
    BY <2>1, <2>2 DEF AsksEveryEndpoint, FetcherInv, FetcherTypes
  <2> QED
    BY <2>4, <2>5, <2>6 DEF FetcherInv
<1> QED
  BY <1>4, <1>5, <1>6

LEMMA GatewayAsked ==
    ASSUME FetcherAssumption, FetcherInv, NEW k \in Loads, AskGateway(k)
    PROVE  FetcherInv' /\ AsksEveryEndpoint
<1> DEFINE g == load[k].tried
<1>1. load[k].pc = "ipfs" /\ UNCHANGED <<node, gateway, contract, cursor, tally>>
  BY DEF AskGateway
<1>2. load[k] \in LoadRecords /\ AskedInTurn(load[k]) /\ g = EndpointOf(load[k], load[k].tried)
  BY <1>1 DEF FetcherInv, FetcherTypes, EndpointOf
<1>3. g \in 0..(Gateways - 1)
  BY <1>1, <1>2 DEF LoadRecords, AskedInTurn, FetcherAssumption
<1>4. CASE gateway[g] = "up"
  <2>1. Finish(k, contract[k], TRUE)
    BY <1>4 DEF AskGateway
  <2> QED
    BY <1>1, <2>1, Answering
<1>5. CASE gateway[g] # "up"
  <2>1. FailOver(k, Gateways, g, gateway[g])
    BY <1>5 DEF AskGateway
  <2>2. gateway[g] \in EndpointStates \ {"up"}
    BY <1>3, <1>5 DEF FetcherInv, FetcherTypes
  <2> HIDE DEF g
  <2> QED
    BY <1>1, <1>2, <2>1, <2>2, FailingOver
<1> QED
  BY <1>4, <1>5

LEMMA CallKept ==
    ASSUME FetcherAssumption, FetcherInv, NEW c \in Callers, NEW k \in Loads, Call(c, k)
    PROVE  FetcherInv' /\ AsksEveryEndpoint
<1>1. /\ caller[c].key = Empty /\ Empty \notin Loads
      /\ cursor' = (cursor + 1) % Nodes /\ UNCHANGED <<node, gateway, contract, cache>>
  BY DEF Call, Loads, FetcherAssumption, Name, Empty
<1>2. cursor' \in 0..(Nodes - 1)
  BY <1>1 DEF FetcherInv, FetcherTypes, FetcherAssumption
<1>3. ASSUME NEW j \in Loads, Awaited(j) PROVE \E d \in Callers \ {c} : caller[d].key = j /\ caller[d].got = Empty
  BY <1>1, <1>3 DEF Awaited
<1>4. CASE cache[k] # Empty
  <2>1. /\ caller' = [caller EXCEPT ![c] = [key |-> k, got |-> cache[k], heard |-> TRUE]]
        /\ load' = load
    BY <1>4 DEF Call
  <2>2. FetcherTypes'
    BY <1>1, <1>2, <2>1 DEF FetcherInv, FetcherTypes, CallerRecords, Answers
  <2>3. WaitsForLoad'
    BY <1>4, <2>1 DEF FetcherInv, FetcherTypes, WaitsForLoad
  <2>4. ASSUME NEW j \in Loads, load'[j].pc # "none" PROVE Awaited(j)' /\ AskedInTurn(load[j])'
    BY <1>3, <2>1, <2>4 DEF FetcherInv, FetcherTypes, Awaited, AskedInTurn, EndpointOf
  <2>5. AsksEveryEndpoint
    BY <2>1 DEF AsksEveryEndpoint
  <2> QED
    BY <2>2, <2>3, <2>4, <2>5 DEF FetcherInv
<1>5. CASE cache[k] = Empty
  <2> DEFINE task == [Idle EXCEPT !.key = k]
             fresh == [NoLoad EXCEPT !.pc = "rpc", !.start = cursor]
  <2>1. /\ caller' = [caller EXCEPT ![c] = task]
        /\ load' = IF load[k].pc # "none" THEN load ELSE [load EXCEPT ![k] = fresh]
    BY <1>5 DEF Call
  <2>2. task \in CallerRecords /\ task.key = k /\ task.got = Empty
    BY DEF Idle, CallerRecords
  <2>3. fresh \in LoadRecords /\ fresh.pc = "rpc" /\ fresh.tried = 0 /\ fresh.asked = {}
    BY DEF NoLoad, LoadRecords, FetcherInv, FetcherTypes
  <2>4. AskedInTurn(fresh)
    BY <2>3, Fresh
  <2> HIDE DEF task, fresh
  <2>5. FetcherTypes'
    BY <1>1, <1>2, <2>1, <2>2, <2>3 DEF FetcherInv, FetcherTypes
  <2>6. load'[k].pc # "none" /\ \A j \in Loads \ {k} : load'[j] = load[j]
    BY <2>1, <2>3 DEF FetcherInv, FetcherTypes
  <2>7. \A j \in Loads : load[j].pc # "none" => load'[j] = load[j]
    BY <2>1, <2>3 DEF FetcherInv, FetcherTypes
  <2>8. WaitsForLoad'
    BY <2>1, <2>2, <2>6, <2>7 DEF FetcherInv, FetcherTypes, WaitsForLoad, CallerRecords
  <2>9. ASSUME NEW j \in Loads, load'[j].pc # "none" PROVE Awaited(j)' /\ AskedInTurn(load[j])'
    <3>1. Awaited(j)'
      <4>1. CASE j = k
        BY <2>1, <2>2, <4>1 DEF Awaited, FetcherInv, FetcherTypes
      <4>2. CASE j # k
        BY <1>3, <2>1, <2>6, <2>9, <4>2 DEF Awaited, FetcherInv, FetcherTypes
      <4> QED
        BY <4>1, <4>2
    <3>2. AskedInTurn(load'[j])
      BY <2>1, <2>3, <2>4, <2>6, <2>7, <2>9 DEF FetcherInv, FetcherTypes
    <3> QED
      BY <3>1, <3>2 DEF AskedInTurn, EndpointOf
  <2>10. AsksEveryEndpoint
    BY <2>7 DEF AsksEveryEndpoint
  <2> QED
    BY <2>5, <2>8, <2>9, <2>10 DEF FetcherInv
<1> QED
  BY <1>4, <1>5

LEMMA ReturnKept ==
    ASSUME FetcherAssumption, FetcherInv, NEW c \in Callers, Return(c)
    PROVE  FetcherInv' /\ AsksEveryEndpoint
<1>1. /\ caller[c].got # Empty /\ caller' = [caller EXCEPT ![c] = Idle]
      /\ UNCHANGED <<node, gateway, contract, cursor, cache, load, tally>>
  BY DEF Return
<1>2. Idle \in CallerRecords /\ Idle.key = Empty
  BY DEF Idle, CallerRecords
<1>3. FetcherTypes' /\ WaitsForLoad'
  BY <1>1, <1>2 DEF FetcherInv, FetcherTypes, WaitsForLoad
<1>4. ASSUME NEW j \in Loads, load'[j].pc # "none" PROVE Awaited(j)' /\ AskedInTurn(load[j])'
  <2>1. PICK d \in Callers : caller[d].key = j /\ caller[d].got = Empty
    BY <1>1, <1>4 DEF FetcherInv, Awaited
  <2>2. caller'[d] = caller[d]
    BY <1>1, <2>1 DEF FetcherInv, FetcherTypes
  <2>3. AskedInTurn(load[j])
    BY <1>1, <1>4 DEF FetcherInv
  <2> QED
    BY <1>1, <2>1, <2>2, <2>3 DEF Awaited, AskedInTurn, EndpointOf
<1> QED
  BY <1>1, <1>3, <1>4 DEF FetcherInv, AsksEveryEndpoint

\* Neither the endpoints nor a step of nothing change a load or a task.
LEMMA LoadsKept ==
    ASSUME FetcherInv, UNCHANGED <<contract, cursor, cache, load, caller>>,
           node' \in [0..(Nodes - 1) -> EndpointStates],
           gateway' \in [0..(Gateways - 1) -> EndpointStates]
    PROVE  FetcherInv' /\ AsksEveryEndpoint
<1>1. FetcherTypes' /\ WaitsForLoad'
  BY DEF FetcherInv, FetcherTypes, WaitsForLoad
<1>2. ASSUME NEW j \in Loads, load'[j].pc # "none" PROVE Awaited(j)' /\ AskedInTurn(load[j])'
  BY <1>2 DEF FetcherInv, Awaited, AskedInTurn, EndpointOf
<1> QED
  BY <1>1, <1>2 DEF FetcherInv, AsksEveryEndpoint

LEMMA EndpointsChange ==
    ASSUME FetcherInv, NEW pool \in {"node", "gateway"}, NEW e, NEW s \in EndpointStates,
           EndpointChanges(pool, e, s)
    PROVE  FetcherInv' /\ AsksEveryEndpoint
<1>1. UNCHANGED <<contract, cursor, cache, load, caller>>
  BY DEF EndpointChanges
<1>2. /\ node' \in [0..(Nodes - 1) -> EndpointStates]
      /\ gateway' \in [0..(Gateways - 1) -> EndpointStates]
  BY DEF EndpointChanges, FetcherInv, FetcherTypes
<1> QED
  BY <1>1, <1>2, LoadsKept

LEMMA FetcherStep ==
    ASSUME FetcherAssumption, FetcherInv, [FetcherNext]_fetcherVars
    PROVE  FetcherInv' /\ AsksEveryEndpoint
<1>1. ASSUME NEW e \in DOMAIN node, NEW s \in EndpointStates, EndpointChanges("node", e, s)
      PROVE  FetcherInv' /\ AsksEveryEndpoint
  BY <1>1, EndpointsChange
<1>2. ASSUME NEW e \in DOMAIN gateway, NEW s \in EndpointStates, EndpointChanges("gateway", e, s)
      PROVE  FetcherInv' /\ AsksEveryEndpoint
  BY <1>2, EndpointsChange
<1>3. ASSUME NEW c \in Callers, NEW k \in Loads, Call(c, k) PROVE FetcherInv' /\ AsksEveryEndpoint
  BY <1>3, CallKept
<1>4. ASSUME NEW k \in Loads, AskNode(k) PROVE FetcherInv' /\ AsksEveryEndpoint
  BY <1>4, NodeAsked
<1>5. ASSUME NEW k \in Loads, AskGateway(k) PROVE FetcherInv' /\ AsksEveryEndpoint
  BY <1>5, GatewayAsked
<1>6. ASSUME NEW c \in Callers, Return(c) PROVE FetcherInv' /\ AsksEveryEndpoint
  BY <1>6, ReturnKept
<1>7. CASE UNCHANGED fetcherVars
  BY <1>7, LoadsKept DEF fetcherVars, FetcherInv, FetcherTypes
<1> QED
  BY <1>1, <1>2, <1>3, <1>4, <1>5, <1>6, <1>7 DEF FetcherNext, Ask

LEMMA FetcherStarts ==
    ASSUME FetcherAssumption, FetcherInit
    PROVE  FetcherInv
<1>1. 0 \in 0..(Nodes - 1)
  BY DEF FetcherAssumption
<1>2. NoLoad \in LoadRecords /\ NoLoad.pc = "none" /\ Idle \in CallerRecords /\ Idle.key = Empty
  BY <1>1 DEF NoLoad, LoadRecords, Idle, CallerRecords
<1>3. /\ node = [n \in 0..(Nodes - 1) |-> "up"] /\ gateway = [g \in 0..(Gateways - 1) |-> "up"]
      /\ contract \in [Loads -> {"string", "fails", "badMetadata"}] /\ cursor = 0
      /\ cache = [k \in Loads |-> Empty] /\ load = [k \in Loads |-> NoLoad]
      /\ caller = [c \in Callers |-> Idle]
  BY DEF FetcherInit
<1>4. FetcherTypes
  BY <1>1, <1>2, <1>3 DEF FetcherTypes, EndpointStates, Loads
<1>5. WaitsForLoad
  BY <1>2, <1>3 DEF WaitsForLoad
<1> QED
  BY <1>2, <1>3, <1>4, <1>5 DEF FetcherInv

\* Every load is awaited and asks each endpoint once, in turn, and every task
\* that waits has a load, whatever endpoints fail meanwhile (try_get_with and
\* the failover loops).
THEOREM FetcherInvariant ==
    ASSUME FetcherAssumption
    PROVE  FetcherSpec => []FetcherInv
<1>1. FetcherInit => FetcherInv
  BY FetcherStarts
<1>2. FetcherInv /\ [FetcherNext]_fetcherVars => FetcherInv'
  BY FetcherStep
<1> QED
  BY <1>1, <1>2, PTL DEF FetcherSpec

\* A task that joined the load of another always has one to wait for, so it
\* is woken when that one ends (try_get_with).
THEOREM WaitersHaveALoad ==
    ASSUME FetcherAssumption
    PROVE  FetcherSpec => []WaitsForLoad
<1>1. FetcherInv => WaitsForLoad
  BY DEF FetcherInv
<1> QED
  BY <1>1, FetcherInvariant, PTL

\* A fetch fails only after each node or gateway of the pool was asked: of the
\* rotation's attempts no two are at one endpoint (the failover loops).
THEOREM EveryEndpointIsAsked ==
    ASSUME FetcherAssumption
    PROVE  FetcherSpec => [][AsksEveryEndpoint]_fetcherVars
<1>1. FetcherInv /\ [FetcherNext]_fetcherVars => AsksEveryEndpoint
  BY FetcherStep
<1> QED
  BY <1>1, FetcherInvariant, PTL DEF FetcherSpec

=============================================================================
