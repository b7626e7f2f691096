--------------------------- MODULE CheckpointRead ---------------------------
(***************************************************************************)
(* Reading a checkpoint from the history archive and comparing our         *)
(* balances with it (crates/backfill-runner/src/snapshot: archive.rs,      *)
(* network_state.rs, slices.rs, report.rs).                                *)
(*                                                                         *)
(* The archive publishes the state of the network as a list of buckets, in *)
(* which a key stands once per bucket that touched it, deleted keys as     *)
(* tombstones; the reader keeps the first record of each key.  The report  *)
(* then classifies every row of ours, slice after slice while the indexer  *)
(* goes on writing, and at last what the network holds and we do not.      *)
(* What the seed writes from it is in SnapshotSeed.                        *)
(***************************************************************************)
EXTENDS Naturals, Sequences, FiniteSets, FiniteSetsExt, Functions

CONSTANTS
    Keys,           \* ledger keys
    KindOf,         \* what a key is: an account, a trustline, ...
    IdOf,           \* its surrogate, in the key space 0 .. Span - 1
    Span,           \* i64 in the code
    KEY_SLICES,
    Hash,           \* sample_hash of the surrogate
    Amounts,
    CHECKPOINT_FREQUENCY,
    LEDGER_FLOOR,   \* the first ledger that is indexed
    SAMPLE_CAP,
    \* bounds
    MaxLedger,
    MaxChanges,     \* keys a ledger changes
    MaxMissed,      \* ledgers the indexer did not store
    MaxFaults       \* answers of the archive that are not what was published

Kinds == {"account", "trustline", "pool_share", "claimable", "pool", "other"}

CheckpointReadAssumption ==
    /\ KindOf \in [Keys -> Kinds]
    /\ IdOf \in [Keys -> 0 .. Span - 1] /\ IsInjective(IdOf)
    /\ Hash \in [Keys -> Nat] /\ IsInjective(Hash)
    /\ Amounts \subseteq Nat
    /\ {Span, KEY_SLICES, CHECKPOINT_FREQUENCY, SAMPLE_CAP} \subseteq Nat \ {0}
    /\ {LEDGER_FLOOR, MaxLedger, MaxChanges, MaxMissed, MaxFaults} \subseteq Nat

VARIABLES
    sequence,   \* the last ledger
    chain,      \* key -> its entry: what the network holds
    levels,     \* the bucket list: per level its curr and snap
    archive,    \* the manifest that is published, and what the network held then
    balances,   \* the parts of our table: a set of rows
    missed,     \* ledgers that were not stored
    faults,     \* wrong answers so far
    snapshot,   \* the reader: its phase and what it has folded (NetworkState)
    report      \* the comparison (Report)

networkVars == <<sequence, chain, levels, archive, balances, missed>>
checkpointVars == <<networkVars, faults, snapshot, report>>

Balances == {k \in Keys : KindOf[k] \in {"account", "trustline"}}
Without(f, S) == Restrict(f, DOMAIN f \ S)
Over(f, g) == [k \in DOMAIN f \cup DOMAIN g |-> IF k \in DOMAIN f THEN f[k] ELSE g[k]]

-----------------------------------------------------------------------------
(* The network, the archive and the indexer.                               *)

None == <<>>
Live(type, e) == [type |-> type, entry |-> e]
Dead == [type |-> "dead", entry |-> [ledger |-> 0, amount |-> 0]]

\* A newer bucket merged into an older one: an entry that was created and
\* deleted within the two leaves nothing, and the bottom keeps no tombstone.
Merge(newer, older, bottom) ==
    LET both == DOMAIN newer \cap DOMAIN older
        gone == {k \in both : newer[k].type = "dead" /\ older[k].type = "init"}
        record(k) == IF k \notin both THEN Over(newer, older)[k]
                     ELSE IF older[k].type = "init" THEN Live("init", newer[k].entry)
                     ELSE IF older[k].type = "dead" /\ newer[k].type = "init" THEN Live("live", newer[k].entry)
                     ELSE newer[k]
        kept == (DOMAIN newer \cup DOMAIN older) \ gone
    IN  [k \in {x \in kept : ~ (bottom /\ record(x).type = "dead")} |-> record(k)]

\* The list after a ledger: its changes join the top level, which may have
\* spilled into the one below before.
AddBatch(batch, spills) ==
    LET below == [curr |-> Merge(levels[1].snap, levels[2].curr, TRUE), snap |-> levels[2].snap]
        top == [curr |-> None, snap |-> levels[1].curr]
        into(l) == [l EXCEPT !.curr = Merge(batch, l.curr, FALSE)]
    IN  IF spills THEN <<into(top), below>> ELSE <<into(levels[1]), levels[2]>>

is_checkpoint(ledger) == ledger % CHECKPOINT_FREQUENCY = CHECKPOINT_FREQUENCY - 1

Row(k, ledger, amount, closed) ==
    [key |-> k, last_updated_ledger |-> ledger, amount |-> amount, closed_at_ledger |-> closed]

\* The network closes a ledger, the archive publishes at a checkpoint, and
\* the indexer stores the rows of what changed, unless it misses the ledger.
CloseLedger ==
    LET ledger == sequence + 1 IN
    /\ sequence < MaxLedger
    /\ \E changed \in SUBSET Keys, spills, stored \in BOOLEAN :
         \E gone \in SUBSET (changed \cap DOMAIN chain), amount \in [changed -> Amounts] :
           LET entry(k) == [ledger |-> ledger, amount |-> amount[k]]
               batch == [k \in changed |-> IF k \in gone THEN Dead
                                           ELSE IF k \in DOMAIN chain THEN Live("live", entry(k))
                                           ELSE Live("init", entry(k))]
           IN  /\ Cardinality(changed) \in 1 .. MaxChanges
               /\ \A k \in gone : amount[k] = Min(Amounts)
               /\ stored \/ (Cardinality(missed) < MaxMissed /\ ledger >= LEDGER_FLOOR)
               /\ sequence' = ledger
               /\ chain' = Over([k \in changed \ gone |-> entry(k)], Without(chain, gone))
               /\ levels' = AddBatch(batch, spills)
               /\ archive' = IF is_checkpoint(ledger)
                             THEN [currentLedger |-> ledger, currentBuckets |-> levels', holds |-> chain']
                             ELSE archive
               /\ IF ledger < LEDGER_FLOOR THEN UNCHANGED <<balances, missed>>
                  ELSE IF ~ stored THEN missed' = missed \cup {ledger} /\ UNCHANGED balances
                  ELSE /\ balances' = balances \cup
                            {IF k \in gone THEN Row(k, ledger, 0, ledger) ELSE Row(k, ledger, amount[k], 0) :
                               k \in changed \cap Balances}
                       /\ UNCHANGED missed
    /\ UNCHANGED <<faults, snapshot, report>>

-----------------------------------------------------------------------------
(* The reader.                                                             *)

NewState == [phase |-> "idle", checkpoint |-> 0, hashes |-> <<>>, holds |-> None,
             holdings |-> None, details |-> None, identified |-> {},
             superseded |-> 0, unmodelled |-> 0, records |-> 0]

\* The list, newest first: levels in order, curr before snap; an empty slot
\* has the zero hash and is no bucket.
NewestFirst(buckets) ==
    SelectSeq(<<buckets[1].curr, buckets[1].snap, buckets[2].curr, buckets[2].snap>>, LAMBDA b : b # None)

\* fetch_bucket_list: a manifest that is off the lattice of checkpoints, or
\* lacks a slot, ends the run.
fetch_bucket_list ==
    /\ snapshot.phase = "idle" /\ archive # None
    /\ \E wrong \in BOOLEAN :
         /\ wrong => faults < MaxFaults
         /\ faults' = faults + (IF wrong THEN 1 ELSE 0)
         /\ snapshot' = [snapshot EXCEPT
              !.phase = IF wrong THEN "failed" ELSE "read",
              !.checkpoint = archive.currentLedger, !.holds = archive.holds,
              !.hashes = NewestFirst(archive.currentBuckets)]
    /\ UNCHANGED <<networkVars, report>>

dead == [live |-> FALSE, ledger |-> 0, amount |-> 0]

\* classify: the holding a record says; nothing for the types we do not model.
classify(b) ==
    [k \in {x \in DOMAIN b : KindOf[x] # "other"} |->
       IF b[k].type = "dead" THEN dead
       ELSE [live |-> TRUE, ledger |-> b[k].entry.ledger, amount |-> b[k].entry.amount]]

first_wins(held, facts) == Over(held, facts)

\* account_detail: the signers of a live account, named by the ledger of the
\* entry they stand in.
account_detail(facts) ==
    [k \in {x \in DOMAIN facts : facts[x].live /\ KindOf[x] = "account"} |-> facts[k].ledger]

\* trustline_identity: what names its asset; a tombstone has only a key.
trustline_identity(facts) ==
    {k \in DOMAIN facts : facts[k].live /\ KindOf[k] \in {"trustline", "claimable"}}

\* absorb_record for the records of one bucket: the holding and the detail of
\* an account under the same rule.
absorb(s, b) ==
    LET facts == classify(b) IN
        [s EXCEPT
           !.holdings = first_wins(@, facts),
           !.details = first_wins(@, Without(account_detail(facts), DOMAIN s.holdings)),
           !.identified = @ \cup trustline_identity(facts),
           !.superseded = @ + Cardinality(DOMAIN facts \cap DOMAIN s.holdings),
           !.unmodelled = @ + Cardinality(DOMAIN b \ DOMAIN facts),
           !.records = @ + Cardinality(DOMAIN b)]

\* stream_bucket_from_url: what came is decoded only if it hashes to the name
\* it was asked for under.
stream_bucket_from_url ==
    /\ snapshot.phase = "read" /\ snapshot.hashes # <<>>
    /\ LET named == Head(snapshot.hashes) IN
       \E lost \in SUBSET DOMAIN named :
         LET got == Without(named, lost) IN
         /\ lost # {} => faults < MaxFaults
         /\ faults' = faults + (IF lost = {} THEN 0 ELSE 1)
         /\ snapshot' = IF got # named THEN [snapshot EXCEPT !.phase = "failed"]
                        ELSE absorb([snapshot EXCEPT !.hashes = Tail(@)], got)
    /\ UNCHANGED <<networkVars, report>>

open_snapshot ==
    /\ snapshot.phase = "read" /\ snapshot.hashes = <<>>
    /\ snapshot' = [snapshot EXCEPT !.phase = "compare"]
    /\ UNCHANGED <<networkVars, faults, report>>

-----------------------------------------------------------------------------
(* Our rows against it.                                                    *)

\* key_slices: the key space in KEY_SLICES pieces, the rest in the last.
Slice(s) ==
    LET step == Span \div KEY_SLICES
        from == s * step
        to == IF s = KEY_SLICES - 1 THEN Span - 1 ELSE (s + 1) * step - 1
    IN  {k \in Keys : IdOf[k] \in from .. to}

\* slice_sql: the newest version of each key, as one tuple.
LatestRows(ks) ==
    {r \in balances : r.key \in ks
       /\ \A o \in balances : o.key = r.key => o.last_updated_ledger <= r.last_updated_ledger}

Verdict(row, net, checkpoint) ==
    LET newer == net.ledger > row.last_updated_ledger
        older == net.ledger < row.last_updated_ledger
    IN  CASE row.last_updated_ledger >= checkpoint -> "NewerThanCheckpoint"
          [] row.last_updated_ledger < checkpoint /\ row.closed_at_ledger # 0 /\ ~ net.live -> "AlreadyClosed"
          [] row.last_updated_ledger < checkpoint /\ row.closed_at_ledger # 0 /\ net.live ->
               IF newer THEN "ClosedButLive" ELSE "ClosedButLiveConflict"
          [] row.last_updated_ledger < checkpoint /\ row.closed_at_ledger = 0 /\ net.live ->
               IF net.amount = row.amount THEN (IF newer THEN "Stale" ELSE "Agree")
               ELSE IF newer THEN "HealFromSnapshot"
               ELSE IF older THEN "DivergentOursNewer" ELSE "DivergentSameLedger"
          [] OTHER -> IF row.amount = 0 THEN "Closure" ELSE "Ghost"

Verdicts == {"NewerThanCheckpoint", "AlreadyClosed", "ClosedButLive", "ClosedButLiveConflict", "Stale",
             "Agree", "HealFromSnapshot", "DivergentOursNewer", "DivergentSameLedger", "Closure", "Ghost"}

NewReport == [slice |-> 0, pending |-> {}, rows_read |-> 0, matched |-> {}, judged |-> None,
              tally |-> [v \in Verdicts |-> 0], missing |-> {}, below |-> 0, above |-> 0, samples |-> None]

\* The dumps: which bucket of samples a verdict goes to, by population.
Bucket(v, native) ==
    CASE v = "Ghost" -> <<"ghosts", native>>
      [] v \in {"HealFromSnapshot", "DivergentOursNewer"} -> <<"divergent", native>>
      [] v \in {"ClosedButLive", "ClosedButLiveConflict", "DivergentSameLedger"} -> <<v, "both">>
      [] v \in {"Closure", "Agree"} /\ ~ native -> <<v, native>>
      [] OTHER -> None

\* Sample::offer: a full sample gives up its largest hash for a smaller one.
offer(sample, k) ==
    LET worst == CHOOSE x \in sample : \A y \in sample : Hash[y] <= Hash[x] IN
    IF Cardinality(sample) < SAMPLE_CAP THEN sample \cup {k}
    ELSE IF Hash[k] < Hash[worst] THEN (sample \ {worst}) \cup {k}
    ELSE sample

Sampled(samples, bucket, k) ==
    IF bucket = None THEN samples
    ELSE LET held == IF bucket \in DOMAIN samples THEN samples[bucket] ELSE {} IN
         [b \in DOMAIN samples \cup {bucket} |-> IF b = bucket THEN offer(held, k) ELSE samples[b]]

\* stream_our_rows asks for the next slice; its answer is as of now.
ReadSlice ==
    /\ snapshot.phase = "compare" /\ report.pending = {} /\ report.slice < KEY_SLICES
    /\ report' = [report EXCEPT !.slice = @ + 1, !.pending = LatestRows(Slice(report.slice))]
    /\ UNCHANGED <<networkVars, faults, snapshot>>

\* claim: the entry of a row of ours is matched whatever the verdict; nothing
\* at all says what a tombstone says.
Holding(k) == IF k \in DOMAIN snapshot.holdings THEN snapshot.holdings[k] ELSE dead

\* Report::observe, for a row of the slice, in whatever order they come.
Observe ==
    /\ snapshot.phase = "compare"
    /\ \E row \in report.pending :
         LET k == row.key
             v == Verdict(row, Holding(k), snapshot.checkpoint)
         IN  report' = [report EXCEPT
               !.pending = @ \ {row}, !.rows_read = @ + 1, !.matched = @ \cup {k},
               !.judged = Over([x \in {k} |-> v], @), !.tally[v] = @ + 1,
               !.samples = Sampled(@, Bucket(v, KindOf[k] = "account"), k)]
    /\ UNCHANGED <<networkVars, faults, snapshot>>

\* What is live there and no row of ours has claimed.
Gaps == {k \in DOMAIN snapshot.holdings \cap Balances :
           snapshot.holdings[k].live /\ k \notin report.matched \cup report.missing}

\* observe_missing_trustline and observe_missing_account, in the order of a
\* hash map.
ObserveMissing ==
    /\ snapshot.phase = "compare" /\ report.slice = KEY_SLICES /\ report.pending = {}
    /\ \E k \in Gaps :
         LET under == snapshot.holdings[k].ledger < LEDGER_FLOOR IN
         report' = [report EXCEPT
           !.missing = @ \cup {k},
           !.below = @ + (IF under THEN 1 ELSE 0), !.above = @ + (IF under THEN 0 ELSE 1),
           !.samples = Sampled(@, <<"missing", KindOf[k] = "account">>, k)]
    /\ UNCHANGED <<networkVars, faults, snapshot>>

Finish ==
    /\ snapshot.phase = "compare" /\ report.slice = KEY_SLICES /\ report.pending = {} /\ Gaps = {}
    /\ snapshot' = [snapshot EXCEPT !.phase = "done"]
    /\ UNCHANGED <<networkVars, faults, report>>

CheckpointInit ==
    /\ sequence = 0 /\ chain = None /\ archive = None
    /\ levels = [i \in 1 .. 2 |-> [curr |-> None, snap |-> None]]
    /\ balances = {} /\ missed = {} /\ faults = 0
    /\ snapshot = NewState /\ report = NewReport

CheckpointNext ==
    \/ CloseLedger \/ fetch_bucket_list \/ stream_bucket_from_url \/ open_snapshot
    \/ ReadSlice \/ Observe \/ ObserveMissing \/ Finish

CheckpointSpec == CheckpointInit /\ [][CheckpointNext]_checkpointVars

-----------------------------------------------------------------------------

CheckpointTypeOK ==
    /\ sequence \in 0 .. MaxLedger /\ missed \subseteq LEDGER_FLOOR .. MaxLedger
    /\ DOMAIN chain \subseteq Keys
    /\ \A r \in balances : r.key \in Balances /\ r.last_updated_ledger \in LEDGER_FLOOR .. MaxLedger
    /\ snapshot.phase \in {"idle", "read", "compare", "done", "failed"}
    /\ DOMAIN snapshot.details \subseteq DOMAIN snapshot.holdings
    /\ report.slice \in 0 .. KEY_SLICES
    /\ DOMAIN report.judged = report.matched

\* A snapshot that was read to its end is the network at the checkpoint: the
\* entries that lived then, with the amount and the ledger of their last
\* change, and none that was deleted; an account's signers are those of the
\* same entry, and every live holding has its asset's name (network_state.rs,
\* "Ordering"; whatever the archive answers).
SnapshotIsTheNetwork ==
    snapshot.phase \in {"compare", "done"} =>
      LET held == snapshot.holdings
          then == snapshot.holds
          alive == {k \in DOMAIN held : held[k].live}
      IN  /\ alive = {k \in DOMAIN then : KindOf[k] # "other"}
          /\ \A k \in alive : held[k].ledger = then[k].ledger /\ held[k].amount = then[k].amount
          /\ DOMAIN snapshot.details = {k \in alive : KindOf[k] = "account"}
          /\ \A k \in DOMAIN snapshot.details : snapshot.details[k] = then[k].ledger
          /\ {k \in alive : KindOf[k] \in {"trustline", "claimable"}} \subseteq snapshot.identified
          /\ snapshot.records = Cardinality(DOMAIN held) + snapshot.superseded + snapshot.unmodelled

\* The report is complete: the eleven verdicts add up to the rows read, each
\* row once; every live holding has a row of ours or counts as missing, on
\* one side of the floor (report.rs, Tally::render).
ReportAddsUp ==
    LET all == {k \in DOMAIN snapshot.holdings \cap Balances : snapshot.holdings[k].live} IN
    /\ MapThenSumSet(LAMBDA v : report.tally[v], Verdicts) = report.rows_read
    /\ report.rows_read = Cardinality(report.matched)
    /\ snapshot.phase = "done" =>
         /\ {r.key : r \in {o \in balances : o.last_updated_ledger <= snapshot.checkpoint}} \subseteq report.matched
         /\ all \ report.matched = report.missing
         /\ report.below + report.above = Cardinality(report.missing)

\* A sample depends on which rows there are, never on the order they came in
\* (report.rs, Sample).
SamplesAreReproducible ==
    \A b \in DOMAIN report.samples :
      LET offered == IF b[1] = "missing"
                     THEN {k \in report.missing : (KindOf[k] = "account") = b[2]}
                     ELSE {k \in report.matched : Bucket(report.judged[k], KindOf[k] = "account") = b}
          smaller(k) == {o \in offered : Hash[o] < Hash[k]}
      IN  report.samples[b] = {k \in offered : Cardinality(smaller(k)) < SAMPLE_CAP}

\* A verdict means what the operator reads in it: only a ledger that was not
\* stored, at or above the floor, makes a row wrong, and it is the ledger of
\* the network's last change; what we lack from below the floor is dormant
\* and what we lack above it was missed, and counts so; and no verdict
\* accuses the parser (report.rs, Tally; verdict.rs, "should never fire on
\* healthy data").
VerdictsAreDeserved ==
    /\ \A k \in DOMAIN report.judged :
         LET v == report.judged[k] IN
         /\ v \notin {"ClosedButLiveConflict", "DivergentOursNewer", "DivergentSameLedger"}
         /\ v \in {"ClosedButLive", "HealFromSnapshot", "Stale"} => snapshot.holdings[k].ledger \in missed
         /\ v \in {"Closure", "Ghost"} => missed # {}
    /\ \A k \in report.missing :
         snapshot.holdings[k].ledger < LEDGER_FLOOR \/ snapshot.holdings[k].ledger \in missed
    /\ report.above > 0 => missed # {}
    /\ report.below > 0 => \E k \in report.missing : snapshot.holdings[k].ledger < LEDGER_FLOOR

=============================================================================
