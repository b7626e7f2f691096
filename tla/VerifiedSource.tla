---------------------------- MODULE VerifiedSource ----------------------------
(***************************************************************************)
(* The Verified Code tab.  Verifiers rebuild programs from submitted       *)
(* source and publish what they found; an aggregator collects their        *)
(* records by program, as far as it can read them.  The API reduces the    *)
(* answer to a status, offers an archive with the recipe that built it,    *)
(* and downloads, checks and unpacks the archive on request.  Verifiers    *)
(* publish anew and the contract is upgraded meanwhile.                    *)
(*                                                                         *)
(* The content of an archive is its sha256.                                *)
(***************************************************************************)
EXTENDS Naturals, Sequences, FiniteSets

CONSTANTS
    Verifiers,      \* in the order of the aggregator's answer
    Programs,
    Records,        \* what a verifier may say of a program, see Record
    Archives,       \* what an address may serve
    MaxChanges,     \* bound: records and archives published anew
    MaxRequests,
    MaxFaults       \* bound: faults of the aggregator and of downloads

VARIABLES
    records,    \* what each verifier says of each program, if anything
    served,     \* what each verifier's address serves now
    req, used

sourceVars == <<records, served, req, used>>

Requests == 1..MaxRequests
Names == {Verifiers[k] : k \in DOMAIN Verifiers}

\* A record: its status; its links, each on the verifier's own host or not
\* (over https, named, at its port), of a known format or not; and the
\* published sha256, if any.
VerifiedSourceAssumption ==
    /\ \A r \in Records :
         /\ DOMAIN r = {"status", "links", "sha"} /\ r.sha \subseteq Archives /\ Cardinality(r.sha) <= 1
         /\ \A k \in DOMAIN r.links : DOMAIN r.links[k] = {"own", "format"}
    /\ MaxChanges \in Nat /\ MaxRequests \in Nat /\ MaxFaults \in Nat

NoRequest == [pc |-> "idle", kind |-> "none", hash |-> "none", aggregate |-> <<>>, down |-> {},
              truth |-> <<>>, archive |-> <<>>, is |-> "none", status |-> "none", build |-> {}, files |-> {}]

SourceInit ==
    /\ records = [p \in Programs |-> [v \in Names |-> {}]]
    /\ served \in [Names -> Archives]
    /\ req = [r \in Requests |-> NoRequest]
    /\ used = [changes |-> 0, faults |-> 0]

-----------------------------------------------------------------------------
(* The verifiers.                                                          *)

Changes ==
    /\ used.changes < MaxChanges /\ used' = [used EXCEPT !.changes = @ + 1]

Publish(v, p, record) ==
    /\ records[p][v] # {record} /\ Changes
    /\ records' = [records EXCEPT ![p][v] = {record}]
    /\ UNCHANGED <<served, req>>

Replace(v, archive) ==
    /\ served[v] # archive /\ Changes
    /\ served' = [served EXCEPT ![v] = archive]
    /\ UNCHANGED <<records, req>>

-----------------------------------------------------------------------------
(* The reduction.  An aggregate is a sequence of records with their        *)
(* verifiers, in order.                                                    *)

Verified(agg) == SelectSeq(agg, LAMBDA r : r.status = "verified")
Mismatched(agg) == \E k \in DOMAIN agg : agg[k].status = "mismatched"

Status(agg) ==
    CASE Verified(agg) # <<>> /\ Mismatched(agg) -> "disputed"
      [] Verified(agg) # <<>> /\ ~Mismatched(agg) ->
           IF \E k \in DOMAIN agg : agg[k].status = "verified" /\ agg[k].links # <<>> THEN "verified"
           ELSE "verified_private"
      [] Verified(agg) = <<>> /\ Mismatched(agg) -> "mismatched"
      [] OTHER -> IF agg = <<>> THEN "none" ELSE "unverified"

\* A verification stands, and so does a disagreement; anything else is
\* unknown while a verifier could not be read.
Settled(status) == status \in {"verified", "verified_private", "disputed"}
reduce(agg, down) == IF down # {} /\ ~Settled(Status(agg)) THEN "incomplete" ELSE Status(agg)

\* The verified record whose recipe is shown: one with links before others.
Shown(agg) ==
    LET linked == SelectSeq(Verified(agg), LAMBDA r : r.links # <<>>)
    IN  CASE Status(agg) = "verified" -> <<Head(linked)>>
          [] Status(agg) = "verified_private" -> <<Head(Verified(agg))>>
          [] OTHER -> <<>>

-----------------------------------------------------------------------------
(* The archive.                                                            *)

\* A link that may be fetched; and a verified record with one and a sha256.
usable(link) == link.own /\ link.format
pick(r) == SelectSeq(r.links, usable)

\* archive_of: the first usable copy; without one, an error if any was
\* published, and nothing otherwise.
Published(agg) ==
    LET good == SelectSeq(Verified(agg), LAMBDA r : pick(r) # <<>> /\ r.sha # {})
        refused == \E k \in DOMAIN Verified(agg) : Verified(agg)[k].links # <<>>
    IN  IF good # <<>> THEN [is |-> "offered", record |-> <<Head(good)>>]
        ELSE [is |-> IF refused THEN "invalid" ELSE "nothing", record |-> <<>>]

-----------------------------------------------------------------------------
(* The requests.                                                           *)

Answer(q, is) == [q EXCEPT !.pc = "done", !.is = is]

\* lookup: the program the contract runs, as the database has it now.
Ask(r, kind, p) ==
    /\ req[r].pc = "idle" /\ (r > 1 => req[r - 1].pc # "idle")
    /\ req' = [req EXCEPT ![r] = [@ EXCEPT !.pc = "aggregate", !.kind = kind, !.hash = p]]
    /\ UNCHANGED <<records, served, used>>

Sees(p, names) ==
    LET of(v) == {[verifier |-> v, status |-> x.status, links |-> x.links, sha |-> x.sha] : x \in records[p][v]}
        held == SelectSeq(Verifiers, LAMBDA v : v \in names /\ records[p][v] # {})
    IN  [k \in DOMAIN held |-> CHOOSE x \in of(held[k]) : TRUE]

\* get_verification: the status with an archive and the recipe of the
\* verifier that publishes it, else the recipe of the record shown.
VerificationAnswer(q) ==
    LET agg == q.aggregate
        status == reduce(agg, q.down)
        offer == Published(agg)
    IN  CASE status = "incomplete" -> Answer(q, "unreadable")
          [] status # "incomplete" /\ Shown(agg) # <<>> /\ offer.is = "invalid" -> Answer(q, "invalid")
          [] OTHER -> [Answer(q, "status") EXCEPT
                         !.status = status,
                         !.archive = IF Shown(agg) = <<>> THEN <<>> ELSE offer.record,
                         !.build = IF Shown(agg) = <<>> THEN {}
                                   ELSE {(IF offer.record # <<>> THEN offer.record ELSE Shown(agg))[1].verifier}]

\* get_verified_source: the files only of verified source, after a download.
SourceAnswer(q) ==
    LET agg == q.aggregate
        status == reduce(agg, q.down)
        offer == Published(agg)
    IN  CASE status = "incomplete" -> Answer(q, "unreadable")
          [] status = "verified" /\ offer.is = "offered" ->
               [q EXCEPT !.pc = "download", !.status = status, !.archive = offer.record]
          [] status = "verified" /\ offer.is = "invalid" -> Answer(q, "invalid")
          [] OTHER -> Answer(q, "not_found")

\* fetch_aggregate: the records of the hash that was asked for, without those
\* of the verifiers that could not be read.
fetch_aggregate(r, down) ==
    /\ req[r].pc = "aggregate"
    /\ LET q == [req[r] EXCEPT !.aggregate = Sees(req[r].hash, Names \ down), !.down = down,
                               !.truth = Sees(req[r].hash, Names)]
       IN  req' = [req EXCEPT ![r] = IF q.kind = "verification" THEN VerificationAnswer(q) ELSE SourceAnswer(q)]
    /\ UNCHANGED <<records, served, used>>

Fault == used.faults < MaxFaults /\ used' = [used EXCEPT !.faults = @ + 1]

\* The service cannot be reached, or answers with no document, too much, or
\* for another hash.
AggregateFails(r, answered) ==
    /\ req[r].pc = "aggregate" /\ Fault
    /\ answered # req[r].hash
    /\ req' = [req EXCEPT ![r] = Answer(@, "unreadable")]
    /\ UNCHANGED <<records, served>>

\* check_sha256, and the caps of unpack: fits stands for what they find.
Passes(bytes, record, fits) == {bytes} = record.sha /\ fits

\* The files, unless their JSON is larger than a response may be.
files_response(q, bytes, small) ==
    IF small THEN [Answer(q, "files") EXCEPT !.files = {bytes}] ELSE Answer(q, "invalid")

\* What the address serves now, if it is what was published.
fetch_files(r, fits, small) ==
    /\ req[r].pc = "download"
    /\ LET record == req[r].archive[1]
           bytes == served[record.verifier]
       IN  req' = [req EXCEPT ![r] = IF Passes(bytes, record, fits) THEN files_response(@, bytes, small)
                                     ELSE Answer(@, "invalid")]
    /\ UNCHANGED <<records, served, used>>

DownloadFails(r) ==
    /\ req[r].pc = "download" /\ Fault
    /\ req' = [req EXCEPT ![r] = Answer(@, "unreadable")]
    /\ UNCHANGED <<records, served>>

SourceNext ==
    \/ \E v \in Names, p \in Programs, record \in Records : Publish(v, p, record)
    \/ \E v \in Names, archive \in Archives : Replace(v, archive)
    \/ \E r \in Requests :
         \/ \E kind \in {"verification", "source"}, p \in Programs : Ask(r, kind, p)
         \/ \E down \in SUBSET Names : fetch_aggregate(r, down)
         \/ \E answered \in Programs \cup {"nothing"} : AggregateFails(r, answered)
         \/ \E fits, small \in BOOLEAN : fetch_files(r, fits, small)
         \/ DownloadFails(r)

SourceSpec == SourceInit /\ [][SourceNext]_sourceVars

-----------------------------------------------------------------------------

SourceTypeOK ==
    /\ served \in [Names -> Archives]
    /\ \A r \in Requests :
         /\ req[r].pc \in {"idle", "aggregate", "download", "done"}
         /\ Len(req[r].archive) <= 1 /\ Cardinality(req[r].files) <= 1
         /\ req[r].pc # "idle" => req[r].hash \in Programs

Done(r, is) == req[r].pc = "done" /\ req[r].is = is
Says(agg, status) == \E k \in DOMAIN agg : agg[k].status = status

\* A status is known: what the verifiers that could not be read say may turn
\* it to "disputed", or add source to it, but nobody is told that no verifier
\* verified, or that source was submitted in vain, while one did verify.
StatusIsKnown ==
    \A r \in Requests : Done(r, "status") =>
        /\ req[r].status \in {"none", "unverified", "mismatched"} => req[r].status = Status(req[r].truth)
        /\ req[r].status \in {"verified", "verified_private", "disputed"} => Says(req[r].truth, "verified")
        /\ req[r].status = "disputed" => Status(req[r].truth) = "disputed"

\* The page says "verified" if and only if it offers an archive, and the
\* recipe beside it is of the verifier that publishes the archive and rebuilt
\* the program; it shows no recipe of a verifier that did not.
RecipeFits ==
    \A r \in Requests : Done(r, "status") =>
        /\ (req[r].status = "verified") <=> (req[r].archive # <<>>)
        /\ (req[r].build # {}) <=> (req[r].status \in {"verified", "verified_private"})
        /\ \A k \in DOMAIN req[r].archive : req[r].build = {req[r].archive[k].verifier}
        /\ \A v \in req[r].build : \E k \in DOMAIN req[r].truth :
             req[r].truth[k].verifier = v /\ req[r].truth[k].status = "verified"

\* The files shown are of an archive whose content a verifier published, by
\* its sha256 and at its own address, for the program named in the answer,
\* and no verifier that could be read had rebuilt it to another program.
OnlyVerifiedFiles ==
    \A r \in Requests : Done(r, "files") =>
        /\ \E k \in DOMAIN req[r].truth :
             /\ req[r].truth[k].status = "verified" /\ req[r].truth[k].sha = req[r].files
             /\ [own |-> TRUE, format |-> TRUE] \in {req[r].truth[k].links[m] : m \in DOMAIN req[r].truth[k].links}
        /\ ~Says(req[r].aggregate, "mismatched")

=============================================================================
