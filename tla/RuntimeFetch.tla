----------------------------- MODULE RuntimeFetch -----------------------------
(***************************************************************************)
(* What the API asks the network for at request time: the bytes of a       *)
(* program whose code a visitor wants decompiled, and the sponsors of an   *)
(* account's entries.  Both go through one pool of RPC endpoints, tried in *)
(* order, each as far behind the network as it is.  Decompilation runs on  *)
(* blocking threads that a deadline does not stop.                         *)
(*                                                                         *)
(* An entry that may be absent is a set of at most one value: the bytes of *)
(* a program, or the account that sponsors an entry.                       *)
(***************************************************************************)
EXTENDS Naturals, Sequences, FiniteSets

CONSTANTS
    Code,           \* programs; their keys, their hashes and their bytes
    Stored,         \* the programs whose bytes the database has
    Account, Lines, \* an account, and the trustlines our balances name, in order
    Sponsors,       \* who may sponsor; "nobody" is always possible
    Kinds,          \* what is requested: "rust", "wat", "sponsors"
    Endpoints,      \* how many RPC endpoints
    KEYS_PER_CALL, Slots,
    MaxLedger,      \* bound: ledgers
    MaxFaults,      \* bound: faults of endpoints
    MaxRequests     \* bound: requests

VARIABLES
    history,    \* the entries after each ledger
    at,         \* how far each endpoint has come
    hash,       \* the program the contract runs, as the database has it
    req,        \* the requests
    jobs,       \* the decompilations that run
    faults

fetchVars == <<history, at, hash, req, jobs, faults>>

Urls == 1..Endpoints
Requests == 1..MaxRequests
Trustlines == {Lines[k] : k \in DOMAIN Lines}
AccountKeys == IF Lines = <<>> THEN {} ELSE {Account} \cup Trustlines
Keys == Code \cup AccountKeys
Holders == Sponsors \cup {"nobody"}

RuntimeFetchAssumption ==
    /\ Stored \subseteq Code /\ Kinds \subseteq {"rust", "wat", "sponsors"}
    /\ "sponsors" \in Kinds => Lines # <<>>
    /\ {Endpoints, KEYS_PER_CALL, Slots, MaxLedger, MaxRequests} \subseteq Nat \ {0}
    /\ MaxFaults \in Nat

NoAnswer == [is |-> "none", of |-> "none", entries |-> {}, num_sponsored |-> 0, upto |-> <<>>]
NoRequest == [pc |-> "idle", kind |-> "none", hash |-> "none", since |-> <<>>, chunks |-> <<>>,
              next |-> 1, empty_answers |-> 0, got |-> {}, num |-> 0, bytes |-> "none", ran |-> FALSE, answer |-> NoAnswer]

FetchInit ==
    /\ history = <<[k \in Keys |-> IF k \in Code THEN {k} ELSE {"nobody"}]>>
    /\ at = [u \in Urls |-> 1]
    /\ hash \in Code \cup {"none"}
    /\ req = [r \in Requests |-> NoRequest] /\ jobs = {} /\ faults = 0

-----------------------------------------------------------------------------
(* The network, its endpoints, and the indexer.                            *)

Newest == history[Len(history)]

\* A ledger archives or restores a program, changes a sponsor, or removes an
\* entry; an account with trustlines stays.
Close(k, entry) ==
    /\ Len(history) < MaxLedger /\ entry # Newest[k]
    /\ k \in Code => entry \in {{}, {k}}
    /\ k = Account /\ entry = {} => \A t \in Trustlines : Newest[t] = {}
    /\ k \in Trustlines /\ entry # {} => Newest[Account] # {}
    /\ history' = Append(history, [Newest EXCEPT ![k] = entry])
    /\ UNCHANGED <<at, hash, req, jobs, faults>>

CatchUp(u) ==
    /\ at[u] < Len(history) /\ at' = [at EXCEPT ![u] = @ + 1]
    /\ UNCHANGED <<history, hash, req, jobs, faults>>

\* The indexer sees an upgrade, or the bytes of a program.
Upgrade(p) ==
    /\ p # hash /\ hash' = p
    /\ UNCHANGED <<history, at, req, jobs, faults>>

-----------------------------------------------------------------------------
(* A request.                                                              *)

\* chunks: the keys, KEYS_PER_CALL to a call.
Chunked(keys) ==
    [i \in 1..((Len(keys) + KEYS_PER_CALL - 1) \div KEYS_PER_CALL) |->
        {keys[k] : k \in {j \in DOMAIN keys : (j - 1) \div KEYS_PER_CALL = i - 1}}]

Answered(q, is) == [q EXCEPT !.pc = "done", !.answer.is = is, !.answer.upto = at]
Failed(q) == Answered(q, "failed")

\* get_decompiled resolves the contract's program; get_account_sponsorship
\* takes the account and the open trustlines of the database.  Without a
\* program (a SAC) there is nothing to decompile.
Ask(r, kind) ==
    /\ req[r].pc = "idle" /\ (r > 1 => req[r - 1].pc # "idle")
    /\ kind # "sponsors" => hash # "none"
    /\ req' = [req EXCEPT ![r] =
         IF kind = "sponsors"
         THEN [@ EXCEPT !.pc = "call", !.kind = kind, !.since = at, !.chunks = Chunked(<<Account>> \o Lines)]
         ELSE [@ EXCEPT !.pc = "bytes", !.kind = kind, !.since = at, !.hash = hash]]
    /\ UNCHANGED <<history, at, hash, jobs, faults>>

\* fetch_program_code: the bytes by hash, from the table or else the network.
ReadBytes(r) ==
    /\ req[r].pc = "bytes"
    /\ req' = [req EXCEPT ![r] =
         IF @.hash \in Stored THEN [@ EXCEPT !.pc = "slot", !.bytes = req[r].hash]
         ELSE [@ EXCEPT !.pc = "call", !.chunks = <<{req[r].hash}>>]]
    /\ UNCHANGED <<history, at, hash, jobs, faults>>

\* What sponsors() reads of an entry: who pays, if anybody, and what for.
Sponsored(entries) ==
    {[key |-> e.key, sponsor |-> e.value, reserves |-> IF e.key = Account THEN 2 ELSE 1] :
     e \in {x \in entries : x.value # "nobody"}}
\* num_sponsored stands in the account entry itself.
Reserves(state) ==
    Cardinality({t \in Trustlines : state[t] \ {"nobody"} # {}}) + 2 * Cardinality(state[Account] \ {"nobody"})

\* An answer to the current call: the next one, or the end of them.
Took(q, entries, num) ==
    CASE q.kind # "sponsors" /\ entries = {} -> Answered(q, "not_live")
      [] q.kind # "sponsors" /\ entries # {} ->
           LET e == CHOOSE x \in entries : TRUE
           IN  IF e.key # q.hash THEN Failed(q) ELSE [q EXCEPT !.pc = "slot", !.bytes = e.value]
      [] q.kind = "sponsors" /\ Account \in Head(q.chunks) /\ ~\E e \in entries : e.key = Account ->
           Answered(q, "no_account")
      [] OTHER ->
           LET more == [q EXCEPT !.chunks = Tail(@), !.next = 1, !.empty_answers = 0, !.got = @ \cup entries,
                                 !.num = IF Account \in Head(q.chunks) THEN num ELSE @]
           IN  IF more.chunks # <<>> THEN more
               ELSE [Answered(more, "sponsors") EXCEPT
                       !.answer.entries = Sponsored(more.got), !.answer.num_sponsored = more.num]

\* The next endpoint of the pool, or the verdict of them all: nothing is
\* there only if every one of them said so.
Passed(q, empty) ==
    LET on == [q EXCEPT !.next = @ + 1, !.empty_answers = @ + empty]
    IN  IF on.next <= Endpoints THEN on
        ELSE IF on.empty_answers = Endpoints THEN Took(on, {}, 0)
        ELSE Failed(on)

\* An endpoint answers with what it holds.
get_ledger_entries(r) ==
    /\ req[r].pc = "call"
    /\ LET q == req[r]
           state == history[at[q.next]]
           entries == UNION {{[key |-> k, value |-> v] : v \in state[k]} : k \in Head(q.chunks)}
       IN  req' = [req EXCEPT ![r] =
             IF entries = {} THEN Passed(q, 1)
             ELSE Took(q, entries, IF Account \in Keys THEN Reserves(state) ELSE 0)]
    /\ UNCHANGED <<history, at, hash, jobs, faults>>

\* An endpoint that cannot be reached, or answers nonsense, is passed over;
\* an error object ends the request, and so does the entry of another key.
EndpointFails(r, how) ==
    /\ req[r].pc = "call" /\ faults < MaxFaults /\ faults' = faults + 1
    /\ req' = [req EXCEPT ![r] =
         CASE how = "down" -> Passed(@, 0)
           [] how = "error" -> Failed(@)
           [] how = "other" -> IF @.kind = "sponsors" THEN Failed(@)
                               ELSE Took(@, {[key |-> p, value |-> p] : p \in Code \ {@.hash}}, 0)]
    /\ UNCHANGED <<history, at, hash, jobs>>

-----------------------------------------------------------------------------
(* Decompilation.                                                          *)

Held == {j \in jobs : j.permit}
MustWait(r) == req[r].kind = "rust" /\ Cardinality(Held) = Slots

\* The Rust form takes a permit, which the job keeps to its end; WAT takes
\* none.  Some programs overrun any deadline.
decompile_on_blocking_pool(r, slow) ==
    /\ req[r].pc = "slot" /\ ~MustWait(r)
    /\ jobs' = jobs \cup {[request |-> r, permit |-> req[r].kind = "rust", slow |-> slow]}
    /\ req' = [req EXCEPT ![r].pc = "run", ![r].ran = TRUE]
    /\ UNCHANGED <<history, at, hash, faults>>

\* The job ends; a request that still waits for it is answered.
decompile_blocking(j, ok) ==
    /\ j \in jobs /\ jobs' = jobs \ {j}
    /\ req' = [req EXCEPT ![j.request] =
         IF @.pc # "run" THEN @
         ELSE IF ~ok THEN Failed(@)
         ELSE [Answered(@, "source") EXCEPT !.answer.of = req[j.request].bytes]]
    /\ UNCHANGED <<history, at, hash, faults>>

\* The deadlines: DECOMPILE_TIMEOUT from the wait for a slot on, which only
\* a slow job or the lack of a slot exceeds; FETCH_DEADLINE over the calls
\* for sponsors.
Timeout(r) ==
    /\ \/ req[r].pc = "slot" /\ MustWait(r)
       \/ req[r].pc = "run" /\ \E j \in jobs : j.request = r /\ j.slow
       \/ req[r].pc = "call" /\ req[r].kind = "sponsors"
    /\ req' = [req EXCEPT ![r] = Answered(@, "timeout")]
    /\ UNCHANGED <<history, at, hash, jobs, faults>>

FetchNext ==
    \/ \E k \in Keys : \E entry \in {{}} \cup {{v} : v \in Code \cup Holders} :
         (k \in AccountKeys => entry \subseteq Holders) /\ Close(k, entry)
    \/ \E u \in Urls : CatchUp(u)
    \/ \E p \in Code : Upgrade(p)
    \/ \E r \in Requests :
         \/ \E kind \in Kinds : Ask(r, kind)
         \/ ReadBytes(r) \/ get_ledger_entries(r)
         \/ \E how \in {"down", "error", "other"} : EndpointFails(r, how)
         \/ \E slow \in BOOLEAN : decompile_on_blocking_pool(r, slow)
         \/ Timeout(r)
    \/ \E j \in jobs, ok \in BOOLEAN : decompile_blocking(j, ok)

FetchSpec == FetchInit /\ [][FetchNext]_fetchVars

-----------------------------------------------------------------------------

FetchTypeOK ==
    /\ at \in [Urls -> 1..Len(history)] /\ hash \in Code \cup {"none"}
    /\ \A r \in Requests :
         /\ req[r].pc \in {"idle", "bytes", "call", "slot", "run", "done"}
         /\ req[r].pc = "call" => req[r].next \in Urls /\ req[r].empty_answers < req[r].next
         /\ req[r].pc = "run" => \E j \in jobs : j.request = r

Answer(r, is) == req[r].pc = "done" /\ req[r].answer.is = is
\* The states an endpoint may have answered from during a request.
Seen(r, u) == {history[l] : l \in req[r].since[u]..req[r].answer.upto[u]}

\* A source is decompiled from the program that the response names, however
\* the contract is upgraded and whatever entry an endpoint sends.
SourceIsOfHash ==
    \A r \in Requests : Answer(r, "source") => req[r].answer.of = req[r].hash

\* A program (an account) is said not to be on the ledger only if every
\* endpoint was without it at some point of the request: one that lags, or
\* is pruned, or does not answer, is not believed alone.
GoneIsAgreed ==
    \A r \in Requests :
        /\ Answer(r, "not_live") => \A u \in Urls : \E s \in Seen(r, u) : s[req[r].hash] = {}
        /\ Answer(r, "no_account") => \A u \in Urls : \E s \in Seen(r, u) : s[Account] = {}

\* However many requests gave up, no more decompilations to Rust run than
\* there are slots; and WAT is served while they are all taken: only its own
\* work can exceed the deadline.
OverrunsBounded ==
    /\ Cardinality({j \in jobs : req[j.request].kind = "rust"}) <= Slots
    /\ \A r \in Requests : Answer(r, "timeout") /\ req[r].kind = "wat" => req[r].ran

SameCall(k, other) ==
    \E i \in DOMAIN Chunked(<<Account>> \o Lines) : {k, other} \subseteq Chunked(<<Account>> \o Lines)[i]

\* Who is listed as a sponsor was one, in the state of some endpoint during
\* the request; a trustline sponsored alike in all of those states is listed;
\* a call that gave nothing was given nothing by every endpoint; and where they were all one state, the reserves listed are the number the
\* account entry has.
SponsorsAreTrue ==
    \A r \in Requests : Answer(r, "sponsors") =>
        LET a == req[r].answer
            seen == UNION {Seen(r, u) : u \in Urls}
            listed == {e.key : e \in a.entries}
        IN  /\ \A e \in a.entries : \E s \in seen : s[e.key] = {e.sponsor}
            /\ \A k \in AccountKeys, by \in Sponsors : (\A s \in seen : s[k] = {by}) => k \in listed
            /\ \A k \in AccountKeys : (~\E e \in req[r].got : e.key = k) =>
                 \A u \in Urls : \E s \in Seen(r, u) : s[k] = {}
                    \/ \E e \in req[r].got : SameCall(e.key, k)
            /\ Cardinality(seen) = 1 =>
                 a.num_sponsored = Cardinality(listed) + Cardinality(listed \cap {Account})

=============================================================================
