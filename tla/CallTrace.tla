------------------------------ MODULE CallTrace -------------------------------
(***************************************************************************)
(* Who called whom in a Soroban transaction: extract_invocations           *)
(* (crates/xdr-parser/src/invocation.rs).                                  *)
(*                                                                         *)
(* The host writes a trace as it runs, one entry when a contract is        *)
(* entered and one when it returns; the parser replays the trace with a    *)
(* stack of its own, and without a trace it reads the authorization trees  *)
(* of the envelope.  A callee whose failure its caller catches is left     *)
(* without an entry.                                                       *)
(*                                                                         *)
(* A tree is [contract, subs]; contract is NoContract where the node       *)
(* authorizes the creation of one.                                         *)
(***************************************************************************)
EXTENDS Naturals, Sequences, FiniteSets, SequencesExt

CONSTANTS
    Contracts,   \* what may be called
    NoContract,  \* stands for no contract
    Envelopes,   \* [source, ops], an op [invoke, source, auth]
    NoOverride,  \* an operation that has no source of its own
    MaxTrace     \* bound: entries of a trace

CallTraceAssumption == NoContract \notin Contracts /\ MaxTrace \in Nat

VARIABLES
    envelope,    \* the transaction
    tracing,     \* whether the node writes diagnostics
    active,      \* the host's stack of contracts
    trace,       \* what the host has written
    calls,       \* the calls it has made, in order: the chain
    caught,      \* whether some caller has caught a failure
    result       \* what the parser extracts, <<>> before it has

traceVars == <<envelope, tracing, active, trace, calls, caught, result>>

-----------------------------------------------------------------------------
(* The host.                                                               *)

OpSource(op) == IF op.source = NoOverride THEN envelope.source ELSE op.source

\* The source of the call's operation: the first invocation's, or else the
\* transaction's.
Invocations == SelectSeq(envelope.ops, LAMBDA op : op.invoke)
RootCaller == IF Invocations = <<>> THEN envelope.source ELSE OpSource(Invocations[1])

Running == result = <<>> /\ Invocations # <<>> /\ Len(trace) < MaxTrace

Write(entry) == trace' = IF tracing THEN Append(trace, entry) ELSE trace

\* Entry into a contract, from the transaction once or from a contract.
Call(contract) ==
    /\ Running /\ Len(calls) < MaxTrace
    /\ active = <<>> => calls = <<>>
    /\ calls' = Append(calls, [contract |-> contract, depth |-> Len(active),
                               caller |-> IF active = <<>> THEN RootCaller ELSE Last(active)])
    /\ active' = Append(active, contract)
    /\ Write([type |-> "diagnostic", topic |-> "fn_call", contract |-> contract])
    /\ UNCHANGED <<envelope, tracing, caught, result>>

Return ==
    /\ Running /\ active # <<>>
    /\ active' = Front(active)
    /\ Write([type |-> "diagnostic", topic |-> "fn_return", contract |-> Last(active)])
    /\ UNCHANGED <<envelope, tracing, calls, caught, result>>

\* A call fails and its caller goes on (try_call): nothing says that the
\* failed one is over.
Fail ==
    /\ Running /\ Len(active) > 1
    /\ active' = Front(active) /\ caught' = TRUE
    /\ UNCHANGED <<envelope, tracing, trace, calls, result>>

\* Everything else in the trace: a log, an error, a metric, and the copy of
\* an event that a contract has emitted, under whatever topic it likes.
Note(type, topic) ==
    /\ Running /\ active # <<>>
    /\ type = "diagnostic" => topic = "log"
    /\ Write([type |-> type, topic |-> topic, contract |-> Last(active)])
    /\ UNCHANGED <<envelope, tracing, active, calls, caught, result>>

-----------------------------------------------------------------------------
(* The parser.                                                             *)

\* classify_diag_topic, after the test for the type.
IsCall(entry) == entry.type = "diagnostic" /\ entry.topic = "fn_call"
IsReturn(entry) == entry.type = "diagnostic" /\ entry.topic = "fn_return"

\* extract_invocations_from_diagnostics: a return takes the topmost frame,
\* whichever contract it names, if there is one.
Walk(walked, entry) ==
    LET frames == walked.frames
    IN  IF IsCall(entry)
        THEN [frames |-> Append(frames, entry.contract),
              rows |-> Append(walked.rows,
                  [contract |-> entry.contract, depth |-> Len(frames),
                   caller |-> IF frames = <<>> THEN RootCaller ELSE Last(frames)])]
        ELSE [walked EXCEPT !.frames = IF IsReturn(entry) /\ @ # <<>> THEN Front(@) ELSE @]
FromTrace == FoldLeft(Walk, [frames |-> <<>>, rows |-> <<>>], trace).rows

\* flatten_invocation: a stack of nodes, the children pushed in reverse.
RECURSIVE Flatten(_, _)
Flatten(stack, out) ==
    IF stack = <<>> THEN out
    ELSE LET frame == Last(stack)
             node == frame.node
             child(k) == [node |-> node.subs[k], depth |-> frame.depth + 1, caller |-> node.contract]
         IN  Flatten(Front(stack) \o Reverse([k \in DOMAIN node.subs |-> child(k)]),
                     Append(out, [contract |-> node.contract, depth |-> frame.depth, caller |-> frame.caller]))

\* flatten_auth_tree, over the entries of every invocation.
FromAuth ==
    FlattenSeq([k \in DOMAIN Invocations |->
        FlattenSeq([n \in DOMAIN Invocations[k].auth |->
            Flatten(<<[node |-> Invocations[k].auth[n], depth |-> 0, caller |-> OpSource(Invocations[k])]>>, <<>>)])])

\* invocation_to_json: the nodes in visit order, then built from the last.
RECURSIVE Visits(_, _)
Visits(stack, seen) ==
    IF stack = <<>> THEN seen
    ELSE Visits(Front(stack) \o Reverse(Last(stack).subs), Append(seen, Last(stack)))

Build(built, node) ==
    LET rest == Len(built) - Len(node.subs)
    IN  Append(SubSeq(built, 1, rest),
               [contract |-> node.contract, subs |-> SubSeq(built, rest + 1, Len(built))])

ToJson(tree) == Last(FoldLeft(Build, <<>>, Reverse(Visits(<<tree>>, <<>>))))

\* extract_invocations, once the transaction is over.
ExtractInvocations ==
    /\ result = <<>>
    /\ result' = [invocations |-> IF FromTrace = <<>> THEN FromAuth ELSE FromTrace,
                  operation_tree |-> FlattenSeq([k \in DOMAIN Invocations |->
                      [n \in DOMAIN Invocations[k].auth |-> ToJson(Invocations[k].auth[n])]])]
    /\ UNCHANGED <<envelope, tracing, active, trace, calls, caught>>

TraceInit ==
    /\ envelope \in Envelopes /\ tracing \in BOOLEAN
    /\ active = <<>> /\ trace = <<>> /\ calls = <<>> /\ caught = FALSE /\ result = <<>>

TraceNext ==
    \/ \E contract \in Contracts : Call(contract)
    \/ Return
    \/ Fail
    \/ \E type \in {"contract", "diagnostic"}, topic \in {"fn_call", "fn_return", "log"} : Note(type, topic)
    \/ ExtractInvocations

-----------------------------------------------------------------------------
(* Properties.                                                             *)

TraceTypeOK ==
    /\ envelope \in Envelopes /\ active \in Seq(Contracts) /\ caught \in BOOLEAN
    /\ Len(trace) <= MaxTrace /\ Len(calls) <= MaxTrace

Extracted == result # <<>>

\* Every call is a row, in the order of the calls, whatever contracts write
\* under the trace's own topics, whatever fails and whatever traps.
EveryCallOnce ==
    Extracted /\ tracing /\ calls # <<>> =>
        [k \in DOMAIN result.invocations |-> result.invocations[k].contract]
            = [k \in DOMAIN calls |-> calls[k].contract]

\* Where no caller has caught a failure, each row also has the caller and
\* the depth of its call, and a row for a root call has an account.
CallersAreTrue ==
    Extracted /\ tracing /\ calls # <<>> /\ ~caught => result.invocations = calls

\* Without a trace the rows are those of the authorization trees, parents
\* before children and siblings from left to right, each with its parent.
RECURSIVE Preorder(_, _, _)
Preorder(tree, depth, caller) ==
    <<[contract |-> tree.contract, depth |-> depth, caller |-> caller]>>
        \o FlattenSeq([k \in DOMAIN tree.subs |-> Preorder(tree.subs[k], depth + 1, tree.contract)])
TreesInOrder ==
    Extracted /\ (~tracing \/ calls = <<>>) =>
        result.invocations =
            FlattenSeq([k \in DOMAIN Invocations |->
                FlattenSeq([n \in DOMAIN Invocations[k].auth |->
                    Preorder(Invocations[k].auth[n], 0, OpSource(Invocations[k]))])])

\* The trees of the detail page hold the nodes of the authorization, each
\* under its parent; siblings are not in order.
RECURSIVE Mirror(_)
Mirror(tree) == [contract |-> tree.contract,
                 subs |-> Reverse([k \in DOMAIN tree.subs |-> Mirror(tree.subs[k])])]
TreesKeepParents ==
    Extracted =>
        result.operation_tree =
            FlattenSeq([k \in DOMAIN Invocations |->
                [n \in DOMAIN Invocations[k].auth |-> Mirror(Invocations[k].auth[n])]])

\* What the source says of it ("in reverse for left-to-right order").
TreesKeepOrder ==
    Extracted =>
        result.operation_tree =
            FlattenSeq([k \in DOMAIN Invocations |-> Invocations[k].auth])

\* What the source says of every trace ("the caller is the frame currently
\* executing").
CallersAlwaysTrue == Extracted /\ tracing /\ calls # <<>> => result.invocations = calls

=============================================================================
