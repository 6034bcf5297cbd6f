---------------------------- MODULE EventStream ----------------------------
(***************************************************************************)
(* One chat turn as a stream: the nodes of a run emit numbered events      *)
(* (graph/events.py), the runtime filters what the graph streams           *)
(* (graph/runtime.py, astream), and the SSE adapter turns the result into  *)
(* envelopes for the client (api/sse.py), while the client may leave, the  *)
(* timeout may fire and the graph may raise at any point.                  *)
(*                                                                         *)
(* The chain is pulled.  The adapter asks for one item at a time, each in  *)
(* a task of its own; the graph starts the next superstep only when what   *)
(* it streamed so far was taken; a superstep in progress goes on emitting  *)
(* although nobody asks.  How the graph's nodes follow each other is in    *)
(* AssistantGraph; here a run is a number of guarded nodes, perhaps        *)
(* handle_failure, and finalize_execution.                                 *)
(***************************************************************************)
EXTENDS Naturals, Sequences

CONSTANTS
    MaxNodes,  \* bound: guarded nodes on the path of a run
    MaxEvents  \* bound: event numbers that guarded nodes use

ASSUME StreamAssumption ==
    /\ MaxNodes \in Nat \ {0}
    /\ MaxEvents \in Nat

VARIABLES
    node,     \* the node that runs or is to run next, or how the run ended
    busy,     \* a superstep is in progress
    path,     \* guarded nodes still on the path
    failing,  \* the run went through handle_failure
    history,  \* the number that follows the activity_events channel
    journal,  \* next_sequence of the EventJournal of the node that runs
    earlier,  \* the final_output an earlier turn left in the checkpoint
    parts,    \* what the graph streamed and nobody took yet
    expected, \* expected_sequence of the runtime
    ended,    \* terminal_seen of the runtime
    pending,  \* the adapter's pending item: none, asked for, or its outcome
    item,     \* the item it delivered
    asked,    \* items asked for: 0, 1, or 2 for more
    expired,  \* the timeout fired
    span,     \* the root span: off without a recorder, none before the run,
              \* open, or the status it finished with
    phase,    \* of the adapter's generator
    held,     \* the terminal event that waits for the output
    wire,     \* the envelopes sent
    client    \* "here" or "gone"

graph == <<node, busy, path, failing, history, journal>>
runtime == <<expected, ended>>
adapter == <<pending, item, asked, phase, held, wire>>
vars == <<graph, earlier, parts, runtime, adapter, expired, span, client>>

NoResponse == [of |-> "none", failed |-> FALSE]
This == [of |-> "this", failed |-> failing]

Event(type, n) == [kind |-> "event", type |-> type, number |-> n,
                   output |-> NoResponse]
Values(output) == [kind |-> "values", type |-> "activity", number |-> 0,
                   output |-> output]
NoItem == Values(NoResponse)

Kinds == {"response.completed", "response.failed", "activity"}
Responses == [of : {"none", "this", "earlier"}, failed : BOOLEAN]
Parts == [kind : {"event", "values"}, type : Kinds, number : Nat,
          output : Responses]
Envelopes == [sequence : Nat,
              type : Kinds \cup {"stream.started", "stream.error"},
              response : Responses]

InProgress == {"initialize", "guarded", "handler", "final"}

-----------------------------------------------------------------------------
(* The run: nodes, their events, and what the graph streams.               *)

\* The graph takes the input and streams the state it starts from, which
\* still has the final_output of an earlier turn: _base_state does not name
\* it.  The root span was opened and the session claimed in the same task.
Begin ==
    /\ node = "start" /\ pending = "asked"
    /\ node' = "initialize"
    /\ parts' = <<Values(earlier)>>
    /\ span' = IF span = "none" THEN "open" ELSE span
    /\ UNCHANGED <<busy, path, failing, history, journal, earlier, runtime,
                   adapter, expired, client>>

\* The next superstep starts when the consumer has taken everything.
Enter ==
    /\ node \in InProgress /\ ~busy
    /\ pending = "asked" /\ parts = <<>>
    /\ busy' = TRUE
    /\ journal' = history
    /\ UNCHANGED <<node, path, failing, history, earlier, parts, runtime,
                   adapter, expired, span, client>>

\* A superstep ends: its events p were streamed, the values follow, h is what
\* the channel holds now, and next is where the edge leads.
Ends(p, output, h, next) ==
    /\ parts' = parts \o p \o <<Values(output)>>
    /\ history' = h
    /\ node' = next
    /\ busy' = FALSE
    /\ UNCHANGED <<journal, earlier, runtime, adapter, expired, span, client>>

\* initialize_request numbers its two events from zero, whatever the channel
\* holds, and append_events lets them replace it.
Initialize ==
    /\ node = "initialize" /\ busy
    /\ Ends(<<Event("activity", 0), Event("activity", 1)>>, earlier, 2,
            "guarded")
    /\ UNCHANGED <<path, failing>>

\* event() in a guarded node takes its number from the journal.
Emit ==
    /\ node = "guarded" /\ busy
    /\ journal < MaxEvents
    /\ parts' = Append(parts, Event("activity", journal))
    /\ journal' = journal + 1
    /\ UNCHANGED <<node, busy, path, failing, history, earlier, runtime,
                   adapter, expired, span, client>>

\* A guarded node returns, having failed or not, and its update carries the
\* journal.
NodeReturns(failed) ==
    /\ node = "guarded" /\ busy
    /\ path' = path - 1
    /\ failing' = failed
    /\ Ends(<<>>, earlier, journal,
            IF failed THEN "handler" ELSE IF path = 1 THEN "final"
            ELSE "guarded")

\* Mutant: the events of a node that raised are streamed and forgotten.
NodeRaisesForgetful(reported) ==
    /\ node = "guarded" /\ busy
    /\ reported => journal > history
    /\ failing' = TRUE
    /\ UNCHANGED path
    /\ IF reported THEN Ends(<<>>, earlier, history, "handler")
       ELSE Ends(<<Event("activity", journal)>>, earlier, history, "handler")

\* A guarded node raises: one event reports the failure unless the node had
\* reported it, and the journal is kept.
NodeRaises(reported) ==
    /\ node = "guarded" /\ busy
    /\ reported => journal > history
    /\ failing' = TRUE
    /\ UNCHANGED path
    /\ IF reported THEN Ends(<<>>, earlier, journal, "handler")
       ELSE Ends(<<Event("activity", journal)>>, earlier, journal + 1,
                 "handler")

\* The step budget is used up: no event, and no journal was opened.
OverBudget ==
    /\ node = "guarded" /\ busy /\ journal = history
    /\ failing' = TRUE
    /\ UNCHANGED path
    /\ Ends(<<>>, earlier, history, "handler")

\* Not guarded: the numbers follow the channel.
HandleFailure ==
    /\ node = "handler" /\ busy
    /\ Ends(<<Event("activity", history), Event("activity", history + 1)>>,
            earlier, history + 2, "final")
    /\ UNCHANGED <<path, failing>>

FinalEvent == Event(IF failing THEN "response.failed"
                    ELSE "response.completed", history)

\* finalize_execution: the terminal event, then the output of this turn.
Finalize ==
    /\ node = "final" /\ busy
    /\ Ends(<<FinalEvent>>, This, history + 1, "over")
    /\ UNCHANGED <<path, failing>>

\* It is not guarded, and building the output may raise after the terminal
\* event was streamed.
FinalizeRaises ==
    /\ node = "final" /\ busy
    /\ parts' = Append(parts, FinalEvent)
    /\ node' = "raised" /\ busy' = FALSE
    /\ UNCHANGED <<path, failing, history, journal, earlier, runtime, adapter,
                   expired, span, client>>

\* LangGraph itself raises.
GraphRaises ==
    /\ node \in InProgress
    /\ node' = "raised" /\ busy' = FALSE
    /\ UNCHANGED <<path, failing, history, journal, earlier, parts, runtime,
                   adapter, expired, span, client>>

Run ==
    \/ Begin \/ Enter \/ Initialize \/ Emit
    \/ \E b \in BOOLEAN : NodeReturns(b) \/ NodeRaises(b)
    \/ OverBudget \/ HandleFailure \/ Finalize

-----------------------------------------------------------------------------
(* The runtime's generator, inside the task the adapter made for one item. *)

\* The run is over for good: a graph iterator that is closed cancels the
\* superstep in progress.
Stopped(n) == IF n \in InProgress THEN "closed" ELSE n

\* The generator finishes: the span with this status, the task with that
\* outcome.
Leaves(status, outcome) ==
    /\ span' = IF span = "open" THEN status ELSE span
    /\ pending' = outcome
    /\ node' = Stopped(node) /\ busy' = FALSE /\ parts' = <<>>
    /\ UNCHANGED <<path, failing, history, journal, earlier, runtime, item,
                   asked, expired, phase, held, wire, client>>

Yields(p) ==
    /\ item' = p
    /\ pending' = "item"

\* Mutant: a value that has a final output is the output.
DeliverableEarly(p) ==
    IF p.kind = "event" THEN ~ended /\ p.number = expected
    ELSE p.output.of # "none"

\* What the runtime passes on: the next event until the terminal one, and
\* after that the final output.  (The output is delivered once: the adapter
\* asks for nothing after it.)
Deliverable(p) ==
    IF p.kind = "event" THEN ~ended /\ p.number = expected
    ELSE p.output.of # "none" /\ ended

Project ==
    LET p == Head(parts)
    IN /\ pending = "asked" /\ parts # <<>>
       /\ parts' = Tail(parts)
       /\ IF Deliverable(p) THEN Yields(p) ELSE UNCHANGED <<item, pending>>
       /\ IF Deliverable(p) /\ p.kind = "event"
          THEN /\ expected' = expected + 1
               /\ ended' = (p.type # "activity")
          ELSE UNCHANGED runtime
       /\ UNCHANGED <<graph, earlier, asked, expired, span, phase, held, wire,
                      client>>

\* The session is claimed by another principal: nothing is started.
ClaimRefused ==
    /\ node = "start" /\ pending = "asked"
    /\ node' = "refused"
    /\ span' = IF span = "none" THEN "failed" ELSE span
    /\ pending' = "error"
    /\ UNCHANGED <<busy, path, failing, history, journal, earlier, parts,
                   runtime, item, asked, expired, phase, held, wire, client>>

\* The graph's iterator raises or is exhausted.  With a span, the token of the
\* context variable was made in the task of the first item: reset() raises
\* here.
IteratorEnds ==
    /\ pending = "asked" /\ parts = <<>> /\ node \in {"over", "raised"}
    /\ IF node = "raised" THEN Leaves("failed", "error")
       ELSE Leaves("completed",
                   IF span = "open" /\ asked > 1 THEN "error" ELSE "stop")

\* asyncio.timeout cancels the task that entered it, the one of the first
\* item.  Once that task is done the timeout only counts as expired.
Timeout ==
    /\ ~expired /\ node # "start" /\ phase = "loop"
    /\ IF pending = "asked" /\ asked = 1
       THEN Leaves("failed", "error")
       ELSE /\ expired' = TRUE
            /\ UNCHANGED <<graph, earlier, parts, runtime, adapter, span,
                           client>>

Generator == Project \/ IteratorEnds

-----------------------------------------------------------------------------
(* The adapter.                                                            *)

Envelope(type, response) ==
    [sequence |-> Len(wire), type |-> type, response |-> response]

Send(type, response) == wire' = Append(wire, Envelope(type, response))

Others == <<earlier, runtime, expired, client>>

Open ==
    /\ phase = "new"
    /\ Send("stream.started", NoResponse)
    /\ phase' = "loop"
    /\ UNCHANGED <<graph, parts, span, pending, item, asked, held, Others>>

\* Mutant: the next item is asked for before the last one was taken.
AskEagerly ==
    /\ phase = "loop" /\ pending \in {"none", "item"}
    /\ pending' = "asked"
    /\ asked' = IF asked = 0 THEN 1 ELSE 2
    /\ UNCHANGED <<graph, parts, span, item, phase, held, wire, Others>>

\* A new task for the next item.
Ask ==
    /\ phase = "loop" /\ pending = "none"
    /\ pending' = "asked"
    /\ asked' = IF asked = 0 THEN 1 ELSE 2
    /\ UNCHANGED <<graph, parts, span, item, phase, held, wire, Others>>

Forward ==
    /\ phase = "loop" /\ pending = "item"
    /\ item.kind = "event" /\ item.type = "activity"
    /\ Send("activity", NoResponse)
    /\ pending' = "none"
    /\ UNCHANGED <<graph, parts, span, item, asked, phase, held, Others>>

\* The terminal event waits for the output.
Hold ==
    /\ phase = "loop" /\ pending = "item"
    /\ item.kind = "event" /\ item.type # "activity"
    /\ held' = item.type
    /\ pending' = "none"
    /\ UNCHANGED <<graph, parts, span, item, asked, phase, wire, Others>>

\* The output ends the stream, under the type of the held event.
Answer ==
    /\ phase = "loop" /\ pending = "item" /\ item.kind = "values"
    /\ Send(IF held = "none" THEN "response.completed" ELSE held, item.output)
    /\ pending' = "none"
    /\ phase' = "closing"
    /\ UNCHANGED <<graph, parts, span, item, asked, held, Others>>

\* The items ended without an output, or the generator raised.
Error ==
    /\ phase = "loop" /\ pending \in {"stop", "error"}
    /\ Send("stream.error", NoResponse)
    /\ pending' = "none"
    /\ phase' = "closing"
    /\ UNCHANGED <<graph, parts, span, item, asked, held, Others>>

\* A ping finds the client gone and cancels the pending task.  A timeout that
\* expired meanwhile turns the cancellation into a TimeoutError.
Ping ==
    /\ phase = "loop" /\ pending = "asked" /\ client = "gone"
    /\ node' = Stopped(node) /\ busy' = FALSE /\ parts' = <<>>
    /\ span' = IF span # "open" THEN span
               ELSE IF expired THEN "failed" ELSE "cancelled"
    /\ pending' = "none"
    /\ phase' = "closing"
    /\ IF expired THEN Send("stream.error", NoResponse) ELSE UNCHANGED wire
    /\ UNCHANGED <<path, failing, history, journal, item, asked, held, Others>>

\* The server cancels the response of a client that is gone, wherever the
\* adapter is suspended; a pending task is cancelled on the way out.
Cancelled ==
    /\ phase = "loop" /\ client = "gone"
    /\ phase' = "closing"
    /\ IF pending = "asked"
       THEN /\ node' = Stopped(node) /\ busy' = FALSE /\ parts' = <<>>
            /\ span' = IF span # "open" THEN span
                       ELSE IF expired THEN "failed" ELSE "cancelled"
       ELSE UNCHANGED <<node, busy, parts, span>>
    /\ pending' = "none"
    /\ UNCHANGED <<path, failing, history, journal, item, asked, held, wire,
                   Others>>

\* Mutant: the iterator is not closed.
CloseNothing ==
    /\ phase = "closing"
    /\ phase' = "closed"
    /\ UNCHANGED <<graph, parts, span, pending, item, asked, held, wire,
                   Others>>

\* aclose(): a generator that is suspended gets GeneratorExit, which none of
\* the span's handlers names; the span finishes with the status it had.
Close ==
    /\ phase = "closing"
    /\ phase' = "closed"
    /\ node' = Stopped(node) /\ busy' = FALSE /\ parts' = <<>>
    /\ span' = IF span = "open" THEN "running" ELSE span
    /\ UNCHANGED <<path, failing, history, journal, pending, item, asked, held,
                   wire, Others>>

Adapter == Open \/ Ask \/ Forward \/ Hold \/ Answer \/ Error \/ Close

Leave ==
    /\ client = "here" /\ wire # <<>> /\ phase # "closed"
    /\ client' = "gone"
    /\ UNCHANGED <<graph, earlier, parts, runtime, adapter, expired, span>>

-----------------------------------------------------------------------------

Init ==
    /\ node = "start" /\ busy = FALSE /\ failing = FALSE
    /\ path \in 1..MaxNodes
    /\ history = 0 /\ journal = 0
    /\ earlier \in {NoResponse} \cup [of : {"earlier"}, failed : BOOLEAN]
    /\ parts = <<>>
    /\ expected = 0 /\ ended = FALSE
    /\ pending = "none" /\ item = NoItem /\ asked = 0
    /\ expired = FALSE
    /\ span \in {"none", "off"}
    /\ phase = "new" /\ held = "none" /\ wire = <<>>
    /\ client = "here"

Over == phase = "closed" /\ UNCHANGED vars

Next ==
    \/ Run \/ FinalizeRaises \/ GraphRaises
    \/ Generator \/ ClaimRefused \/ Timeout
    \/ Adapter \/ Ping \/ Cancelled \/ Leave
    \/ Over

Spec == Init /\ [][Next]_vars

\* The event loop runs every task that is ready: a node returns (every node
\* awaits something that ends or has a deadline of its own), a task that was
\* asked for an item goes on, the adapter takes what is there and pings.
\* Nothing obliges the client to stay, the timeout to fire or the graph to
\* raise.
FairSpec ==
    /\ Spec
    /\ WF_vars(Run) /\ WF_vars(Generator) /\ WF_vars(Adapter) /\ WF_vars(Ping)

-----------------------------------------------------------------------------
(* What a stream guarantees.                                               *)

\* Every variable has its type.
TypeOK ==
    /\ node \in InProgress \cup {"start", "refused", "over", "raised",
                                 "closed"}
    /\ busy \in BOOLEAN /\ failing \in BOOLEAN
    /\ path \in 0..MaxNodes /\ history \in Nat /\ journal \in Nat
    /\ earlier \in Responses
    /\ parts \in Seq(Parts)
    /\ expected \in Nat /\ ended \in BOOLEAN
    /\ pending \in {"none", "asked", "item", "stop", "error"}
    /\ item \in Parts
    /\ asked \in 0..2 /\ expired \in BOOLEAN
    /\ span \in {"none", "off", "open", "completed", "failed", "cancelled",
                 "running"}
    /\ phase \in {"new", "loop", "closing", "closed"}
    /\ held \in Kinds \cup {"none"}
    /\ wire \in Seq(Envelopes)
    /\ client \in {"here", "gone"}

\* Whatever fails and whenever the client leaves, the envelopes sent are ones
\* the frontend's validator accepts: one terminal envelope, the last, and if
\* it is an answer it answers this request with the status it announces.  It
\* takes the runtime's filter, the held event and the early return together.
Unsent == [sequence |-> 0, type |-> "activity", response |-> NoResponse]

Last == IF wire = <<>> THEN Unsent ELSE wire[Len(wire)]

Client == INSTANCE StreamContract WITH accepted <- Len(wire), last <- Last

KeepsContract == Client!Contract

Answered == wire # <<>> /\ Last.type \in {"response.completed",
                                          "response.failed"}

\* A turn that produced its output is answered with it if the client stays:
\* no failure of a node, no used-up budget and no expired timeout makes a gap
\* in the numbering at which the runtime would drop the terminal event.
NoAnswerLost ==
    phase = "closed" /\ client = "here" /\ node = "over" => Answered

\* An answered client saw every event the nodes emitted.
NothingSkipped ==
    Answered => /\ Len(wire) = history + 1
                /\ \A i \in 2..Len(wire) - 1 : wire[i].type = "activity"

\* A stream that was opened ends, and with it the run: also when the client
\* leaves in the middle of a superstep.
EveryStreamCloses ==
    phase = "loop" ~> phase = "closed" /\ node \notin InProgress

\* docs/langsmith-tracing-design.md: "an authorization denial is a
\* successfully completed trace": the root trace of an answered turn
\* completed.
AnsweredTraceCompletes ==
    phase = "closed" /\ Answered /\ Last.type = "response.completed"
        => span \in {"off", "completed"}
=============================================================================
