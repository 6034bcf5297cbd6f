--------------------------- MODULE AssistantGraph ---------------------------
(***************************************************************************)
(* The assistant's LangGraph workflow (graph/nodes.py, graph/builder.py)   *)
(* as GraphRuntime (graph/runtime.py) runs it: every request of a          *)
(* conversation is one run of the same compiled graph over the channels    *)
(* that the checkpointer keeps for the session.                            *)
(*                                                                         *)
(* A run loads the session's latest checkpoint, overwrites the channels    *)
(* named in _base_state, and executes one node per superstep.  A node      *)
(* returns a partial update; the channels it does not name keep the value  *)
(* they had, whichever request wrote it.  After every superstep the whole  *)
(* channel record becomes the session's checkpoint.  Two runs of one       *)
(* session may overlap: each works on its own copy, and the last           *)
(* checkpoint written is the one the next run loads.                       *)
(*                                                                         *)
(* What a channel holds is reduced to what the properties tell apart: an   *)
(* analysis result, a research result or a tool execution is the request   *)
(* that produced it; evidence is a set of items.                           *)
(***************************************************************************)
EXTENDS Naturals, FiniteSets

CONSTANTS
    Requests,     \* chat requests, one run of the graph each
    Sessions,     \* conversation ids; the checkpointer's thread ids
    Principals,   \* authenticated (user, role, permission set) claims
    SessionOf,    \* the session each request names
    PrincipalOf,  \* the principal each request was authenticated as
    Permits,      \* the routes supervise() may select for a principal
    Evidence,     \* evidence items a search may return, one for a chunk
    Readable,     \* those whose roles and access level admit a principal
    Acceptable,   \* those that pass the other tests of validate_evidence
    MaxReferences,\* settings.memory_max_evidence_references
    FaultyNodes,  \* guarded nodes that may raise an exception
    MaxSteps,     \* settings.graph_max_steps
    MaxActive,    \* bound: runs in progress at one time
    None          \* an empty channel

Routes == {"simple_retrieval", "recursive_research", "python_analysis",
           "mcp_tool", "direct_response", "deny", "unsupported", "failure"}

Status == {"running", "completed", "partial_success", "denied", "failed"}

WarningKinds == {"memory_not_loaded", "limited_result", "evidence_rejected",
                 "no_exact_match", "unavailable", "memory_not_updated"}

Guarded == {"validate_request", "load_memory", "resolve_followup_context",
            "classify_intent", "supervisor", "simple_retrieval",
            "cross_document_research", "validate_evidence",
            "direct_response", "deny_request", "unsupported",
            "python_analysis", "execute_mcp_tool", "generate_response",
            "validate_citations", "prepare_output", "update_memory"}

Nodes == Guarded \cup
         {"initialize_request", "handle_failure", "finalize_execution"}

\* The request names a session and was made by one principal; an evidence
\* item is acceptable or it is not; the two settings have the bound ge=1.
ASSUME RequestsAssumption ==
    /\ SessionOf \in [Requests -> Sessions]
    /\ PrincipalOf \in [Requests -> Principals]
    /\ Permits \in [Principals -> SUBSET (Routes \ {"failure"})]
    /\ None \notin Requests
    /\ None \notin Principals
ASSUME EvidenceAssumption ==
    /\ Acceptable \subseteq Evidence
    /\ Readable \in [Principals -> SUBSET Evidence]
ASSUME FaultyAssumption == FaultyNodes \subseteq Guarded
ASSUME BoundsAssumption ==
    /\ MaxSteps \in Nat \ {0}
    /\ MaxActive \in Nat \ {0}
    /\ MaxReferences \in Nat \ {0}

VARIABLES
    pc,       \* where each run is: a node, or how it ended
    channels, \* the run's copy of the graph state
    ckpt,     \* the latest checkpoint of each session
    owner,    \* _session_owners: the claim on each session
    memory,   \* the turns the conversation store holds for each session
    output,   \* the final output each run returned
    supersteps, \* supersteps a run has executed, for the recursion limit
    fault     \* whether this run met an invalid input or a failure of its own

vars == <<pc, channels, ckpt, owner, memory, output, supersteps, fault>>

Origin == Requests \cup {None}

\* grounded: whose material the grounded response renders, whether it is a
\* deterministic fallback, whether it carries citations.  verdict: the
\* citation validation and the request whose draft it judged.  answer: the
\* request whose work response_text renders.
Channels == [failure : BOOLEAN, status : Status, route : Routes,
             steps : Nat, evidence : SUBSET Evidence,
             warnings : SUBSET WarningKinds,
             analysis : Origin, research : Origin, mcp : Origin,
             grounded : [from : Origin, fallback : BOOLEAN, cited : BOOLEAN],
             verdict : [by : Origin, valid : BOOLEAN],
             answer : Origin]

EmptyChannels ==
    [failure |-> FALSE, status |-> "running", route |-> "unsupported",
     steps |-> 0, evidence |-> {}, warnings |-> {},
     analysis |-> None, research |-> None, mcp |-> None,
     grounded |-> [from |-> None, fallback |-> FALSE, cited |-> FALSE],
     verdict |-> [by |-> None, valid |-> TRUE],
     answer |-> None]

\* GraphOutput; "citations" is the request whose grounded response they
\* come from.
Outputs == [status : Status, route : Routes, evidence : SUBSET Evidence,
            warnings : SUBSET WarningKinds, answer : Origin,
            analysis : Origin, mcp : Origin, citations : Origin]

NoOutput == [status |-> "running", route |-> "unsupported", evidence |-> {},
             warnings |-> {}, answer |-> None, analysis |-> None,
             mcp |-> None, citations |-> None]

Turns == [request : Requests, status : Status, route : Routes,
          evidence : SUBSET Evidence]

Ended == {"answered", "cancelled", "rejected"}

Active == {r \in Requests : pc[r] \in Nodes}

-----------------------------------------------------------------------------
(* Topology.                                                               *)

RouteNode ==
    [simple_retrieval |-> "simple_retrieval",
     recursive_research |-> "cross_document_research",
     python_analysis |-> "python_analysis",
     mcp_tool |-> "execute_mcp_tool",
     direct_response |-> "direct_response",
     deny |-> "deny_request",
     unsupported |-> "unsupported",
     failure |-> "handle_failure"]

Follows ==
    [validate_request |-> "load_memory",
     load_memory |-> "resolve_followup_context",
     resolve_followup_context |-> "classify_intent",
     classify_intent |-> "supervisor",
     simple_retrieval |-> "validate_evidence",
     cross_document_research |-> "validate_evidence",
     validate_evidence |-> "generate_response",
     python_analysis |-> "generate_response",
     execute_mcp_tool |-> "prepare_output",
     generate_response |-> "validate_citations",
     validate_citations |-> "prepare_output",
     direct_response |-> "prepare_output",
     deny_request |-> "prepare_output",
     unsupported |-> "prepare_output",
     prepare_output |-> "update_memory",
     update_memory |-> "finalize_execution"]

\* Mutant: the edge out of update_memory ignores the failure channel.
EdgeFromUnguardedMemory(n, c) ==
    IF c.failure /\ n # "update_memory" THEN "handle_failure"
    ELSE IF n = "supervisor" THEN RouteNode[c.route] ELSE Follows[n]

\* Every conditional edge of the builder tests the failure channel first.
EdgeFrom(n, c) ==
    IF c.failure THEN "handle_failure"
    ELSE IF n = "supervisor" THEN RouteNode[c.route] ELSE Follows[n]

\* One superstep of r: the node's update is applied and checkpointed.
Superstep(r, c, next) ==
    /\ channels' = [channels EXCEPT ![r] = c]
    /\ ckpt' = [ckpt EXCEPT ![SessionOf[r]] = c]
    /\ supersteps' = [supersteps EXCEPT ![r] = @ + 1]
    /\ pc' = [pc EXCEPT ![r] = next]

\* Mutant: a node that does not count itself is not counted for it.
CountedBySome(c) == c

\* The step count after a guarded node returned.
Counted(c) == [c EXCEPT !.steps = @ + 1]

\* guarded() lets node n run: the step budget is not used up.
Enters(r, n) == pc[r] = n /\ channels[r].steps < MaxSteps

\* A guarded node returns normally with the update c of the channels.
Returns(r, n, c) ==
    /\ Superstep(r, Counted(c), EdgeFrom(n, c))
    /\ fault' = [fault EXCEPT ![r] = @ \/ (c.failure /\ ~channels[r].failure)]
    /\ UNCHANGED <<owner, output>>

-----------------------------------------------------------------------------
(* Accepting a request.                                                    *)

\* _initial_state over the checkpoint c.  The reducers of the evidence,
\* warning, report, error and event channels turn an empty right operand
\* into an empty channel; no other channel of an earlier run is reset, and
\* failure is written only for an oversized message.
BaseState(c, oversized) ==
    [c EXCEPT !.evidence = {}, !.warnings = {}, !.failure = @ \/ oversized]

\* Mutant: the claim is recorded, an earlier one is not compared.
StartUnclaimed(r, oversized) ==
    LET s == SessionOf[r]
        c == BaseState(ckpt[s], oversized)
    IN /\ pc[r] = "waiting"
       /\ Cardinality(Active) < MaxActive
       /\ owner' = [owner EXCEPT ![s] = PrincipalOf[r]]
       /\ channels' = [channels EXCEPT ![r] = c]
       /\ ckpt' = [ckpt EXCEPT ![s] = c]
       /\ pc' = [pc EXCEPT ![r] = "initialize_request"]
       /\ fault' = [fault EXCEPT ![r] = oversized]
       /\ UNCHANGED <<memory, output, supersteps>>

\* _claim_session, then the graph loads the session's checkpoint and applies
\* the input to it.
Start(r, oversized) ==
    LET s == SessionOf[r]
        c == BaseState(ckpt[s], oversized)
    IN /\ pc[r] = "waiting"
       /\ Cardinality(Active) < MaxActive
       /\ owner[s] \in {None, PrincipalOf[r]}
       /\ owner' = [owner EXCEPT ![s] = PrincipalOf[r]]
       /\ channels' = [channels EXCEPT ![r] = c]
       /\ ckpt' = [ckpt EXCEPT ![s] = c]
       /\ pc' = [pc EXCEPT ![r] = "initialize_request"]
       /\ fault' = [fault EXCEPT ![r] = oversized]
       /\ UNCHANGED <<memory, output, supersteps>>

\* SessionOwnershipError: another claim holds the session.
Reject(r) ==
    /\ pc[r] = "waiting"
    /\ owner[SessionOf[r]] \notin {None, PrincipalOf[r]}
    /\ pc' = [pc EXCEPT ![r] = "rejected"]
    /\ UNCHANGED <<channels, ckpt, owner, memory, output, supersteps, fault>>

\* Not guarded, and its only edge is unconditional.  It rewrites failure
\* with the value the channel already has.
Initialize(r) ==
    /\ pc[r] = "initialize_request"
    /\ Superstep(r, [channels[r] EXCEPT !.status = "running", !.steps = 1],
                 "validate_request")
    /\ UNCHANGED <<owner, memory, output, fault>>

-----------------------------------------------------------------------------
(* Preparation of the request.                                             *)

\* failure becomes "not valid", and a set failure channel is itself invalid.
ValidateRequest(r, wellFormed) ==
    LET valid == ~channels[r].failure /\ wellFormed
    IN /\ Enters(r, "validate_request")
       /\ Returns(r, "validate_request",
                  [channels[r] EXCEPT !.failure = ~valid])
       /\ UNCHANGED memory

\* A MemoryError leaves a warning and the run goes on without context.
LoadMemory(r, loaded) ==
    /\ Enters(r, "load_memory")
    /\ Returns(r, "load_memory",
               [channels[r] EXCEPT
                   !.warnings = IF loaded THEN @
                                ELSE @ \cup {"memory_not_loaded"}])
    /\ UNCHANGED memory

\* resolve_followup_context, classify_intent and prepare_output write none
\* of the modelled channels: response_text is already there when
\* prepare_output keeps it.
PassThrough(r, n) ==
    /\ n \in {"resolve_followup_context", "classify_intent",
              "prepare_output"}
    /\ Enters(r, n)
    /\ Returns(r, n, channels[r])
    /\ UNCHANGED memory

\* The deny route is open to every query: security_denial_category and
\* requests_inaccessible_access look at the text.
Supervisor(r, route) ==
    /\ Enters(r, "supervisor")
    /\ route \in Permits[PrincipalOf[r]] \cup {"deny"}
    /\ Returns(r, "supervisor", [channels[r] EXCEPT !.route = route])
    /\ UNCHANGED memory

-----------------------------------------------------------------------------
(* The capability the route names.                                         *)

\* RetrievalError or the deadline: only failure is written.
SimpleRetrievalFails(r) ==
    /\ Enters(r, "simple_retrieval")
    /\ Returns(r, "simple_retrieval", [channels[r] EXCEPT !.failure = TRUE])
    /\ UNCHANGED memory

\* A degraded search (one hybrid branch failed) is a partial success with a
\* warning.  An empty result empties the evidence and warning channels.
SimpleRetrieval(r, found, degraded) ==
    /\ Enters(r, "simple_retrieval")
    /\ Returns(r, "simple_retrieval",
               [channels[r] EXCEPT
                   !.evidence = IF found = {} THEN {} ELSE @ \cup found,
                   !.warnings = IF degraded THEN @ \cup {"limited_result"}
                                ELSE {},
                   !.status = IF degraded THEN "partial_success"
                              ELSE "running"])
    /\ UNCHANGED memory

\* Disabled, timed out, or the run raised.
ResearchFails(r) ==
    /\ Enters(r, "cross_document_research")
    /\ Returns(r, "cross_document_research",
               [channels[r] EXCEPT !.failure = TRUE])
    /\ UNCHANGED memory

\* failed: coverage.status is "failed"; the result is stored all the same.
CrossDocumentResearch(r, found, limited, failed) ==
    /\ Enters(r, "cross_document_research")
    /\ Returns(r, "cross_document_research",
               [channels[r] EXCEPT
                   !.research = r,
                   !.evidence = IF found = {} THEN {} ELSE @ \cup found,
                   !.warnings = IF limited THEN @ \cup {"limited_result"}
                                ELSE {},
                   !.failure = failed])
    /\ UNCHANGED memory

PythonAnalysis(r) ==
    /\ Enters(r, "python_analysis")
    /\ Returns(r, "python_analysis",
               [channels[r] EXCEPT !.analysis = r, !.answer = r])
    /\ UNCHANGED memory

McpOutcomes == {"executed", "needs_input", "denied", "failed"}

ExecuteMcpTool(r, outcome) ==
    LET c == channels[r]
    IN /\ Enters(r, "execute_mcp_tool")
       /\ Returns(r, "execute_mcp_tool",
                  CASE outcome = "executed" ->
                          [c EXCEPT !.mcp = r, !.answer = r]
                    [] outcome = "needs_input" ->
                          [c EXCEPT !.status = "partial_success",
                                    !.answer = r]
                    [] outcome = "denied" ->
                          [c EXCEPT !.status = "denied", !.answer = r]
                    [] outcome = "failed" -> [c EXCEPT !.failure = TRUE])
       /\ UNCHANGED memory

DirectResponse(r) ==
    /\ Enters(r, "direct_response")
    /\ Returns(r, "direct_response", [channels[r] EXCEPT !.answer = r])
    /\ UNCHANGED memory

DenyRequest(r) ==
    /\ Enters(r, "deny_request")
    /\ Returns(r, "deny_request",
               [channels[r] EXCEPT !.status = "denied", !.answer = r,
                                   !.evidence = {}])
    /\ UNCHANGED memory

Unsupported(r) ==
    /\ Enters(r, "unsupported")
    /\ Returns(r, "unsupported",
               [channels[r] EXCEPT !.answer = r,
                                   !.warnings = @ \cup {"unavailable"}])
    /\ UNCHANGED memory

-----------------------------------------------------------------------------
(* Evidence, answer and citations.                                         *)

\* The node returns the items that passed; append_unique then adds them to a
\* channel that still holds the rejected ones, and an empty update empties
\* the channel.  The same rule makes an empty warning update a reset.
ValidateEvidence(r, exactWanted) ==
    LET c == channels[r]
        valid == c.evidence \cap Acceptable \cap Readable[PrincipalOf[r]]
        warned == IF exactWanted /\ valid = {} THEN {"no_exact_match"}
                  ELSE IF valid # c.evidence THEN {"evidence_rejected"}
                  ELSE {}
    IN /\ Enters(r, "validate_evidence")
       /\ Returns(r, "validate_evidence",
                  [c EXCEPT
                     !.evidence = IF valid = {} THEN {} ELSE @ \cup valid,
                     !.warnings = IF warned = {} THEN {} ELSE @ \cup warned])
       /\ UNCHANGED memory

\* What the response service may return: a validated model draft, or a
\* deterministic fallback, which for a research comparison keeps the invalid
\* verdict of the draft it replaces.
Drafts(comparison) ==
    {d \in [fallback : BOOLEAN, cited : BOOLEAN, valid : BOOLEAN] :
        ~d.valid => comparison /\ d.fallback}

\* Mutant: a rendered analysis leaves grounded_response alone.
AnalysisWithoutGroundedResponse(r) ==
    LET c == channels[r]
    IN /\ c.analysis # None
       /\ Enters(r, "generate_response")
       /\ Returns(r, "generate_response", [c EXCEPT !.answer = c.analysis])
       /\ UNCHANGED memory

\* The branch is chosen by which result channel is set, not by the route.
GenerateFromAnalysis(r) ==
    LET c == channels[r]
    IN /\ c.analysis # None
       /\ Enters(r, "generate_response")
       /\ Returns(r, "generate_response",
                  [c EXCEPT !.grounded = [from |-> c.analysis,
                                          fallback |-> FALSE,
                                          cited |-> FALSE],
                            !.answer = c.analysis])
       /\ UNCHANGED memory

GenerateFromResearch(r, d) ==
    LET c == channels[r]
    IN /\ c.analysis = None /\ c.research # None
       /\ d \in Drafts(TRUE)
       /\ Enters(r, "generate_response")
       /\ Returns(r, "generate_response",
                  [c EXCEPT !.grounded = [from |-> c.research,
                                          fallback |-> d.fallback,
                                          cited |-> d.cited],
                            !.verdict = [by |-> r, valid |-> d.valid],
                            !.answer = c.research,
                            !.status = IF d.valid THEN @
                                       ELSE "partial_success"])
       /\ UNCHANGED memory

\* Without evidence the service answers "insufficient" and calls no model.
GenerateFromEvidence(r, d) ==
    LET c == channels[r]
    IN /\ c.analysis = None /\ c.research = None
       /\ d \in Drafts(FALSE)
       /\ c.evidence = {} => d.fallback /\ ~d.cited
       /\ Enters(r, "generate_response")
       /\ Returns(r, "generate_response",
                  [c EXCEPT !.grounded = [from |-> r,
                                          fallback |-> d.fallback,
                                          cited |-> d.cited],
                            !.verdict = [by |-> r, valid |-> d.valid],
                            !.answer = r])
       /\ UNCHANGED memory

\* Mutant: the verdict is reported and not acted on.
ValidateCitationsLeniently(r) ==
    /\ Enters(r, "validate_citations")
    /\ Returns(r, "validate_citations", channels[r])
    /\ UNCHANGED memory

\* A missing verdict counts as valid, and so does any verdict on a fallback.
ValidateCitations(r) ==
    LET c == channels[r]
    IN /\ Enters(r, "validate_citations")
       /\ Returns(r, "validate_citations",
                  [c EXCEPT !.failure =
                      ~(c.verdict.valid \/ c.grounded.fallback)])
       /\ UNCHANGED memory

-----------------------------------------------------------------------------
(* Memory, failure and completion.                                         *)

EffectiveStatus(c) == IF c.status = "running" THEN "completed" ELSE c.status

\* evidence_references: what the principal may read of e, cut at the limit.
\* Which items come first is the order of the search and is left open.
References(e, p) ==
    LET readable == e \cap Readable[p]
    IN {s \in SUBSET readable :
           /\ Cardinality(s) <= MaxReferences
           /\ s = readable \/ Cardinality(s) = MaxReferences}

\* Mutant: update_memory stores the status channel as it is.
TurnsOfRawStatus(r) ==
    LET c == channels[r]
    IN [request : {r}, status : {c.status}, route : {c.route},
        evidence : References(c.evidence, PrincipalOf[r])]

\* Mutant: every item of the channel is referred to.
TurnsOfAllEvidence(r) ==
    LET c == channels[r]
    IN [request : {r}, status : {EffectiveStatus(c)}, route : {c.route},
        evidence : {c.evidence}]

\* ConversationMemoryService.update: the turn it may store.  A denied turn
\* carries no evidence reference.
TurnsOf(r) ==
    LET c == channels[r]
        status == EffectiveStatus(c)
    IN [request : {r}, status : {status}, route : {c.route},
        evidence : IF status = "denied" THEN {{}}
                   ELSE References(c.evidence, PrincipalOf[r])]

\* A failed turn is skipped.
Stored(r) ==
    IF EffectiveStatus(channels[r]) = "failed" THEN UNCHANGED memory
    ELSE \E t \in TurnsOf(r) :
            memory' = [memory EXCEPT ![SessionOf[r]] = @ \cup {t}]

UpdateMemory(r) ==
    /\ Enters(r, "update_memory")
    /\ Stored(r)
    /\ Returns(r, "update_memory", channels[r])

\* The store raised a MemoryError (ownership, integrity or capacity).
UpdateMemoryRefused(r) ==
    /\ Enters(r, "update_memory")
    /\ Returns(r, "update_memory",
               [channels[r] EXCEPT
                   !.warnings = @ \cup {"memory_not_updated"}])
    /\ UNCHANGED memory

\* guarded() reports a failure of its own: the step count is not advanced
\* and no other channel is written.
Raises(r) ==
    LET c == [channels[r] EXCEPT !.failure = TRUE]
    IN /\ Superstep(r, c, EdgeFrom(pc[r], c))
       /\ fault' = [fault EXCEPT ![r] = TRUE]
       /\ UNCHANGED <<owner, memory, output>>

\* guarded(): the step budget is used up.
StepBudgetExceeded(r) ==
    /\ pc[r] \in Guarded
    /\ channels[r].steps >= MaxSteps
    /\ Raises(r)

\* guarded(): the node raised.  Rendering an analysis cannot raise: it calls
\* neither the model nor the evidence store.
NodeRaises(r) ==
    /\ pc[r] \in FaultyNodes
    /\ channels[r].steps < MaxSteps
    /\ pc[r] = "generate_response" => channels[r].analysis = None
    /\ Raises(r)

\* Mutant: a partial success reached before the failure is kept.
HandleFailureKeepsStatus(r) ==
    /\ pc[r] = "handle_failure"
    /\ Superstep(r, [channels[r] EXCEPT
                        !.status = IF @ = "running" THEN "failed" ELSE @,
                        !.route = "failure", !.answer = r, !.evidence = {}],
                 "finalize_execution")
    /\ UNCHANGED <<owner, memory, output, fault>>

HandleFailure(r) ==
    /\ pc[r] = "handle_failure"
    /\ Superstep(r, [channels[r] EXCEPT !.status = "failed",
                                        !.route = "failure",
                                        !.answer = r, !.evidence = {}],
                 "finalize_execution")
    /\ UNCHANGED <<owner, memory, output, fault>>

\* Mutant: the output carries the grounded response, not its citations.
FinalOutputWholeResponse(c) ==
    [status |-> c.status, route |-> c.route, evidence |-> c.evidence,
     warnings |-> c.warnings, answer |-> c.answer,
     analysis |-> c.analysis, mcp |-> c.mcp, citations |-> c.grounded]

FinalOutput(c) ==
    [status |-> c.status, route |-> c.route, evidence |-> c.evidence,
     warnings |-> c.warnings, answer |-> c.answer,
     analysis |-> c.analysis, mcp |-> c.mcp,
     citations |-> IF c.grounded.cited THEN c.grounded.from ELSE None]

Finalize(r) ==
    LET c == [channels[r] EXCEPT !.status = EffectiveStatus(channels[r])]
    IN /\ pc[r] = "finalize_execution"
       /\ Superstep(r, c, "answered")
       /\ output' = [output EXCEPT ![r] = FinalOutput(c)]
       /\ UNCHANGED <<owner, memory, fault>>

\* The client disconnects or the outer timeout expires: the node in flight is
\* cancelled, its copy of the channels is gone, and the checkpoint of the
\* last superstep remains.
Cancel(r) ==
    /\ pc[r] \in Nodes
    /\ pc' = [pc EXCEPT ![r] = "cancelled"]
    /\ channels' = [channels EXCEPT ![r] = EmptyChannels]
    /\ UNCHANGED <<ckpt, owner, memory, output, supersteps, fault>>

\* The cancellation lands after the store took the turn and before the
\* superstep was checkpointed.
CancelAfterStore(r) ==
    /\ Enters(r, "update_memory")
    /\ Stored(r)
    /\ pc' = [pc EXCEPT ![r] = "cancelled"]
    /\ channels' = [channels EXCEPT ![r] = EmptyChannels]
    /\ UNCHANGED <<ckpt, owner, output, supersteps, fault>>

-----------------------------------------------------------------------------

Init ==
    /\ pc = [r \in Requests |-> "waiting"]
    /\ channels = [r \in Requests |-> EmptyChannels]
    /\ ckpt = [s \in Sessions |-> EmptyChannels]
    /\ owner = [s \in Sessions |-> None]
    /\ memory = [s \in Sessions |-> {}]
    /\ output = [r \in Requests |-> NoOutput]
    /\ supersteps = [r \in Requests |-> 0]
    /\ fault = [r \in Requests |-> FALSE]

\* The nodes before a capability runs, and the ones every route shares.
Prepare(r) ==
    \/ Initialize(r)
    \/ \E b \in BOOLEAN : ValidateRequest(r, b)
    \/ \E b \in BOOLEAN : LoadMemory(r, b)
    \/ \E n \in Guarded : PassThrough(r, n)
    \/ \E route \in Routes : Supervisor(r, route)

Capability(r) ==
    \/ SimpleRetrievalFails(r)
    \/ \E found \in SUBSET Evidence, degraded \in BOOLEAN :
          SimpleRetrieval(r, found, degraded)
    \/ ResearchFails(r)
    \/ \E found \in SUBSET Evidence, limited, failed \in BOOLEAN :
          CrossDocumentResearch(r, found, limited, failed)
    \/ PythonAnalysis(r)
    \/ \E o \in McpOutcomes : ExecuteMcpTool(r, o)
    \/ DirectResponse(r)
    \/ DenyRequest(r)
    \/ Unsupported(r)

Respond(r) ==
    \/ \E b \in BOOLEAN : ValidateEvidence(r, b)
    \/ GenerateFromAnalysis(r)
    \/ \E d \in Drafts(TRUE) : GenerateFromResearch(r, d)
    \/ \E d \in Drafts(FALSE) : GenerateFromEvidence(r, d)
    \/ ValidateCitations(r)

Complete(r) ==
    \/ UpdateMemory(r)
    \/ UpdateMemoryRefused(r)
    \/ StepBudgetExceeded(r)
    \/ NodeRaises(r)
    \/ HandleFailure(r)
    \/ Finalize(r)

Run(r) == Prepare(r) \/ Capability(r) \/ Respond(r) \/ Complete(r)

Arrive(r) == (\E b \in BOOLEAN : Start(r, b)) \/ Reject(r)

Interrupt(r) == Cancel(r) \/ CancelAfterStore(r)

\* Every request has been dealt with.
Quiescent ==
    /\ \A r \in Requests : pc[r] \in Ended
    /\ UNCHANGED vars

Next ==
    \/ \E r \in Requests : Arrive(r) \/ Run(r) \/ Interrupt(r)
    \/ Quiescent

Spec == Init /\ [][Next]_vars

-----------------------------------------------------------------------------
(* What the workflow guarantees.                                           *)

\* Every variable has its type.
TypeOK ==
    /\ pc \in [Requests -> Nodes \cup Ended \cup {"waiting"}]
    /\ channels \in [Requests -> Channels]
    /\ ckpt \in [Sessions -> Channels]
    /\ owner \in [Sessions -> Principals \cup {None}]
    /\ memory \in [Sessions -> SUBSET Turns]
    /\ output \in [Requests -> Outputs]
    /\ supersteps \in [Requests -> Nat]
    /\ fault \in [Requests -> BOOLEAN]

\* The requests whose material a channel record holds.
Sources(c) == {c.analysis, c.research, c.mcp, c.grounded.from,
               c.verdict.by, c.answer} \ {None}

OfOwner(o, r) ==
    SessionOf[o] = SessionOf[r] /\ PrincipalOf[o] = PrincipalOf[r]

\* A checkpoint carries results from one request to the next; it never
\* carries them to another principal or another session.  _claim_session
\* runs before the checkpoint is loaded.
SessionIsolation ==
    \A r \in Requests : \A o \in Sources(channels[r]) : OfOwner(o, r)

\* A node that failed, a used-up budget or an invalid request is never
\* reported to the client as a completed answer: failure reaches
\* handle_failure along every conditional edge.
FaultsAreReported ==
    \A r \in Requests :
        pc[r] = "answered" /\ fault[r] => output[r].status = "failed"

\* The turn that later turns will remember is the one the client was given:
\* update_memory runs before finalize_execution and both derive the final
\* status on their own.  A failed turn is not remembered; the evidence
\* remembered is what the client was shown and its principal may read, of
\* which only the limit of references leaves anything out.
MemoryAgreesWithAnswer ==
    \A r \in Requests :
        pc[r] = "answered" =>
            \A t \in memory[SessionOf[r]] :
                t.request = r =>
                    /\ t.status = output[r].status
                    /\ t.route = output[r].route
                    /\ t.status # "failed"
                    /\ t.evidence \subseteq
                          output[r].evidence \cap Readable[PrincipalOf[r]]
                    /\ Cardinality(t.evidence) <= MaxReferences
                    /\ \/ Cardinality(t.evidence) = MaxReferences
                       \/ output[r].evidence \cap Readable[PrincipalOf[r]]
                             \subseteq t.evidence

\* The citations under an answer that was generated are those of its own
\* text.  Citations come from the grounded_response channel and the text
\* from response_text: nodes and turns write them apart, and no turn resets
\* either of them.
CitationsAreOfTheAnswer ==
    \A r \in Requests :
        /\ pc[r] = "answered"
        /\ output[r].route \in {"simple_retrieval", "recursive_research",
                                "python_analysis"}
        => output[r].citations \in {None, output[r].answer}

\* An answer on a route that generates text is delivered only with a valid
\* citation verdict, or as a deterministic fallback.
AnswersAreSupported ==
    \A r \in Requests :
        /\ pc[r] = "answered"
        /\ output[r].route \in {"simple_retrieval", "recursive_research",
                                "python_analysis"}
        => channels[r].verdict.valid \/ channels[r].grounded.fallback

\* LangGraph raises GraphRecursionError past recursion_limit, and the
\* request would end without an output: the step budget of guarded() always
\* ends the run first.
RecursionLimitNotReached ==
    \A r \in Requests : supersteps[r] <= MaxSteps + 4

-----------------------------------------------------------------------------
(* What the documentation says of the workflow and the code does not do:   *)
(* the channels that _base_state leaves out outlive their turn, and the    *)
(* reducers cannot remove an item.                                         *)

\* docs/session-memory-design.md: "Each invocation [...] executes the
\* ordinary authorized route": a request fails only by its own fault.
FailuresAreOwn ==
    \A r \in Requests :
        pc[r] = "answered" /\ output[r].status = "failed" => fault[r]

\* docs/graph-design.md, validate_evidence: "Reject unauthorized, malformed,
\* duplicated, or instruction-bearing evidence" before the answer is
\* generated.
RejectedEvidenceIsDropped ==
    \A r \in Requests :
        pc[r] = "generate_response" => channels[r].evidence \subseteq Acceptable

-----------------------------------------------------------------------------
(* Inductive strengthenings of the invariants above.                       *)

\* The checkpoint holds only the owner's results, and a run that is under way
\* belongs to the owner.
IsolationInv ==
    /\ SessionIsolation
    /\ \A r \in Requests :
          pc[r] \in Nodes => owner[SessionOf[r]] = PrincipalOf[r]
    /\ \A s \in Sessions : \A o \in Sources(ckpt[s]) :
          SessionOf[o] = s /\ owner[s] = PrincipalOf[o]

\* Every superstep of a guarded node but one that fails counts itself, and a
\* failure leads out of the guarded nodes for good.
BudgetInv ==
    \A r \in Requests :
        /\ supersteps[r] <= MaxSteps + 3
        /\ pc[r] \in {"waiting", "initialize_request"} => supersteps[r] = 0
        /\ pc[r] \in Guarded => /\ supersteps[r] = channels[r].steps
                                /\ supersteps[r] <= MaxSteps
        /\ pc[r] = "handle_failure" => supersteps[r] <= MaxSteps + 1
        /\ pc[r] = "finalize_execution" => supersteps[r] <= MaxSteps + 2

\* A failure of the run is in the failure channel until handle_failure has
\* turned it into the status that finalize_execution reports.
FailureInv ==
    \A r \in Requests :
        /\ pc[r] = "waiting" => ~fault[r]
        /\ pc[r] \in {"initialize_request", "validate_request"} /\ fault[r]
              => channels[r].failure
        /\ pc[r] \in Guarded \ {"validate_request"} =>
              ~channels[r].failure /\ ~fault[r]
        /\ pc[r] = "finalize_execution" /\ fault[r] =>
              channels[r].status = "failed"
        /\ pc[r] = "answered" /\ fault[r] => output[r].status = "failed"
=============================================================================
