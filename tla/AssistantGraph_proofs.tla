------------------------ MODULE AssistantGraph_proofs ------------------------
(***************************************************************************)
(* Proofs about the workflow for any number of requests, sessions and      *)
(* principals and any step budget, and, at the end, about the routing and  *)
(* the tools its nodes call, for every question and every role.            *)
(***************************************************************************)
EXTENDS AssistantGraph, EnterpriseTools, FiniteSetTheorems, TLAPS

PcValues == Nodes \cup Ended \cup {"waiting"}

\* Every edge leads to a node.
LEMMA EdgeIsNode ==
    ASSUME NEW n \in Guarded, NEW c \in Channels
    PROVE  EdgeFrom(n, c) \in Nodes
<1>1. CASE n = "supervisor"
  BY <1>1 DEF EdgeFrom, Channels, Routes, RouteNode, Nodes, Guarded
<1>2. CASE n # "supervisor"
  BY <1>2 DEF EdgeFrom, Follows, Nodes, Guarded
<1> QED BY <1>1, <1>2

\* One superstep keeps the types of the variables it writes.
LEMMA SuperstepTypes ==
    ASSUME TypeOK, NEW r \in Requests, NEW c \in Channels,
           NEW next \in PcValues, Superstep(r, c, next)
    PROVE  /\ pc' \in [Requests -> PcValues]
           /\ channels' \in [Requests -> Channels]
           /\ ckpt' \in [Sessions -> Channels]
           /\ supersteps' \in [Requests -> Nat]
<1>1. pc' \in [Requests -> PcValues]
  BY DEF TypeOK, Superstep, PcValues
<1>2. channels' \in [Requests -> Channels]
  BY DEF TypeOK, Superstep
<1>3. ckpt' \in [Sessions -> Channels]
  BY DEF TypeOK, Superstep
<1>4. supersteps' \in [Requests -> Nat]
  BY DEF TypeOK, Superstep
<1> QED BY <1>1, <1>2, <1>3, <1>4

\* What every node does to the channels: it writes well-typed values, and the
\* only request whose material it can add is the one it runs for.
Writes(r, c) ==
    /\ c \in Channels
    /\ Sources(c) \subseteq Sources(channels[r]) \cup {r}

\* A guarded node runs to its end.  It leaves the step count to guarded(),
\* and validate_request keeps a failure that is already set.
Executes(r) ==
    \E n \in Guarded, c \in Channels :
        /\ Enters(r, n)
        /\ Returns(r, n, c)
        /\ Writes(r, c)
        /\ c.steps = channels[r].steps
        /\ n = "validate_request" /\ channels[r].failure => c.failure

LEMMA CountedWrites ==
    ASSUME NEW c \in Channels
    PROVE  Counted(c) \in Channels /\ Sources(Counted(c)) = Sources(c)
  BY DEF Counted, Channels, Sources

LEMMA PrepareExecutes ==
    ASSUME TypeOK, NEW r \in Requests, Prepare(r), ~Initialize(r)
    PROVE  Executes(r)
<1> DEFINE c == channels[r]
<1>0. c \in Channels BY DEF TypeOK
<1>2. ASSUME NEW b \in BOOLEAN, ValidateRequest(r, b) PROVE Executes(r)
  <2> DEFINE d == [c EXCEPT !.failure = ~(~c.failure /\ b)]
  <2>1. Writes(r, d)
    BY <1>0 DEF Writes, Channels, Sources
  <2>2. Enters(r, "validate_request") /\ Returns(r, "validate_request", d)
    BY <1>2 DEF ValidateRequest
  <2> QED BY <1>0, <2>1, <2>2 DEF Executes, Writes, Guarded, Channels
<1>3. ASSUME NEW b \in BOOLEAN, LoadMemory(r, b) PROVE Executes(r)
  <2> DEFINE d == [c EXCEPT !.warnings = IF b THEN @
                                ELSE @ \cup {"memory_not_loaded"}]
  <2>1. Writes(r, d)
    BY <1>0 DEF Writes, Channels, Sources, WarningKinds
  <2>2. Enters(r, "load_memory") /\ Returns(r, "load_memory", d)
    BY <1>3 DEF LoadMemory
  <2> QED BY <1>0, <2>1, <2>2 DEF Executes, Writes, Guarded, Channels
<1>4. ASSUME NEW n \in Guarded, PassThrough(r, n) PROVE Executes(r)
  <2>1. Writes(r, c)
    BY <1>0 DEF Writes
  <2> QED BY <1>4, <2>1 DEF PassThrough, Executes, Writes
<1>5. ASSUME NEW route \in Routes, Supervisor(r, route) PROVE Executes(r)
  <2> DEFINE d == [c EXCEPT !.route = route]
  <2>1. Writes(r, d)
    BY <1>0 DEF Writes, Channels, Sources
  <2>2. Enters(r, "supervisor") /\ Returns(r, "supervisor", d)
    BY <1>5 DEF Supervisor
  <2> QED BY <1>0, <2>1, <2>2 DEF Executes, Writes, Guarded, Channels
<1> QED BY <1>2, <1>3, <1>4, <1>5 DEF Prepare

LEMMA CapabilityExecutes ==
    ASSUME TypeOK, NEW r \in Requests, Capability(r)
    PROVE  Executes(r)
<1> DEFINE c == channels[r]
<1>0. c \in Channels BY DEF TypeOK
<1>1. CASE SimpleRetrievalFails(r)
  <2> DEFINE d == [c EXCEPT !.failure = TRUE]
  <2>1. Writes(r, d)
    BY <1>0 DEF Writes, Channels, Sources
  <2>2. Enters(r, "simple_retrieval") /\ Returns(r, "simple_retrieval", d)
    BY <1>1 DEF SimpleRetrievalFails
  <2> QED BY <1>0, <2>1, <2>2 DEF Executes, Writes, Guarded, Channels
<1>2. ASSUME NEW found \in SUBSET Evidence, NEW degraded \in BOOLEAN, SimpleRetrieval(r, found, degraded) PROVE Executes(r)
  <2> DEFINE e == IF found = {} THEN {} ELSE c.evidence \cup found
             w == IF degraded THEN c.warnings \cup {"limited_result"} ELSE {}
             s == IF degraded THEN "partial_success" ELSE "running"
             d == [c EXCEPT !.evidence = e, !.warnings = w, !.status = s]
  <2>2. Enters(r, "simple_retrieval") /\ Returns(r, "simple_retrieval", d)
    BY <1>2 DEF SimpleRetrieval
  <2>3. e \subseteq Evidence /\ w \subseteq WarningKinds /\ s \in Status
    BY <1>0 DEF Channels, Status, WarningKinds
  <2> HIDE DEF e, w, s
  <2>1. Writes(r, d)
    BY <1>0, <2>3 DEF Writes, Channels, Sources
  <2> QED BY <1>0, <2>1, <2>2 DEF Executes, Writes, Guarded, Channels
<1>3. CASE ResearchFails(r)
  <2> DEFINE d == [c EXCEPT !.failure = TRUE]
  <2>1. Writes(r, d)
    BY <1>0 DEF Writes, Channels, Sources
  <2>2. Enters(r, "cross_document_research") /\ Returns(r, "cross_document_research", d)
    BY <1>3 DEF ResearchFails
  <2> QED BY <1>0, <2>1, <2>2 DEF Executes, Writes, Guarded, Channels
<1>4. ASSUME NEW found \in SUBSET Evidence, NEW limited \in BOOLEAN,
             NEW failed \in BOOLEAN, CrossDocumentResearch(r, found, limited, failed) PROVE Executes(r)
  <2> DEFINE e == IF found = {} THEN {} ELSE c.evidence \cup found
             w == IF limited THEN c.warnings \cup {"limited_result"} ELSE {}
             d == [c EXCEPT !.research = r, !.evidence = e, !.warnings = w,
                            !.failure = failed]
  <2>2. Enters(r, "cross_document_research") /\ Returns(r, "cross_document_research", d)
    BY <1>4 DEF CrossDocumentResearch
  <2>3. e \subseteq Evidence /\ w \subseteq WarningKinds
    BY <1>0 DEF Channels, WarningKinds
  <2> HIDE DEF e, w
  <2>1. Writes(r, d)
    BY <1>0, <2>3 DEF Writes, Channels, Sources, Origin
  <2> QED BY <1>0, <2>1, <2>2 DEF Executes, Writes, Guarded, Channels
<1>5. CASE PythonAnalysis(r)
  <2> DEFINE d == [c EXCEPT !.analysis = r, !.answer = r]
  <2>1. Writes(r, d)
    BY <1>0 DEF Writes, Channels, Sources, Origin
  <2>2. Enters(r, "python_analysis") /\ Returns(r, "python_analysis", d)
    BY <1>5 DEF PythonAnalysis
  <2> QED BY <1>0, <2>1, <2>2 DEF Executes, Writes, Guarded, Channels
<1>6. ASSUME NEW o \in McpOutcomes, ExecuteMcpTool(r, o) PROVE Executes(r)
  <2> DEFINE d == CASE o = "executed" -> [c EXCEPT !.mcp = r, !.answer = r]
                    [] o = "needs_input" ->
                          [c EXCEPT !.status = "partial_success",
                                    !.answer = r]
                    [] o = "denied" ->
                          [c EXCEPT !.status = "denied", !.answer = r]
                    [] o = "failed" -> [c EXCEPT !.failure = TRUE]
  <2>1. Writes(r, d)
    <3>1. CASE o = "executed"
      BY <1>0, <3>1 DEF Writes, Channels, Sources, Origin
    <3>2. CASE o = "needs_input"
      BY <1>0, <3>2 DEF Writes, Channels, Sources, Origin, Status
    <3>3. CASE o = "denied"
      BY <1>0, <3>3 DEF Writes, Channels, Sources, Origin, Status
    <3>4. CASE o = "failed"
      BY <1>0, <3>4 DEF Writes, Channels, Sources
    <3> QED BY <3>1, <3>2, <3>3, <3>4 DEF McpOutcomes
  <2>2. Enters(r, "execute_mcp_tool") /\ Returns(r, "execute_mcp_tool", d)
    BY <1>6 DEF ExecuteMcpTool
  <2>3. d.steps = c.steps
    BY <1>0 DEF McpOutcomes, Channels
  <2> HIDE DEF d
  <2> QED BY <2>1, <2>2, <2>3 DEF Executes, Writes, Guarded
<1>7. CASE DirectResponse(r)
  <2> DEFINE d == [c EXCEPT !.answer = r]
  <2>1. Writes(r, d)
    BY <1>0 DEF Writes, Channels, Sources, Origin
  <2>2. Enters(r, "direct_response") /\ Returns(r, "direct_response", d)
    BY <1>7 DEF DirectResponse
  <2> QED BY <1>0, <2>1, <2>2 DEF Executes, Writes, Guarded, Channels
<1>8. CASE DenyRequest(r)
  <2> DEFINE d == [c EXCEPT !.status = "denied", !.answer = r, !.evidence = {}]
  <2>1. Writes(r, d)
    BY <1>0 DEF Writes, Channels, Sources, Origin, Status
  <2>2. Enters(r, "deny_request") /\ Returns(r, "deny_request", d)
    BY <1>8 DEF DenyRequest
  <2> QED BY <1>0, <2>1, <2>2 DEF Executes, Writes, Guarded, Channels
<1>9. CASE Unsupported(r)
  <2> DEFINE d == [c EXCEPT !.answer = r,
                           !.warnings = @ \cup {"unavailable"}]
  <2>1. Writes(r, d)
    BY <1>0 DEF Writes, Channels, Sources, Origin, WarningKinds
  <2>2. Enters(r, "unsupported") /\ Returns(r, "unsupported", d)
    BY <1>9 DEF Unsupported
  <2> QED BY <1>0, <2>1, <2>2 DEF Executes, Writes, Guarded, Channels
<1> QED BY <1>1, <1>2, <1>3, <1>4, <1>5, <1>6, <1>7, <1>8, <1>9 DEF Capability

LEMMA RespondExecutes ==
    ASSUME TypeOK, NEW r \in Requests, Respond(r)
    PROVE  Executes(r)
<1> DEFINE c == channels[r]
<1>0. c \in Channels BY DEF TypeOK
<1>1. ASSUME NEW b \in BOOLEAN, ValidateEvidence(r, b) PROVE Executes(r)
  <2> DEFINE valid == c.evidence \cap Acceptable \cap Readable[PrincipalOf[r]]
             warned == IF b /\ valid = {} THEN {"no_exact_match"}
                       ELSE IF valid # c.evidence THEN {"evidence_rejected"}
                       ELSE {}
             d == [c EXCEPT
                     !.evidence = IF valid = {} THEN {} ELSE @ \cup valid,
                     !.warnings = IF warned = {} THEN {} ELSE @ \cup warned]
  <2>1. valid \subseteq Evidence /\ warned \subseteq WarningKinds
    BY <1>0, EvidenceAssumption DEF Channels, WarningKinds
  <2>2. Writes(r, d)
    <3> HIDE DEF valid, warned
    <3> QED BY <1>0, <2>1 DEF Writes, Channels, Sources
  <2>3. Enters(r, "validate_evidence") /\ Returns(r, "validate_evidence", d)
    BY <1>1 DEF ValidateEvidence
  <2> QED BY <1>0, <2>2, <2>3 DEF Executes, Writes, Guarded, Channels
<1>2. CASE GenerateFromAnalysis(r)
  <2> DEFINE d == [c EXCEPT
          !.grounded = [from |-> c.analysis, fallback |-> FALSE,
                        cited |-> FALSE],
          !.answer = c.analysis]
  <2>1. Writes(r, d)
    BY <1>0 DEF Writes, Channels, Sources, Origin
  <2>2. Enters(r, "generate_response") /\ Returns(r, "generate_response", d)
    BY <1>2 DEF GenerateFromAnalysis
  <2> QED BY <1>0, <2>1, <2>2 DEF Executes, Writes, Guarded, Channels
<1>3. ASSUME NEW e \in Drafts(TRUE), GenerateFromResearch(r, e) PROVE Executes(r)
  <2> DEFINE g == [from |-> c.research, fallback |-> e.fallback, cited |-> e.cited]
             v == [by |-> r, valid |-> e.valid]
             s == IF e.valid THEN c.status ELSE "partial_success"
             d == [c EXCEPT
          !.grounded = g, !.verdict = v, !.answer = c.research, !.status = s]
  <2>2. Enters(r, "generate_response") /\ Returns(r, "generate_response", d)
    BY <1>3 DEF GenerateFromResearch
  <2>3. /\ g \in [from : Origin, fallback : BOOLEAN, cited : BOOLEAN]
        /\ v \in [by : Origin, valid : BOOLEAN] /\ s \in Status
        /\ g.from = c.research /\ v.by = r
    BY <1>0, <1>3 DEF Channels, Origin, Status, Drafts
  <2> HIDE DEF g, v, s
  <2>4. d \in Channels
    BY <1>0, <2>3 DEF Channels
  <2>5. Sources(d) \subseteq Sources(c) \cup {r}
    BY <1>0, <2>3 DEF Channels, Sources
  <2>1. Writes(r, d)
    BY <2>4, <2>5 DEF Writes
  <2>6. d.steps = c.steps
    BY <1>0 DEF Channels
  <2> HIDE DEF d
  <2> QED BY <2>1, <2>2, <2>6 DEF Executes, Writes, Guarded
<1>4. ASSUME NEW e \in Drafts(FALSE), GenerateFromEvidence(r, e) PROVE Executes(r)
  <2> DEFINE d == [c EXCEPT
          !.grounded = [from |-> r, fallback |-> e.fallback,
                        cited |-> e.cited],
          !.verdict = [by |-> r, valid |-> e.valid],
          !.answer = r]
  <2>1. Writes(r, d)
    BY <1>0 DEF Writes, Channels, Sources, Origin, Drafts
  <2>2. Enters(r, "generate_response") /\ Returns(r, "generate_response", d)
    BY <1>4 DEF GenerateFromEvidence
  <2> QED BY <1>0, <2>1, <2>2 DEF Executes, Writes, Guarded, Channels
<1>5. CASE ValidateCitations(r)
  <2> DEFINE d == [c EXCEPT !.failure =
                      ~(c.verdict.valid \/ c.grounded.fallback)]
  <2>1. Writes(r, d)
    BY <1>0 DEF Writes, Channels, Sources
  <2>2. Enters(r, "validate_citations") /\ Returns(r, "validate_citations", d)
    BY <1>5 DEF ValidateCitations
  <2> QED BY <1>0, <2>1, <2>2 DEF Executes, Writes, Guarded, Channels
<1> QED BY <1>1, <1>2, <1>3, <1>4, <1>5 DEF Respond

LEMMA UpdateExecutes ==
    ASSUME TypeOK, NEW r \in Requests,
           UpdateMemory(r) \/ UpdateMemoryRefused(r)
    PROVE  Executes(r)
<1> DEFINE c == channels[r]
<1>0. c \in Channels BY DEF TypeOK
<1>1. CASE UpdateMemory(r)
  <2>1. Writes(r, c)
    BY <1>0 DEF Writes, Channels, Sources
  <2>2. Enters(r, "update_memory") /\ Returns(r, "update_memory", c)
    BY <1>1 DEF UpdateMemory
  <2> QED BY <1>0, <2>1, <2>2 DEF Executes, Writes, Guarded, Channels
<1>2. CASE UpdateMemoryRefused(r)
  <2> DEFINE d == [c EXCEPT !.warnings = @ \cup {"memory_not_updated"}]
  <2>1. Writes(r, d)
    BY <1>0 DEF Writes, Channels, Sources, WarningKinds
  <2>2. Enters(r, "update_memory") /\ Returns(r, "update_memory", d)
    BY <1>2 DEF UpdateMemoryRefused
  <2> QED BY <1>0, <2>1, <2>2 DEF Executes, Writes, Guarded, Channels
<1> QED BY <1>1, <1>2

\* A step of a run is the execution of a guarded node, a failure that
\* guarded() reports, or one of the three nodes that are not guarded.
Fails(r) == pc[r] \in Guarded /\ Raises(r)

LEMMA RunCases ==
    ASSUME TypeOK, NEW r \in Requests, Run(r)
    PROVE  \/ Executes(r)
           \/ Fails(r)
           \/ Initialize(r)
           \/ HandleFailure(r)
           \/ Finalize(r)
<1>1. CASE Prepare(r) BY <1>1, PrepareExecutes
<1>2. CASE Capability(r) BY <1>2, CapabilityExecutes
<1>3. CASE Respond(r) BY <1>3, RespondExecutes
<1>4. CASE Complete(r)
  <2>1. StepBudgetExceeded(r) => Fails(r)
    BY DEF StepBudgetExceeded, Fails
  <2>2. NodeRaises(r) => Fails(r)
    BY FaultyAssumption DEF NodeRaises, Fails
  <2> QED BY <1>4, <2>1, <2>2, UpdateExecutes DEF Complete
<1> QED BY <1>1, <1>2, <1>3, <1>4 DEF Run

LEMMA RunIsActive ==
    ASSUME TypeOK, NEW r \in Requests, Run(r)
    PROVE  pc[r] \in Nodes
  BY RunCases DEF Executes, Enters, Fails, Initialize, HandleFailure,
                  Finalize, Nodes

LEMMA SourcesAreRequests ==
    ASSUME NEW c \in Channels
    PROVE  Sources(c) \subseteq Requests
  BY DEF Channels, Sources, Origin

\* The channels a step writes, whichever of these it is.
Steps(r) ==
    \E c \in Channels, next \in PcValues :
        /\ Writes(r, c)
        /\ Superstep(r, c, next)
        /\ owner' = owner

\* Every step of a run is one superstep of that run.
LEMMA RunSteps ==
    ASSUME TypeOK, NEW r \in Requests, Run(r)
    PROVE  Steps(r)
<1> DEFINE c == channels[r]
<1>0. c \in Channels BY DEF TypeOK
<1>1. CASE Executes(r)
  <2>1. PICK n \in Guarded, d \in Channels : Returns(r, n, d) /\ Writes(r, d)
    BY <1>1 DEF Executes
  <2>2. Counted(d) \in Channels /\ Writes(r, Counted(d))
    BY <2>1, CountedWrites DEF Writes
  <2>3. EdgeFrom(n, d) \in PcValues
    BY EdgeIsNode DEF PcValues
  <2> QED BY <2>1, <2>2, <2>3 DEF Steps, Returns
<1>2. CASE Fails(r)
  <2> DEFINE d == [c EXCEPT !.failure = TRUE]
  <2>1. Writes(r, d) BY <1>0 DEF Writes, Channels, Sources
  <2>2. EdgeFrom(pc[r], d) \in PcValues
    BY <1>2, <2>1, EdgeIsNode DEF Fails, Writes, PcValues
  <2>3. Superstep(r, d, EdgeFrom(pc[r], d)) /\ owner' = owner
    BY <1>2 DEF Fails, Raises
  <2> QED BY <2>1, <2>2, <2>3 DEF Steps, Writes
<1>3. CASE Initialize(r)
  <2> DEFINE d == [c EXCEPT !.status = "running", !.steps = 1]
  <2>1. Writes(r, d)
    BY <1>0 DEF Writes, Channels, Sources, Status
  <2>2. Superstep(r, d, "validate_request") /\ owner' = owner
    BY <1>3 DEF Initialize
  <2>3. "validate_request" \in PcValues
    BY DEF PcValues, Nodes, Guarded
  <2> QED BY <2>1, <2>2, <2>3 DEF Steps, Writes
<1>4. CASE HandleFailure(r)
  <2> DEFINE d == [c EXCEPT !.status = "failed", !.route = "failure",
                            !.answer = r, !.evidence = {}]
  <2>1. Writes(r, d)
    BY <1>0 DEF Writes, Channels, Sources, Status, Routes, Origin
  <2>2. Superstep(r, d, "finalize_execution") /\ owner' = owner
    BY <1>4 DEF HandleFailure
  <2>3. "finalize_execution" \in PcValues
    BY DEF PcValues, Nodes
  <2> QED BY <2>1, <2>2, <2>3 DEF Steps, Writes
<1>5. CASE Finalize(r)
  <2> DEFINE d == [c EXCEPT !.status = EffectiveStatus(c)]
  <2>1. Writes(r, d)
    BY <1>0 DEF Writes, Channels, Sources, Status, EffectiveStatus
  <2>2. Superstep(r, d, "answered") /\ owner' = owner
    BY <1>5 DEF Finalize
  <2>3. "answered" \in PcValues
    BY DEF PcValues, Ended
  <2> QED BY <2>1, <2>2, <2>3 DEF Steps, Writes
<1> QED BY <1>1, <1>2, <1>3, <1>4, <1>5, RunCases

\* The turn and the output are built from the channels.
LEMMA TurnType ==
    ASSUME TypeOK, NEW r \in Requests
    PROVE  TurnsOf(r) \subseteq Turns
<1>1. channels[r] \in Channels BY DEF TypeOK
<1>2. References(channels[r].evidence, PrincipalOf[r]) \subseteq SUBSET Evidence
  BY <1>1 DEF References, Channels
<1>3. EffectiveStatus(channels[r]) \in Status /\ channels[r].route \in Routes
  BY <1>1 DEF Channels, EffectiveStatus, Status
<1> QED BY <1>2, <1>3 DEF TurnsOf, Turns

LEMMA StoredType ==
    ASSUME TypeOK, NEW r \in Requests, Stored(r)
    PROVE  memory' \in [Sessions -> SUBSET Turns]
<1>1. memory \in [Sessions -> SUBSET Turns] /\ SessionOf[r] \in Sessions
  BY RequestsAssumption DEF TypeOK
<1>2. ASSUME NEW t \in TurnsOf(r)
      PROVE  [memory EXCEPT ![SessionOf[r]] = @ \cup {t}]
                \in [Sessions -> SUBSET Turns]
  BY <1>1, TurnType
<1> QED BY <1>1, <1>2 DEF Stored

LEMMA OutputType ==
    ASSUME NEW c \in Channels
    PROVE  FinalOutput(c) \in Outputs
  BY DEF FinalOutput, Outputs, Channels, Origin

LEMMA RunTypesOthers ==
    ASSUME TypeOK, NEW r \in Requests, Run(r)
    PROVE  /\ memory' \in [Sessions -> SUBSET Turns]
           /\ output' \in [Requests -> Outputs]
           /\ fault' \in [Requests -> BOOLEAN]
<1> USE DEF TypeOK
<1>1. CASE Prepare(r)
  BY <1>1 DEF Prepare, Initialize, ValidateRequest, LoadMemory, PassThrough,
              Supervisor, Returns
<1>2. CASE Capability(r)
  BY <1>2 DEF Capability, SimpleRetrievalFails, SimpleRetrieval,
              ResearchFails, CrossDocumentResearch, PythonAnalysis,
              ExecuteMcpTool, DirectResponse, DenyRequest, Unsupported,
              Returns
<1>3. CASE Respond(r)
  BY <1>3 DEF Respond, ValidateEvidence, GenerateFromAnalysis,
              GenerateFromResearch, GenerateFromEvidence,
              ValidateCitations, Returns
<1>4. CASE Complete(r)
  <2>1. CASE UpdateMemory(r)
    BY <2>1, StoredType DEF UpdateMemory, Returns
  <2>2. CASE UpdateMemoryRefused(r)
    BY <2>2 DEF UpdateMemoryRefused, Returns
  <2>3. CASE StepBudgetExceeded(r) \/ NodeRaises(r)
    BY <2>3 DEF StepBudgetExceeded, NodeRaises, Raises
  <2>4. CASE HandleFailure(r)
    BY <2>4 DEF HandleFailure
  <2>5. CASE Finalize(r)
    <3> DEFINE d == [channels[r] EXCEPT
                        !.status = EffectiveStatus(channels[r])]
    <3>1. d \in Channels
      <4>1. channels[r] \in Channels
        OBVIOUS
      <4> HIDE DEF TypeOK
      <4> QED BY <4>1 DEF Channels, EffectiveStatus, Status
    <3>2. FinalOutput(d) \in Outputs
      BY <3>1, OutputType
    <3>3. output' = [output EXCEPT ![r] = FinalOutput(d)]
      BY <2>5 DEF Finalize
    <3> HIDE DEF d
    <3> QED BY <2>5, <3>2, <3>3 DEF Finalize
  <2> QED BY <1>4, <2>1, <2>2, <2>3, <2>4, <2>5 DEF Complete
<1> QED BY <1>1, <1>2, <1>3, <1>4 DEF Run

LEMMA BaseStateType ==
    ASSUME NEW c \in Channels, NEW oversized \in BOOLEAN
    PROVE  /\ BaseState(c, oversized) \in Channels
           /\ Sources(BaseState(c, oversized)) = Sources(c)
  BY DEF BaseState, Channels, Sources

LEMMA EmptyTypes == EmptyChannels \in Channels /\ NoOutput \in Outputs
  BY DEF EmptyChannels, Channels, NoOutput, Outputs, Status, Routes, Origin

\* Every variable keeps its type, for any number of requests and sessions.
THEOREM TypeCorrect == Spec => []TypeOK
<1>1. Init => TypeOK
  BY EmptyTypes DEF Init, TypeOK
<1>2. TypeOK /\ [Next]_vars => TypeOK'
  <2> SUFFICES ASSUME TypeOK, [Next]_vars PROVE TypeOK'
    OBVIOUS
  <2>1. CASE UNCHANGED vars
    BY <2>1 DEF TypeOK, vars
  <2>2. ASSUME NEW r \in Requests, NEW b \in BOOLEAN, Start(r, b)
        PROVE  TypeOK'
    <3> DEFINE c == BaseState(ckpt[SessionOf[r]], b)
    <3>1. SessionOf[r] \in Sessions /\ PrincipalOf[r] \in Principals
      BY RequestsAssumption
    <3>2. c \in Channels
      BY <3>1, BaseStateType DEF TypeOK
    <3> HIDE DEF c
    <3>3. pc' \in [Requests -> PcValues]
      BY <2>2 DEF Start, TypeOK, PcValues, Nodes
    <3>4. channels' \in [Requests -> Channels]
      BY <2>2, <3>2 DEF Start, TypeOK, c
    <3>5. ckpt' \in [Sessions -> Channels]
      BY <2>2, <3>2 DEF Start, TypeOK, c
    <3>6. owner' \in [Sessions -> Principals \cup {None}]
      BY <2>2, <3>1 DEF Start, TypeOK
    <3>7. fault' \in [Requests -> BOOLEAN]
      BY <2>2 DEF Start, TypeOK
    <3> QED BY <2>2, <3>3, <3>4, <3>5, <3>6, <3>7
            DEF Start, TypeOK, PcValues
  <2>3. ASSUME NEW r \in Requests, Reject(r) PROVE TypeOK'
    BY <2>3 DEF Reject, TypeOK, Ended
  <2>4. ASSUME NEW r \in Requests, Run(r) PROVE TypeOK'
    <3>1. PICK c \in Channels, next \in PcValues :
             Superstep(r, c, next) /\ owner' = owner
      BY <2>4, RunSteps DEF Steps
    <3>2. /\ pc' \in [Requests -> PcValues]
          /\ channels' \in [Requests -> Channels]
          /\ ckpt' \in [Sessions -> Channels]
          /\ supersteps' \in [Requests -> Nat]
      BY <3>1, SuperstepTypes
    <3>3. owner' \in [Sessions -> Principals \cup {None}]
      BY <3>1 DEF TypeOK
    <3> QED BY <2>4, <3>2, <3>3, RunTypesOthers DEF TypeOK, PcValues
  <2>5. ASSUME NEW r \in Requests, Cancel(r) PROVE TypeOK'
    BY <2>5, EmptyTypes DEF Cancel, TypeOK, Ended
  <2>6. ASSUME NEW r \in Requests, CancelAfterStore(r) PROVE TypeOK'
    BY <2>6, StoredType, EmptyTypes DEF CancelAfterStore, TypeOK, Ended
  <2>7. CASE Quiescent
    BY <2>7 DEF Quiescent, TypeOK, vars
  <2> QED BY <2>1, <2>2, <2>3, <2>4, <2>5, <2>6, <2>7
          DEF Next, Arrive, Interrupt
<1> QED BY <1>1, <1>2, PTL DEF Spec

-----------------------------------------------------------------------------
(* Session isolation.                                                      *)

\* Results leave a session's checkpoint only in the hands of the principal
\* that owns the session: the claim precedes the load.
THEOREM Isolation == Spec => []SessionIsolation
<1>1. Init => IsolationInv
  BY DEF Init, IsolationInv, SessionIsolation, EmptyChannels, Sources, Nodes,
         Guarded
<1>2. TypeOK /\ IsolationInv /\ [Next]_vars => IsolationInv'
  <2> SUFFICES ASSUME TypeOK, IsolationInv, [Next]_vars
               PROVE  IsolationInv'
    OBVIOUS
  <2>1. CASE UNCHANGED vars
    BY <2>1 DEF IsolationInv, SessionIsolation, OfOwner, Sources, vars
  <2>2. ASSUME NEW r \in Requests, NEW b \in BOOLEAN, Start(r, b)
        PROVE  IsolationInv'
    <3> DEFINE s == SessionOf[r]
               c == BaseState(ckpt[s], b)
    <3>1. s \in Sessions /\ PrincipalOf[r] \in Principals
      BY RequestsAssumption
    <3>2. Sources(c) = Sources(ckpt[s])
      BY <3>1, BaseStateType DEF TypeOK
    <3>a. owner[s] = None \/ owner[s] = PrincipalOf[r]
      BY <2>2 DEF Start
    <3>3. ASSUME NEW o \in Sources(c) PROVE OfOwner(o, r)
      <4>1. SessionOf[o] = s /\ owner[s] = PrincipalOf[o]
        BY <3>1, <3>2 DEF IsolationInv
      <4>2. o \in Requests
        BY <3>1, <3>2, SourcesAreRequests DEF TypeOK
      <4>3. PrincipalOf[o] # None
        BY <4>2, RequestsAssumption
      <4> QED BY <3>a, <4>1, <4>3 DEF OfOwner
    <3> HIDE DEF c
    <3>4. owner' = [owner EXCEPT ![s] = PrincipalOf[r]]
      BY <2>2 DEF Start
    <3>5. ASSUME NEW q \in Requests, pc'[q] \in Nodes
          PROVE  owner'[SessionOf[q]] = PrincipalOf[q]
      <4>1. CASE q = r
        BY <3>1, <3>4, <4>1 DEF TypeOK
      <4>2. CASE q # r
        <5>1. pc[q] \in Nodes
          BY <2>2, <3>5, <4>2 DEF Start, TypeOK
        <5>2. owner[SessionOf[q]] = PrincipalOf[q]
          BY <5>1 DEF IsolationInv
        <5>3. PrincipalOf[q] # None
          BY RequestsAssumption
        <5> QED BY <3>a, <3>1, <3>4, <5>2, <5>3 DEF TypeOK
      <4> QED BY <4>1, <4>2
    <3>6. \A q \in Requests : \A o \in Sources(channels'[q]) : OfOwner(o, q)
      BY <2>2, <3>3 DEF Start, IsolationInv, SessionIsolation, TypeOK, c
    <3>7. \A t \in Sessions : \A o \in Sources(ckpt'[t]) :
             SessionOf[o] = t /\ owner'[t] = PrincipalOf[o]
      BY <2>2, <3>1, <3>3, <3>4 DEF Start, IsolationInv, TypeOK, OfOwner, c
    <3> QED BY <3>5, <3>6, <3>7 DEF IsolationInv, SessionIsolation, OfOwner
  <2>3. ASSUME NEW r \in Requests, Reject(r) PROVE IsolationInv'
    BY <2>3 DEF Reject, IsolationInv, SessionIsolation, OfOwner, TypeOK, Nodes,
                Guarded
  <2>4. ASSUME NEW r \in Requests, Run(r) PROVE IsolationInv'
    <3>1. PICK c \in Channels, next \in PcValues :
             /\ Writes(r, c) /\ Superstep(r, c, next) /\ owner' = owner
      BY <2>4, RunSteps DEF Steps
    <3>2. SessionOf[r] \in Sessions /\ pc[r] \in Nodes
      BY <2>4, RequestsAssumption, RunIsActive
    <3>3. \A o \in Sources(c) : OfOwner(o, r)
      BY <3>1 DEF Writes, IsolationInv, SessionIsolation, OfOwner
    <3>4. \A q \in Requests : pc'[q] \in Nodes =>
             owner'[SessionOf[q]] = PrincipalOf[q]
      BY <3>1, <3>2 DEF Superstep, IsolationInv, TypeOK
    <3>5. \A q \in Requests : \A o \in Sources(channels'[q]) : OfOwner(o, q)
      BY <3>1, <3>3 DEF Superstep, IsolationInv, SessionIsolation, TypeOK
    <3>6. \A t \in Sessions : \A o \in Sources(ckpt'[t]) :
             SessionOf[o] = t /\ owner'[t] = PrincipalOf[o]
      BY <3>1, <3>2, <3>3 DEF Superstep, IsolationInv, TypeOK, OfOwner
    <3> QED BY <3>4, <3>5, <3>6 DEF IsolationInv, SessionIsolation, OfOwner
  <2>5. ASSUME NEW r \in Requests, Interrupt(r) PROVE IsolationInv'
    <3>1. /\ pc'[r] = "cancelled" /\ channels'[r] = EmptyChannels
          /\ \A q \in Requests \ {r} : pc'[q] = pc[q] /\ channels'[q] = channels[q]
          /\ ckpt' = ckpt /\ owner' = owner
      BY <2>5 DEF Interrupt, Cancel, CancelAfterStore, TypeOK
    <3>2. Sources(channels'[r]) = {}
      BY <3>1 DEF Sources, EmptyChannels
    <3> QED BY <3>1, <3>2 DEF IsolationInv, SessionIsolation, OfOwner, Nodes, Guarded
  <2>6. CASE Quiescent
    BY <2>1, <2>6 DEF Quiescent
  <2> QED BY <2>1, <2>2, <2>3, <2>4, <2>5, <2>6 DEF Next, Arrive
<1>3. IsolationInv => SessionIsolation
  BY DEF IsolationInv
<1> QED BY <1>1, <1>2, <1>3, TypeCorrect, PTL DEF Spec

-----------------------------------------------------------------------------
(* The step budget and the report of failures.                             *)

\* A failure leads to handle_failure; no edge leads back to
\* validate_request.
LEMMA EdgeTargets ==
    ASSUME NEW n \in Guarded, NEW c \in Channels
    PROVE  /\ EdgeFrom(n, c) \in (Guarded \ {"validate_request"})
                                    \cup {"handle_failure", "finalize_execution"}
           /\ c.failure => EdgeFrom(n, c) = "handle_failure"
<1>1. CASE n = "supervisor"
  BY <1>1 DEF EdgeFrom, Channels, Routes, RouteNode, Guarded
<1>2. CASE n # "supervisor"
  BY <1>2 DEF EdgeFrom, Follows, Guarded
<1> QED BY <1>1, <1>2

\* What a superstep of r leaves alone: the other runs.
LEMMA OthersKeep ==
    ASSUME TypeOK, NEW r \in Requests, NEW c, NEW next,
           Superstep(r, c, next), NEW q \in Requests, q # r
    PROVE  /\ pc'[q] = pc[q]
           /\ channels'[q] = channels[q]
           /\ supersteps'[q] = supersteps[q]
  BY DEF TypeOK, Superstep

LEMMA OwnStep ==
    ASSUME TypeOK, NEW r \in Requests, NEW c, NEW next, Superstep(r, c, next)
    PROVE  /\ pc'[r] = next
           /\ channels'[r] = c
           /\ supersteps'[r] = supersteps[r] + 1
  BY DEF TypeOK, Superstep

\* The part of BudgetInv that concerns one run.
BudgetOf(p, c, n) ==
    /\ n <= MaxSteps + 3
    /\ p \in {"waiting", "initialize_request"} => n = 0
    /\ p \in Guarded => n = c.steps /\ n <= MaxSteps
    /\ p = "handle_failure" => n <= MaxSteps + 1
    /\ p = "finalize_execution" => n <= MaxSteps + 2

LEMMA BudgetInvByRun ==
    BudgetInv <=> \A r \in Requests :
                     BudgetOf(pc[r], channels[r], supersteps[r])
  BY DEF BudgetInv, BudgetOf

LEMMA RunKeepsBudget ==
    ASSUME TypeOK, BudgetInv, NEW r \in Requests, Run(r)
    PROVE  BudgetOf(pc'[r], channels'[r], supersteps'[r])
<1> DEFINE n == supersteps[r]
           c == channels[r]
<1>0. n \in Nat /\ c \in Channels /\ MaxSteps \in Nat /\ MaxSteps >= 1
  BY BoundsAssumption DEF TypeOK
<1>1. CASE Executes(r)
  <2>1. PICK p \in Guarded, d \in Channels :
           Enters(r, p) /\ Returns(r, p, d) /\ d.steps = c.steps
    BY <1>1 DEF Executes
  <2>2. n = c.steps /\ n < MaxSteps
    BY <2>1 DEF Enters, BudgetInv
  <2>3. /\ pc'[r] = EdgeFrom(p, d) /\ channels'[r] = Counted(d)
        /\ supersteps'[r] = n + 1
    BY <2>1, OwnStep DEF Returns
  <2>4. Counted(d).steps = n + 1
    BY <2>1, <2>2 DEF Counted, Channels
  <2>5. pc'[r] \notin {"waiting", "initialize_request"}
    BY <2>3, EdgeTargets DEF Guarded
  <2> QED BY <1>0, <2>2, <2>3, <2>4, <2>5 DEF BudgetOf
<1>2. CASE Fails(r)
  <2> DEFINE d == [c EXCEPT !.failure = TRUE]
  <2>1. d \in Channels /\ d.failure
    BY <1>0 DEF Channels
  <2>a. pc[r] \in Guarded /\ Superstep(r, d, EdgeFrom(pc[r], d))
    BY <1>2 DEF Fails, Raises
  <2> HIDE DEF d
  <2>2. pc'[r] = "handle_failure" /\ supersteps'[r] = n + 1
    BY <2>a, <2>1, OwnStep, EdgeTargets
  <2>3. n <= MaxSteps
    BY <1>2 DEF Fails, BudgetInv
  <2> QED BY <1>0, <2>2, <2>3 DEF BudgetOf, Guarded
<1>3. CASE Initialize(r)
  <2> DEFINE d == [c EXCEPT !.status = "running", !.steps = 1]
  <2>a. Superstep(r, d, "validate_request")
    BY <1>3 DEF Initialize
  <2>b. d.steps = 1
    BY <1>0 DEF Channels
  <2> HIDE DEF d
  <2>1. /\ pc'[r] = "validate_request" /\ supersteps'[r] = n + 1
        /\ channels'[r].steps = 1
    BY <2>a, <2>b, OwnStep
  <2>2. n = 0
    BY <1>3 DEF Initialize, BudgetInv
  <2> QED BY <1>0, <2>1, <2>2 DEF BudgetOf
<1>4. CASE HandleFailure(r)
  <2>1. pc'[r] = "finalize_execution" /\ supersteps'[r] = n + 1
    BY <1>4, OwnStep DEF HandleFailure
  <2>2. n <= MaxSteps + 1
    BY <1>4 DEF HandleFailure, BudgetInv
  <2> QED BY <1>0, <2>1, <2>2 DEF BudgetOf, Guarded
<1>5. CASE Finalize(r)
  <2>1. pc'[r] = "answered" /\ supersteps'[r] = n + 1
    BY <1>5, OwnStep DEF Finalize
  <2>2. n <= MaxSteps + 2
    BY <1>5 DEF Finalize, BudgetInv
  <2> QED BY <1>0, <2>1, <2>2 DEF BudgetOf, Guarded
<1> QED BY <1>1, <1>2, <1>3, <1>4, <1>5, RunCases

\* The runtime's recursion limit is never what ends a run.
THEOREM BudgetEndsFirst == Spec => []RecursionLimitNotReached
<1>1. Init => BudgetInv
  BY BoundsAssumption DEF Init, BudgetInv, Guarded
<1>2. TypeOK /\ BudgetInv /\ [Next]_vars => BudgetInv'
  <2> SUFFICES ASSUME TypeOK, BudgetInv, [Next]_vars
               PROVE  BudgetInv'
    OBVIOUS
  <2>1. CASE UNCHANGED vars
    BY <2>1 DEF BudgetInv, vars
  <2>2. ASSUME NEW r \in Requests, NEW b \in BOOLEAN, Start(r, b)
        PROVE  BudgetInv'
    BY <2>2 DEF Start, BudgetInv, TypeOK, Guarded
  <2>3. ASSUME NEW r \in Requests, Reject(r) PROVE BudgetInv'
    BY <2>3 DEF Reject, BudgetInv, TypeOK, Guarded
  <2>4. ASSUME NEW r \in Requests, Run(r) PROVE BudgetInv'
    <3>1. PICK c \in Channels, next \in PcValues : Superstep(r, c, next)
      BY <2>4, RunSteps DEF Steps
    <3>2. ASSUME NEW q \in Requests
          PROVE  BudgetOf(pc'[q], channels'[q], supersteps'[q])
      <4>1. CASE q = r BY <2>4, <4>1, RunKeepsBudget
      <4>2. CASE q # r BY <3>1, <4>2, OthersKeep, BudgetInvByRun
      <4> QED BY <4>1, <4>2
    <3> QED BY <3>2 DEF BudgetInv, BudgetOf
  <2>5. ASSUME NEW r \in Requests, Interrupt(r) PROVE BudgetInv'
    BY <2>5 DEF Interrupt, Cancel, CancelAfterStore, BudgetInv, TypeOK, Guarded
  <2>6. CASE Quiescent
    BY <2>1, <2>6 DEF Quiescent
  <2> QED BY <2>1, <2>2, <2>3, <2>4, <2>5, <2>6 DEF Next, Arrive
<1>3. TypeOK /\ BudgetInv => RecursionLimitNotReached
  BY BoundsAssumption DEF TypeOK, BudgetInv, RecursionLimitNotReached
<1> QED BY <1>1, <1>2, <1>3, TypeCorrect, PTL DEF Spec

\* The part of FailureInv that concerns one run.
FailureOf(p, c, f, o) ==
    /\ p = "waiting" => ~f
    /\ p \in {"initialize_request", "validate_request"} /\ f => c.failure
    /\ p \in Guarded \ {"validate_request"} => ~c.failure /\ ~f
    /\ p = "finalize_execution" /\ f => c.status = "failed"
    /\ p = "answered" /\ f => o.status = "failed"

LEMMA FailureInvByRun ==
    FailureInv <=> \A r \in Requests :
                      FailureOf(pc[r], channels[r], fault[r], output[r])
  BY DEF FailureInv, FailureOf

LEMMA RunKeepsFailure ==
    ASSUME TypeOK, FailureInv, NEW r \in Requests, Run(r)
    PROVE  FailureOf(pc'[r], channels'[r], fault'[r], output'[r])
<1> DEFINE c == channels[r]
<1>0. c \in Channels /\ fault \in [Requests -> BOOLEAN]
  BY DEF TypeOK
<1>1. CASE Executes(r)
  <2>1. PICK p \in Guarded, d \in Channels :
           /\ Enters(r, p) /\ Returns(r, p, d)
           /\ p = "validate_request" /\ c.failure => d.failure
    BY <1>1 DEF Executes
  <2>2. pc'[r] = EdgeFrom(p, d) /\ channels'[r] = Counted(d)
    BY <2>1, OwnStep DEF Returns
  <2>3. fault'[r] = (fault[r] \/ (d.failure /\ ~c.failure))
    BY <1>0, <2>1 DEF Returns
  <2>4. Counted(d).failure = d.failure
    BY <2>1 DEF Counted, Channels
  <2>5. fault'[r] => d.failure
    BY <2>1, <2>3 DEF Enters, FailureInv
  <2>6. d.failure => pc'[r] = "handle_failure"
    BY <2>2, EdgeTargets
  <2>7. pc'[r] \in (Guarded \ {"validate_request"})
                      \cup {"handle_failure", "finalize_execution"}
    BY <2>2, EdgeTargets
  <2> QED BY <2>2, <2>4, <2>5, <2>6, <2>7 DEF FailureOf, Guarded
<1>2. CASE Fails(r)
  <2> DEFINE d == [c EXCEPT !.failure = TRUE]
  <2>1. pc[r] \in Guarded /\ Superstep(r, d, EdgeFrom(pc[r], d))
    BY <1>2 DEF Fails, Raises
  <2>2. d \in Channels /\ d.failure
    BY <1>0 DEF Channels
  <2> HIDE DEF d
  <2>3. pc'[r] = "handle_failure"
    BY <2>1, <2>2, OwnStep, EdgeTargets
  <2> QED BY <2>3 DEF FailureOf, Guarded
<1>3. CASE Initialize(r)
  <2> DEFINE d == [c EXCEPT !.status = "running", !.steps = 1]
  <2>1. Superstep(r, d, "validate_request") /\ fault' = fault
    BY <1>3 DEF Initialize
  <2>2. d.failure = c.failure
    BY <1>0 DEF Channels
  <2> HIDE DEF d
  <2>3. pc'[r] = "validate_request" /\ channels'[r].failure = c.failure
    BY <2>1, <2>2, OwnStep
  <2>4. fault[r] => c.failure
    BY <1>3 DEF Initialize, FailureInv
  <2> QED BY <2>1, <2>3, <2>4 DEF FailureOf
<1>4. CASE HandleFailure(r)
  <2> DEFINE d == [c EXCEPT !.status = "failed", !.route = "failure",
                            !.answer = r, !.evidence = {}]
  <2>1. Superstep(r, d, "finalize_execution")
    BY <1>4 DEF HandleFailure
  <2>2. d.status = "failed"
    BY <1>0 DEF Channels
  <2> HIDE DEF d
  <2>3. pc'[r] = "finalize_execution" /\ channels'[r].status = "failed"
    BY <2>1, <2>2, OwnStep
  <2> QED BY <2>3 DEF FailureOf, Guarded
<1>5. CASE Finalize(r)
  <2> DEFINE d == [c EXCEPT !.status = EffectiveStatus(c)]
  <2>1. /\ Superstep(r, d, "answered") /\ fault' = fault
        /\ output' = [output EXCEPT ![r] = FinalOutput(d)]
    BY <1>5 DEF Finalize
  <2>2. fault[r] => c.status = "failed"
    BY <1>5 DEF Finalize, FailureInv
  <2>3. c.status = "failed" => FinalOutput(d).status = "failed"
    BY <1>0 DEF Channels, FinalOutput, EffectiveStatus
  <2> HIDE DEF d
  <2>4. pc'[r] = "answered" /\ output'[r] = FinalOutput(d)
    BY <2>1, OwnStep DEF TypeOK
  <2> QED BY <2>1, <2>2, <2>3, <2>4 DEF FailureOf, Guarded
<1> QED BY <1>1, <1>2, <1>3, <1>4, <1>5, RunCases

\* What a step of r leaves alone beside the channels.
LEMMA OthersKeepReport ==
    ASSUME TypeOK, NEW r \in Requests, Run(r), NEW q \in Requests, q # r
    PROVE  fault'[q] = fault[q] /\ output'[q] = output[q]
<1>1. CASE Executes(r)
  BY <1>1 DEF Executes, Returns, TypeOK
<1>2. CASE Fails(r) \/ Initialize(r) \/ HandleFailure(r)
  BY <1>2 DEF Fails, Raises, Initialize, HandleFailure, TypeOK
<1>3. CASE Finalize(r)
  BY <1>3 DEF Finalize, TypeOK
<1> QED BY <1>1, <1>2, <1>3, RunCases

\* A failure stays in the channels until it is reported.
LEMMA FailureHolds == Spec => []FailureInv
<1>1. Init => FailureInv
  BY DEF Init, FailureInv, Guarded
<1>2. TypeOK /\ FailureInv /\ [Next]_vars => FailureInv'
  <2> SUFFICES ASSUME TypeOK, FailureInv, [Next]_vars
               PROVE  FailureInv'
    OBVIOUS
  <2>1. CASE UNCHANGED vars
    BY <2>1 DEF FailureInv, vars
  <2>2. ASSUME NEW r \in Requests, NEW b \in BOOLEAN, Start(r, b)
        PROVE  FailureInv'
    <3> DEFINE c == BaseState(ckpt[SessionOf[r]], b)
    <3>a. SessionOf[r] \in Sessions
      BY RequestsAssumption
    <3>b. ckpt[SessionOf[r]] \in Channels
      BY <3>a DEF TypeOK
    <3>1. b => c.failure
      BY <3>b DEF BaseState, Channels
    <3>2. /\ pc'[r] = "initialize_request" /\ channels'[r] = c
          /\ fault'[r] = b
      BY <2>2 DEF Start, TypeOK
    <3>3. \A q \in Requests \ {r} :
             /\ pc'[q] = pc[q] /\ channels'[q] = channels[q]
             /\ fault'[q] = fault[q]
      BY <2>2 DEF Start, TypeOK
    <3>4. output' = output
      BY <2>2 DEF Start
    <3>5. FailureOf(pc'[r], channels'[r], fault'[r], output'[r])
      BY <3>1, <3>2 DEF FailureOf, Guarded
    <3> HIDE DEF c
    <3>6. \A q \in Requests :
             FailureOf(pc'[q], channels'[q], fault'[q], output'[q])
      BY <3>3, <3>4, <3>5, FailureInvByRun
    <3> QED BY <3>6 DEF FailureInv, FailureOf
  <2>3. ASSUME NEW r \in Requests, Reject(r) PROVE FailureInv'
    BY <2>3 DEF Reject, FailureInv, TypeOK, Guarded
  <2>4. ASSUME NEW r \in Requests, Run(r) PROVE FailureInv'
    <3>1. PICK c \in Channels, next \in PcValues : Superstep(r, c, next)
      BY <2>4, RunSteps DEF Steps
    <3>2. ASSUME NEW q \in Requests
          PROVE  FailureOf(pc'[q], channels'[q], fault'[q], output'[q])
      <4>1. CASE q = r BY <2>4, <4>1, RunKeepsFailure
      <4>2. CASE q # r
        BY <2>4, <3>1, <4>2, OthersKeep, OthersKeepReport, FailureInvByRun
      <4> QED BY <4>1, <4>2
    <3> QED BY <3>2 DEF FailureInv, FailureOf
  <2>5. ASSUME NEW r \in Requests, Interrupt(r) PROVE FailureInv'
    BY <2>5 DEF Interrupt, Cancel, CancelAfterStore, FailureInv, TypeOK,
                Guarded
  <2>6. CASE Quiescent
    BY <2>1, <2>6 DEF Quiescent
  <2> QED BY <2>1, <2>2, <2>3, <2>4, <2>5, <2>6 DEF Next, Arrive
<1> QED BY <1>1, <1>2, TypeCorrect, PTL DEF Spec

\* A run that met a failure is never reported as a completed answer.
THEOREM FailuresReported == Spec => []FaultsAreReported
<1>1. FailureInv => FaultsAreReported
  BY DEF FailureInv, FaultsAreReported
<1> QED BY <1>1, FailureHolds, PTL

-----------------------------------------------------------------------------
(* What is answered, and what is remembered of it.                         *)

Early == {"validate_request", "load_memory", "resolve_followup_context",
          "classify_intent", "supervisor"}

Capabilities == {"simple_retrieval", "cross_document_research", "python_analysis",
                 "execute_mcp_tool", "direct_response", "deny_request", "unsupported"}

Late == {"prepare_output", "update_memory", "finalize_execution"}

Generated == {"simple_retrieval", "recursive_research", "python_analysis"}

Supported(c) == c.verdict.valid \/ c.grounded.fallback

\* The citations the channels carry are those of the text they carry.
Cites(c) == c.grounded.cited => c.grounded.from = c.answer

Sound(c) == Supported(c) /\ Cites(c)

\* A run has no evidence and no status of its own before a capability runs;
\* the capability is the one its route names; what a later node adds is
\* neither denied nor unsupported nor cited for another text.
AnswerOf(p, c, o) ==
    /\ p \in {"initialize_request"} \cup Early \cup Capabilities => c.evidence = {}
    /\ p \in Early \cup Capabilities => c.status = "running"
    /\ p \in Nodes \ {"initialize_request"} /\ c.status = "denied" => c.evidence = {}
    /\ p \in Capabilities => RouteNode[c.route] = p
    /\ p = "validate_citations" => Cites(c)
    /\ p \in Late /\ c.route \in Generated => Sound(c)
    /\ p = "answered" /\ o.route \in Generated =>
          Supported(c) /\ o.citations \in {None, o.answer}

AnswerInv == \A r \in Requests : AnswerOf(pc[r], channels[r], output[r])

\* Where a guarded node that returned leads, and what it leaves.
LEMMA NodeStep ==
    ASSUME TypeOK, NEW r \in Requests, NEW n \in Guarded, NEW c \in Channels, Returns(r, n, c)
    PROVE  /\ pc'[r] = EdgeFrom(n, c)
           /\ channels'[r] = Counted(c)
           /\ Counted(c).evidence = c.evidence /\ Counted(c).status = c.status
           /\ Counted(c).route = c.route /\ Sound(Counted(c)) = Sound(c)
           /\ Cites(Counted(c)) = Cites(c)
  BY OwnStep DEF Returns, Counted, Channels, Sound, Supported, Cites

\* The edges of the graph, when nothing failed.
LEMMA Edges ==
    ASSUME NEW c \in Channels, ~c.failure
    PROVE  /\ EdgeFrom("validate_request", c) = "load_memory"
           /\ EdgeFrom("load_memory", c) = "resolve_followup_context"
           /\ EdgeFrom("resolve_followup_context", c) = "classify_intent"
           /\ EdgeFrom("classify_intent", c) = "supervisor"
           /\ EdgeFrom("supervisor", c) = RouteNode[c.route]
           /\ EdgeFrom("simple_retrieval", c) = "validate_evidence"
           /\ EdgeFrom("cross_document_research", c) = "validate_evidence"
           /\ EdgeFrom("validate_evidence", c) = "generate_response"
           /\ EdgeFrom("python_analysis", c) = "generate_response"
           /\ EdgeFrom("generate_response", c) = "validate_citations"
           /\ EdgeFrom("validate_citations", c) = "prepare_output"
           /\ EdgeFrom("execute_mcp_tool", c) = "prepare_output"
           /\ EdgeFrom("direct_response", c) = "prepare_output"
           /\ EdgeFrom("deny_request", c) = "prepare_output"
           /\ EdgeFrom("unsupported", c) = "prepare_output"
           /\ EdgeFrom("prepare_output", c) = "update_memory"
           /\ EdgeFrom("update_memory", c) = "finalize_execution"
  BY DEF EdgeFrom, Follows

\* The supervisor leads to a capability or to the failure handler.
LEMMA RouteTargets ==
    ASSUME NEW route \in Routes
    PROVE  RouteNode[route] \in Capabilities \cup {"handle_failure"}
  BY DEF Routes, RouteNode, Capabilities

\* A step that failed leads to the handler, which needs little.
LEMMA FailedStepAnswers ==
    ASSUME NEW c \in Channels, NEW o, c.status = "denied" => c.evidence = {}
    PROVE  AnswerOf("handle_failure", c, o)
  BY DEF AnswerOf, Early, Capabilities, Late

\* The nodes before a capability runs.
LEMMA PrepareAnswers ==
    ASSUME TypeOK, AnswerInv, NEW r \in Requests, Prepare(r)
    PROVE  AnswerOf(pc'[r], channels'[r], output'[r])
<1> DEFINE c == channels[r]
<1>0. c \in Channels /\ AnswerOf(pc[r], c, output[r]) BY DEF TypeOK, AnswerInv
<1>1. CASE Initialize(r)
  <2> DEFINE d == [c EXCEPT !.status = "running", !.steps = 1]
  <2>1. Superstep(r, d, "validate_request") /\ pc[r] = "initialize_request"
    BY <1>1 DEF Initialize
  <2>2. d.status = "running" /\ d.evidence = {}
    BY <1>0, <2>1 DEF Channels, AnswerOf
  <2> HIDE DEF d
  <2>3. pc'[r] = "validate_request" /\ channels'[r] = d
    BY <2>1, OwnStep
  <2> QED BY <2>2, <2>3 DEF AnswerOf, Early, Capabilities, Late
<1>2. ASSUME NEW n \in Early \cup {"prepare_output"}, NEW d \in Channels,
             pc[r] = n, Returns(r, n, d),
             d.evidence = c.evidence, d.status = c.status, Sound(d) = Sound(c),
             n # "supervisor" => d.route = c.route
      PROVE  AnswerOf(pc'[r], channels'[r], output'[r])
  <2>1. n \in Guarded BY DEF Early, Guarded
  <2>2. d.status = "denied" => d.evidence = {}
    BY <1>0, <1>2, <2>1 DEF AnswerOf, Nodes, Guarded
  <2>3. CASE d.failure
    <3>1. pc'[r] = "handle_failure" BY <1>2, <2>1, <2>3, NodeStep, EdgeTargets
    <3>2. channels'[r] \in Channels BY <1>2, <2>1, NodeStep, CountedWrites
    <3> QED BY <1>2, <2>1, <2>2, <3>1, <3>2, NodeStep, FailedStepAnswers
  <2>4. CASE ~d.failure /\ n \in Early \ {"supervisor"}
    <3>1. pc'[r] \in Early
      BY <1>2, <2>1, <2>4, NodeStep, Edges DEF Early
    <3>2. d.evidence = {} /\ d.status = "running"
      BY <1>0, <1>2, <2>4 DEF AnswerOf
    <3> QED BY <1>2, <2>1, <3>1, <3>2, NodeStep DEF AnswerOf, Early, Capabilities, Late
  <2>5. CASE ~d.failure /\ n = "supervisor"
    <3>1. pc'[r] = RouteNode[d.route]
      BY <1>2, <2>1, <2>5, NodeStep, Edges
    <3>2. pc'[r] \in Capabilities \cup {"handle_failure"}
      BY <3>1, RouteTargets DEF Channels
    <3>3. d.evidence = {} /\ d.status = "running"
      BY <1>0, <1>2, <2>5 DEF AnswerOf, Early
    <3>4. channels'[r].evidence = {} /\ channels'[r].status = "running"
          /\ channels'[r].route = d.route
      BY <1>2, <2>1, <3>3, NodeStep
    <3> QED BY <3>1, <3>2, <3>4 DEF AnswerOf, Early, Capabilities, Late
  <2>6. CASE ~d.failure /\ n = "prepare_output"
    <3>1. pc'[r] = "update_memory"
      BY <1>2, <2>1, <2>6, NodeStep, Edges
    <3>2. d.route \in Generated => Sound(d)
      BY <1>0, <1>2, <2>6 DEF AnswerOf, Late
    <3> QED BY <1>2, <2>1, <2>2, <3>1, <3>2, NodeStep
            DEF AnswerOf, Early, Capabilities, Late
  <2> QED BY <2>3, <2>4, <2>5, <2>6
<1>3. ASSUME NEW b \in BOOLEAN, ValidateRequest(r, b)
      PROVE  AnswerOf(pc'[r], channels'[r], output'[r])
  <2> DEFINE d == [c EXCEPT !.failure = ~(~c.failure /\ b)]
  <2>1. /\ pc[r] = "validate_request" /\ Returns(r, "validate_request", d)
    BY <1>3 DEF ValidateRequest, Enters
  <2>2. /\ d \in Channels /\ d.evidence = c.evidence /\ d.status = c.status
        /\ d.route = c.route /\ Sound(d) = Sound(c)
    BY <1>0 DEF Channels, Sound, Supported, Cites
  <2> HIDE DEF d
  <2> QED BY <1>2, <2>1, <2>2 DEF Early
<1>4. ASSUME NEW b \in BOOLEAN, LoadMemory(r, b)
      PROVE  AnswerOf(pc'[r], channels'[r], output'[r])
  <2> DEFINE d == [c EXCEPT !.warnings = IF b THEN @ ELSE @ \cup {"memory_not_loaded"}]
  <2>1. pc[r] = "load_memory" /\ Returns(r, "load_memory", d)
    BY <1>4 DEF LoadMemory, Enters
  <2>2. /\ d \in Channels /\ d.evidence = c.evidence /\ d.status = c.status
        /\ d.route = c.route /\ Sound(d) = Sound(c)
    BY <1>0 DEF Channels, Sound, Supported, Cites, WarningKinds
  <2> HIDE DEF d
  <2> QED BY <1>2, <2>1, <2>2 DEF Early
<1>5. ASSUME NEW n \in Guarded, PassThrough(r, n)
      PROVE  AnswerOf(pc'[r], channels'[r], output'[r])
  <2>1. n \in Early \cup {"prepare_output"} /\ pc[r] = n /\ Returns(r, n, c)
    BY <1>5 DEF PassThrough, Enters, Early
  <2> QED BY <1>0, <1>2, <2>1
<1>6. ASSUME NEW route \in Routes, Supervisor(r, route)
      PROVE  AnswerOf(pc'[r], channels'[r], output'[r])
  <2> DEFINE d == [c EXCEPT !.route = route]
  <2>1. pc[r] = "supervisor" /\ Returns(r, "supervisor", d)
    BY <1>6 DEF Supervisor, Enters
  <2>2. /\ d \in Channels /\ d.evidence = c.evidence /\ d.status = c.status
        /\ Sound(d) = Sound(c)
    BY <1>0 DEF Channels, Sound, Supported, Cites
  <2> HIDE DEF d
  <2> QED BY <1>2, <2>1, <2>2 DEF Early
<1> QED BY <1>1, <1>3, <1>4, <1>5, <1>6 DEF Prepare

\* A node that returned with an update of the channels it names.
LEMMA NodeAnswers ==
    ASSUME TypeOK, AnswerInv, NEW r \in Requests, NEW n \in Guarded, NEW d \in Channels,
           Returns(r, n, d),
           d.status = "denied" => d.evidence = {},
           ~d.failure =>
             \/ EdgeFrom(n, d) \in {"validate_evidence", "generate_response"}
             \/ EdgeFrom(n, d) = "validate_citations" /\ Cites(d)
             \/ /\ EdgeFrom(n, d) \in Late
                /\ d.route \in Generated => Sound(d)
    PROVE  AnswerOf(pc'[r], channels'[r], output'[r])
<1>1. CASE d.failure
  <2>1. pc'[r] = "handle_failure" BY <1>1, NodeStep, EdgeTargets
  <2>2. channels'[r] \in Channels BY NodeStep, CountedWrites
  <2> QED BY <2>1, <2>2, NodeStep, FailedStepAnswers
<1>2. CASE ~d.failure
  <2>1. CASE EdgeFrom(n, d) \in {"validate_evidence", "generate_response"}
    BY <2>1, NodeStep DEF AnswerOf, Early, Capabilities, Late
  <2>3. CASE EdgeFrom(n, d) = "validate_citations" /\ Cites(d)
    BY <2>3, NodeStep DEF AnswerOf, Early, Capabilities, Late
  <2>2. CASE EdgeFrom(n, d) \in Late /\ (d.route \in Generated => Sound(d))
    BY <2>2, NodeStep DEF AnswerOf, Early, Capabilities, Late
  <2> QED BY <1>2, <2>1, <2>2, <2>3
<1> QED BY <1>1, <1>2

\* A capability runs on the route that names it, and starts without evidence.
LEMMA CapabilityAnswers ==
    ASSUME TypeOK, AnswerInv, NEW r \in Requests, Capability(r)
    PROVE  AnswerOf(pc'[r], channels'[r], output'[r])
<1> DEFINE c == channels[r]
<1>0. c \in Channels /\ AnswerOf(pc[r], c, output[r]) BY DEF TypeOK, AnswerInv
<1>a. pc[r] \in Capabilities =>
        c.evidence = {} /\ c.status = "running" /\ RouteNode[c.route] = pc[r]
  BY <1>0 DEF AnswerOf
<1>b. pc[r] \in {"execute_mcp_tool", "direct_response", "deny_request", "unsupported"} =>
        c.route \notin Generated
  BY <1>a DEF Capabilities, Generated, RouteNode
<1>1. ASSUME NEW n \in {"simple_retrieval", "cross_document_research", "python_analysis"},
             NEW d \in Channels, pc[r] = n, Returns(r, n, d), d.status # "denied"
      PROVE  AnswerOf(pc'[r], channels'[r], output'[r])
  <2>1. n \in Guarded BY DEF Guarded
  <2>2. ~d.failure => EdgeFrom(n, d) \in {"validate_evidence", "generate_response"}
    BY Edges
  <2> QED BY <1>1, <2>1, <2>2, NodeAnswers
<1>2. ASSUME NEW n \in {"execute_mcp_tool", "direct_response", "deny_request", "unsupported"},
             NEW d \in Channels, pc[r] = n, Returns(r, n, d), d.evidence = {},
             d.route = c.route
      PROVE  AnswerOf(pc'[r], channels'[r], output'[r])
  <2>1. n \in Guarded BY DEF Guarded
  <2>2. ~d.failure => EdgeFrom(n, d) \in Late BY Edges DEF Late
  <2> QED BY <1>b, <1>2, <2>1, <2>2, NodeAnswers
<1>3. CASE SimpleRetrievalFails(r)
  <2> DEFINE d == [c EXCEPT !.failure = TRUE]
  <2>1. pc[r] = "simple_retrieval" /\ Returns(r, "simple_retrieval", d)
    BY <1>3 DEF SimpleRetrievalFails, Enters
  <2>2. d \in Channels /\ d.status = c.status BY <1>0 DEF Channels
  <2> HIDE DEF d
  <2> QED BY <1>a, <1>1, <2>1, <2>2 DEF Capabilities
<1>4. ASSUME NEW found \in SUBSET Evidence, NEW degraded \in BOOLEAN,
             SimpleRetrieval(r, found, degraded)
      PROVE  AnswerOf(pc'[r], channels'[r], output'[r])
  <2> DEFINE e == IF found = {} THEN {} ELSE c.evidence \cup found
             w == IF degraded THEN c.warnings \cup {"limited_result"} ELSE {}
             s == IF degraded THEN "partial_success" ELSE "running"
             d == [c EXCEPT !.evidence = e, !.warnings = w, !.status = s]
  <2>1. pc[r] = "simple_retrieval" /\ Returns(r, "simple_retrieval", d)
    BY <1>4 DEF SimpleRetrieval, Enters
  <2>3. /\ e \subseteq Evidence /\ w \subseteq WarningKinds
        /\ s \in Status /\ s # "denied"
    BY <1>0 DEF Channels, Status, WarningKinds
  <2> HIDE DEF e, w, s
  <2>2. d \in Channels /\ d.status # "denied"
    BY <1>0, <2>3 DEF Channels
  <2> HIDE DEF d
  <2> QED BY <1>1, <2>1, <2>2
<1>5. CASE ResearchFails(r)
  <2> DEFINE d == [c EXCEPT !.failure = TRUE]
  <2>1. pc[r] = "cross_document_research" /\ Returns(r, "cross_document_research", d)
    BY <1>5 DEF ResearchFails, Enters
  <2>2. d \in Channels /\ d.status = c.status BY <1>0 DEF Channels
  <2> HIDE DEF d
  <2> QED BY <1>a, <1>1, <2>1, <2>2 DEF Capabilities
<1>6. ASSUME NEW found \in SUBSET Evidence, NEW limited \in BOOLEAN, NEW failed \in BOOLEAN,
             CrossDocumentResearch(r, found, limited, failed)
      PROVE  AnswerOf(pc'[r], channels'[r], output'[r])
  <2> DEFINE e == IF found = {} THEN {} ELSE c.evidence \cup found
             w == IF limited THEN c.warnings \cup {"limited_result"} ELSE {}
             d == [c EXCEPT !.research = r, !.evidence = e, !.warnings = w,
                            !.failure = failed]
  <2>1. pc[r] = "cross_document_research" /\ Returns(r, "cross_document_research", d)
    BY <1>6 DEF CrossDocumentResearch, Enters
  <2>3. e \subseteq Evidence /\ w \subseteq WarningKinds
    BY <1>0 DEF Channels, WarningKinds
  <2> HIDE DEF e, w
  <2>2. d \in Channels /\ d.status = c.status
    BY <1>0, <2>3 DEF Channels, Origin
  <2> HIDE DEF d
  <2> QED BY <1>a, <1>1, <2>1, <2>2 DEF Capabilities
<1>7. CASE PythonAnalysis(r)
  <2> DEFINE d == [c EXCEPT !.analysis = r, !.answer = r]
  <2>1. pc[r] = "python_analysis" /\ Returns(r, "python_analysis", d)
    BY <1>7 DEF PythonAnalysis, Enters
  <2>2. d \in Channels /\ d.status = c.status BY <1>0 DEF Channels, Origin
  <2> HIDE DEF d
  <2> QED BY <1>a, <1>1, <2>1, <2>2 DEF Capabilities
<1>8. ASSUME NEW o \in McpOutcomes, ExecuteMcpTool(r, o)
      PROVE  AnswerOf(pc'[r], channels'[r], output'[r])
  <2>1. PICK d : /\ pc[r] = "execute_mcp_tool" /\ Returns(r, "execute_mcp_tool", d)
                 /\ d \in {[c EXCEPT !.mcp = r, !.answer = r],
                           [c EXCEPT !.status = "partial_success", !.answer = r],
                           [c EXCEPT !.status = "denied", !.answer = r],
                           [c EXCEPT !.failure = TRUE]}
    BY <1>8 DEF ExecuteMcpTool, Enters, McpOutcomes
  <2>2. "denied" \in Status /\ "partial_success" \in Status /\ r \in Origin
    BY DEF Status, Origin
  <2> HIDE DEF c
  <2>3. d \in Channels /\ d.evidence = c.evidence /\ d.route = c.route
    <3>1. CASE d = [c EXCEPT !.mcp = r, !.answer = r]
      BY <1>0, <2>2, <3>1 DEF Channels
    <3>2. CASE d = [c EXCEPT !.status = "partial_success", !.answer = r]
      BY <1>0, <2>2, <3>2 DEF Channels
    <3>3. CASE d = [c EXCEPT !.status = "denied", !.answer = r]
      BY <1>0, <2>2, <3>3 DEF Channels
    <3>4. CASE d = [c EXCEPT !.failure = TRUE]
      BY <1>0, <3>4 DEF Channels
    <3> QED BY <2>1, <3>1, <3>2, <3>3, <3>4
  <2> QED BY <1>a, <1>2, <2>1, <2>3 DEF Capabilities
<1>9. CASE DirectResponse(r)
  <2> DEFINE d == [c EXCEPT !.answer = r]
  <2>1. pc[r] = "direct_response" /\ Returns(r, "direct_response", d)
    BY <1>9 DEF DirectResponse, Enters
  <2>2. d \in Channels /\ d.evidence = c.evidence /\ d.route = c.route
    BY <1>0 DEF Channels, Origin
  <2> HIDE DEF d
  <2> QED BY <1>a, <1>2, <2>1, <2>2 DEF Capabilities
<1>10. CASE DenyRequest(r)
  <2> DEFINE d == [c EXCEPT !.status = "denied", !.answer = r, !.evidence = {}]
  <2>1. pc[r] = "deny_request" /\ Returns(r, "deny_request", d)
    BY <1>10 DEF DenyRequest, Enters
  <2>2. d \in Channels /\ d.evidence = {} /\ d.route = c.route
    BY <1>0 DEF Channels, Origin, Status
  <2> HIDE DEF d
  <2> QED BY <1>2, <2>1, <2>2
<1>11. CASE Unsupported(r)
  <2> DEFINE d == [c EXCEPT !.answer = r, !.warnings = @ \cup {"unavailable"}]
  <2>1. pc[r] = "unsupported" /\ Returns(r, "unsupported", d)
    BY <1>11 DEF Unsupported, Enters
  <2>2. d \in Channels /\ d.evidence = c.evidence /\ d.route = c.route
    BY <1>0 DEF Channels, Origin, WarningKinds
  <2> HIDE DEF d
  <2> QED BY <1>a, <1>2, <2>1, <2>2 DEF Capabilities
<1> QED BY <1>3, <1>4, <1>5, <1>6, <1>7, <1>8, <1>9, <1>10, <1>11 DEF Capability

\* The nodes that generate an answer add no evidence, and an answer without
\* support does not pass validate_citations.
LEMMA RespondAnswers ==
    ASSUME TypeOK, AnswerInv, NEW r \in Requests, Respond(r)
    PROVE  AnswerOf(pc'[r], channels'[r], output'[r])
<1> DEFINE c == channels[r]
<1>0. c \in Channels /\ AnswerOf(pc[r], c, output[r]) BY DEF TypeOK, AnswerInv
<1>1. pc[r] \in {"validate_evidence", "generate_response", "validate_citations"} =>
        (c.status = "denied" => c.evidence = {})
  BY <1>0 DEF AnswerOf, Nodes, Guarded
<1>2. ASSUME NEW n \in {"validate_evidence", "generate_response"}, NEW d \in Channels,
             Returns(r, n, d), d.status = "denied" => d.evidence = {},
             n = "generate_response" => Cites(d)
      PROVE  AnswerOf(pc'[r], channels'[r], output'[r])
  <2>1. n \in Guarded BY DEF Guarded
  <2>2. ~d.failure => \/ EdgeFrom(n, d) = "generate_response"
                      \/ EdgeFrom(n, d) = "validate_citations" /\ Cites(d)
    BY <1>2, Edges
  <2> QED BY <1>2, <2>1, <2>2, NodeAnswers
<1>3. ASSUME NEW b \in BOOLEAN, ValidateEvidence(r, b)
      PROVE  AnswerOf(pc'[r], channels'[r], output'[r])
  <2>1. PICK valid \in SUBSET c.evidence, warned \in SUBSET WarningKinds :
          /\ pc[r] = "validate_evidence"
          /\ Returns(r, "validate_evidence",
               [c EXCEPT !.evidence = IF valid = {} THEN {} ELSE @ \cup valid,
                         !.warnings = IF warned = {} THEN {} ELSE @ \cup warned])
    <3> DEFINE valid == c.evidence \cap Acceptable \cap Readable[PrincipalOf[r]]
               warned == IF b /\ valid = {} THEN {"no_exact_match"}
                         ELSE IF valid # c.evidence THEN {"evidence_rejected"} ELSE {}
    <3>1. valid \in SUBSET c.evidence /\ warned \in SUBSET WarningKinds BY DEF WarningKinds
    <3>2. /\ pc[r] = "validate_evidence"
          /\ Returns(r, "validate_evidence",
               [c EXCEPT !.evidence = IF valid = {} THEN {} ELSE @ \cup valid,
                         !.warnings = IF warned = {} THEN {} ELSE @ \cup warned])
      BY <1>3 DEF ValidateEvidence, Enters
    <3> HIDE DEF valid, warned
    <3> QED BY <3>1, <3>2
  <2> DEFINE d == [c EXCEPT !.evidence = IF valid = {} THEN {} ELSE @ \cup valid,
                            !.warnings = IF warned = {} THEN {} ELSE @ \cup warned]
  <2>2. d \in Channels /\ d.status = c.status /\ d.evidence \subseteq c.evidence
    BY <1>0 DEF Channels
  <2>3. Returns(r, "validate_evidence", d) BY <2>1
  <2> HIDE DEF d
  <2> QED BY <1>1, <1>2, <2>1, <2>2, <2>3
<1>4. CASE GenerateFromAnalysis(r)
  <2> DEFINE d == [c EXCEPT !.grounded = [from |-> c.analysis, fallback |-> FALSE,
                                          cited |-> FALSE],
                            !.answer = c.analysis]
  <2>1. pc[r] = "generate_response" /\ Returns(r, "generate_response", d)
    BY <1>4 DEF GenerateFromAnalysis, Enters
  <2>2. /\ d \in Channels /\ d.status = c.status /\ d.evidence = c.evidence
        /\ Cites(d)
    BY <1>0 DEF Channels, Origin, Cites
  <2> HIDE DEF d
  <2> QED BY <1>1, <1>2, <2>1, <2>2
<1>5. ASSUME NEW f \in Drafts(TRUE), GenerateFromResearch(r, f)
      PROVE  AnswerOf(pc'[r], channels'[r], output'[r])
  <2> DEFINE g == [from |-> c.research, fallback |-> f.fallback, cited |-> f.cited]
             v == [by |-> r, valid |-> f.valid]
             s == IF f.valid THEN c.status ELSE "partial_success"
             d == [c EXCEPT !.grounded = g, !.verdict = v, !.answer = c.research,
                            !.status = s]
  <2>1. pc[r] = "generate_response" /\ Returns(r, "generate_response", d)
    BY <1>5 DEF GenerateFromResearch, Enters
  <2>3. /\ g \in [from : Origin, fallback : BOOLEAN, cited : BOOLEAN]
        /\ v \in [by : Origin, valid : BOOLEAN] /\ s \in Status
        /\ s = "denied" => c.status = "denied"
        /\ g.from = c.research
    BY <1>0, <1>5 DEF Channels, Origin, Status, Drafts
  <2> HIDE DEF g, v, s
  <2>4. d \in Channels /\ d.evidence = c.evidence /\ d.status = s
    BY <1>0, <2>3 DEF Channels
  <2>5. d.grounded = g /\ d.answer = c.research
    BY <1>0 DEF Channels
  <2>6. Cites(d)
    BY <2>3, <2>5 DEF Cites
  <2>2. /\ d \in Channels /\ d.evidence = c.evidence /\ Cites(d)
        /\ d.status = "denied" => c.status = "denied"
    BY <2>3, <2>4, <2>6
  <2> HIDE DEF d
  <2> QED BY <1>1, <1>2, <2>1, <2>2
<1>6. ASSUME NEW f \in Drafts(FALSE), GenerateFromEvidence(r, f)
      PROVE  AnswerOf(pc'[r], channels'[r], output'[r])
  <2> DEFINE d == [c EXCEPT !.grounded = [from |-> r, fallback |-> f.fallback,
                                          cited |-> f.cited],
                            !.verdict = [by |-> r, valid |-> f.valid],
                            !.answer = r]
  <2>1. pc[r] = "generate_response" /\ Returns(r, "generate_response", d)
    BY <1>6 DEF GenerateFromEvidence, Enters
  <2>2. /\ d \in Channels /\ d.evidence = c.evidence /\ d.status = c.status
        /\ Cites(d)
    BY <1>0 DEF Channels, Origin, Drafts, Cites
  <2> HIDE DEF d
  <2> QED BY <1>1, <1>2, <2>1, <2>2
<1>7. CASE ValidateCitations(r)
  <2> DEFINE d == [c EXCEPT !.failure = ~(c.verdict.valid \/ c.grounded.fallback)]
  <2>1. pc[r] = "validate_citations" /\ Returns(r, "validate_citations", d)
    BY <1>7 DEF ValidateCitations, Enters
  <2>2. /\ d \in Channels /\ d.evidence = c.evidence /\ d.status = c.status
        /\ ~d.failure => Sound(d)
    BY <1>0, <2>1 DEF Channels, Sound, Supported, Cites, AnswerOf
  <2> HIDE DEF d
  <2>3. ~d.failure => EdgeFrom("validate_citations", d) \in Late BY <2>2, Edges DEF Late
  <2>4. "validate_citations" \in Guarded BY DEF Guarded
  <2> QED BY <1>1, <2>1, <2>2, <2>3, <2>4, NodeAnswers
<1> QED BY <1>3, <1>4, <1>5, <1>6, <1>7 DEF Respond

\* The last nodes keep what the answer rests on.
LEMMA CompleteAnswers ==
    ASSUME TypeOK, AnswerInv, NEW r \in Requests, Complete(r)
    PROVE  AnswerOf(pc'[r], channels'[r], output'[r])
<1> DEFINE c == channels[r]
<1>0. c \in Channels /\ AnswerOf(pc[r], c, output[r]) BY DEF TypeOK, AnswerInv
<1>1. CASE UpdateMemory(r) \/ UpdateMemoryRefused(r)
  <2>1. PICK d \in {c, [c EXCEPT !.warnings = @ \cup {"memory_not_updated"}]} :
          pc[r] = "update_memory" /\ Returns(r, "update_memory", d)
    BY <1>1 DEF UpdateMemory, UpdateMemoryRefused, Enters
  <2>2. /\ d \in Channels /\ d.evidence = c.evidence /\ d.status = c.status
        /\ d.route = c.route /\ Sound(d) = Sound(c)
    BY <1>0, <2>1 DEF Channels, Sound, Supported, Cites, WarningKinds
  <2>3. /\ c.status = "denied" => c.evidence = {}
        /\ c.route \in Generated => Sound(c)
    BY <1>0, <2>1 DEF AnswerOf, Nodes, Guarded, Late
  <2>4. ~d.failure => EdgeFrom("update_memory", d) \in Late BY <2>2, Edges DEF Late
  <2>5. "update_memory" \in Guarded BY DEF Guarded
  <2> QED BY <2>1, <2>2, <2>3, <2>4, <2>5, NodeAnswers
<1>2. CASE StepBudgetExceeded(r) \/ NodeRaises(r)
  <2> DEFINE d == [c EXCEPT !.failure = TRUE]
  <2>1. pc[r] \in Guarded /\ Superstep(r, d, EdgeFrom(pc[r], d))
    BY <1>2, FaultyAssumption DEF StepBudgetExceeded, NodeRaises, Raises
  <2>2. d \in Channels /\ d.failure /\ d.status = c.status /\ d.evidence = c.evidence
    BY <1>0 DEF Channels
  <2>3. c.status = "denied" => c.evidence = {}
    BY <1>0, <2>1 DEF AnswerOf, Nodes, Guarded
  <2> HIDE DEF d
  <2>4. pc'[r] = "handle_failure" /\ channels'[r] = d
    BY <2>1, <2>2, OwnStep, EdgeTargets
  <2> QED BY <2>2, <2>3, <2>4, FailedStepAnswers
<1>3. CASE HandleFailure(r)
  <2> DEFINE d == [c EXCEPT !.status = "failed", !.route = "failure",
                            !.answer = r, !.evidence = {}]
  <2>1. Superstep(r, d, "finalize_execution") BY <1>3 DEF HandleFailure
  <2>2. d.status = "failed" /\ d.route = "failure" BY <1>0 DEF Channels
  <2> HIDE DEF d
  <2>3. pc'[r] = "finalize_execution" /\ channels'[r] = d BY <2>1, OwnStep
  <2> QED BY <2>2, <2>3 DEF AnswerOf, Early, Capabilities, Late, Generated
<1>4. CASE Finalize(r)
  <2> DEFINE d == [c EXCEPT !.status = EffectiveStatus(c)]
  <2>1. /\ Superstep(r, d, "answered") /\ pc[r] = "finalize_execution"
        /\ output' = [output EXCEPT ![r] = FinalOutput(d)]
    BY <1>4 DEF Finalize
  <2>2. /\ d.status = "denied" => c.status = "denied"
        /\ d.evidence = c.evidence /\ d.route = c.route /\ Sound(d) = Sound(c)
    BY <1>0 DEF Channels, EffectiveStatus, Sound, Supported, Cites
  <2>3. /\ c.status = "denied" => c.evidence = {}
        /\ c.route \in Generated => Sound(c)
    BY <1>0, <2>1 DEF AnswerOf, Nodes, Late
  <2> HIDE DEF d
  <2>4. /\ pc'[r] = "answered" /\ channels'[r] = d /\ output'[r] = FinalOutput(d)
    BY <2>1, OwnStep DEF TypeOK
  <2>5. /\ output'[r].status = d.status /\ output'[r].route = d.route
        /\ output'[r].citations = IF d.grounded.cited THEN d.grounded.from ELSE None
        /\ output'[r].answer = d.answer
    BY <2>4 DEF FinalOutput
  <2>6. d.route \in Generated =>
           Supported(d) /\ output'[r].citations \in {None, output'[r].answer}
    BY <2>2, <2>3, <2>5 DEF Sound, Cites
  <2> QED BY <2>6, <2>2, <2>3, <2>4, <2>5 DEF AnswerOf, Early, Capabilities, Late, Nodes, Guarded
<1> QED BY <1>1, <1>2, <1>3, <1>4 DEF Complete

\* What an answer reports holds of every run, whatever the others do.
LEMMA AnswerHolds == Spec => []AnswerInv
<1>1. Init => AnswerInv
  BY DEF Init, AnswerInv, AnswerOf, Early, Capabilities, Late, Nodes, Guarded
<1>2. TypeOK /\ AnswerInv /\ [Next]_vars => AnswerInv'
  <2> SUFFICES ASSUME TypeOK, AnswerInv, [Next]_vars
               PROVE  AnswerInv'
    OBVIOUS
  <2>1. CASE UNCHANGED vars
    BY <2>1 DEF AnswerInv, vars
  <2>2. ASSUME NEW r \in Requests, NEW b \in BOOLEAN, Start(r, b)
        PROVE  AnswerInv'
    <3> DEFINE c == BaseState(ckpt[SessionOf[r]], b)
    <3>1. ckpt[SessionOf[r]] \in Channels
      BY RequestsAssumption DEF TypeOK
    <3>2. c.evidence = {} BY <3>1 DEF BaseState, Channels
    <3>3. pc'[r] = "initialize_request" /\ channels'[r] = c
      BY <2>2 DEF Start, TypeOK
    <3>4. \A q \in Requests \ {r} : pc'[q] = pc[q] /\ channels'[q] = channels[q]
      BY <2>2 DEF Start, TypeOK
    <3>5. output' = output BY <2>2 DEF Start
    <3> HIDE DEF c
    <3>6. AnswerOf(pc'[r], channels'[r], output'[r])
      BY <3>2, <3>3 DEF AnswerOf, Early, Capabilities, Late
    <3> QED BY <3>4, <3>5, <3>6 DEF AnswerInv
  <2>3. ASSUME NEW r \in Requests, Reject(r) PROVE AnswerInv'
    <3>1. pc'[r] = "rejected" /\ \A q \in Requests \ {r} : pc'[q] = pc[q]
      BY <2>3 DEF Reject, TypeOK
    <3>2. channels' = channels /\ output' = output BY <2>3 DEF Reject
    <3>3. AnswerOf(pc'[r], channels'[r], output'[r])
      BY <3>1 DEF AnswerOf, Early, Capabilities, Late, Nodes, Guarded
    <3> QED BY <3>1, <3>2, <3>3 DEF AnswerInv
  <2>4. ASSUME NEW r \in Requests, Run(r) PROVE AnswerInv'
    <3>1. PICK c \in Channels, next \in PcValues : Superstep(r, c, next)
      BY <2>4, RunSteps DEF Steps
    <3>2. AnswerOf(pc'[r], channels'[r], output'[r])
      BY <2>4, PrepareAnswers, CapabilityAnswers, RespondAnswers, CompleteAnswers DEF Run
    <3>3. \A q \in Requests \ {r} :
            pc'[q] = pc[q] /\ channels'[q] = channels[q] /\ output'[q] = output[q]
      BY <2>4, <3>1, OthersKeep, OthersKeepReport
    <3> QED BY <3>2, <3>3 DEF AnswerInv
  <2>5. ASSUME NEW r \in Requests, Interrupt(r) PROVE AnswerInv'
    <3>1. pc'[r] = "cancelled" /\ \A q \in Requests \ {r} : pc'[q] = pc[q]
      BY <2>5 DEF Interrupt, Cancel, CancelAfterStore, TypeOK
    <3>2. output' = output /\ \A q \in Requests \ {r} : channels'[q] = channels[q]
      BY <2>5 DEF Interrupt, Cancel, CancelAfterStore, TypeOK
    <3>3. AnswerOf(pc'[r], channels'[r], output'[r])
      BY <3>1 DEF AnswerOf, Early, Capabilities, Late, Nodes, Guarded
    <3> QED BY <3>1, <3>2, <3>3 DEF AnswerInv
  <2>6. CASE Quiescent
    BY <2>1, <2>6 DEF Quiescent
  <2> QED BY <2>1, <2>2, <2>3, <2>4, <2>5, <2>6 DEF Next, Arrive
<1> QED BY <1>1, <1>2, TypeCorrect, PTL DEF Spec

(***************************************************************************)
(* The citations under a generated answer are those of its own text, after *)
(* any number of turns and however many runs overlap (generate_response,   *)
(* finalize_execution).                                                    *)
(***************************************************************************)
THEOREM CitationsBelongToAnswer == Spec => []CitationsAreOfTheAnswer
<1>1. AnswerInv => CitationsAreOfTheAnswer
  BY DEF AnswerInv, AnswerOf, CitationsAreOfTheAnswer, Generated
<1> QED BY <1>1, AnswerHolds, PTL

(***************************************************************************)
(* A generated answer is delivered only with a valid citation verdict or   *)
(* as a deterministic fallback (validate_citations).                       *)
(***************************************************************************)
THEOREM SupportIsRequired == Spec => []AnswersAreSupported
<1>1. AnswerInv => AnswersAreSupported
  BY DEF AnswerInv, AnswerOf, AnswersAreSupported, Generated, Supported
<1> QED BY <1>1, AnswerHolds, PTL

\* A turn is remembered only once its run has passed update_memory, and it is
\* the one finalize_execution reports.
RememberedOf(p, c, o, kept, r) ==
    \A t \in kept : t.request = r =>
        /\ p \in {"finalize_execution", "answered", "cancelled"}
        /\ p = "finalize_execution" =>
             /\ t.status = EffectiveStatus(c) /\ t.route = c.route
             /\ t.evidence \in References(c.evidence, PrincipalOf[r])
             /\ t.status # "failed"
        /\ p = "answered" =>
             /\ t.status = o.status /\ t.route = o.route
             /\ t.evidence \in References(o.evidence, PrincipalOf[r])
             /\ t.status # "failed"

MemoryInv ==
    \A r \in Requests :
        RememberedOf(pc[r], channels[r], output[r], memory[SessionOf[r]], r)

\* Only update_memory writes the store.
LEMMA OnlyUpdateStores ==
    ASSUME NEW r \in Requests, Run(r), ~UpdateMemory(r)
    PROVE  memory' = memory
<1>1. CASE Prepare(r)
  BY <1>1 DEF Prepare, Initialize, ValidateRequest, LoadMemory, PassThrough, Supervisor
<1>2. CASE Capability(r)
  BY <1>2 DEF Capability, SimpleRetrievalFails, SimpleRetrieval, ResearchFails,
              CrossDocumentResearch, PythonAnalysis, ExecuteMcpTool, DirectResponse,
              DenyRequest, Unsupported
<1>3. CASE Respond(r)
  BY <1>3 DEF Respond, ValidateEvidence, GenerateFromAnalysis, GenerateFromResearch,
              GenerateFromEvidence, ValidateCitations
<1>4. CASE Complete(r)
  BY <1>4 DEF Complete, UpdateMemoryRefused, StepBudgetExceeded, NodeRaises, Raises,
              HandleFailure, Finalize
<1> QED BY <1>1, <1>2, <1>3, <1>4 DEF Run

\* What update_memory stores is the turn of its own run, and it changes
\* nothing of the turns of others.
LEMMA StoresOwnTurn ==
    ASSUME TypeOK, NEW r \in Requests, Stored(r)
    PROVE  /\ \A s \in Sessions : \A t \in memory'[s] : t.request # r => t \in memory[s]
           /\ \A t \in memory'[SessionOf[r]] :
                \/ t \in memory[SessionOf[r]]
                \/ t \in TurnsOf(r) /\ EffectiveStatus(channels[r]) # "failed"
<1>1. SessionOf[r] \in Sessions BY RequestsAssumption
<1>2. CASE EffectiveStatus(channels[r]) = "failed" BY <1>2 DEF Stored
<1>3. CASE EffectiveStatus(channels[r]) # "failed"
  <2>1. PICK t \in TurnsOf(r) : memory' = [memory EXCEPT ![SessionOf[r]] = @ \cup {t}]
    BY <1>3 DEF Stored
  <2>2. t.request = r BY DEF TurnsOf
  <2> QED BY <1>1, <1>3, <2>1, <2>2 DEF TypeOK
<1> QED BY <1>2, <1>3

\* Without evidence there is nothing to refer to.
LEMMA NothingIsReferred ==
    ASSUME NEW p
    PROVE  {} \in References({}, p)
<1>1. Cardinality({}) = 0 BY FS_EmptySet
<1>2. Cardinality({}) <= MaxReferences BY <1>1, BoundsAssumption
<1> QED BY <1>2 DEF References

\* A step of a run keeps what is remembered of it.
LEMMA RunRemembers ==
    ASSUME TypeOK, FailureInv, AnswerInv, MemoryInv, NEW r \in Requests, Run(r)
    PROVE  RememberedOf(pc'[r], channels'[r], output'[r], memory'[SessionOf[r]], r)
<1> DEFINE c == channels[r]
           s == SessionOf[r]
<1>0. /\ c \in Channels /\ s \in Sessions
      /\ RememberedOf(pc[r], c, output[r], memory[s], r)
  BY RequestsAssumption DEF TypeOK, MemoryInv
<1>1. CASE UpdateMemory(r)
  <2>1. /\ pc[r] = "update_memory" /\ Stored(r) /\ Returns(r, "update_memory", c)
    BY <1>1 DEF UpdateMemory, Enters
  <2>2. ~c.failure BY <2>1 DEF FailureInv, Guarded
  <2>3. /\ pc'[r] = "finalize_execution" /\ channels'[r] = Counted(c)
        /\ Counted(c).evidence = c.evidence /\ Counted(c).status = c.status
        /\ Counted(c).route = c.route
    BY <1>0, <2>1, <2>2, NodeStep, Edges DEF Guarded
  <2>4. \A t \in memory[s] : t.request # r
    BY <1>0, <2>1 DEF RememberedOf
  <2>5. c.status = "denied" => c.evidence = {}
    BY <2>1 DEF AnswerInv, AnswerOf, Nodes, Guarded
  <2>6. ASSUME NEW t \in TurnsOf(r)
        PROVE  /\ t.status = EffectiveStatus(c) /\ t.route = c.route
               /\ t.evidence \in References(c.evidence, PrincipalOf[r])
    <3>1. t.status = EffectiveStatus(c) /\ t.route = c.route
      BY DEF TurnsOf
    <3>2. CASE EffectiveStatus(c) = "denied"
      <4>1. c.evidence = {} /\ t.evidence = {}
        BY <2>5, <3>2 DEF TurnsOf, EffectiveStatus
      <4> QED BY <3>1, <4>1, NothingIsReferred
    <3>3. CASE EffectiveStatus(c) # "denied"
      BY <3>1, <3>3 DEF TurnsOf
    <3> QED BY <3>2, <3>3
  <2>7. EffectiveStatus(channels'[r]) = EffectiveStatus(c)
    BY <2>3 DEF EffectiveStatus
  <2>8. \A t \in memory'[s] : t.request = r =>
          t \in TurnsOf(r) /\ EffectiveStatus(c) # "failed"
    BY <2>1, <2>4, StoresOwnTurn
  <2> QED BY <2>3, <2>6, <2>7, <2>8 DEF RememberedOf
<1>2. CASE Finalize(r)
  <2> DEFINE d == [c EXCEPT !.status = EffectiveStatus(c)]
  <2>1. /\ Superstep(r, d, "answered") /\ pc[r] = "finalize_execution"
        /\ output' = [output EXCEPT ![r] = FinalOutput(d)] /\ memory' = memory
    BY <1>2 DEF Finalize
  <2>2. d.status = EffectiveStatus(c) /\ d.evidence = c.evidence /\ d.route = c.route
    BY <1>0 DEF Channels
  <2> HIDE DEF d
  <2>3. pc'[r] = "answered" /\ output'[r] = FinalOutput(d)
    BY <2>1, OwnStep DEF TypeOK
  <2>4. /\ output'[r].status = EffectiveStatus(c) /\ output'[r].route = c.route
        /\ output'[r].evidence = c.evidence
    BY <2>2, <2>3 DEF FinalOutput
  <2> QED BY <1>0, <2>1, <2>3, <2>4 DEF RememberedOf
<1>3. CASE ~UpdateMemory(r) /\ ~Finalize(r)
  <2>1. memory' = memory BY <1>3, OnlyUpdateStores
  <2>2. pc[r] \in Guarded \cup {"initialize_request", "handle_failure"}
    BY <1>3, RunCases DEF Executes, Enters, Fails, Initialize, HandleFailure
  <2>3. \A t \in memory'[s] : t.request # r
    BY <1>0, <2>1, <2>2 DEF RememberedOf, Guarded
  <2> QED BY <2>3 DEF RememberedOf
<1> QED BY <1>1, <1>2, <1>3

\* What is remembered of a run holds of every run, whatever the others do.
LEMMA MemoryHolds == Spec => []MemoryInv
<1>1. Init => MemoryInv
  BY RequestsAssumption DEF Init, MemoryInv, RememberedOf
<1>2. TypeOK /\ FailureInv /\ AnswerInv /\ MemoryInv /\ [Next]_vars => MemoryInv'
  <2> SUFFICES ASSUME TypeOK, FailureInv, AnswerInv, MemoryInv, [Next]_vars
               PROVE  MemoryInv'
    OBVIOUS
  <2>0. SessionOf \in [Requests -> Sessions] BY RequestsAssumption
  <2>1. CASE UNCHANGED vars
    BY <2>1 DEF MemoryInv, vars
  <2>2. ASSUME NEW r \in Requests, NEW b \in BOOLEAN, Start(r, b)
        PROVE  MemoryInv'
    <3>1. /\ pc[r] = "waiting" /\ memory' = memory /\ output' = output
          /\ \A q \in Requests \ {r} : pc'[q] = pc[q] /\ channels'[q] = channels[q]
      BY <2>2 DEF Start, TypeOK
    <3>2. \A t \in memory[SessionOf[r]] : t.request # r
      BY <3>1 DEF MemoryInv, RememberedOf
    <3> QED BY <3>1, <3>2 DEF MemoryInv, RememberedOf
  <2>3. ASSUME NEW r \in Requests, Reject(r) PROVE MemoryInv'
    <3>1. /\ pc[r] = "waiting" /\ memory' = memory /\ output' = output
          /\ channels' = channels
          /\ \A q \in Requests \ {r} : pc'[q] = pc[q]
      BY <2>3 DEF Reject, TypeOK
    <3>2. \A t \in memory[SessionOf[r]] : t.request # r
      BY <3>1 DEF MemoryInv, RememberedOf
    <3> QED BY <3>1, <3>2 DEF MemoryInv, RememberedOf
  <2>4. ASSUME NEW r \in Requests, Run(r) PROVE MemoryInv'
    <3>1. PICK c \in Channels, next \in PcValues : Superstep(r, c, next)
      BY <2>4, RunSteps DEF Steps
    <3>2. RememberedOf(pc'[r], channels'[r], output'[r], memory'[SessionOf[r]], r)
      BY <2>4, RunRemembers
    <3>3. \A q \in Requests \ {r} :
            pc'[q] = pc[q] /\ channels'[q] = channels[q] /\ output'[q] = output[q]
      BY <2>4, <3>1, OthersKeep, OthersKeepReport
    <3>4. \A q \in Requests \ {r} : \A t \in memory'[SessionOf[q]] :
            t.request = q => t \in memory[SessionOf[q]]
      <4>1. CASE UpdateMemory(r)
        BY <2>0, <4>1, StoresOwnTurn DEF UpdateMemory
      <4>2. CASE ~UpdateMemory(r)
        BY <2>4, <4>2, OnlyUpdateStores
      <4> QED BY <4>1, <4>2
    <3> QED BY <3>2, <3>3, <3>4 DEF MemoryInv, RememberedOf
  <2>5. ASSUME NEW r \in Requests, Interrupt(r) PROVE MemoryInv'
    <3>1. /\ pc'[r] = "cancelled" /\ output' = output
          /\ \A q \in Requests \ {r} : pc'[q] = pc[q] /\ channels'[q] = channels[q]
      BY <2>5 DEF Interrupt, Cancel, CancelAfterStore, TypeOK
    <3>2. \A q \in Requests \ {r} : \A t \in memory'[SessionOf[q]] :
            t.request = q => t \in memory[SessionOf[q]]
      <4>1. CASE Cancel(r) BY <4>1 DEF Cancel
      <4>2. CASE CancelAfterStore(r)
        BY <2>0, <4>2, StoresOwnTurn DEF CancelAfterStore
      <4> QED BY <2>5, <4>1, <4>2 DEF Interrupt
    <3> QED BY <3>1, <3>2 DEF MemoryInv, RememberedOf
  <2>6. CASE Quiescent
    BY <2>1, <2>6 DEF Quiescent
  <2> QED BY <2>1, <2>2, <2>3, <2>4, <2>5, <2>6 DEF Next, Arrive
<1> QED BY <1>1, <1>2, TypeCorrect, FailureHolds, AnswerHolds, PTL DEF Spec

(***************************************************************************)
(* The turn later turns remember is the one the client was given, also     *)
(* when runs of one session overlap (update_memory, finalize_execution).   *)
(***************************************************************************)
THEOREM MemoryIsTheAnswer == Spec => []MemoryAgreesWithAnswer
<1>1. MemoryInv => MemoryAgreesWithAnswer
  BY DEF MemoryInv, RememberedOf, MemoryAgreesWithAnswer, References
<1> QED BY <1>1, MemoryHolds, PTL

-----------------------------------------------------------------------------
(* What routing and the tools guarantee together.  The properties are      *)
(* stated here: they quantify over all inputs at once, and no state is     *)
(* involved.                                                               *)

\* What each capability does on the caller's behalf.
Needs == [simple_retrieval |-> "knowledge_search",
          recursive_research |-> "knowledge_search",
          python_analysis |-> "python_analysis",
          mcp_tool |-> "mcp_tools"]

\* No question takes a role to a capability the policy withholds from it,
\* although supervise() sends every role to research without asking.
RoutesArePermitted ==
    \A role \in Roles, q \in Questions :
        SelectedRoute(q, role) \in DOMAIN Needs =>
            HasPermission(role, Needs[SelectedRoute(q, role)])

\* A question that names an incident is looked up exactly or turned down:
\* whatever else it mentions, it never widens into an aggregate, a research
\* run or a tool call over other records.
IdentifiersStayExact ==
    \A role \in Roles, q \in Questions :
        q.identifiers > 0 =>
            SelectedRoute(q, role) \in {"simple_retrieval", "deny",
                                        "unsupported"}

\* The tools' own checks never refuse a question that routing let through:
\* they repeat the supervisor's test under the same policy.
RoutedCallsAreNotRefused ==
    \A role \in Roles, q \in Questions :
        /\ SelectedRoute(q, role) = "mcp_tool" =>
              \A a \in McpRequests, s \in McpSessions :
                  McpOutcome(role, a, s) # "denied"
        /\ SelectedRoute(q, role) = "python_analysis" =>
              \A terms \in SUBSET AnalysisTerms :
                  PlannedOperation(terms) # "none" =>
                      AnalysisOutcome(role, terms, {}) = "completed"

-----------------------------------------------------------------------------
(* Proofs.                                                                 *)

\* The supervisor selects a route the intent leads to, or denies.
LEMMA RouteOfIntent ==
    ASSUME NEW role \in Roles, NEW q \in Questions,
           SelectedRoute(q, role) # "deny"
    PROVE  /\ ~q.rejected
           /\ q.levels \subseteq RoleAccessLevels[role]
           /\ SelectedRoute(q, role) = Supervise(Classify(q), role)
  BY DEF SelectedRoute, NamesInaccessibleLevel

\* classify() yields one of the eight intents.
LEMMA IntentType ==
    ASSUME NEW q \in Questions
    PROVE  Classify(q) \in {"security_denial", "conversational",
                            "knowledge_lookup", "cross_document_research",
                            "structured_analysis", "enterprise_tool_lookup",
                            "administrative", "unsupported"}
  BY DEF Classify, Questions, MaxIdentifiers

\* supervise() leads to a gated capability only with its permission; every
\* role may search, which is what research does.
LEMMA SupervisedIsPermitted ==
    ASSUME NEW role \in Roles, NEW q \in Questions,
           Supervise(Classify(q), role) \in DOMAIN Needs
    PROVE  HasPermission(role, Needs[Supervise(Classify(q), role)])
  BY IntentType DEF Supervise, Gated, HasPermission, Needs, Roles,
     RolePermissions, ToolPermissions

\* No role reaches a capability the policy withholds from it.
THEOREM RoutingIsPermitted == RoutesArePermitted
<1> SUFFICES ASSUME NEW role \in Roles, NEW q \in Questions,
                    SelectedRoute(q, role) \in DOMAIN Needs
             PROVE  HasPermission(role, Needs[SelectedRoute(q, role)])
  BY DEF RoutesArePermitted
<1>1. SelectedRoute(q, role) # "deny"
  BY DEF Needs
<1> QED
  BY <1>1, RouteOfIntent, SupervisedIsPermitted

\* A question that names an incident never widens beyond it.
THEOREM RoutingKeepsIdentifiers == IdentifiersStayExact
<1> SUFFICES ASSUME NEW role \in Roles, NEW q \in Questions,
                    q.identifiers > 0, SelectedRoute(q, role) # "deny"
             PROVE  SelectedRoute(q, role) \in {"simple_retrieval", "deny",
                                                "unsupported"}
  BY DEF IdentifiersStayExact
<1>1. Classify(q) \in {"security_denial", "knowledge_lookup", "unsupported"}
  BY DEF Classify, Questions, MaxIdentifiers
<1> QED
  BY <1>1, RouteOfIntent DEF Supervise, Gated

\* The tools' own permission checks never refuse what was routed to them.
THEOREM ToolsAcceptRoutedCalls == RoutedCallsAreNotRefused
<1> SUFFICES ASSUME NEW role \in Roles, NEW q \in Questions
             PROVE  /\ SelectedRoute(q, role) = "mcp_tool" =>
                         \A a \in McpRequests, s \in McpSessions :
                             McpOutcome(role, a, s) # "denied"
                    /\ SelectedRoute(q, role) = "python_analysis" =>
                         \A terms \in SUBSET AnalysisTerms :
                             PlannedOperation(terms) # "none" =>
                                 AnalysisOutcome(role, terms, {}) = "completed"
  BY DEF RoutedCallsAreNotRefused
<1>1. SelectedRoute(q, role) = "mcp_tool" => HasPermission(role, "mcp_tools")
  BY RoutingIsPermitted DEF RoutesArePermitted, Needs
<1>2. SelectedRoute(q, role) = "python_analysis"
         => HasPermission(role, "python_analysis")
  BY RoutingIsPermitted DEF RoutesArePermitted, Needs
<1> QED
  BY <1>1, <1>2 DEF McpOutcome, AnalysisOutcome
=============================================================================
