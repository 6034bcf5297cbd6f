-------------------------- MODULE GroundedResponse --------------------------
(***************************************************************************)
(* How one answer is made (llm/response_service.py): the provider is asked *)
(* for a draft, the draft is validated against the evidence it was given,  *)
(* an invalid draft may be repaired by asking again, and where that does   *)
(* not help, or the provider fails, or its calls are used up, the answer   *)
(* is rendered from the evidence instead.  While the provider is waited    *)
(* for, the collection may be indexed anew and the request be cancelled.   *)
(*                                                                         *)
(* Of a draft is kept what validation looks at: the evidence it cites,     *)
(* whether its wording is sound (identifiers, comparison dimensions and    *)
(* facets, no denial of the evidence), and whether it passes the response  *)
(* policy.                                                                 *)
(***************************************************************************)
EXTENDS Naturals, FiniteSets

CONSTANTS
    Evidence,     \* evidence a context may hold
    Unknown,      \* an identifier that is in no context
    MaxRepairs,   \* llm_citation_repair_attempts
    MaxCitations, \* bound: llm_max_citations
    MaxLlmCalls   \* research_max_llm_calls

ASSUME ResponseAssumption ==
    MaxRepairs \in Nat /\ MaxCitations \in Nat \ {0} /\ MaxLlmCalls \in Nat \ {0} /\ Unknown \notin Evidence

VARIABLES
    provider,    \* which provider is configured
    ask,         \* what kind of answer is asked for
    allowed,     \* llm_allow_deterministic_fallback
    limit,       \* llm_max_citations
    used,        \* provider calls the research spent before
    context,     \* the evidence the answer may rest on
    identifiers, \* for each identifier asked for, the evidence about it
    current,     \* the evidence is of the index in use
    waiting,     \* the provider is waited for: no, first, retry or repair
    calls,       \* provider calls started
    repairs,     \* those of them that were repairs
    draft,       \* the draft of the answer
    answer       \* the answer, once there is one

given == <<provider, ask, allowed, limit, used, context, identifiers>>
vars == <<provider, ask, allowed, limit, used, context, identifiers, current,
          waiting, calls, repairs, draft, answer>>

Asks == {"retrieval", "research", "comparison"}

Drafts == [cites : SUBSET (Evidence \cup {Unknown}), sound : BOOLEAN,
           clean : BOOLEAN]

NoDraft == [cites |-> {}, sound |-> TRUE, clean |-> TRUE]

\* The exceptions a call may end in: what _request_json makes of HTTP, what
\* else is wrong with Ollama's output, and what becomes of OpenAI's.  A reply
\* that is not a well-formed draft is invalid, one that shows its reasoning
\* prohibited.
RequestErrors == {"timeout", "unavailable", "http status", "failed", "invalid"}

OllamaErrors == RequestErrors \cup {"invalid", "prohibited"}

OpenAIErrors == {"failed", "refused"}

\* _generate adds a timeout of its own.
Errors == {"timeout"} \cup IF provider = "ollama" THEN OllamaErrors ELSE OpenAIErrors

Providers == {"ollama", "openai"}

\* _provider_fallback_reason
FailureReason(error) ==
    CASE error = "unavailable" -> "provider_unavailable"
      [] error = "timeout" -> "provider_timeout"
      [] error = "http status" -> "provider_http_error"
      [] error = "prohibited" -> "prohibited_reasoning"
      [] error \in {"invalid", "refused"} -> "invalid_structured_output"
      [] OTHER -> "unknown_provider_failure"

Reasons ==
    {"none", "provider_unavailable", "provider_timeout", "provider_http_error",
     "prohibited_reasoning", "invalid_structured_output", "unknown_provider_failure",
     "provider_call_budget_exhausted", "citation_validation_failed",
     "entity_alignment_validation_failed", "response_policy_rejected",
     "research_dimension_validation_failed"}

NoAnswer == [by |-> "nobody", cites |-> {}, reason |-> "none", reported |-> 0]

-----------------------------------------------------------------------------
(* Validation.                                                             *)

\* validate_citations: what is cited was supplied, is of the index in use,
\* and is not too much.  A draft without claims cites nothing and is valid.
Attributed(cites) ==
    cites # {} => cites \subseteq context /\ current /\ Cardinality(cites) <= limit

\* validate_identifier_alignment
Aligned(cites) == \A about \in identifiers : about \cap cites # {}

\* A comparison must cite all its evidence (_require_citations).
Complete(cites) == ask = "comparison" => context \subseteq cites

\* What the provider wrote: its names of identifiers are right, misspelt or
\* of something nobody asked for, and it covers the dimensions compared or not.
Written == [cites : SUBSET (Evidence \cup {Unknown}),
            names : {"right", "misspelt", "foreign"}, covers : BOOLEAN, clean : BOOLEAN]

\* validate_and_repair_response_identifiers: if identifiers were asked for, a
\* misspelt one is put right, and nothing else may look like one.
Named(w) == identifiers # {} => w.names # "foreign"

\* _validate_comparison_draft: each dimension has a claim of its own about it,
\* the shared facets have one, and the evidence is not denied.
Covers(w) == ask = "comparison" => w.covers

Received ==
    {[cites |-> w.cites, sound |-> Named(w) /\ Covers(w), clean |-> w.clean] : w \in Written}

\* Mutant: the identifiers' verdict replaces the earlier one.
ValidAnew(d) == d.sound /\ Aligned(d.cites) /\ Complete(d.cites)

Valid(d) ==
    d.sound /\ Attributed(d.cites) /\ Aligned(d.cites) /\ Complete(d.cites)

Limited == ask # "retrieval"

Allowance == MaxLlmCalls - used

\* Mutant: the first call is forgotten.
MayRepairOnceMore ==
    /\ repairs < MaxRepairs
    /\ Limited => repairs < Allowance

\* Another call is within the attempts and within the allowance.
MayRepair ==
    /\ repairs < MaxRepairs
    /\ Limited => repairs + 1 < Allowance

-----------------------------------------------------------------------------
(* Answers.                                                                *)

\* What research_response reports; retrieval_response returns the repairs.
\* It looks at the allowance only, not at whether there was a context.
Reported == IF Limited /\ Allowance = 0 THEN 0 ELSE 1 + repairs

Answer(by, cites, reason) ==
    answer' = [by |-> by, cites |-> cites, reason |-> reason,
               reported |-> Reported]

MaxPassages == IF limit < 4 THEN limit ELSE 4

\* Of some of the evidence a passage can be quoted: long enough, no heading,
\* no instruction, within the response policy, and about the question.
Quotable == SUBSET context

\* The passages chosen for one concept of the question after the other; of
\* their claims the last are dropped while the answer is too long.
Chosen(quotable) == {cites \in SUBSET quotable : Cardinality(cites) <= MaxPassages}

\* build_extractive_fallback.  A passage is sound if nothing can be wrong with
\* its identifiers.
Passages ==
    [cites : UNION {Chosen(quotable) : quotable \in Quotable},
     sound : {TRUE, identifiers = {}}, clean : BOOLEAN]

\* _fallback_response: passages of the evidence, if they can be rendered with
\* valid citations, else a sentence that cites nothing.
Fallback(reason) ==
    \E d \in Passages :
        LET valid == d.sound /\ Attributed(d.cites) /\ Aligned(d.cites)
        IN /\ draft' = IF valid THEN d ELSE NoDraft
           /\ Answer("extractive", draft'.cites, reason)

\* _comparison_fallback_response: no passage, but all the evidence.  The
\* draft that was not accepted is returned with it.
ComparisonFallback ==
    Answer("comparison", context, "research_dimension_validation_failed")

RejectedReason ==
    IF identifiers # {} THEN "entity_alignment_validation_failed"
    ELSE "citation_validation_failed"

-----------------------------------------------------------------------------
\* Without evidence, or without a call left, the provider is not asked.
NoEvidence ==
    /\ waiting = "no" /\ answer = NoAnswer
    /\ context = {}
    /\ Answer("insufficient", {}, "none")
    /\ UNCHANGED <<given, current, waiting, calls, repairs, draft>>

NoCallLeft ==
    /\ waiting = "no" /\ answer = NoAnswer
    /\ context # {} /\ Limited /\ Allowance = 0
    /\ Fallback("provider_call_budget_exhausted")
    /\ UNCHANGED <<given, current, waiting, calls, repairs>>

Ask ==
    /\ waiting = "no" /\ answer = NoAnswer
    /\ context # {} /\ (Limited => Allowance > 0)
    /\ waiting' = "first" /\ calls' = 1
    /\ UNCHANGED <<given, current, repairs, draft, answer>>

AskAgain(how) ==
    /\ waiting' = how
    /\ repairs' = repairs + 1 /\ calls' = calls + 1
    /\ UNCHANGED <<given, current, answer>>

Ends ==
    /\ waiting' = "no"
    /\ UNCHANGED <<given, current, calls, repairs>>

\* The provider returned a draft.  Rendered and checked against the policy
\* it is the answer; if it is invalid it is repaired, or replaced.
Accepts ==
    /\ waiting # "no"
    /\ \E d \in Received :
         /\ Valid(d) /\ d.clean
         /\ draft' = d
         /\ Answer("model", d.cites, "none")
    /\ Ends

Rejects ==
    /\ waiting # "no"
    /\ \E d \in Received : Valid(d) /\ ~d.clean
    /\ Fallback("response_policy_rejected")
    /\ Ends

Repairs ==
    /\ waiting # "no" /\ MayRepair
    /\ \E d \in Received : ~Valid(d) /\ draft' = d
    /\ AskAgain("repair")

GivesUp ==
    /\ waiting # "no" /\ ~MayRepair
    /\ \E d \in Received :
         /\ ~Valid(d)
         /\ IF ask = "comparison"
            THEN ComparisonFallback /\ draft' = d
            ELSE Fallback(RejectedReason)
    /\ Ends

\* Mutant: the second request is not a repair.
AsksAnewUncounted ==
    /\ waiting = "first" /\ ask = "comparison" /\ MayRepair
    /\ waiting' = "retry" /\ calls' = calls + 1
    /\ UNCHANGED <<given, current, repairs, draft, answer>>

\* A comparison whose output was not well-formed is asked for once more.
Repeatable(error) ==
    /\ ask = "comparison" /\ MayRepair
    /\ waiting = "first" /\ error \in {"invalid", "prohibited"}

AsksAnew ==
    /\ waiting = "first"
    /\ \E error \in Errors : Repeatable(error)
    /\ AskAgain("retry")
    /\ UNCHANGED draft

\* The provider raised or did not answer in time.
Fails(error) ==
    /\ waiting \in {"first", "retry"} /\ ~Repeatable(error)
    /\ IF allowed THEN Fallback(FailureReason(error))
                  ELSE Answer("raised", {}, "none") /\ UNCHANGED draft
    /\ Ends

\* A repair that fails is not reported as such.
RepairFails ==
    /\ waiting = "repair"
    /\ Fallback("citation_validation_failed")
    /\ Ends

\* The run was cancelled or timed out while the provider was waited for.
Cancelled ==
    /\ waiting # "no"
    /\ Answer("cancelled", {}, "none")
    /\ Ends
    /\ UNCHANGED draft

\* The collection is indexed anew: what was retrieved before is stale.
Reindex ==
    /\ current
    /\ current' = FALSE
    /\ UNCHANGED <<given, waiting, calls, repairs, draft, answer>>

-----------------------------------------------------------------------------
\* If identifiers were asked for, only evidence about one of them is in the
\* context.
BuildContext ==
    /\ context \in SUBSET Evidence
    /\ identifiers \in SUBSET SUBSET context
    /\ identifiers # {} => UNION identifiers = context

\* A comparison starts from at least one document.
Init ==
    /\ provider \in Providers /\ ask \in Asks /\ allowed \in BOOLEAN /\ limit \in 1..MaxCitations
    /\ used \in IF ask = "retrieval" THEN {0} ELSE 1..MaxLlmCalls
    /\ BuildContext
    /\ identifiers = {} /\ ask = "comparison" => context # {}
    /\ current \in BOOLEAN
    /\ waiting = "no" /\ calls = 0 /\ repairs = 0
    /\ draft = NoDraft /\ answer = NoAnswer

Provider == \/ Accepts \/ Rejects \/ Repairs \/ GivesUp \/ AsksAnew
            \/ (\E error \in Errors : Fails(error)) \/ RepairFails

Next == NoEvidence \/ NoCallLeft \/ Ask \/ Provider \/ Cancelled \/ Reindex

Spec == Init /\ [][Next]_vars

-----------------------------------------------------------------------------
(* What an answer guarantees.                                              *)

\* Every variable has its type.
TypeOK ==
    /\ provider \in Providers /\ ask \in Asks /\ allowed \in BOOLEAN
    /\ limit \in 1..MaxCitations /\ used \in 0..MaxLlmCalls
    /\ context \subseteq Evidence /\ identifiers \subseteq SUBSET context
    /\ current \in BOOLEAN
    /\ waiting \in {"no", "first", "retry", "repair"}
    /\ repairs \in 0..MaxRepairs /\ calls \in 0..(1 + MaxRepairs)
    /\ draft \in Drafts
    /\ answer \in [by : {"nobody", "insufficient", "model", "extractive",
                          "comparison", "raised", "cancelled"},
                   cites : SUBSET Evidence, reason : Reasons,
                   reported : 0..(1 + MaxRepairs)]

\* An answer with claims, the model's or the passages that replace it, cites
\* evidence it was given, of the index in use when the answer is made, and
\* something about every identifier asked for; a comparison cites all its
\* evidence.  It holds after any number of repairs and failures, with the
\* index replaced in between.
AnswersAreAttributed ==
    [][answer = NoAnswer /\ answer'.by \in {"model", "extractive"} =>
         /\ answer'.cites = draft'.cites
         /\ answer'.cites \subseteq context
         /\ answer'.cites # {} => current /\ Cardinality(answer'.cites) <= limit
         /\ answer'.by = "model" => draft'.sound /\ draft'.clean
         /\ answer'.by = "model" \/ answer'.cites # {} =>
              \A about \in identifiers : about \cap answer'.cites # {}
         /\ answer'.by = "model" /\ ask = "comparison" =>
              answer'.cites = context]_vars

\* docs/recursive-research-design.md: "The shared per-invocation LLM allowance
\* counts initial planning, final synthesis, and each application-level
\* citation repair; started calls remain consumed".  Planning, synthesis and
\* both kinds of repair together stay within it, whatever fails.
SpendsWithinAllowance ==
    /\ Limited => used + calls <= MaxLlmCalls
    /\ calls <= 1 + MaxRepairs

\* What the research reports as spent is what was spent, on every way to an
\* answer; without a context it is one call more.
ReportsItsCalls ==
    /\ answer.by \in {"insufficient", "model", "extractive", "comparison"}
    /\ Limited
    => answer.reported =
            IF context = {} /\ Allowance > 0 THEN 1 ELSE calls
=============================================================================
