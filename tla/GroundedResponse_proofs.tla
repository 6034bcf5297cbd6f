----------------------- MODULE GroundedResponse_proofs -----------------------
(***************************************************************************)
(* Proofs about the making of an answer, for any evidence and any limits.  *)
(* The inductive invariant is the type together with CallsInv, which says  *)
(* how the two counters run together while the provider is waited for.     *)
(***************************************************************************)
EXTENDS GroundedResponse, TLAPS

CallsInv ==
    /\ waiting # "no" =>
         /\ calls = 1 + repairs /\ answer = NoAnswer
         /\ context # {} /\ (Limited => Allowance > 0)
    /\ waiting = "no" /\ answer = NoAnswer => calls = 0 /\ repairs = 0
    /\ SpendsWithinAllowance
    /\ ReportsItsCalls

Inv == TypeOK /\ CallsInv

-----------------------------------------------------------------------------
(* The answers.                                                            *)

\* What the provider writes is received as a draft.
LEMMA ReceivedAreDrafts == Received \subseteq Drafts
<1>1. SUFFICES ASSUME NEW w \in Written
               PROVE  [cites |-> w.cites, sound |-> Named(w) /\ Covers(w),
                       clean |-> w.clean] \in Drafts
  BY DEF Received
<1>2. (Named(w) /\ Covers(w)) \in BOOLEAN
  BY DEF Named, Covers
<1>3. w.cites \in SUBSET (Evidence \cup {Unknown}) /\ w.clean \in BOOLEAN
  BY DEF Written
<1>4. QED
  BY <1>2, <1>3 DEF Drafts

\* What is reported is in range and is what was spent.
LEMMA ReportedCalls ==
    ASSUME ResponseAssumption, TypeOK
    PROVE  /\ Reported \in 0..(1 + MaxRepairs)
           /\ Limited /\ Allowance = 0 => Reported = 0
           /\ ~(Limited /\ Allowance = 0) => Reported = 1 + repairs
BY DEF ResponseAssumption, TypeOK, Reported, Limited, Allowance

\* A fallback is an answer of its own type, and keeps the draft's type.
LEMMA FallbackAnswers ==
    ASSUME ResponseAssumption, TypeOK, NEW reason \in Reasons,
           Fallback(reason)
    PROVE  /\ draft' \in Drafts
           /\ answer' = [by |-> "extractive", cites |-> draft'.cites,
                         reason |-> reason, reported |-> Reported]
           /\ draft'.cites \subseteq context
           /\ draft'.cites # {} => Attributed(draft'.cites) /\ Aligned(draft'.cites)
<1>1. PICK d \in Passages :
        LET valid == d.sound /\ Attributed(d.cites) /\ Aligned(d.cites)
        IN /\ draft' = IF valid THEN d ELSE NoDraft
           /\ Answer("extractive", draft'.cites, reason)
  BY DEF Fallback
<1>2. d \in Drafts /\ d.cites \subseteq context /\ NoDraft \in Drafts
  <2>1. /\ d = [cites |-> d.cites, sound |-> d.sound, clean |-> d.clean]
        /\ d.cites \in UNION {Chosen(quotable) : quotable \in Quotable}
        /\ d.sound \in BOOLEAN /\ d.clean \in BOOLEAN
    BY DEF Passages
  <2>2. d.cites \subseteq context
    BY <2>1 DEF Chosen, Quotable
  <2>3. d.cites \in SUBSET (Evidence \cup {Unknown})
    BY <2>2 DEF TypeOK
  <2>4. QED
    BY <2>1, <2>2, <2>3 DEF Drafts, NoDraft
<1>3. NoDraft.cites = {}
  BY DEF NoDraft
<1>4. CASE d.sound /\ Attributed(d.cites) /\ Aligned(d.cites)
  BY <1>1, <1>2, <1>4 DEF Answer
<1>5. CASE ~(d.sound /\ Attributed(d.cites) /\ Aligned(d.cites))
  BY <1>1, <1>2, <1>3, <1>5 DEF Answer
<1>6. QED
  BY <1>4, <1>5

-----------------------------------------------------------------------------
LEMMA ResponseInit ==
    ASSUME ResponseAssumption, Init
    PROVE  Inv
<1>0. used \in IF ask = "retrieval" THEN {0} ELSE 1..MaxLlmCalls
  BY DEF Init
<1>1. /\ used \in 0..MaxLlmCalls
      /\ context \subseteq Evidence /\ identifiers \subseteq SUBSET context
  <2>1. used \in 0..MaxLlmCalls
    BY <1>0 DEF ResponseAssumption
  <2>2. context \subseteq Evidence /\ identifiers \subseteq SUBSET context
    BY DEF Init, BuildContext
  <2>3. QED
    BY <2>1, <2>2
<1>2. NoAnswer \in [by : {"nobody", "insufficient", "model", "extractive",
                          "comparison", "raised", "cancelled"},
                   cites : SUBSET Evidence, reason : Reasons,
                   reported : 0..(1 + MaxRepairs)]
  BY DEF NoAnswer, Reasons, ResponseAssumption
<1>3. NoDraft \in Drafts
  BY DEF NoDraft, Drafts
<1>4. TypeOK
  BY <1>1, <1>2, <1>3 DEF TypeOK, Init, ResponseAssumption
<1>5. CallsInv
  BY <1>1 DEF CallsInv, SpendsWithinAllowance, ReportsItsCalls, Init, NoAnswer,
              ResponseAssumption
<1>6. QED
  BY <1>4, <1>5 DEF Inv

\* A step that answers keeps the invariant, if what it answers is of the
\* type and the calls it reports are the calls made.
LEMMA AnswerKeeps ==
    ASSUME ResponseAssumption, Inv,
           NEW by \in {"insufficient", "model", "extractive", "comparison",
                       "raised", "cancelled"},
           NEW cites \in SUBSET Evidence, NEW reason \in Reasons,
           answer' = [by |-> by, cites |-> cites, reason |-> reason,
                      reported |-> Reported],
           draft' \in Drafts,
           waiting' = "no", UNCHANGED <<given, current, calls, repairs>>,
           by \in {"insufficient", "model", "extractive", "comparison"}
             /\ Limited =>
               Reported = IF context = {} /\ Allowance > 0 THEN 1 ELSE calls
    PROVE  Inv'
<1>1. Reported \in 0..(1 + MaxRepairs)
  BY ReportedCalls DEF Inv
<1>2. TypeOK'
  BY <1>1 DEF Inv, TypeOK, given, ResponseAssumption
<1>3. answer' # NoAnswer
  BY DEF NoAnswer
<1>4. SpendsWithinAllowance'
  BY DEF Inv, CallsInv, SpendsWithinAllowance, given, Limited
<1>5. ReportsItsCalls'
  BY DEF ReportsItsCalls, given, Limited, Allowance
<1>6. QED
  BY <1>2, <1>3, <1>4, <1>5, waiting' = "no" DEF Inv, CallsInv, NoAnswer

\* While the provider is waited for, the calls reported are the calls made.
LEMMA WaitingReports ==
    ASSUME ResponseAssumption, Inv, waiting # "no"
    PROVE  Limited =>
             Reported = IF context = {} /\ Allowance > 0 THEN 1 ELSE calls
BY ReportedCalls DEF Inv, CallsInv, TypeOK, Limited, Allowance, ResponseAssumption

\* A provider that was waited for and is replaced by passages.
LEMMA FallbackKeeps ==
    ASSUME ResponseAssumption, Inv, waiting # "no",
           NEW reason \in Reasons, Fallback(reason), Ends
    PROVE  Inv'
<1>1. /\ draft' \in Drafts
      /\ answer' = [by |-> "extractive", cites |-> draft'.cites,
                    reason |-> reason, reported |-> Reported]
      /\ draft'.cites \subseteq context
  BY FallbackAnswers DEF Inv
<1>2. draft'.cites \in SUBSET Evidence
  BY <1>1 DEF Inv, TypeOK
<1>3. QED
  BY <1>1, <1>2, AnswerKeeps, WaitingReports DEF Ends

LEMMA AskAgainKeeps ==
    ASSUME ResponseAssumption, Inv, waiting # "no", MayRepair,
           NEW how \in {"retry", "repair"}, AskAgain(how), draft' \in Drafts
    PROVE  Inv'
<1>1. TypeOK'
  BY DEF Inv, CallsInv, TypeOK, MayRepair, AskAgain, given, ResponseAssumption
<1>2. SpendsWithinAllowance'
  BY DEF Inv, CallsInv, TypeOK, SpendsWithinAllowance, MayRepair, AskAgain,
         given, Limited, Allowance, ResponseAssumption
<1>3. ReportsItsCalls'
  BY DEF Inv, CallsInv, ReportsItsCalls, AskAgain, NoAnswer
<1>4. QED
  BY <1>1, <1>2, <1>3
  DEF Inv, CallsInv, TypeOK, AskAgain, given, Limited, Allowance

-----------------------------------------------------------------------------
LEMMA ResponseStep ==
    ASSUME ResponseAssumption, Inv, [Next]_vars
    PROVE  Inv'
<1> USE ResponseAssumption
<1>0. /\ draft \in Drafts /\ NoDraft \in Drafts /\ {} \in SUBSET Evidence
      /\ "none" \in Reasons /\ (\A error \in Errors : FailureReason(error) \in Reasons)
      /\ context \in SUBSET Evidence
  BY DEF Inv, TypeOK, Drafts, NoDraft, Reasons, FailureReason
<1>1. CASE NoEvidence
  <2>1. Limited => Reported = IF context = {} /\ Allowance > 0 THEN 1 ELSE calls
    BY <1>1, ReportedCalls
    DEF NoEvidence, Inv, CallsInv, TypeOK, Limited, Allowance
  <2>2. waiting' = "no" /\ draft' \in Drafts
    BY <1>0, <1>1 DEF NoEvidence
  <2>3. answer' = [by |-> "insufficient", cites |-> {}, reason |-> "none",
                   reported |-> Reported]
    BY <1>1 DEF NoEvidence, Answer
  <2>4. QED
    BY <1>0, <1>1, <2>1, <2>2, <2>3, AnswerKeeps DEF NoEvidence
<1>2. CASE NoCallLeft
  <2>1. "provider_call_budget_exhausted" \in Reasons
    BY DEF Reasons
  <2>2. /\ draft' \in Drafts
        /\ answer' = [by |-> "extractive", cites |-> draft'.cites,
                      reason |-> "provider_call_budget_exhausted",
                      reported |-> Reported]
        /\ draft'.cites \in SUBSET Evidence
    BY <1>0, <1>2, <2>1, FallbackAnswers DEF NoCallLeft, Inv
  <2>3. Limited => Reported = IF context = {} /\ Allowance > 0 THEN 1 ELSE calls
    BY <1>2, ReportedCalls DEF NoCallLeft, Inv, CallsInv
  <2>4. QED
    BY <1>2, <2>1, <2>2, <2>3, AnswerKeeps DEF NoCallLeft
<1>3. CASE Ask
  <2>1. TypeOK'
    BY <1>3 DEF Ask, Inv, TypeOK, given, ResponseAssumption
  <2>2. SpendsWithinAllowance'
    BY <1>3 DEF Ask, Inv, TypeOK, CallsInv, SpendsWithinAllowance, given,
                Limited, Allowance, ResponseAssumption
  <2>3. ReportsItsCalls'
    BY <1>3 DEF Ask, ReportsItsCalls, NoAnswer
  <2>4. QED
    BY <1>3, <2>1, <2>2, <2>3
    DEF Ask, Inv, CallsInv, TypeOK, given, Limited, Allowance
<1>4. CASE Accepts
  <2>1. PICK d \in Received :
          Valid(d) /\ draft' = d /\ Answer("model", d.cites, "none")
    BY <1>4 DEF Accepts
  <2>2. d \in Drafts /\ d.cites \in SUBSET Evidence
    BY <1>0, <2>1, ReceivedAreDrafts DEF Valid, Attributed
  <2>3. QED
    BY <1>0, <1>4, <2>1, <2>2, AnswerKeeps, WaitingReports
    DEF Accepts, Ends, Answer
<1>5. CASE Rejects
  BY <1>5, FallbackKeeps DEF Rejects, Reasons
<1>6. CASE Repairs
  <2>1. draft' \in Drafts
    BY <1>6, ReceivedAreDrafts DEF Repairs
  <2>2. QED
    BY <1>6, <2>1, AskAgainKeeps DEF Repairs
<1>7. CASE GivesUp
  <2>1. CASE ask = "comparison"
    <3>1. /\ draft' \in Drafts
          /\ answer' = [by |-> "comparison", cites |-> context,
               reason |-> "research_dimension_validation_failed",
               reported |-> Reported]
      BY <1>7, <2>1, ReceivedAreDrafts DEF GivesUp, ComparisonFallback, Answer
    <3>2. "research_dimension_validation_failed" \in Reasons
      BY DEF Reasons
    <3>3. QED
      BY <1>0, <1>7, <3>1, <3>2, AnswerKeeps, WaitingReports DEF GivesUp, Ends
  <2>2. CASE ask # "comparison"
    <3>1. RejectedReason \in Reasons
      BY DEF RejectedReason, Reasons
    <3>2. QED
      BY <1>7, <2>2, <3>1, FallbackKeeps DEF GivesUp
  <2>3. QED
    BY <2>1, <2>2
<1>8. CASE AsksAnew
  BY <1>0, <1>8, AskAgainKeeps DEF AsksAnew, Repeatable
<1>9. ASSUME NEW error \in Errors, Fails(error)
      PROVE  Inv'
  <2>1. CASE allowed
    BY <1>0, <1>9, <2>1, FallbackKeeps DEF Fails
  <2>2. CASE ~allowed
    BY <1>0, <1>9, <2>2, AnswerKeeps DEF Fails, Ends, Answer
  <2>3. QED
    BY <2>1, <2>2
<1>10. CASE RepairFails
  BY <1>10, FallbackKeeps DEF RepairFails, Reasons
<1>11. CASE Cancelled
  BY <1>0, <1>11, AnswerKeeps DEF Cancelled, Ends, Answer
<1>12. CASE Reindex
  BY <1>12 DEF Reindex, Inv, TypeOK, CallsInv, SpendsWithinAllowance,
               ReportsItsCalls, given, Limited, Allowance
<1>13. CASE UNCHANGED vars
  BY <1>13 DEF vars, Inv, TypeOK, CallsInv, SpendsWithinAllowance,
               ReportsItsCalls, given, Limited, Allowance
<1>14. QED
  BY <1>1, <1>2, <1>3, <1>4, <1>5, <1>6, <1>7, <1>8, <1>9, <1>10, <1>11,
     <1>12, <1>13 DEF Next, Provider

\* The invariant holds in every behaviour.
THEOREM ResponseInv == ASSUME ResponseAssumption PROVE Spec => []Inv
<1>1. Init => Inv
  BY ResponseInit
<1>2. Inv /\ [Next]_vars => Inv'
  BY ResponseStep
<1>3. QED
  BY <1>1, <1>2, PTL DEF Spec

\* Every variable of the making of an answer has its type: in particular the
\* calls of retrieval_response stay within one and the configured repairs.
THEOREM ResponseTypeCorrect == ASSUME ResponseAssumption PROVE Spec => []TypeOK
<1>1. Inv => TypeOK
  BY DEF Inv
<1>2. QED
  BY <1>1, ResponseInv, PTL

\* Planning, synthesis and repairs together stay within the allowance of the
\* research, whatever the provider does.
THEOREM WithinAllowance ==
    ASSUME ResponseAssumption PROVE Spec => []SpendsWithinAllowance
<1>1. Inv => SpendsWithinAllowance
  BY DEF Inv, CallsInv
<1>2. QED
  BY <1>1, ResponseInv, PTL

\* research_response reports the calls it made.
THEOREM ReportsCalls == ASSUME ResponseAssumption PROVE Spec => []ReportsItsCalls
<1>1. Inv => ReportsItsCalls
  BY DEF Inv, CallsInv
<1>2. QED
  BY <1>1, ResponseInv, PTL

-----------------------------------------------------------------------------
\* What AnswersAreAttributed asks of a step that answers.
AnswerIsAttributed ==
    /\ answer'.cites = draft'.cites
    /\ answer'.cites \subseteq context
    /\ answer'.cites # {} => current /\ Cardinality(answer'.cites) <= limit
    /\ answer'.by = "model" => draft'.sound /\ draft'.clean
    /\ answer'.by = "model" \/ answer'.cites # {} =>
         \A about \in identifiers : about \cap answer'.cites # {}
    /\ answer'.by = "model" /\ ask = "comparison" => answer'.cites = context

LEMMA FallbackIsAttributed ==
    ASSUME ResponseAssumption, TypeOK, NEW reason \in Reasons,
           Fallback(reason)
    PROVE  AnswerIsAttributed
<1>1. /\ answer'.by = "extractive" /\ answer'.cites = draft'.cites
      /\ draft'.cites \subseteq context
      /\ draft'.cites # {} => Attributed(draft'.cites) /\ Aligned(draft'.cites)
  BY FallbackAnswers
<1>2. QED
  BY <1>1 DEF AnswerIsAttributed, Attributed, Aligned

LEMMA AnswersStep ==
    ASSUME ResponseAssumption, TypeOK, Next,
           answer = NoAnswer, answer'.by \in {"model", "extractive"}
    PROVE  AnswerIsAttributed
<1> USE ResponseAssumption
<1>0. answer.by = "nobody" /\ \A error \in Errors : FailureReason(error) \in Reasons
  BY DEF NoAnswer, Reasons, FailureReason
<1>1. CASE Accepts
  <2>1. PICK d \in Received :
          Valid(d) /\ d.clean /\ draft' = d /\ Answer("model", d.cites, "none")
    BY <1>1 DEF Accepts
  <2>2. QED
    BY <2>1 DEF Valid, Attributed, Aligned, Complete, Answer,
                AnswerIsAttributed
<1>2. CASE NoCallLeft
  BY <1>2, FallbackIsAttributed DEF NoCallLeft, Reasons
<1>3. CASE Rejects
  BY <1>3, FallbackIsAttributed DEF Rejects, Reasons
<1>4. CASE GivesUp
  <2>1. ask # "comparison"
    BY <1>4 DEF GivesUp, ComparisonFallback, Answer
  <2>2. RejectedReason \in Reasons
    BY DEF RejectedReason, Reasons
  <2>3. QED
    BY <1>4, <2>1, <2>2, FallbackIsAttributed DEF GivesUp
<1>5. ASSUME NEW error \in Errors, Fails(error)
      PROVE  AnswerIsAttributed
  <2>1. allowed
    BY <1>5 DEF Fails, Answer
  <2>2. QED
    BY <1>0, <1>5, <2>1, FallbackIsAttributed DEF Fails
<1>6. CASE RepairFails
  BY <1>6, FallbackIsAttributed DEF RepairFails, Reasons
<1>7. ~NoEvidence /\ ~Cancelled
  BY DEF NoEvidence, Cancelled, Answer
<1>8. ~Ask /\ ~Repairs /\ ~AsksAnew /\ ~Reindex
  BY <1>0 DEF Ask, Repairs, AsksAnew, AskAgain, Reindex
<1>9. QED
  BY <1>1, <1>2, <1>3, <1>4, <1>5, <1>6, <1>7, <1>8 DEF Next, Provider

\* Every answer with claims is attributed, for any evidence and any limits:
\* nothing reaches the user that neither passed validation nor replaces, with
\* valid citations or with none, what did not.
THEOREM AlwaysAttributed ==
    ASSUME ResponseAssumption PROVE Spec => AnswersAreAttributed
<1>1. TypeOK /\ [Next]_vars =>
        [answer = NoAnswer /\ answer'.by \in {"model", "extractive"} =>
           AnswerIsAttributed]_vars
  BY AnswersStep
<1>2. QED
  BY <1>1, ResponseTypeCorrect, PTL
  DEF Spec, AnswersAreAttributed, AnswerIsAttributed
=============================================================================
