----------------------------- MODULE ResearchRun -----------------------------
(***************************************************************************)
(* One cross-document research run (research/service.py): a plan is        *)
(* compiled and its tasks are dispatched to workers that run in parallel   *)
(* under a semaphore and draw on one budget ledger; when the last worker   *)
(* of a round has returned, the gaps become the tasks of the next round;   *)
(* when there is none, coverage is assessed on what was found.  A total    *)
(* deadline may end the run at any point.                                  *)
(*                                                                         *)
(* A task has one query: FakeResearchPlanner gives every task one and a    *)
(* gap task inherits it.  compile_plan compares queries up to case and     *)
(* space, which are left out; _equivalence compares the words of a query.  *)
(* What retrieval finds for a query does not change during a run.          *)
(***************************************************************************)
EXTENDS Naturals, Sequences, SequencesExt, FiniteSets

CONSTANTS
    Proposals,      \* plans as the planner proposes them
    Queries,        \* search queries
    Words,          \* [Queries -> sets of words]
    Items,          \* passages as retrieval attributes them
    Matches,        \* [Queries -> SUBSET Items]: those a query may find
    Score,          \* [Queries -> [Items -> Nat]]: hybrid_score
    Serial,         \* [Items -> Nat]: order of the chunk identifiers
    Size,           \* [Items -> Nat]: bytes of the text
    Supports,       \* [Items -> SUBSET dims]: evidence_supports_task
    Admissible,     \* the items aggregate_evidence lets through: current
                    \* build, no instruction in the text, authorized
    Clashes,        \* pairs of items with one evidence identifier and two
                    \* chunks, or with one chunk and two identities
    NoDim,          \* a task that is not for a comparison dimension
    MaxDepth,       \* research_max_depth
    MaxInitialTasks, MaxTasks, MaxChildren, MaxWorkers,
    MaxRetrievals, MaxAnalyses,
    MaxItems,       \* research_max_evidence_items
    MaxCharacters,  \* research_max_total_evidence_characters
    AllowPartial    \* research_allow_partial_results

ASSUME ResearchAssumption ==
    /\ MaxDepth \in Nat /\ MaxChildren \in Nat /\ MaxAnalyses \in Nat
    /\ MaxInitialTasks \in Nat \ {0} /\ MaxTasks \in Nat \ {0}
    /\ MaxWorkers \in Nat \ {0} /\ MaxRetrievals \in Nat \ {0}
    /\ MaxItems \in Nat \ {0} /\ MaxCharacters \in Nat \ {0}
    /\ Matches \in [Queries -> SUBSET Items] /\ Admissible \subseteq Items
    /\ Score \in [Queries -> [Items -> Nat]]
    /\ Serial \in [Items -> Nat] /\ Size \in [Items -> Nat]
    /\ Clashes \subseteq Items \X Items
    /\ AllowPartial \in BOOLEAN

Gap == "gap_investigation"

\* What FakeResearchPlanner proposes: no gap is investigated before it was
\* found, and a task is for a dimension only if that is a required one.
ASSUME PlannerAssumption ==
    \A p \in Proposals :
        /\ p.specs \in Seq([kind : STRING, query : Queries,
                            dim : {NoDim} \cup p.required, analysis : BOOLEAN])
        /\ \A i \in DOMAIN p.specs : p.specs[i].kind # Gap

VARIABLES
    corpus,     \* what retrieval finds for a query and this principal
    mayAnalyse, \* the principal may use the Python analysis
    phase,      \* where the coordinator is
    plan,       \* the compiled plan
    usage,      \* BudgetLedger._usage
    pending,    \* tasks of the round, in the order of their identifiers
    stage,      \* per task of the round: where its worker is
    results,    \* worker_results
    processed,  \* processed_task_ids
    outcome     \* what the run returned or raised

environment == <<corpus, mayAnalyse>>
vars == <<corpus, mayAnalyse, phase, plan, usage, pending, stage, results,
          processed, outcome>>

Key(t) == <<t.kind, t.query>>

Equivalence(t) == <<t.kind, Words[t.query]>>

Depth(t) == Len(t.id) - 1

Errors == {"none", "budget_exhausted", "worker_timeout", "retrieval_failure"}

NoPlan == [tasks |-> <<>>, required |-> {}]

Open == [status |-> "open", ledger |-> {}, missing |-> {}, partial |-> FALSE]

-----------------------------------------------------------------------------
(* Planning.                                                               *)

Refused(p) == p.unsafe \/ Len(p.specs) > MaxInitialTasks

Numbered(spec, n) ==
    [id |-> <<n>>, kind |-> spec.kind, query |-> spec.query, dim |-> spec.dim,
     analysis |-> spec.analysis]

\* The first task of each kind and query is kept and numbered anew.
Distinct(specs) ==
    LET kept[n \in 0..Len(specs)] ==
            IF n = 0 THEN <<>>
            ELSE IF \E j \in 1..(n - 1) : Key(specs[j]) = Key(specs[n])
            THEN kept[n - 1]
            ELSE Append(kept[n - 1], Numbered(specs[n], Len(kept[n - 1]) + 1))
    IN kept[Len(specs)]

Compiled(p) == [tasks |-> Distinct(p.specs), required |-> p.required]

Dispatch(tasks) ==
    /\ pending' = tasks
    /\ stage' = [id \in {tasks[i].id : i \in DOMAIN tasks} |-> "waiting"]
    /\ phase' = IF tasks = <<>> THEN "finalize" ELSE "execute"

\* _plan_with_repair and the node initialize_research.
Initialize ==
    /\ phase = "plan"
    /\ \E p \in Proposals :
         LET compiled == Compiled(p)
             approved == IF Len(compiled.tasks) <= MaxTasks THEN compiled.tasks
                         ELSE SubSeq(compiled.tasks, 1, MaxTasks)
         IN /\ ~Refused(p)
            /\ plan' = compiled
            /\ usage' = [usage EXCEPT !.llm = 1, !.tasks = Len(approved),
                             !.exhausted = Len(compiled.tasks) > MaxTasks]
            /\ Dispatch(approved)
    /\ UNCHANGED <<environment, results, processed, outcome>>

\* The compiler refuses the plan: the fake planner cannot repair one.
PlanRefused ==
    /\ phase = "plan"
    /\ \E p \in Proposals : Refused(p)
    /\ phase' = "raised"
    /\ usage' = [usage EXCEPT !.llm = 1]
    /\ outcome' = [Open EXCEPT !.status = "plan_refused"]
    /\ UNCHANGED <<environment, plan, pending, stage, results, processed>>

-----------------------------------------------------------------------------
(* Workers.                                                                *)

Running == {id \in DOMAIN stage : stage[id] \in {"retrieving", "analysing"}}

\* Evidence of the task's dimension.
Matching(t) ==
    {i \in corpus[t.query] : t.dim = NoDim \/ t.dim \in Supports[i]}

Result(t, evidence, error, analysed) ==
    [task |-> t, evidence |-> evidence, error |-> error, analysed |-> analysed]

Returns(t, result) ==
    /\ results' = results \cup {result}
    /\ stage' = [stage EXCEPT ![t.id] = "returned"]
    /\ UNCHANGED <<environment, phase, plan, pending, processed, outcome>>

Goes(t, where) ==
    /\ stage' = [stage EXCEPT ![t.id] = where]
    /\ UNCHANGED <<environment, phase, plan, pending, results, processed,
                   outcome>>

\* Mutant: any waiting worker takes the free slot.
IsNextAny(k) ==
    /\ stage[pending[k].id] = "waiting"
    /\ Cardinality(Running) < MaxWorkers

\* The semaphore admits workers in the order in which they were dispatched.
IsNext(k) ==
    /\ stage[pending[k].id] = "waiting"
    /\ \A j \in 1..(k - 1) : stage[pending[j].id] # "waiting"
    /\ Cardinality(Running) < MaxWorkers

Search(k) ==
    LET t == pending[k] IN
    /\ phase = "execute" /\ IsNext(k)
    /\ usage.retrievals < MaxRetrievals
    /\ usage' = [usage EXCEPT !.retrievals = @ + 1]
    /\ Goes(t, "retrieving")

SearchRefused(k) ==
    LET t == pending[k] IN
    /\ phase = "execute" /\ IsNext(k)
    /\ usage.retrievals = MaxRetrievals
    /\ usage' = [usage EXCEPT !.exhausted = TRUE]
    /\ Returns(t, Result(t, {}, "budget_exhausted", FALSE))

\* Mutant: a search that timed out is given back.
SearchFailsRefunded(k) ==
    LET t == pending[k] IN
    /\ phase = "execute" /\ stage[t.id] = "retrieving"
    /\ \E error \in {"worker_timeout", "retrieval_failure"} :
         /\ Returns(t, Result(t, {}, error, FALSE))
         /\ usage' = IF error = "retrieval_failure" THEN usage
                     ELSE [usage EXCEPT !.retrievals = @ - 1]

\* Mutant: a search that failed is given back and tried again.
SearchFailsRetried(k) ==
    /\ phase = "execute" /\ stage[pending[k].id] = "retrieving"
    /\ usage' = [usage EXCEPT !.retrievals = @ - 1]
    /\ Goes(pending[k], "waiting")

\* wait_for expired, or the retriever raised: the call stays paid for.
SearchFails(k) ==
    LET t == pending[k] IN
    /\ phase = "execute" /\ stage[t.id] = "retrieving"
    /\ \E error \in {"worker_timeout", "retrieval_failure"} :
         Returns(t, Result(t, {}, error, FALSE))
    /\ UNCHANGED usage

\* Nothing to calculate, no permission, or no analysis left in the budget.
Found(k) ==
    LET t == pending[k]
        wanted == t.analysis /\ mayAnalyse
    IN
    /\ phase = "execute" /\ stage[t.id] = "retrieving"
    /\ ~wanted \/ usage.analyses = MaxAnalyses
    /\ usage' = [usage EXCEPT !.exhausted = @ \/ wanted]
    /\ Returns(t, Result(t, Matching(t), "none", FALSE))

FoundAndAnalyses(k) ==
    LET t == pending[k] IN
    /\ phase = "execute" /\ stage[t.id] = "retrieving"
    /\ t.analysis /\ mayAnalyse /\ usage.analyses < MaxAnalyses
    /\ usage' = [usage EXCEPT !.analyses = @ + 1]
    /\ Goes(t, "analysing")

\* AnalysisError costs the analysis only; a timeout or any other exception
\* makes the whole task a failed one, which keeps its evidence.
Analysed(k) ==
    LET t == pending[k] IN
    /\ phase = "execute" /\ stage[t.id] = "analysing"
    /\ \E error \in Errors \ {"budget_exhausted"}, analysed \in BOOLEAN :
         /\ analysed => error = "none"
         /\ Returns(t, Result(t, Matching(t), error, analysed))
    /\ UNCHANGED usage

Work(k) == \/ Search(k) \/ SearchRefused(k) \/ SearchFails(k)
           \/ Found(k) \/ FoundAndAnalyses(k) \/ Analysed(k)

-----------------------------------------------------------------------------
(* Between the rounds.                                                     *)

Before(a, b) == \* task identifiers compare like the strings they stand for
    \/ Len(a) < Len(b) /\ SubSeq(b, 1, Len(a)) = a
    \/ \E n \in 1..Len(a) :
         /\ n <= Len(b) /\ a[n] < b[n]
         /\ \A m \in 1..(n - 1) : a[m] = b[m]

\* ResearchWorker proposes to search again where it found nothing.
Proposes(r) ==
    r.evidence = {} /\ r.error = "none" /\ Depth(r.task) < 2

GapTask(r) ==
    [id |-> Append(r.task.id, 1), kind |-> Gap, query |-> r.task.query,
     dim |-> r.task.dim, analysis |-> FALSE]

\* Mutant: only the plan is known, not the tasks of the round.
KnownFromPlan == {Equivalence(plan.tasks[i]) : i \in DOMAIN plan.tasks}

Known == {Equivalence(plan.tasks[i]) : i \in DOMAIN plan.tasks}
           \cup {Equivalence(pending[i]) : i \in DOMAIN pending}

\* The proposals become tasks, one after the other: those too deep or already
\* known are passed over, those beyond the budget are refused.
AddChild(acc, r) ==
    IF \/ ~Proposes(r) \/ MaxChildren = 0
       \/ Depth(r.task) >= MaxDepth \/ Equivalence(GapTask(r)) \in acc.known
    THEN acc
    ELSE IF acc.tasks = MaxTasks THEN [acc EXCEPT !.exhausted = TRUE]
    ELSE [acc EXCEPT !.tasks = @ + 1, !.known = @ \cup {Equivalence(GapTask(r))},
                     !.children = Append(@, GapTask(r))]

InOrder(answers) ==
    CHOOSE s \in SetToSeqs(answers) :
        \A j, k \in DOMAIN s : j < k => Before(s[j].task.id, s[k].task.id)

\* What the proposals in a sequence of answers add to tasks and budget.
AddChildren(s) ==
    LET acc[n \in 0..Len(s)] ==
            IF n = 0 THEN [tasks |-> usage.tasks, exhausted |-> usage.exhausted,
                           known |-> Known, children |-> <<>>]
            ELSE AddChild(acc[n - 1], s[n])
    IN acc[Len(s)]

Aggregate ==
    LET current == {r \in results : r.task.id \notin processed}
        added == AddChildren(InOrder(current))
    IN
    /\ phase = "execute"
    /\ \A id \in DOMAIN stage : stage[id] = "returned"
    /\ usage' = [usage EXCEPT !.tasks = added.tasks,
                              !.exhausted = added.exhausted]
    /\ processed' = processed \cup {r.task.id : r \in current}
    /\ Dispatch(added.children)
    /\ UNCHANGED <<environment, plan, results, outcome>>

-----------------------------------------------------------------------------
(* The end.                                                                *)

\* fuse orders what a query finds by its score and numbers it.
FinalRank(q, i) ==
    Cardinality({j \in corpus[q] :
                   \/ Score[q][j] > Score[q][i]
                   \/ Score[q][j] = Score[q][i] /\ Serial[j] <= Serial[i]})

\* An item as one worker found it.
Hit(t, i) == [task |-> t.id, item |-> i, rank |-> FinalRank(t.query, i),
              score |-> Score[t.query][i]]

Hits(answers) ==
    UNION {{Hit(r.task, i) : i \in r.evidence \cap Admissible} : r \in answers}

\* aggregate_evidence goes through the answers by task, and through the
\* evidence of each as it was ranked.
MetBefore(g, h) ==
    Before(g.task, h.task) \/ (g.task = h.task /\ g.rank < h.rank)

\* An item is dropped if it clashes with one that was met, and kept, before.
Collected(hits) ==
    LET items == {h.item : h \in hits}
    IN CHOOSE kept \in SUBSET items : \A i \in items :
          i \in kept <=>
             \A g \in hits : g.item \in kept /\ <<g.item, i>> \in Clashes =>
                \E h \in hits : h.item = i /\ MetBefore(h, g)

\* The order of the ledger.
Precedes(g, h) ==
    \/ g.rank < h.rank
    \/ /\ g.rank = h.rank
       /\ \/ g.score > h.score
          \/ g.score = h.score /\ Serial[g.item] < Serial[h.item]

\* Every item counts as where it was found best; one for which there is no
\* room is passed over, and a smaller one after it may still fit.
Accepted(hits) ==
    LET collected == Collected(hits)
        Best(i) == CHOOSE h \in hits : h.item = i /\
                      ~ \E g \in hits : g.item = i /\ Precedes(g, h)
    IN CHOOSE kept \in SUBSET collected : \A i \in collected :
          LET ahead == {j \in kept : Precedes(Best(j), Best(i))}
          IN i \in kept <=>
                /\ Cardinality(ahead) < MaxItems
                /\ SumFunctionOnSet(Size, ahead) + Size[i] <= MaxCharacters

Ledger == Accepted(Hits(results))

\* Mutant: evidence for one dimension covers all.
UncoveredByAny ==
    IF plan.required # {} /\ \E r \in results : r.evidence # {} THEN {}
    ELSE plan.required

Uncovered ==
    IF plan.required # {}
    THEN {d \in plan.required :
            ~ \E i \in DOMAIN plan.tasks :
                /\ plan.tasks[i].dim = d
                /\ \E r \in results : r.task.dim = d /\ r.evidence # {}}
    ELSE {plan.tasks[i].id : i \in {i \in DOMAIN plan.tasks :
            ~ \E r \in results : /\ r.task.id = plan.tasks[i].id
                                 /\ r.error = "none" /\ r.evidence # {}}}

Failures == {r \in results : r.error # "none"}

Coverage ==
    IF ~AllowPartial /\ Failures # {} THEN "failed"
    ELSE IF usage.exhausted THEN "budget_exhausted"
    ELSE IF Ledger = {} THEN "insufficient"
    ELSE IF Uncovered # {} THEN "partially_sufficient"
    ELSE "sufficient"

Finalize ==
    /\ phase = "finalize"
    /\ phase' = "done"
    /\ pending' = <<>> /\ stage' = <<>>
    /\ outcome' = [status |-> Coverage, ledger |-> Ledger,
                   missing |-> Uncovered, partial |-> Failures # {}]
    /\ UNCHANGED <<environment, plan, usage, results, processed>>

\* research_max_execution_seconds, or the planner's own timeout: the workers
\* are cancelled and what they found is lost.
Deadline ==
    /\ phase \notin {"done", "raised"}
    /\ phase' = "raised"
    /\ outcome' = [Open EXCEPT !.status = "timed_out"]
    /\ usage' = [usage EXCEPT !.llm = 1]
    /\ UNCHANGED <<environment, plan, pending, stage, results, processed>>

-----------------------------------------------------------------------------
Init ==
    /\ corpus \in [Queries -> SUBSET Items]
    /\ \A q \in Queries : corpus[q] \subseteq Matches[q]
    /\ mayAnalyse \in BOOLEAN
    /\ phase = "plan" /\ plan = NoPlan
    /\ usage = [llm |-> 0, tasks |-> 0, retrievals |-> 0, analyses |-> 0,
                exhausted |-> FALSE]
    /\ pending = <<>> /\ stage = <<>>
    /\ results = {} /\ processed = {}
    /\ outcome = Open

Next ==
    \/ Initialize \/ PlanRefused
    \/ \E k \in DOMAIN pending : Work(k)
    \/ Aggregate \/ Finalize \/ Deadline

Spec == Init /\ [][Next]_vars

\* The event loop runs every worker on; a search and an analysis have
\* timeouts of their own.  Nothing is assumed about the total deadline.
FairSpec ==
    /\ Spec
    /\ WF_vars(Initialize \/ PlanRefused)
    /\ \A k \in 1..MaxTasks : WF_vars(k \in DOMAIN pending /\ Work(k))
    /\ WF_vars(Aggregate \/ Finalize)

-----------------------------------------------------------------------------
(* Properties.                                                             *)

Kinds == {Gap} \cup UNION {{p.specs[i].kind : i \in DOMAIN p.specs} :
                            p \in Proposals}
Dims == {NoDim} \cup UNION {p.required : p \in Proposals}

Tasks == [id : Seq(Nat \ {0}), kind : Kinds, query : Queries, dim : Dims,
          analysis : BOOLEAN]

TypeOK ==
    /\ corpus \in [Queries -> SUBSET Items] /\ mayAnalyse \in BOOLEAN
    /\ phase \in {"plan", "execute", "finalize", "done", "raised"}
    /\ plan \in [tasks : Seq(Tasks), required : SUBSET Dims]
    /\ usage \in [llm : 0..1, tasks : 0..MaxTasks,
                  retrievals : 0..MaxRetrievals, analyses : 0..MaxAnalyses,
                  exhausted : BOOLEAN]
    /\ pending \in Seq(Tasks)
    /\ DOMAIN stage = {pending[i].id : i \in DOMAIN pending}
    /\ \A id \in DOMAIN stage :
         stage[id] \in {"waiting", "retrieving", "analysing", "returned"}
    /\ Cardinality(Running) <= MaxWorkers
    /\ results \subseteq [task : Tasks, evidence : SUBSET Items,
                         error : Errors, analysed : BOOLEAN]
    /\ processed \subseteq {r.task.id : r \in results}
    /\ outcome.partial \in BOOLEAN

\* The ledger has an entry for every call that was started, whatever became
\* of it, and for every task that was dispatched: an answer, a timeout and a
\* failure have all been paid for once, and what was turned away was not.
LedgerCountsEveryCall ==
    /\ usage.retrievals =
         Cardinality({r \in results : r.error # "budget_exhausted"})
           + Cardinality(Running)
    /\ phase = "execute" =>
         usage.tasks = Cardinality(processed) + Len(pending)
    /\ Cardinality({r \in results : r.analysed}) <= usage.analyses

\* No search is repeated, by a sibling or by an earlier or later round: in the
\* whole run the same kind of task with the same query is answered once, and
\* so is the search for a gap, even if its query has the words in another
\* order.
SearchesAreNew ==
    \A r, s \in results :
        \/ Key(r.task) = Key(s.task)
        \/ r.task.kind = Gap /\ Equivalence(r.task) = Equivalence(s.task)
        => r = s

\* A run in which no worker failed and no budget ran out concludes what the
\* plan and the collection determine: neither the order in which the workers
\* finished nor the number of rounds shows in the ledger, in what is
\* reported missing (a dimension none of whose tasks finds anything), or in
\* the verdict.
OutcomeIsDetermined ==
    LET planned == {plan.tasks[i] : i \in DOMAIN plan.tasks}
        found == UNION {{Hit(t, i) : i \in Matching(t) \cap Admissible} :
                          t \in planned}
        best == Accepted(found)
        missing == IF plan.required # {}
                   THEN {d \in plan.required :
                           \A t \in planned : t.dim = d => Matching(t) = {}}
                   ELSE {t.id : t \in {t \in planned : Matching(t) = {}}}
    IN phase = "done" /\ Failures = {} /\ ~usage.exhausted =>
         /\ outcome.ledger = best
         /\ outcome.missing = missing
         /\ outcome.status = IF best = {} THEN "insufficient"
                             ELSE IF missing # {} THEN "partially_sufficient"
                             ELSE "sufficient"

\* The workers in parallel, drawing on one ledger, implement rounds in which
\* the budget is handed out in the order of the tasks.
AsRounds == INSTANCE ResearchRounds WITH
    tasks <- ToSet(plan.tasks),
    required <- plan.required,
    round <- ToSet(pending),
    answered <- {r \in results : r.task.id \in processed},
    outcome <- [status |-> outcome.status, missing |-> outcome.missing]

RunsRounds == AsRounds!Rounds

\* A research run ends, with a result or an error, even if its total deadline
\* never fires: no worker keeps its slot for ever and the rounds run out.
EveryResearchEnds == <>(phase \in {"done", "raised"})
=============================================================================
