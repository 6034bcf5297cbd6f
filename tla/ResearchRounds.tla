--------------------------- MODULE ResearchRounds ---------------------------
(***************************************************************************)
(* What a research run promises, whatever the order in which its workers   *)
(* finish: it goes round by round.  Every task of a round gets exactly one *)
(* answer, the tasks of the next round are the gaps those answers left,    *)
(* and the outcome is read off the answers.  ResearchRun, with its workers *)
(* in parallel and its shared budget, is checked against this.             *)
(***************************************************************************)
EXTENDS Naturals, Sequences, FiniteSets

CONSTANTS MaxDepth, MaxTasks, MaxChildren, MaxRetrievals, Words

VARIABLES
    tasks,     \* tasks of the compiled plan
    required,  \* dimensions a comparison has to cover
    round,     \* tasks of the round in progress
    answered,  \* one answer per task of the rounds that are over
    outcome    \* "open", "failed", or what was concluded

roundVars == <<tasks, required, round, answered, outcome>>

Earlier(t, u) == \* the task identifiers' order, within one round
    \E n \in 1..Len(t.id) :
        t.id[n] < u.id[n] /\ \A m \in 1..(n - 1) : t.id[m] = u.id[m]

\* Answers that spent a retrieval: all but those the budget turned away.
Spent(answers) == {a \in answers : a.error # "budget_exhausted"}

\* One answer per task; a task is turned away exactly if the retrievals were
\* spent by earlier rounds and by the tasks before it.
Answers(answers) ==
    /\ {a.task : a \in answers} = round
    /\ Cardinality(answers) = Cardinality(round)
    /\ \A a \in answers :
           (a.error = "budget_exhausted") <=>
               Cardinality(Spent(answered))
                 + Cardinality({u \in round : Earlier(u, a.task)})
               >= MaxRetrievals

\* The gaps of a round: tasks that were searched for without result and that
\* are not themselves searches for what a gap search just missed.
Gap(answers) ==
    {a \in answers :
        /\ a.evidence = {} /\ a.error = "none"
        /\ MaxChildren > 0
        /\ Len(a.task.id) <= MaxDepth /\ Len(a.task.id) <= 2
        /\ a.task.kind # "gap_investigation"
        /\ ~ \E b \in answers :
               /\ b.evidence = {} /\ b.error = "none"
               /\ Words[b.task.query] = Words[a.task.query]
               /\ Earlier(b.task, a.task)}

Room == MaxTasks - Cardinality(answered) - Cardinality(round)

\* The tasks that follow: the first gaps there is room for.
FollowUps(answers) ==
    {[id |-> Append(a.task.id, 1), kind |-> "gap_investigation",
      query |-> a.task.query, dim |-> a.task.dim, analysis |-> FALSE] :
        a \in {a \in Gap(answers) :
                 Cardinality({b \in Gap(answers) : Earlier(b.task, a.task)})
                     < Room}}

\* What no answer supports.
Missing ==
    IF required # {}
    THEN {d \in required : ~ \E a \in answered :
                                 a.task.dim = d /\ a.evidence # {}}
    ELSE {t.id : t \in {t \in tasks : ~ \E a \in answered :
                     a.task = t /\ a.evidence # {} /\ a.error = "none"}}

-----------------------------------------------------------------------------
RoundsInit ==
    tasks = {} /\ required = {} /\ round = {} /\ answered = {}
    /\ outcome = [status |-> "open", missing |-> {}]

Plan ==
    /\ tasks = {} /\ outcome.status = "open"
    /\ round' = {t \in tasks' :
                   Cardinality({u \in tasks' : Earlier(u, t)}) < MaxTasks}
    /\ UNCHANGED <<answered, outcome>>

Round ==
    /\ round # {} /\ outcome.status = "open"
    /\ answered \subseteq answered'
    /\ Answers(answered' \ answered)
    /\ round' = FollowUps(answered' \ answered)
    /\ UNCHANGED <<tasks, required, outcome>>

Conclude ==
    /\ tasks # {} /\ round = {} /\ outcome.status = "open"
    /\ outcome'.missing = Missing
    /\ outcome'.status \notin {"open", "timed_out", "plan_refused"}
    /\ outcome'.status = "sufficient" =>
         Missing = {} /\ Spent(answered) = answered
    /\ UNCHANGED <<tasks, required, round, answered>>

Abandon ==
    /\ outcome.status = "open"
    /\ outcome'.missing = {}
    /\ outcome'.status \in {"timed_out", "plan_refused"}
    /\ UNCHANGED <<tasks, required, round, answered>>

Rounds == RoundsInit /\ [][Plan \/ Round \/ Conclude \/ Abandon]_roundVars
=============================================================================
