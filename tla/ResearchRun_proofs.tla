-------------------------- MODULE ResearchRun_proofs --------------------------
(***************************************************************************)
(* Proofs about a research run, for any plans, collections and limits, and *)
(* any number of workers.                                                  *)
(*                                                                         *)
(* The argument: the tasks of a round are in order, their identifiers are  *)
(* new, and no two tasks ever dispatched ask for the same (DispatchInv);   *)
(* every task is answered at most once, by a worker that came to its end   *)
(* (AnswerInv); so the ledger can be counted off against the answers and   *)
(* the workers that are running (CountInv).  What a gap search finds is    *)
(* nothing, since it repeats the query that found nothing: that is why the *)
(* outcome depends on the plan and the collection alone.                   *)
(***************************************************************************)
EXTENDS ResearchRun, FiniteSetTheorems, SequenceTheorems,
        WellFoundedInduction, TLAPS

Planned == {plan.tasks[i] : i \in DOMAIN plan.tasks}

Answered == {r.task : r \in results}

Dispatched == Answered \cup {pending[k] : k \in DOMAIN pending}

Analysing == {id \in DOMAIN stage : stage[id] = "analysing"}

\* Two tasks that ask for the same.
Same(t, u) == \/ t.id = u.id \/ Key(t) = Key(u)
              \/ t.kind = Gap /\ Equivalence(t) = Equivalence(u)

\* A compiled plan numbers its tasks and asks for nothing twice.
PlanInv ==
    /\ \A i \in DOMAIN plan.tasks :
          plan.tasks[i].id = <<i>> /\ plan.tasks[i].kind # Gap
    /\ \A i, j \in DOMAIN plan.tasks :
          Key(plan.tasks[i]) = Key(plan.tasks[j]) => i = j

\* The round is in order, and of the plan or of gaps only.
RoundInv ==
    /\ \A j, k \in DOMAIN pending :
          j < k => Before(pending[j].id, pending[k].id)
    /\ processed = {} => \A k \in DOMAIN pending : pending[k] \in Planned
    /\ processed # {} => \A k \in DOMAIN pending : pending[k].kind = Gap
    /\ phase = "plan" => /\ pending = <<>> /\ results = {} /\ processed = {}
                         /\ plan.tasks = <<>>
                         /\ usage.retrievals = 0 /\ usage.analyses = 0
    /\ phase \in {"finalize", "done"} => pending = <<>>

\* What was dispatched is new, planned or the search for a gap, and misses
\* nothing of what the budget allows of the plan.
DispatchInv ==
    /\ \A t, u \in Dispatched : Same(t, u) => t = u
    /\ \A t \in Dispatched :
          t \in Planned \/ (t.kind = Gap /\ Matching(t) = {})
    /\ phase \in {"execute", "finalize", "done"} =>
          \A i \in DOMAIN plan.tasks :
             i <= MaxTasks => plan.tasks[i] \in Dispatched
    /\ phase # "plan" => Len(plan.tasks) <= MaxTasks \/ usage.exhausted

\* Answers and workers that returned correspond.
AnswerInv ==
    /\ \A r, s \in results : r.task = s.task => r = s
    /\ \A r \in results : r.error = "none" => r.evidence = Matching(r.task)
    /\ \A r \in results :
          \/ r.task.id \in processed
          \/ \E k \in DOMAIN pending :
                r.task = pending[k] /\ stage[pending[k].id] = "returned"
    /\ \A k \in DOMAIN pending : pending[k].id \notin processed
    /\ \A k \in DOMAIN pending :
          stage[pending[k].id] = "returned" => pending[k] \in Answered

Paid == {r \in results : r.error # "budget_exhausted"}

WithAnalysis == {r \in results : r.analysed}

CountInv ==
    /\ IsFiniteSet(results)
    /\ usage.retrievals = Cardinality(Paid) + Cardinality(Running)
    /\ phase = "execute" =>
          usage.tasks = Cardinality(processed) + Len(pending)
    /\ Cardinality(WithAnalysis) + Cardinality(Analysing) <= usage.analyses

\* A run that is done has concluded from its answers.
DoneInv ==
    phase = "done" =>
        outcome = [status |-> Coverage, ledger |-> Ledger,
                   missing |-> Uncovered, partial |-> Failures # {}]

ResearchInv ==
    TypeOK /\ PlanInv /\ RoundInv /\ DispatchInv /\ AnswerInv /\ CountInv
      /\ DoneInv

-----------------------------------------------------------------------------
(* Numbers and iteration.                                                  *)

LEMMA Least ==
    ASSUME NEW T \in SUBSET Nat, T # {}
    PROVE  \E x \in T : \A y \in T : x <= y
<1>1. \E x \in T : \A y \in T : ~ (<<y, x>> \in OpToRel(<, Nat))
  BY NatLessThanWellFounded, WFMin
<1>2. PICK x \in T : \A y \in T : ~ (<<y, x>> \in OpToRel(<, Nat))
  BY <1>1
<1>3. \A y \in T : ~ (y < x)
  BY <1>2 DEF OpToRel
<1> QED BY <1>3

\* Induction over 0 .. n, for a set of numbers.
LEMMA UpTo ==
    ASSUME NEW n \in Nat, NEW T \in SUBSET (0 .. n), 0 \in T,
           \A k \in 1 .. n : k - 1 \in T => k \in T
    PROVE  T = 0 .. n
<1> SUFFICES ASSUME T # 0 .. n PROVE FALSE
  OBVIOUS
<1> DEFINE U == {k \in 0 .. n : k \notin T}
<1>1. PICK x \in U : \A y \in U : x <= y
  <2>1. PICK z \in 0 .. n : z \notin T
    OBVIOUS
  <2>2. U # {}
    BY <2>1
  <2>3. U \in SUBSET Nat
    OBVIOUS
  <2> HIDE DEF U
  <2> QED BY <2>2, <2>3, Least
<1>2. x \in 1 .. n /\ x - 1 \in 0 .. n /\ ~ (x <= x - 1)
  BY <1>1
<1>3. x - 1 \in T
  BY <1>1, <1>2
<1> QED BY <1>1, <1>2, <1>3

\* g holds what the steps F make of b, one after the other.
Iterates(n, S, b, F, g) ==
    /\ g \in [0 .. n -> S] /\ g[0] = b
    /\ \A k \in 1 .. n : g[k] = F[k][g[k - 1]]

LEMMA Iterated ==
    ASSUME NEW n \in Nat, NEW S, NEW b \in S, NEW F \in [1 .. n -> [S -> S]]
    PROVE  \E g : Iterates(n, S, b, F, g)
<1> DEFINE Iter(m, g) ==
             g[0] = b /\ \A k \in 1 .. m : g[k] = F[k][g[k - 1]]
           T == {m \in 0 .. n : \E g \in [0 .. m -> S] : Iter(m, g)}
<1>1. 0 \in T
  <2> DEFINE z == [k \in 0 .. 0 |-> b]
  <2>1. z \in [0 .. 0 -> S] /\ Iter(0, z) /\ 0 \in 0 .. n
    OBVIOUS
  <2> HIDE DEF z, Iter
  <2> QED BY <2>1
<1>2. ASSUME NEW m \in 1 .. n, m - 1 \in T PROVE m \in T
  <2>1. PICK g \in [0 .. m - 1 -> S] : Iter(m - 1, g)
    BY <1>2
  <2> DEFINE h == [k \in 0 .. m |-> IF k = m THEN F[m][g[m - 1]] ELSE g[k]]
  <2>2. m - 1 \in 0 .. m - 1 /\ g[m - 1] \in S
    OBVIOUS
  <2>3. F[m] \in [S -> S]
    OBVIOUS
  <2>4. F[m][g[m - 1]] \in S
    BY <2>2, <2>3
  <2>5. h \in [0 .. m -> S]
    <3> SUFFICES ASSUME NEW k \in 0 .. m PROVE h[k] \in S
      OBVIOUS
    <3>1. CASE k = m
      BY <2>4, <3>1
    <3>2. CASE k # m
      <4>1. k \in 0 .. m - 1
        BY <3>2
      <4> QED BY <3>2, <4>1
    <3> QED BY <3>1, <3>2
  <2>6. h[0] = b
    BY <2>1
  <2>7. ASSUME NEW k \in 1 .. m PROVE h[k] = F[k][h[k - 1]]
    <3>1. CASE k = m
      <4>1. k - 1 # m /\ k - 1 \in 0 .. m /\ k \in 0 .. m
        BY <3>1
      <4> QED BY <3>1, <4>1
    <3>2. CASE k # m
      <4>1. /\ k \in 1 .. m - 1 /\ k \in 0 .. m /\ k - 1 \in 0 .. m
            /\ k - 1 # m
        BY <3>2
      <4>2. h[k] = g[k] /\ h[k - 1] = g[k - 1]
        BY <3>2, <4>1
      <4> QED BY <2>1, <4>1, <4>2
    <3> QED BY <3>1, <3>2
  <2> HIDE DEF h
  <2>8. Iter(m, h) /\ m \in 0 .. n
    BY <2>6, <2>7
  <2> HIDE DEF Iter
  <2> QED BY <2>5, <2>8
<1>3. T = 0 .. n
  <2>1. T \in SUBSET (0 .. n)
    OBVIOUS
  <2> HIDE DEF T
  <2>2. \A k \in 1 .. n : k - 1 \in T => k \in T
    BY <1>2
  <2> QED BY <1>1, <2>1, <2>2, UpTo
<1>4. n \in T
  <2> HIDE DEF T
  <2> QED BY <1>3
<1> QED BY <1>4 DEF Iterates

-----------------------------------------------------------------------------
(* Compiling a plan.                                                       *)

Specs(p) == [kind : STRING, query : Queries, dim : {NoDim} \cup p.required,
             analysis : BOOLEAN]

LEMMA NumberedIsTask ==
    ASSUME PlannerAssumption, NEW p \in Proposals, NEW n \in 1 .. Len(p.specs),
           NEW i \in Nat \ {0}
    PROVE  /\ Numbered(p.specs[n], i) \in Tasks
           /\ Numbered(p.specs[n], i).id = <<i>>
           /\ Numbered(p.specs[n], i).kind # Gap
           /\ Key(Numbered(p.specs[n], i)) = Key(p.specs[n])
<1> DEFINE spec == p.specs[n]
<1>1. p.specs \in Seq(Specs(p)) /\ spec.kind # Gap
  BY DEF PlannerAssumption, Specs
<1>2. spec \in Specs(p)
  BY <1>1, ElementOfSeq
<1>3. spec.query \in Queries /\ spec.analysis \in BOOLEAN /\ spec.dim \in Dims
  BY <1>2 DEF Specs, Dims
<1>4. spec.kind \in Kinds
  BY DEF Kinds
<1>5. <<i>> \in Seq(Nat \ {0})
  OBVIOUS
<1> HIDE DEF spec
<1>6. Numbered(spec, i) \in Tasks
  BY <1>3, <1>4, <1>5 DEF Numbered, Tasks
<1>7. /\ Numbered(spec, i).id = <<i>> /\ Numbered(spec, i).kind # Gap
      /\ Key(Numbered(spec, i)) = Key(spec)
  BY <1>1 DEF Numbered, Key
<1> QED BY <1>6, <1>7 DEF spec

\* One task after the other is kept or passed over.
Keeps(specs, g) ==
    /\ g[0] = <<>>
    /\ \A n \in 1 .. Len(specs) :
          g[n] = IF \E j \in 1 .. (n - 1) : Key(specs[j]) = Key(specs[n])
                 THEN g[n - 1]
                 ELSE Append(g[n - 1], Numbered(specs[n], Len(g[n - 1]) + 1))

LEMMA DistinctSteps ==
    ASSUME PlannerAssumption, NEW p \in Proposals
    PROVE  \E g \in [0 .. Len(p.specs) -> Seq(Tasks)] :
              Keeps(p.specs, g) /\ Distinct(p.specs) = g[Len(p.specs)]
<1> DEFINE specs == p.specs
           n == Len(specs)
           Old(k) == \E j \in 1 .. (k - 1) : Key(specs[j]) = Key(specs[k])
           Next1(k, x) == IF Old(k) THEN x
                          ELSE Append(x, Numbered(specs[k], Len(x) + 1))
           F == [k \in 1 .. n |-> [x \in Seq(Tasks) |-> Next1(k, x)]]
           Step(h) == [k \in 0 .. n |-> IF k = 0 THEN <<>> ELSE Next1(k, h[k - 1])]
           h == CHOOSE kept : kept = Step(kept)
<1>0. n \in Nat
  BY LenProperties DEF PlannerAssumption
<1>1. ASSUME NEW k \in 1 .. n, NEW x \in Seq(Tasks) PROVE Next1(k, x) \in Seq(Tasks)
  <2>1. Len(x) + 1 \in Nat \ {0}
    BY LenProperties
  <2>2. Numbered(specs[k], Len(x) + 1) \in Tasks
    BY <2>1, NumberedIsTask
  <2> QED BY <2>2
<1> HIDE DEF Next1
<1>2. F \in [1 .. n -> [Seq(Tasks) -> Seq(Tasks)]]
  BY <1>1
<1>3. \A k \in 1 .. n, x \in Seq(Tasks) : F[k][x] = Next1(k, x)
  OBVIOUS
<1>4. PICK g : Iterates(n, Seq(Tasks), <<>>, F, g)
  <2> DEFINE b == <<>>
             S == Seq(Tasks)
  <2>1. b \in S
    OBVIOUS
  <2>2. F \in [1 .. n -> [S -> S]]
    BY <1>2
  <2> HIDE DEF F, n, b, S
  <2>3. \E g : Iterates(n, S, b, F, g)
    BY <1>0, <2>1, <2>2, Iterated
  <2> QED BY <2>3 DEF b, S
<1> HIDE DEF F
<1>5. ASSUME NEW k \in 1 .. n PROVE g[k] = Next1(k, g[k - 1])
  <2>1. k - 1 \in 0 .. n
    BY <1>0
  <2> QED BY <1>3, <1>4, <2>1 DEF Iterates
<1>6. g = Step(g)
  <2>0. g = [k \in 0 .. n |-> g[k]]
    BY <1>4 DEF Iterates
  <2> SUFFICES ASSUME NEW k \in 0 .. n PROVE g[k] = Step(g)[k]
    BY <2>0
  <2>1. CASE k = 0
    BY <1>4, <2>1 DEF Iterates
  <2>2. CASE k # 0
    <3>1. k \in 1 .. n
      BY <1>0, <2>2
    <3> QED BY <1>5, <2>2, <3>1
  <2> QED BY <2>1, <2>2
<1>7. h = Step(h)
  BY <1>6
<1>8. Distinct(specs) = h[n]
  BY DEF Distinct, Next1
<1> HIDE DEF h
<1>9. h[0] = <<>> /\ \A k \in 1 .. n : h[k] = Next1(k, h[k - 1])
  <2>1. \A k \in 0 .. n : h[k] = IF k = 0 THEN <<>> ELSE Next1(k, h[k - 1])
    BY <1>7
  <2>2. 0 \in 0 .. n /\ \A k \in 1 .. n : k \in 0 .. n /\ k # 0
    BY <1>0
  <2> HIDE DEF n
  <2> QED BY <2>1, <2>2
<1>10. h \in [0 .. n -> Seq(Tasks)]
  <2> DEFINE T == {k \in 0 .. n : h[k] \in Seq(Tasks)}
  <2>1. 0 \in T /\ T \in SUBSET (0 .. n)
    <3>1. 0 \in 0 .. n /\ h[0] \in Seq(Tasks)
      BY <1>0, <1>9
    <3> QED BY <3>1
  <2>2. ASSUME NEW k \in 1 .. n, k - 1 \in T PROVE k \in T
    BY <1>0, <1>1, <1>9, <2>2
  <2>3. T = 0 .. n
    <3> HIDE DEF T, n
    <3>1. \A k \in 1 .. n : k - 1 \in T => k \in T
      BY <2>2
    <3> QED BY <1>0, <2>1, <3>1, UpTo
  <2>4. \A k \in 0 .. n : h[k] \in Seq(Tasks)
    BY <2>3
  <2>5. h = [k \in 0 .. n |-> h[k]]
    BY <1>7
  <2> HIDE DEF n
  <2> QED BY <2>4, <2>5
<1>11. Keeps(specs, h)
  BY <1>9 DEF Keeps, Next1
<1> QED BY <1>8, <1>10, <1>11

\* What Compiled makes of a proposal.
LEMMA DistinctTasks ==
    ASSUME PlannerAssumption, NEW p \in Proposals
    PROVE  LET ts == Distinct(p.specs) IN
           /\ ts \in Seq(Tasks)
           /\ \A i \in DOMAIN ts : ts[i].id = <<i>> /\ ts[i].kind # Gap
           /\ \A i, j \in DOMAIN ts : Key(ts[i]) = Key(ts[j]) => i = j
<1> DEFINE specs == p.specs
           n == Len(specs)
           Good(k, ts) ==
             /\ \A i \in DOMAIN ts : ts[i].id = <<i>> /\ ts[i].kind # Gap
             /\ \A i, j \in DOMAIN ts : Key(ts[i]) = Key(ts[j]) => i = j
             /\ \A i \in DOMAIN ts : \E j \in 1 .. k : Key(ts[i]) = Key(specs[j])
<1>0. n \in Nat
  BY LenProperties DEF PlannerAssumption
<1>1. PICK g \in [0 .. n -> Seq(Tasks)] : Keeps(specs, g) /\ Distinct(specs) = g[n]
  BY DistinctSteps
<1> DEFINE T == {k \in 0 .. n : Good(k, g[k])}
<1>2. 0 \in T /\ T \in SUBSET (0 .. n)
  <2>1. g[0] = <<>>
    BY <1>1 DEF Keeps
  <2>2. Good(0, g[0])
    BY <2>1
  <2> QED BY <1>0, <2>2
<1>3. ASSUME NEW k \in 1 .. n, k - 1 \in T PROVE k \in T
  <2> DEFINE ts == g[k - 1]
             new == Numbered(specs[k], Len(ts) + 1)
  <2>0. k \in 0 .. n /\ k - 1 \in 0 .. n
    BY <1>0
  <2>1. ts \in Seq(Tasks) /\ Good(k - 1, ts)
    BY <1>3, <2>0
  <2>2. Len(ts) \in Nat /\ Len(ts) + 1 \in Nat \ {0} /\ DOMAIN ts = 1 .. Len(ts)
    BY <2>1, LenProperties
  <2>3. \A i \in DOMAIN ts : \E j \in 1 .. k : Key(ts[i]) = Key(specs[j])
    BY <1>0, <2>1
  <2>4. CASE \E j \in 1 .. (k - 1) : Key(specs[j]) = Key(specs[k])
    <3>1. g[k] = ts
      BY <1>1, <2>4 DEF Keeps
    <3> HIDE DEF ts
    <3>2. Good(k, g[k])
      BY <2>1, <2>3, <3>1
    <3> HIDE DEF Good
    <3> QED BY <2>0, <3>2
  <2>5. CASE ~ \E j \in 1 .. (k - 1) : Key(specs[j]) = Key(specs[k])
    <3>1. g[k] = Append(ts, new)
      BY <1>1, <2>5 DEF Keeps
    <3>2. /\ new \in Tasks /\ new.id = <<Len(ts) + 1>> /\ new.kind # Gap
          /\ Key(new) = Key(specs[k])
      <4> HIDE DEF ts
      <4> QED BY <2>2, NumberedIsTask
    <3> HIDE DEF ts, new
    <3> DEFINE us == Append(ts, new)
    <3>3. /\ Len(us) = Len(ts) + 1 /\ DOMAIN us = 1 .. Len(ts) + 1
          /\ \A i \in 1 .. Len(ts) : us[i] = ts[i]
          /\ us[Len(ts) + 1] = new
      BY <2>1, <3>2, AppendProperties
    <3>4. \A i \in DOMAIN us : i \in DOMAIN ts \/ i = Len(ts) + 1
      BY <2>2, <3>3
    <3> HIDE DEF us
    <3>5. \A i \in DOMAIN ts : us[i] = ts[i]
      BY <2>2, <3>3
    <3>6. \A i \in DOMAIN us : us[i].id = <<i>> /\ us[i].kind # Gap
      BY <2>1, <3>2, <3>3, <3>4, <3>5
    <3>7. \A i \in DOMAIN ts : Key(ts[i]) # Key(new)
      BY <2>1, <2>5, <3>2
    <3>8. \A i, j \in DOMAIN us : Key(us[i]) = Key(us[j]) => i = j
      BY <2>1, <3>3, <3>4, <3>5, <3>7
    <3>9. \A i \in DOMAIN us : \E j \in 1 .. k : Key(us[i]) = Key(specs[j])
      <4>1. k \in 1 .. k
        BY <1>0
      <4> QED BY <2>3, <3>2, <3>3, <3>4, <3>5, <4>1
    <3>10. Good(k, us)
      BY <3>6, <3>8, <3>9
    <3> HIDE DEF Good
    <3> QED BY <2>0, <3>1, <3>10 DEF us
  <2> QED BY <2>4, <2>5
<1>4. T = 0 .. n
  <2> HIDE DEF T, n
  <2>1. \A k \in 1 .. n : k - 1 \in T => k \in T
    BY <1>3
  <2> QED BY <1>0, <1>2, <2>1, UpTo
<1>5. Good(n, g[n]) /\ g[n] \in Seq(Tasks)
  <2>1. n \in 0 .. n
    BY <1>0
  <2>2. n \in T
    <3> HIDE DEF T, n
    <3> QED BY <1>4, <2>1
  <2> HIDE DEF Good
  <2> QED BY <2>1, <2>2
<1> QED BY <1>1, <1>5

-----------------------------------------------------------------------------
(* The tasks of the next round.                                            *)

Accs == [tasks : 0 .. MaxTasks, exhausted : BOOLEAN,
         known : SUBSET (Known \cup {Equivalence(GapTask(r)) : r \in results}),
         children : Seq(Tasks)]

LEMMA GapTaskIsTask ==
    ASSUME TypeOK, NEW r \in results
    PROVE  GapTask(r) \in Tasks /\ r.task \in Tasks
<1>1. r.task \in Tasks
  BY DEF TypeOK
<1>2. /\ r.task.id \in Seq(Nat \ {0}) /\ r.task.query \in Queries
      /\ r.task.dim \in Dims
  BY <1>1 DEF Tasks
<1>3. Append(r.task.id, 1) \in Seq(Nat \ {0})
  BY <1>2
<1>4. Gap \in Kinds
  BY DEF Kinds
<1> QED BY <1>1, <1>2, <1>3, <1>4 DEF GapTask, Tasks

\* One answer adds one task or none.
Adds(a, b, r) ==
    /\ Proposes(r) /\ Equivalence(GapTask(r)) \notin a.known
    /\ b.tasks = a.tasks + 1
    /\ b.known = a.known \cup {Equivalence(GapTask(r))}
    /\ b.children = Append(a.children, GapTask(r))

LEMMA AddChildAdds ==
    ASSUME ResearchAssumption, TypeOK, NEW a \in Accs, NEW r \in results
    PROVE  /\ AddChild(a, r) \in Accs
           /\ a.exhausted => AddChild(a, r).exhausted
           /\ \/ /\ AddChild(a, r).tasks = a.tasks
                 /\ AddChild(a, r).known = a.known
                 /\ AddChild(a, r).children = a.children
              \/ Adds(a, AddChild(a, r), r)
<1> DEFINE e == Equivalence(GapTask(r))
           g == GapTask(r)
           Passed == \/ ~Proposes(r) \/ MaxChildren = 0
                     \/ Depth(r.task) >= MaxDepth \/ e \in a.known
           K == Known \cup {Equivalence(GapTask(q)) : q \in results}
<1>1. /\ a.tasks \in 0 .. MaxTasks /\ a.exhausted \in BOOLEAN
      /\ a.known \in SUBSET K /\ a.children \in Seq(Tasks)
      /\ a = [tasks |-> a.tasks, exhausted |-> a.exhausted, known |-> a.known,
              children |-> a.children]
  BY DEF Accs
<1>2. g \in Tasks /\ e \in K
  BY GapTaskIsTask
<1>3. AddChild(a, r) =
         IF Passed THEN a
         ELSE IF a.tasks = MaxTasks THEN [a EXCEPT !.exhausted = TRUE]
         ELSE [a EXCEPT !.tasks = @ + 1, !.known = @ \cup {e},
                        !.children = Append(@, g)]
  BY DEF AddChild
<1>4. Accs = [tasks : 0 .. MaxTasks, exhausted : BOOLEAN, known : SUBSET K,
              children : Seq(Tasks)]
  BY DEF Accs
<1>5. MaxTasks \in Nat
  BY DEF ResearchAssumption
<1> HIDE DEF K, g, e
<1>6. CASE Passed
  BY <1>3, <1>6
<1>7. CASE ~Passed /\ a.tasks = MaxTasks
  <2>1. AddChild(a, r) = [tasks |-> a.tasks, exhausted |-> TRUE,
                          known |-> a.known, children |-> a.children]
    <3> HIDE DEF Passed
    <3> QED BY <1>1, <1>3, <1>7
  <2> QED BY <1>1, <1>4, <2>1
<1>8. CASE ~Passed /\ a.tasks # MaxTasks
  <2>0. Proposes(r) /\ e \notin a.known
    BY <1>8
  <2>1. AddChild(a, r) =
           [tasks |-> a.tasks + 1, exhausted |-> a.exhausted,
            known |-> a.known \cup {e}, children |-> Append(a.children, g)]
    <3> HIDE DEF Passed
    <3> QED BY <1>1, <1>3, <1>8
  <2>2. a.tasks + 1 \in 0 .. MaxTasks
    BY <1>1, <1>5, <1>8
  <2>3. a.known \cup {e} \in SUBSET K /\ Append(a.children, g) \in Seq(Tasks)
    BY <1>1, <1>2
  <2>4. AddChild(a, r) \in Accs
    BY <1>1, <1>4, <2>1, <2>2, <2>3
  <2>5. Adds(a, AddChild(a, r), r)
    BY <2>0, <2>1 DEF Adds, e, g
  <2>6. a.exhausted => AddChild(a, r).exhausted
    BY <2>1
  <2> QED BY <2>4, <2>5, <2>6
<1> QED BY <1>6, <1>7, <1>8

Base == [tasks |-> usage.tasks, exhausted |-> usage.exhausted,
         known |-> Known, children |-> <<>>]

LEMMA ChildrenSteps ==
    ASSUME ResearchAssumption, TypeOK, NEW s \in Seq(results)
    PROVE  \E g \in [0 .. Len(s) -> Accs] :
              /\ g[0] = Base /\ \A k \in 1 .. Len(s) : g[k] = AddChild(g[k - 1], s[k])
              /\ AddChildren(s) = g[Len(s)]
<1> DEFINE n == Len(s)
           F == [k \in 1 .. n |-> [x \in Accs |-> AddChild(x, s[k])]]
           Step(h) == [k \in 0 .. n |-> IF k = 0 THEN Base ELSE AddChild(h[k - 1], s[k])]
           h == CHOOSE acc : acc = Step(acc)
<1>0. n \in Nat
  BY LenProperties
<1>1. Base \in Accs
  <2>1. usage.tasks \in 0 .. MaxTasks /\ usage.exhausted \in BOOLEAN
    BY DEF TypeOK
  <2>2. <<>> \in Seq(Tasks)
    OBVIOUS
  <2> QED BY <2>1, <2>2 DEF Base, Accs
<1>2. ASSUME NEW k \in 1 .. n, NEW x \in Accs PROVE AddChild(x, s[k]) \in Accs
  <2>1. s[k] \in results
    BY ElementOfSeq
  <2> QED BY <2>1, AddChildAdds
<1>3. F \in [1 .. n -> [Accs -> Accs]]
  BY <1>2
<1>4. \A k \in 1 .. n, x \in Accs : F[k][x] = AddChild(x, s[k])
  OBVIOUS
<1> HIDE DEF F
<1>5. PICK g : Iterates(n, Accs, Base, F, g)
  <2> HIDE DEF n
  <2> QED BY <1>0, <1>1, <1>3, Iterated
<1>6. ASSUME NEW k \in 1 .. n PROVE g[k] = AddChild(g[k - 1], s[k])
  <2>1. k - 1 \in 0 .. n
    BY <1>0
  <2> QED BY <1>4, <1>5, <2>1 DEF Iterates
<1>7. g = Step(g)
  <2>0. g = [k \in 0 .. n |-> g[k]]
    BY <1>5 DEF Iterates
  <2> SUFFICES ASSUME NEW k \in 0 .. n PROVE g[k] = Step(g)[k]
    BY <2>0
  <2>1. CASE k = 0
    BY <1>5, <2>1 DEF Iterates
  <2>2. CASE k # 0
    <3>1. k \in 1 .. n
      BY <1>0, <2>2
    <3> QED BY <1>6, <2>2, <3>1
  <2> QED BY <2>1, <2>2
<1>8. h = Step(h)
  BY <1>7
<1>9. AddChildren(s) = h[n]
  BY DEF AddChildren, Base
<1> HIDE DEF h
<1>10. h[0] = Base /\ \A k \in 1 .. n : h[k] = AddChild(h[k - 1], s[k])
  <2>1. \A k \in 0 .. n : h[k] = IF k = 0 THEN Base ELSE AddChild(h[k - 1], s[k])
    BY <1>8
  <2>2. 0 \in 0 .. n /\ \A k \in 1 .. n : k \in 0 .. n /\ k # 0
    BY <1>0
  <2> HIDE DEF n
  <2> QED BY <2>1, <2>2
<1>11. h \in [0 .. n -> Accs]
  <2> DEFINE T == {k \in 0 .. n : h[k] \in Accs}
  <2>1. 0 \in T /\ T \in SUBSET (0 .. n)
    <3>1. 0 \in 0 .. n /\ h[0] \in Accs
      BY <1>0, <1>1, <1>10
    <3> QED BY <3>1
  <2>2. ASSUME NEW k \in 1 .. n, k - 1 \in T PROVE k \in T
    BY <1>0, <1>2, <1>10, <2>2
  <2>3. T = 0 .. n
    <3> HIDE DEF T, n
    <3>1. \A k \in 1 .. n : k - 1 \in T => k \in T
      BY <2>2
    <3> QED BY <1>0, <2>1, <3>1, UpTo
  <2>4. \A k \in 0 .. n : h[k] \in Accs
    BY <2>3
  <2>5. h = [k \in 0 .. n |-> h[k]]
    BY <1>8
  <2> HIDE DEF n
  <2> QED BY <2>4, <2>5
<1> QED BY <1>9, <1>10, <1>11

\* The children c come from the first k answers of s, in their order, and
\* ask for what is not known.
From(s, k, c) ==
    /\ \A i \in DOMAIN c : \E j \in 1 .. k :
          /\ c[i] = GapTask(s[j]) /\ Proposes(s[j])
          /\ Equivalence(c[i]) \notin Known
    /\ \A i, m \in DOMAIN c : i < m =>
          \E j, l \in 1 .. k : j < l /\ c[i] = GapTask(s[j]) /\ c[m] = GapTask(s[l])

LEMMA ChildrenAreNew ==
    ASSUME ResearchAssumption, TypeOK, NEW s \in Seq(results)
    PROVE  LET a == AddChildren(s) IN
           /\ a \in Accs
           /\ usage.exhausted => a.exhausted
           /\ a.tasks = usage.tasks + Len(a.children)
           /\ From(s, Len(s), a.children)
           /\ \A i, j \in DOMAIN a.children :
                 Equivalence(a.children[i]) = Equivalence(a.children[j]) => i = j
<1> DEFINE n == Len(s)
<1>0. n \in Nat
  BY LenProperties
<1>1. PICK g \in [0 .. n -> Accs] :
         /\ g[0] = Base /\ \A k \in 1 .. n : g[k] = AddChild(g[k - 1], s[k])
         /\ AddChildren(s) = g[n]
  BY ChildrenSteps
<1> DEFINE New(k, a) ==
             /\ usage.exhausted => a.exhausted
             /\ a.tasks = usage.tasks + Len(a.children)
             /\ From(s, k, a.children)
             /\ Known \subseteq a.known
             /\ \A i \in DOMAIN a.children : Equivalence(a.children[i]) \in a.known
             /\ \A i, j \in DOMAIN a.children :
                   Equivalence(a.children[i]) = Equivalence(a.children[j]) => i = j
           T == {k \in 0 .. n : New(k, g[k])}
<1>2. 0 \in T /\ T \in SUBSET (0 .. n)
  <2>1. g[0].children = <<>> /\ g[0].known = Known
        /\ g[0].tasks = usage.tasks /\ g[0].exhausted = usage.exhausted
    BY <1>1 DEF Base
  <2>2. usage.tasks \in Nat
    BY DEF TypeOK, ResearchAssumption
  <2>3. From(s, 0, <<>>)
    BY DEF From
  <2>4. New(0, g[0])
    BY <2>1, <2>2, <2>3
  <2> QED BY <1>0, <2>4
<1>3. ASSUME NEW k \in 1 .. n, k - 1 \in T PROVE k \in T
  <2> DEFINE a == g[k - 1]
             b == AddChild(a, s[k])
             new == GapTask(s[k])
  <2>0. k \in 0 .. n /\ k - 1 \in 0 .. n /\ s[k] \in results
    BY <1>0, ElementOfSeq
  <2>1. a \in Accs /\ New(k - 1, a) /\ g[k] = b
    BY <1>1, <1>3, <2>0
  <2>2. /\ b \in Accs /\ (a.exhausted => b.exhausted)
        /\ \/ b.tasks = a.tasks /\ b.known = a.known /\ b.children = a.children
           \/ Adds(a, b, s[k])
    <3> HIDE DEF a
    <3> QED BY <2>0, <2>1, AddChildAdds
  <2>3. \A i \in 1 .. k - 1 : i \in 1 .. k
    BY <1>0
  <2> HIDE DEF a, b, new, n
  <2>4. From(s, k, a.children)
    BY <2>1, <2>3 DEF From
  <2>5. CASE b.tasks = a.tasks /\ b.known = a.known /\ b.children = a.children
    <3>1. New(k, b)
      BY <2>1, <2>2, <2>4, <2>5
    <3> HIDE DEF New
    <3> QED BY <2>0, <2>1, <3>1
  <2>6. CASE Adds(a, b, s[k])
    <3> DEFINE c == a.children
               d == b.children
    <3>1. /\ Proposes(s[k]) /\ Equivalence(new) \notin a.known
          /\ b.tasks = a.tasks + 1 /\ b.known = a.known \cup {Equivalence(new)}
          /\ d = Append(c, new)
      BY <2>6 DEF Adds, new
    <3>2. c \in Seq(Tasks) /\ new \in Tasks /\ a.tasks \in Nat
      BY <2>0, <2>1, GapTaskIsTask DEF Accs, new, ResearchAssumption
    <3> HIDE DEF c, d
    <3>3. /\ d \in Seq(Tasks) /\ Len(d) = Len(c) + 1 /\ DOMAIN d = 1 .. Len(c) + 1
          /\ \A i \in 1 .. Len(c) : d[i] = c[i]
          /\ d[Len(c) + 1] = new
      BY <3>1, <3>2, AppendProperties
    <3>4. Len(c) \in Nat /\ DOMAIN c = 1 .. Len(c)
      BY <3>2, LenProperties
    <3>5. /\ \A i \in DOMAIN d : i \in DOMAIN c \/ i = Len(c) + 1
          /\ \A i \in DOMAIN c : i < Len(c) + 1 /\ d[i] = c[i]
          /\ \A i \in DOMAIN c : ~ (Len(c) + 1 < i)
          /\ ~ (Len(c) + 1 < Len(c) + 1)
      BY <3>3, <3>4
    <3>6. From(s, k - 1, c) /\ Known \subseteq a.known
      BY <2>1 DEF c
    <3>7. Equivalence(new) \notin Known
      BY <3>1, <3>6
    <3>8. k \in 1 .. k /\ \A j \in 1 .. k - 1 : j < k
      BY <1>0
    <3>9. From(s, k, d)
      <4>1. ASSUME NEW i \in DOMAIN d
            PROVE  \E j \in 1 .. k : /\ d[i] = GapTask(s[j]) /\ Proposes(s[j])
                                     /\ Equivalence(d[i]) \notin Known
        BY <2>3, <3>1, <3>3, <3>5, <3>6, <3>7, <3>8 DEF From, new
      <4>2. ASSUME NEW i \in DOMAIN d, NEW m \in DOMAIN d, i < m
            PROVE  \E j, l \in 1 .. k :
                      j < l /\ d[i] = GapTask(s[j]) /\ d[m] = GapTask(s[l])
        <5>1. i \in DOMAIN c
          BY <3>5, <4>2
        <5>2. CASE m \in DOMAIN c
          <6>1. PICK j \in 1 .. k - 1, l \in 1 .. k - 1 :
                   j < l /\ c[i] = GapTask(s[j]) /\ c[m] = GapTask(s[l])
            BY <3>6, <4>2, <5>1, <5>2 DEF From
          <6> QED BY <2>3, <3>5, <5>1, <5>2, <6>1
        <5>3. CASE m = Len(c) + 1
          <6>1. PICK j \in 1 .. k - 1 : c[i] = GapTask(s[j])
            BY <3>6, <5>1 DEF From
          <6>2. d[m] = GapTask(s[k])
            BY <3>3, <5>3 DEF new
          <6> QED BY <2>3, <3>5, <3>8, <5>1, <6>1, <6>2
        <5> QED BY <3>5, <5>2, <5>3
      <4> QED BY <4>1, <4>2 DEF From
    <3>10. b.tasks = usage.tasks + Len(d)
      <4>1. a.tasks = usage.tasks + Len(c) /\ usage.tasks \in Nat
        BY <2>1 DEF TypeOK, ResearchAssumption, c
      <4>2. usage.tasks + (Len(c) + 1) = (usage.tasks + Len(c)) + 1
        <5>1. \A u, l \in Nat : u + (l + 1) = (u + l) + 1
          OBVIOUS
        <5> QED BY <3>4, <4>1, <5>1
      <4>3. b.tasks = a.tasks + 1 /\ Len(d) = Len(c) + 1
        BY <3>1, <3>3
      <4> QED BY <4>1, <4>2, <4>3
    <3>11. \A i \in DOMAIN c : Equivalence(c[i]) \in a.known
      BY <2>1 DEF c
    <3>12. \A i, j \in DOMAIN c : Equivalence(c[i]) = Equivalence(c[j]) => i = j
      BY <2>1 DEF c
    <3>13. \A i \in DOMAIN d : Equivalence(d[i]) \in b.known
      BY <3>1, <3>3, <3>5, <3>11
    <3>14. \A i, j \in DOMAIN d : Equivalence(d[i]) = Equivalence(d[j]) => i = j
      BY <3>1, <3>3, <3>5, <3>11, <3>12
    <3>15. Known \subseteq b.known /\ (usage.exhausted => b.exhausted)
      BY <2>1, <2>2, <3>1
    <3>16. New(k, b)
      BY <3>9, <3>10, <3>13, <3>14, <3>15 DEF d
    <3> HIDE DEF New
    <3> QED BY <2>0, <2>1, <3>16
  <2> QED BY <2>2, <2>5, <2>6
<1>4. T = 0 .. n
  <2> HIDE DEF T, n
  <2>1. \A k \in 1 .. n : k - 1 \in T => k \in T
    BY <1>3
  <2> QED BY <1>0, <1>2, <2>1, UpTo
<1>5. New(n, g[n]) /\ g[n] \in Accs
  <2>1. n \in 0 .. n
    BY <1>0
  <2>2. n \in T
    <3> HIDE DEF T, n
    <3> QED BY <1>4, <2>1
  <2> HIDE DEF New
  <2> QED BY <2>1, <2>2
<1> QED BY <1>1, <1>5

-----------------------------------------------------------------------------
(* The round in order.                                                     *)

LEMMA Enumerated ==
    ASSUME NEW n \in Nat, NEW S, NEW f \in [1 .. n -> S],
           \A i, j \in 1 .. n : f[i] = f[j] => i = j,
           \A x \in S : \E i \in 1 .. n : f[i] = x
    PROVE  IsFiniteSet(S) /\ Cardinality(S) = n
<1>1. f \in Bijection(1 .. n, S)
  <2>1. f \in Injection(1 .. n, S)
    BY DEF Injection, IsInjective
  <2>2. f \in Surjection(1 .. n, S)
    BY DEF Surjection
  <2> QED BY <2>1, <2>2 DEF Bijection
<1>2. ExistsBijection(1 .. n, S)
  BY <1>1 DEF ExistsBijection
<1>3. IsFiniteSet(1 .. n) /\ Cardinality(1 .. n) = n
  <2>1. 1 \in Int /\ n \in Int
    OBVIOUS
  <2>2. /\ IsFiniteSet(1 .. n)
        /\ Cardinality(1 .. n) = IF 1 > n THEN 0 ELSE n - 1 + 1
    BY <2>1, FS_Interval
  <2> QED BY <2>2
<1> QED BY <1>2, <1>3, FS_Bijection

LEMMA BeforeIsStrict == ASSUME NEW a \in Seq(Nat \ {0}) PROVE ~ Before(a, a)
<1>1. Len(a) \in Nat /\ \A n \in 1 .. Len(a) : a[n] \in Nat
  BY LenProperties, ElementOfSeq
<1> QED BY <1>1 DEF Before

LEMMA BeforeSingle ==
    ASSUME NEW j \in Nat, NEW k \in Nat, j < k
    PROVE  Before(<<j>>, <<k>>) /\ Before(Append(<<j>>, 1), Append(<<k>>, 1))
<1>0. 1 \in 1 .. 1 /\ 1 <= 1 /\ 1 - 1 = 0 /\ \A m \in 1 .. 0 : FALSE
  OBVIOUS
<1>1. Len(<<j>>) = 1 /\ Len(<<k>>) = 1 /\ <<j>>[1] = j /\ <<k>>[1] = k
  OBVIOUS
<1>2. ASSUME NEW i \in Nat
      PROVE  Len(Append(<<i>>, 1)) = 2 /\ Append(<<i>>, 1)[1] = i
  <2>1. <<i>> \in Seq(Nat) /\ Len(<<i>>) = 1 /\ <<i>>[1] = i /\ 1 \in Nat
    OBVIOUS
  <2> DEFINE s == <<i>>
             z == 1
  <2>2. s \in Seq(Nat) /\ Len(s) = 1 /\ s[1] = i /\ z \in Nat
    BY <2>1
  <2> HIDE DEF s, z
  <2>3. /\ Len(Append(s, z)) = Len(s) + 1
        /\ \A m \in 1 .. Len(s) : Append(s, z)[m] = s[m]
    <3>1. Len(Append(s, z)) = Len(s) + 1
      BY <2>2, AppendProperties
    <3>2. \A m \in 1 .. Len(s) : Append(s, z)[m] = s[m]
      BY <2>2, AppendProperties
    <3> QED BY <3>1, <3>2
  <2>4. Len(Append(s, z)) = 2
    <3>1. Len(Append(s, z)) = 1 + 1
      BY <2>2, <2>3
    <3> QED BY <3>1
  <2>5. Append(s, z)[1] = i
    <3>1. 1 \in 1 .. Len(s)
      BY <1>0, <2>2
    <3> QED BY <2>2, <2>3, <3>1
  <2> QED BY <2>4, <2>5 DEF s, z
<1>3. 1 \in 1 .. 2 /\ 1 <= 2
  OBVIOUS
<1>4. Before(<<j>>, <<k>>)
  BY <1>0, <1>1 DEF Before
<1>5. Before(Append(<<j>>, 1), Append(<<k>>, 1))
  <2> DEFINE b == Append(<<j>>, 1)
             c == Append(<<k>>, 1)
  <2>1. Len(b) = 2 /\ Len(c) = 2 /\ b[1] = j /\ c[1] = k
    BY <1>2
  <2> HIDE DEF b, c
  <2>2. Before(b, c)
    BY <1>0, <1>3, <2>1 DEF Before
  <2> QED BY <2>2 DEF b, c
<1> QED BY <1>4, <1>5

LEMMA SingleBefore ==
    ASSUME NEW j \in Nat, NEW k \in Nat, Before(<<j>>, <<k>>) PROVE j < k
<1>1. /\ Len(<<j>>) = 1 /\ Len(<<k>>) = 1 /\ <<j>>[1] = j /\ <<k>>[1] = k
  OBVIOUS
<1>2. ~ (1 < 1) /\ \A n \in 1 .. 1 : n = 1
  OBVIOUS
<1> DEFINE b == <<j>>
           c == <<k>>
<1>3. Before(b, c) /\ Len(b) = 1 /\ Len(c) = 1 /\ b[1] = j /\ c[1] = k
  BY <1>1
<1> HIDE DEF b, c
<1>4. \E n \in 1 .. 1 : b[n] < c[n]
  BY <1>2, <1>3 DEF Before
<1> QED BY <1>2, <1>3, <1>4

LEMMA ChildId == ASSUME NEW j \in Nat, NEW k \in Nat PROVE Append(<<j>>, 1) # <<k>>
<1>1. <<j>> \in Seq(Nat) /\ Len(<<j>>) = 1 /\ 1 \in Nat /\ Len(<<k>>) = 1
  OBVIOUS
<1> DEFINE s == <<j>>
           c == <<k>>
           z == 1
<1>2. s \in Seq(Nat) /\ Len(s) = 1 /\ z \in Nat /\ Len(c) = 1
  BY <1>1
<1> HIDE DEF s, c, z
<1>3. Len(Append(s, z)) = Len(s) + 1
  BY <1>2, AppendProperties
<1>4. 1 + 1 # 1
  OBVIOUS
<1>5. Append(s, z) # c
  BY <1>2, <1>3, <1>4
<1> QED BY <1>5 DEF s, c, z

LEMMA PendingTasks ==
    ASSUME TypeOK
    PROVE  /\ Len(pending) \in Nat /\ DOMAIN pending = 1 .. Len(pending)
           /\ \A k \in DOMAIN pending :
                 /\ pending[k] \in Tasks /\ pending[k].id \in Seq(Nat \ {0})
                 /\ pending[k].id \in DOMAIN stage
<1>1. pending \in Seq(Tasks) /\ DOMAIN stage = {pending[i].id : i \in DOMAIN pending}
  BY DEF TypeOK
<1>2. \A k \in DOMAIN pending : pending[k] \in Tasks
  BY <1>1, ElementOfSeq, LenProperties
<1> QED BY <1>1, <1>2, LenProperties DEF Tasks

\* The identifiers of a sequence of tasks in order are different.
LEMMA OrderedDiffer ==
    ASSUME NEW c \in Seq(Tasks),
           \A j, k \in DOMAIN c : j < k => Before(c[j].id, c[k].id)
    PROVE  \A j, k \in DOMAIN c : c[j].id = c[k].id => j = k
<1> SUFFICES ASSUME NEW j \in DOMAIN c, NEW k \in DOMAIN c, c[j].id = c[k].id, j # k
             PROVE  FALSE
  OBVIOUS
<1>1. j \in Nat /\ k \in Nat
  BY LenProperties
<1>2. c[j] \in Tasks
  BY LenProperties, ElementOfSeq
<1>3. c[j].id \in Seq(Nat \ {0})
  BY <1>2 DEF Tasks
<1>4. ~ Before(c[j].id, c[j].id)
  BY <1>3, BeforeIsStrict
<1>5. j < k \/ k < j
  BY <1>1
<1> QED BY <1>4, <1>5

LEMMA PendingDiffer ==
    ASSUME TypeOK, RoundInv
    PROVE  \A j, k \in DOMAIN pending : pending[j].id = pending[k].id => j = k
BY OrderedDiffer DEF TypeOK, RoundInv

LEMMA StageIsFinite ==
    ASSUME TypeOK, RoundInv
    PROVE  IsFiniteSet(DOMAIN stage) /\ Cardinality(DOMAIN stage) = Len(pending)
<1> DEFINE n == Len(pending)
           S == DOMAIN stage
           f == [k \in 1 .. n |-> pending[k].id]
<1>1. n \in Nat /\ DOMAIN pending = 1 .. n
  BY PendingTasks
<1>2. f \in [1 .. n -> S]
  BY <1>1, PendingTasks
<1>3. \A i, j \in 1 .. n : f[i] = f[j] => i = j
  BY <1>1, PendingDiffer
<1>4. \A x \in S : \E i \in 1 .. n : f[i] = x
  BY <1>1 DEF TypeOK
<1> HIDE DEF f, S, n
<1>5. IsFiniteSet(S) /\ Cardinality(S) = n
  BY <1>1, <1>2, <1>3, <1>4, Enumerated
<1> QED BY <1>5 DEF S, n

Current == {r \in results : r.task.id \notin processed}

\* When every worker has returned, the answers to aggregate are one to each
\* task of the round, and can be put in the order of the round.
LEMMA RoundAnswered ==
    ASSUME TypeOK, RoundInv, AnswerInv,
           \A id \in DOMAIN stage : stage[id] = "returned"
    PROVE  /\ {r.task.id : r \in Current} = DOMAIN stage
           /\ \A r \in Current : \E k \in DOMAIN pending : r.task = pending[k]
           /\ InOrder(Current) \in Seq(Current)
           /\ \A j, k \in DOMAIN InOrder(Current) : j < k =>
                 Before(InOrder(Current)[j].task.id, InOrder(Current)[k].task.id)
<1> DEFINE n == Len(pending)
           f == [k \in 1 .. n |-> CHOOSE r \in results : r.task = pending[k]]
<1>1. n \in Nat /\ DOMAIN pending = 1 .. n
  BY PendingTasks
<1>2. ASSUME NEW k \in 1 .. n
      PROVE  f[k] \in Current /\ f[k].task = pending[k]
  <2>1. pending[k].id \in DOMAIN stage
    BY <1>1, PendingTasks
  <2>2. pending[k] \in Answered /\ pending[k].id \notin processed
    BY <1>1, <2>1 DEF AnswerInv
  <2>3. \E r \in results : r.task = pending[k]
    BY <2>2 DEF Answered
  <2>4. f[k] \in results /\ f[k].task = pending[k]
    BY <2>3
  <2> HIDE DEF f
  <2> QED BY <2>2, <2>4 DEF Current
<1>3. ASSUME NEW r \in Current
      PROVE  \E k \in 1 .. n : r.task = pending[k]
  BY <1>1 DEF AnswerInv, Current
<1>4. {r.task.id : r \in Current} = DOMAIN stage
  <2>1. DOMAIN stage = {pending[i].id : i \in 1 .. n}
    BY <1>1 DEF TypeOK
  <2> HIDE DEF f
  <2> QED BY <1>2, <1>3, <2>1
<1>5. f \in [1 .. n -> Current]
  <2>1. f = [k \in 1 .. n |-> f[k]]
    OBVIOUS
  <2> HIDE DEF f, n
  <2> QED BY <1>2, <2>1
<1> HIDE DEF f
<1>6. \A i, j \in 1 .. n : f[i] = f[j] => i = j
  BY <1>1, <1>2, PendingDiffer
<1>7. \A x \in Current : \E i \in 1 .. n : f[i] = x
  <2> SUFFICES ASSUME NEW x \in Current PROVE \E i \in 1 .. n : f[i] = x
    OBVIOUS
  <2>1. PICK i \in 1 .. n : x.task = pending[i]
    BY <1>3
  <2>2. f[i] \in results /\ f[i].task = x.task /\ x \in results
    BY <1>2, <2>1 DEF Current
  <2>3. f[i] = x
    BY <2>2 DEF AnswerInv
  <2> QED BY <2>3
<1>8. Cardinality(Current) = n
  <2> HIDE DEF n
  <2> QED BY <1>1, <1>5, <1>6, <1>7, Enumerated
<1>9. f \in SetToSeqs(Current)
  <2>1. SetToSeqs(Current) = {g \in [1 .. n -> Current] :
                                \A i, j \in 1 .. n : i # j => g[i] # g[j]}
    BY <1>8 DEF SetToSeqs
  <2> HIDE DEF n
  <2> QED BY <1>5, <1>6, <2>1
<1>10. DOMAIN f = 1 .. n
  BY <1>5
<1>11. \A j, k \in DOMAIN f : j < k => Before(f[j].task.id, f[k].task.id)
  BY <1>1, <1>2, <1>10 DEF RoundInv
<1> DEFINE P(s) == \A j, k \in DOMAIN s : j < k => Before(s[j].task.id, s[k].task.id)
<1>12. InOrder(Current) = CHOOSE s \in SetToSeqs(Current) : P(s)
  BY DEF InOrder
<1>13. P(f)
  BY <1>11
<1> DEFINE s == InOrder(Current)
<1>14. s \in SetToSeqs(Current) /\ P(s)
  <2> HIDE DEF P
  <2> QED BY <1>9, <1>12, <1>13
<1>15. s \in Seq(Current)
  <2>1. s \in [1 .. n -> Current]
    BY <1>8, <1>14 DEF SetToSeqs
  <2> HIDE DEF s, n
  <2> QED BY <1>1, <2>1
<1> QED BY <1>1, <1>3, <1>4, <1>14, <1>15

-----------------------------------------------------------------------------
(* What a worker's step does to the round.                                 *)

Usages == [llm : 0 .. 1, tasks : 0 .. MaxTasks, retrievals : 0 .. MaxRetrievals,
           analyses : 0 .. MaxAnalyses, exhausted : BOOLEAN]

Answers == [task : Tasks, evidence : SUBSET Items, error : Errors,
            analysed : BOOLEAN]

LEMMA FiniteSets ==
    ASSUME TypeOK, RoundInv, CountInv
    PROVE  /\ IsFiniteSet(Running) /\ IsFiniteSet(Analysing)
           /\ IsFiniteSet(Paid) /\ IsFiniteSet(WithAnalysis)
<1>1. Running \in SUBSET DOMAIN stage /\ Analysing \in SUBSET DOMAIN stage
  BY DEF Running, Analysing
<1>2. Paid \in SUBSET results /\ WithAnalysis \in SUBSET results
  BY DEF Paid, WithAnalysis
<1>3. IsFiniteSet(DOMAIN stage) /\ IsFiniteSet(results)
  BY StageIsFinite DEF CountInv
<1> QED BY <1>1, <1>2, <1>3, FS_Subset

\* A worker that goes on.
LEMMA Move ==
    ASSUME TypeOK, NEW k \in DOMAIN pending, NEW where \in {"retrieving", "analysing"},
           Goes(pending[k], where)
    PROVE  /\ DOMAIN stage' = DOMAIN stage
           /\ stage'[pending[k].id] = where
           /\ \A id \in DOMAIN stage : id # pending[k].id => stage'[id] = stage[id]
           /\ Running' = Running \cup {pending[k].id}
           /\ where = "analysing" => Analysing' = Analysing \cup {pending[k].id}
           /\ where = "retrieving" => Analysing' = Analysing \ {pending[k].id}
<1> DEFINE x == pending[k].id
<1>1. stage' = [stage EXCEPT ![x] = where]
  BY DEF Goes
<1>2. x \in DOMAIN stage
  BY PendingTasks
<1> HIDE DEF x
<1>3. /\ DOMAIN stage' = DOMAIN stage /\ stage'[x] = where
      /\ \A id \in DOMAIN stage : id # x => stage'[id] = stage[id]
  BY <1>1, <1>2
<1>4. Running' = Running \cup {x}
  BY <1>2, <1>3 DEF Running
<1>5. where = "analysing" => Analysing' = Analysing \cup {x}
  BY <1>2, <1>3 DEF Analysing
<1>6. where = "retrieving" => Analysing' = Analysing \ {x}
  BY <1>2, <1>3 DEF Analysing
<1> QED BY <1>3, <1>4, <1>5, <1>6 DEF x

\* A worker that returns.
LEMMA Return ==
    ASSUME TypeOK, NEW k \in DOMAIN pending, NEW r, Returns(pending[k], r)
    PROVE  /\ DOMAIN stage' = DOMAIN stage
           /\ stage'[pending[k].id] = "returned"
           /\ \A id \in DOMAIN stage : id # pending[k].id => stage'[id] = stage[id]
           /\ Running' = Running \ {pending[k].id}
           /\ Analysing' = Analysing \ {pending[k].id}
<1> DEFINE x == pending[k].id
<1>1. stage' = [stage EXCEPT ![x] = "returned"]
  BY DEF Returns
<1>2. x \in DOMAIN stage
  BY PendingTasks
<1> HIDE DEF x
<1>3. /\ DOMAIN stage' = DOMAIN stage /\ stage'[x] = "returned"
      /\ \A id \in DOMAIN stage : id # x => stage'[id] = stage[id]
  BY <1>1, <1>2
<1>4. Running' = Running \ {x}
  BY <1>2, <1>3 DEF Running
<1>5. Analysing' = Analysing \ {x}
  BY <1>2, <1>3 DEF Analysing
<1> QED BY <1>3, <1>4, <1>5 DEF x

LEMMA MoveKeeps ==
    ASSUME ResearchInv, phase = "execute", usage.exhausted => usage'.exhausted,
           NEW k \in DOMAIN pending, NEW where \in {"retrieving", "analysing"},
           stage[pending[k].id] # "returned", Goes(pending[k], where)
    PROVE  PlanInv' /\ RoundInv' /\ DispatchInv' /\ AnswerInv' /\ DoneInv'
<1>1. /\ UNCHANGED <<corpus, mayAnalyse, phase, plan, pending, results, processed,
                     outcome>>
  BY DEF Goes, environment
<1>2. /\ stage'[pending[k].id] = where
      /\ \A id \in DOMAIN stage : id # pending[k].id => stage'[id] = stage[id]
  BY Move DEF ResearchInv
<1>3. PlanInv'
  BY <1>1 DEF ResearchInv, PlanInv, Key
<1>4. Planned' = Planned /\ Answered' = Answered /\ Dispatched' = Dispatched
  BY <1>1 DEF Planned, Answered, Dispatched
<1>5. RoundInv'
  <2>1. RoundInv /\ phase' = "execute" /\ processed' = processed /\ pending' = pending
    BY <1>1 DEF ResearchInv
  <2> QED BY <1>4, <2>1 DEF RoundInv
<1>6. DispatchInv'
  <2>1. \A t : Matching(t)' = Matching(t')
    BY <1>1 DEF Matching
  <2>2. DispatchInv
    BY DEF ResearchInv
  <2> QED BY <1>1, <1>4, <2>1, <2>2 DEF DispatchInv, Same, Key, Equivalence, Matching
<1>7. AnswerInv'
  <2>1. AnswerInv
    BY DEF ResearchInv
  <2>2. \A j \in DOMAIN pending : pending[j].id \in DOMAIN stage
    BY PendingTasks DEF ResearchInv
  <2>3. \A j \in DOMAIN pending :
           (stage'[pending[j].id] = "returned") <=> (stage[pending[j].id] = "returned")
    BY <1>2, <2>2
  <2> QED BY <1>1, <1>4, <2>1, <2>3 DEF AnswerInv, Matching
<1>8. DoneInv'
  BY <1>1 DEF DoneInv
<1> QED BY <1>3, <1>5, <1>6, <1>7, <1>8

LEMMA ReturnKeeps ==
    ASSUME ResearchInv, phase = "execute", usage.exhausted => usage'.exhausted,
           NEW k \in DOMAIN pending, stage[pending[k].id] # "returned",
           NEW r, r.task = pending[k],
           r.error = "none" => r.evidence = Matching(pending[k]),
           Returns(pending[k], r)
    PROVE  /\ PlanInv' /\ RoundInv' /\ DispatchInv' /\ AnswerInv' /\ DoneInv'
           /\ r \notin results
<1>1. /\ UNCHANGED <<corpus, mayAnalyse, phase, plan, pending, processed, outcome>>
      /\ results' = results \cup {r}
  BY DEF Returns, environment
<1>2. /\ stage'[pending[k].id] = "returned"
      /\ \A id \in DOMAIN stage : id # pending[k].id => stage'[id] = stage[id]
  BY Return DEF ResearchInv
<1>3. PlanInv'
  BY <1>1 DEF ResearchInv, PlanInv, Key
<1>4. /\ Planned' = Planned /\ Answered' = Answered \cup {pending[k]}
      /\ Dispatched' = Dispatched
  <2>1. Answered' = Answered \cup {pending[k]}
    BY <1>1 DEF Answered
  <2>2. {pending[j] : j \in DOMAIN pending}' = {pending[j] : j \in DOMAIN pending}
    BY <1>1
  <2>3. pending[k] \in {pending[j] : j \in DOMAIN pending}
    OBVIOUS
  <2> QED BY <1>1, <2>1, <2>2, <2>3 DEF Planned, Dispatched
<1>5. RoundInv'
  <2>1. RoundInv /\ phase' = "execute" /\ processed' = processed /\ pending' = pending
    BY <1>1 DEF ResearchInv
  <2> QED BY <1>4, <2>1 DEF RoundInv
<1>6. DispatchInv'
  <2>2. DispatchInv
    BY DEF ResearchInv
  <2> QED BY <1>1, <1>4, <2>2 DEF DispatchInv, Same, Key, Equivalence, Matching
<1>7. /\ AnswerInv /\ TypeOK /\ RoundInv
      /\ \A j \in DOMAIN pending : pending[j].id \in DOMAIN stage
  BY PendingTasks DEF ResearchInv
<1>8. ASSUME NEW q \in results PROVE q.task # pending[k]
  <2> SUFFICES ASSUME q.task = pending[k] PROVE FALSE
    OBVIOUS
  <2>1. pending[k].id \notin processed
    BY <1>7 DEF AnswerInv
  <2>2. PICK j \in DOMAIN pending :
           q.task = pending[j] /\ stage[pending[j].id] = "returned"
    BY <1>7, <2>1 DEF AnswerInv
  <2> QED BY <2>2
<1>9. AnswerInv'
  <2>1. \A j \in DOMAIN pending :
           stage[pending[j].id] = "returned" => stage'[pending[j].id] = "returned"
    BY <1>2, <1>7
  <2>2. \A j \in DOMAIN pending : stage'[pending[j].id] = "returned" =>
           j = k \/ stage[pending[j].id] = "returned"
    BY <1>2, <1>7, PendingDiffer
  <2>3. \A p, q \in results' : p.task = q.task => p = q
    BY <1>1, <1>7, <1>8 DEF AnswerInv
  <2>4. \A q \in results' : q.error = "none" => q.evidence = Matching(q.task)'
    BY <1>1, <1>7 DEF AnswerInv, Matching
  <2>5. \A q \in results' :
           \/ q.task.id \in processed
           \/ \E j \in DOMAIN pending :
                 q.task = pending[j] /\ stage'[pending[j].id] = "returned"
    BY <1>1, <1>2, <1>7, <2>1 DEF AnswerInv
  <2>6. \A j \in DOMAIN pending : pending[j].id \notin processed
    BY <1>7 DEF AnswerInv
  <2>7. \A j \in DOMAIN pending :
           stage'[pending[j].id] = "returned" => pending[j] \in Answered'
    BY <1>4, <1>7, <2>2 DEF AnswerInv
  <2> QED BY <1>1, <2>3, <2>4, <2>5, <2>6, <2>7 DEF AnswerInv
<1>10. DoneInv'
  BY <1>1 DEF DoneInv
<1> QED BY <1>3, <1>5, <1>6, <1>8, <1>9, <1>10

LEMMA MoveTypes ==
    ASSUME TypeOK, NEW k \in DOMAIN pending,
           NEW where \in {"retrieving", "analysing"}, Goes(pending[k], where),
           usage' \in Usages, Cardinality(Running') <= MaxWorkers
    PROVE  TypeOK'
<1>1. UNCHANGED <<corpus, mayAnalyse, phase, plan, pending, results, processed,
                  outcome>>
  BY DEF Goes, environment
<1>2. /\ DOMAIN stage' = DOMAIN stage /\ stage'[pending[k].id] = where
      /\ \A id \in DOMAIN stage : id # pending[k].id => stage'[id] = stage[id]
  BY Move
<1>3. \A id \in DOMAIN stage' :
         stage'[id] \in {"waiting", "retrieving", "analysing", "returned"}
  BY <1>2 DEF TypeOK
<1>4. /\ corpus \in [Queries -> SUBSET Items] /\ mayAnalyse \in BOOLEAN
      /\ phase \in {"plan", "execute", "finalize", "done", "raised"}
      /\ plan \in [tasks : Seq(Tasks), required : SUBSET Dims]
      /\ pending \in Seq(Tasks)
      /\ DOMAIN stage = {pending[i].id : i \in DOMAIN pending}
      /\ results \subseteq Answers
      /\ processed \subseteq {r.task.id : r \in results}
      /\ outcome.partial \in BOOLEAN
  BY DEF TypeOK, Answers
<1> QED BY <1>1, <1>2, <1>3, <1>4 DEF TypeOK, Usages, Answers

LEMMA ReturnTypes ==
    ASSUME ResearchAssumption, ResearchInv, NEW k \in DOMAIN pending,
           NEW r \in Answers, Returns(pending[k], r), usage' \in Usages
    PROVE  TypeOK'
<1>1. /\ UNCHANGED <<corpus, mayAnalyse, phase, plan, pending, processed, outcome>>
      /\ results' = results \cup {r}
  BY DEF Returns, environment
<1>0. TypeOK
  BY DEF ResearchInv
<1>2. /\ DOMAIN stage' = DOMAIN stage /\ stage'[pending[k].id] = "returned"
      /\ \A id \in DOMAIN stage : id # pending[k].id => stage'[id] = stage[id]
      /\ Running' = Running \ {pending[k].id}
  BY <1>0, Return
<1>3. \A id \in DOMAIN stage' :
         stage'[id] \in {"waiting", "retrieving", "analysing", "returned"}
  BY <1>0, <1>2 DEF TypeOK
<1>4. /\ corpus \in [Queries -> SUBSET Items] /\ mayAnalyse \in BOOLEAN
      /\ phase \in {"plan", "execute", "finalize", "done", "raised"}
      /\ plan \in [tasks : Seq(Tasks), required : SUBSET Dims]
      /\ pending \in Seq(Tasks)
      /\ DOMAIN stage = {pending[i].id : i \in DOMAIN pending}
      /\ results \subseteq Answers
      /\ processed \subseteq {q.task.id : q \in results}
      /\ outcome.partial \in BOOLEAN
  BY <1>0 DEF TypeOK, Answers
<1>5. Cardinality(Running') <= MaxWorkers
  <2>1. IsFiniteSet(Running)
    BY FiniteSets DEF ResearchInv
  <2>2. Cardinality(Running) \in Nat /\ Cardinality(Running) <= MaxWorkers
    BY <1>0, <2>1, FS_CardinalityType DEF TypeOK
  <2>3. Running' \in SUBSET Running
    BY <1>2
  <2>4. IsFiniteSet(Running') /\ Cardinality(Running') <= Cardinality(Running)
    BY <2>1, <2>3, FS_Subset
  <2>5. Cardinality(Running') \in Nat
    BY <2>4, FS_CardinalityType
  <2>6. MaxWorkers \in Nat
    BY DEF ResearchAssumption
  <2> QED BY <2>2, <2>4, <2>5, <2>6
<1>6. results' \subseteq Answers /\ processed \subseteq {q.task.id : q \in results'}
  BY <1>1, <1>4
<1> QED BY <1>1, <1>2, <1>3, <1>4, <1>5, <1>6 DEF TypeOK, Usages, Answers

LEMMA Usage ==
    ASSUME TypeOK
    PROVE  /\ usage \in Usages
           /\ usage = [llm |-> usage.llm, tasks |-> usage.tasks,
                       retrievals |-> usage.retrievals, analyses |-> usage.analyses,
                       exhausted |-> usage.exhausted]
           /\ usage.llm \in 0 .. 1 /\ usage.tasks \in 0 .. MaxTasks
           /\ usage.retrievals \in 0 .. MaxRetrievals
           /\ usage.analyses \in 0 .. MaxAnalyses /\ usage.exhausted \in BOOLEAN
BY DEF TypeOK, Usages

\* How many calls are paid for, running, and with analysis.
LEMMA Counts ==
    ASSUME ResearchInv
    PROVE  /\ Cardinality(Paid) \in Nat /\ Cardinality(Running) \in Nat
           /\ Cardinality(WithAnalysis) \in Nat /\ Cardinality(Analysing) \in Nat
           /\ IsFiniteSet(Running) /\ IsFiniteSet(Analysing)
           /\ IsFiniteSet(Paid) /\ IsFiniteSet(WithAnalysis) /\ IsFiniteSet(results)
<1>1. /\ IsFiniteSet(Running) /\ IsFiniteSet(Analysing)
      /\ IsFiniteSet(Paid) /\ IsFiniteSet(WithAnalysis)
  BY FiniteSets DEF ResearchInv
<1>2. IsFiniteSet(results)
  BY DEF ResearchInv, CountInv
<1> QED BY <1>1, <1>2, FS_CardinalityType

LEMMA Searching ==
    ASSUME ResearchAssumption, ResearchInv, NEW k \in DOMAIN pending, Search(k)
    PROVE  ResearchInv'
<1> DEFINE x == pending[k].id
<1>0. TypeOK /\ CountInv /\ x \in DOMAIN stage
  BY PendingTasks DEF ResearchInv
<1>1. /\ phase = "execute" /\ stage[x] = "waiting"
      /\ Cardinality(Running) < MaxWorkers /\ usage.retrievals < MaxRetrievals
      /\ usage' = [usage EXCEPT !.retrievals = @ + 1]
      /\ Goes(pending[k], "retrieving")
  BY DEF Search, IsNext
<1>2. /\ usage'.llm = usage.llm /\ usage'.tasks = usage.tasks
      /\ usage'.retrievals = usage.retrievals + 1 /\ usage'.analyses = usage.analyses
      /\ usage'.exhausted = usage.exhausted
      /\ usage' = [llm |-> usage.llm, tasks |-> usage.tasks,
                   retrievals |-> usage.retrievals + 1, analyses |-> usage.analyses,
                   exhausted |-> usage.exhausted]
  BY <1>0, <1>1, Usage
<1>3. usage' \in Usages
  <2>1. usage.retrievals + 1 \in 0 .. MaxRetrievals
    BY <1>0, <1>1, Usage DEF ResearchAssumption
  <2> QED BY <1>0, <1>2, <2>1, Usage DEF Usages
<1>4. /\ Running' = Running \cup {x} /\ Analysing' = Analysing \ {x}
      /\ x \notin Running /\ x \notin Analysing
  BY <1>0, <1>1, Move DEF Running, Analysing
<1>5. Cardinality(Running') = Cardinality(Running) + 1 /\ Analysing' = Analysing
  <2>1. IsFiniteSet(Running)
    BY Counts
  <2>2. Cardinality(Running \cup {x}) = Cardinality(Running) + 1
    BY <1>4, <2>1, FS_AddElement
  <2> QED BY <1>4, <2>2
<1>6. Cardinality(Running') <= MaxWorkers
  BY <1>1, <1>5, Counts DEF ResearchAssumption
<1>7. TypeOK'
  BY <1>0, <1>1, <1>3, <1>6, MoveTypes
<1>8. PlanInv' /\ RoundInv' /\ DispatchInv' /\ AnswerInv' /\ DoneInv'
  <2>1. stage[pending[k].id] # "returned" /\ (usage.exhausted => usage'.exhausted)
    BY <1>1, <1>2
  <2> QED BY <1>1, <2>1, MoveKeeps
<1>9. CountInv'
  <2>1. UNCHANGED <<phase, pending, results, processed>>
    BY <1>1 DEF Goes
  <2>2. Paid' = Paid /\ WithAnalysis' = WithAnalysis
    BY <2>1 DEF Paid, WithAnalysis
  <2>3. usage'.retrievals = Cardinality(Paid) + Cardinality(Running')
    <3>1. usage.retrievals = Cardinality(Paid) + Cardinality(Running)
      BY <1>0 DEF CountInv
    <3>2. \A u, p, q \in Nat : u = p + q => u + 1 = p + (q + 1)
      OBVIOUS
    <3>3. usage.retrievals \in Nat /\ Cardinality(Paid) \in Nat
          /\ Cardinality(Running) \in Nat
      BY <1>0, Usage, Counts DEF ResearchAssumption
    <3> QED BY <1>2, <1>5, <3>1, <3>2, <3>3
  <2> QED BY <1>0, <1>2, <1>5, <2>1, <2>2, <2>3 DEF CountInv
<1> QED BY <1>7, <1>8, <1>9 DEF ResearchInv

LEMMA Analyzing ==
    ASSUME ResearchAssumption, ResearchInv, NEW k \in DOMAIN pending,
           FoundAndAnalyses(k)
    PROVE  ResearchInv'
<1> DEFINE x == pending[k].id
<1>0. TypeOK /\ CountInv /\ x \in DOMAIN stage
  BY PendingTasks DEF ResearchInv
<1>1. /\ phase = "execute" /\ stage[x] = "retrieving"
      /\ usage.analyses < MaxAnalyses
      /\ usage' = [usage EXCEPT !.analyses = @ + 1]
      /\ Goes(pending[k], "analysing")
  BY DEF FoundAndAnalyses
<1>2. /\ usage'.llm = usage.llm /\ usage'.tasks = usage.tasks
      /\ usage'.retrievals = usage.retrievals
      /\ usage'.analyses = usage.analyses + 1
      /\ usage'.exhausted = usage.exhausted
      /\ usage' = [llm |-> usage.llm, tasks |-> usage.tasks,
                   retrievals |-> usage.retrievals, analyses |-> usage.analyses + 1,
                   exhausted |-> usage.exhausted]
  BY <1>0, <1>1, Usage
<1>3. usage' \in Usages
  <2>1. usage.analyses + 1 \in 0 .. MaxAnalyses
    BY <1>0, <1>1, Usage DEF ResearchAssumption
  <2> QED BY <1>0, <1>2, <2>1, Usage DEF Usages
<1>4. /\ Running' = Running \cup {x} /\ Analysing' = Analysing \cup {x}
      /\ x \in Running /\ x \notin Analysing
  BY <1>0, <1>1, Move DEF Running, Analysing
<1>5. Cardinality(Analysing') = Cardinality(Analysing) + 1 /\ Running' = Running
  <2>1. IsFiniteSet(Analysing)
    BY Counts
  <2>2. Cardinality(Analysing \cup {x}) = Cardinality(Analysing) + 1
    BY <1>4, <2>1, FS_AddElement
  <2> QED BY <1>4, <2>2
<1>6. Cardinality(Running') <= MaxWorkers
  BY <1>0, <1>5 DEF TypeOK
<1>7. TypeOK'
  BY <1>0, <1>1, <1>3, <1>6, MoveTypes
<1>8. PlanInv' /\ RoundInv' /\ DispatchInv' /\ AnswerInv' /\ DoneInv'
  <2>1. stage[pending[k].id] # "returned" /\ (usage.exhausted => usage'.exhausted)
    BY <1>1, <1>2
  <2> QED BY <1>1, <2>1, MoveKeeps
<1>9. CountInv'
  <2>1. UNCHANGED <<phase, pending, results, processed>>
    BY <1>1 DEF Goes
  <2>2. Paid' = Paid /\ WithAnalysis' = WithAnalysis
    BY <2>1 DEF Paid, WithAnalysis
  <2>3. Cardinality(WithAnalysis) + Cardinality(Analysing') <= usage'.analyses
    <3>1. Cardinality(WithAnalysis) + Cardinality(Analysing) <= usage.analyses
      BY <1>0 DEF CountInv
    <3>2. \A u, p, q \in Nat : p + q <= u => p + (q + 1) <= u + 1
      OBVIOUS
    <3>3. usage.analyses \in Nat /\ Cardinality(WithAnalysis) \in Nat
          /\ Cardinality(Analysing) \in Nat
      BY <1>0, Usage, Counts DEF ResearchAssumption
    <3> QED BY <1>2, <1>5, <3>1, <3>2, <3>3
  <2> QED BY <1>0, <1>2, <1>5, <2>1, <2>2, <2>3 DEF CountInv
<1> QED BY <1>7, <1>8, <1>9 DEF ResearchInv

\* A worker that was turned away has spent nothing, every other one its call.
LEMMA ReturnCounts ==
    ASSUME ResearchInv, NEW k \in DOMAIN pending, NEW r \in Answers,
           stage[pending[k].id] # "returned", r \notin results,
           Returns(pending[k], r),
           r.error = "budget_exhausted" <=> stage[pending[k].id] = "waiting",
           r.analysed => stage[pending[k].id] = "analysing"
    PROVE  /\ IsFiniteSet(results')
           /\ Cardinality(Paid') + Cardinality(Running')
                = Cardinality(Paid) + Cardinality(Running)
           /\ Cardinality(WithAnalysis') + Cardinality(Analysing')
                <= Cardinality(WithAnalysis) + Cardinality(Analysing)
<1> DEFINE x == pending[k].id
<1>0. /\ TypeOK /\ x \in DOMAIN stage
      /\ stage[x] \in {"waiting", "retrieving", "analysing"}
  <2>1. TypeOK /\ x \in DOMAIN stage
    BY PendingTasks DEF ResearchInv
  <2> QED BY <2>1 DEF TypeOK
<1>1. results' = results \cup {r}
  BY DEF Returns
<1>2. Running' = Running \ {x} /\ Analysing' = Analysing \ {x}
  BY <1>0, Return
<1>3. /\ x \in Running <=> stage[x] # "waiting"
      /\ x \in Analysing <=> stage[x] = "analysing"
  BY <1>0 DEF Running, Analysing
<1>4. IsFiniteSet(results')
  BY <1>1, Counts, FS_AddElement
<1>5. Cardinality(Running') = IF stage[x] = "waiting" THEN Cardinality(Running)
                              ELSE Cardinality(Running) - 1
  <2> HIDE DEF x
  <2> QED BY <1>2, <1>3, Counts, FS_RemoveElement
<1>6. Cardinality(Analysing') = IF stage[x] = "analysing" THEN Cardinality(Analysing) - 1
                                ELSE Cardinality(Analysing)
  <2> HIDE DEF x
  <2> QED BY <1>2, <1>3, Counts, FS_RemoveElement
<1>7. Cardinality(Paid') = IF stage[x] = "waiting" THEN Cardinality(Paid)
                           ELSE Cardinality(Paid) + 1
  <2>1. r \notin Paid
    BY DEF Paid
  <2>2. Paid' = IF stage[x] = "waiting" THEN Paid ELSE Paid \cup {r}
    BY <1>1 DEF Paid
  <2> HIDE DEF x
  <2> QED BY <2>1, <2>2, Counts, FS_AddElement
<1>8. Cardinality(WithAnalysis')
         <= IF stage[x] = "analysing" THEN Cardinality(WithAnalysis) + 1
            ELSE Cardinality(WithAnalysis)
  <2>1. WithAnalysis' = WithAnalysis
        \/ (WithAnalysis' = WithAnalysis \cup {r} /\ stage[x] = "analysing")
    BY <1>1 DEF WithAnalysis
  <2>2. /\ Cardinality(WithAnalysis) \in Nat
        /\ Cardinality(WithAnalysis \cup {r}) = Cardinality(WithAnalysis)
             \/ Cardinality(WithAnalysis \cup {r}) = Cardinality(WithAnalysis) + 1
    BY Counts, FS_AddElement
  <2>3. \A c \in Nat : c <= c + 1 /\ c <= c /\ c + 1 <= c + 1
    OBVIOUS
  <2> DEFINE c == Cardinality(WithAnalysis)
             d == Cardinality(WithAnalysis \cup {r})
             e == Cardinality(WithAnalysis')
             A == stage[x] = "analysing"
  <2>4. e = c \/ (e = d /\ A)
    BY <2>1
  <2> HIDE DEF c, d, e, A, x
  <2>5. c \in Nat /\ (d = c \/ d = c + 1)
    BY <2>2 DEF c, d
  <2>6. CASE A
    BY <2>3, <2>4, <2>5, <2>6 DEF A, c, e
  <2>7. CASE ~A
    BY <2>3, <2>4, <2>5, <2>7 DEF A, c, e
  <2> QED BY <2>6, <2>7
<1>9. /\ Cardinality(Paid) \in Nat /\ Cardinality(Running) \in Nat
      /\ Cardinality(WithAnalysis) \in Nat /\ Cardinality(Analysing) \in Nat
      /\ Cardinality(WithAnalysis') \in Nat
  <2>1. WithAnalysis' \in SUBSET results'
    BY DEF WithAnalysis
  <2> QED BY <1>4, <2>1, Counts, FS_Subset, FS_CardinalityType
<1>10. \A p, q \in Nat : (p + 1) + (q - 1) = p + q
  OBVIOUS
<1>11. Cardinality(Paid') + Cardinality(Running') = Cardinality(Paid) + Cardinality(Running)
  BY <1>5, <1>7, <1>9, <1>10
<1>12. \A m, p, q \in Nat : /\ m <= p + 1 => m + (q - 1) <= p + q
                            /\ m <= p => m + q <= p + q
  OBVIOUS
<1>13. Cardinality(WithAnalysis') + Cardinality(Analysing')
         <= Cardinality(WithAnalysis) + Cardinality(Analysing)
  BY <1>6, <1>8, <1>9, <1>12
<1> QED BY <1>4, <1>11, <1>13

LEMMA Returning ==
    ASSUME ResearchAssumption, ResearchInv, phase = "execute",
           NEW k \in DOMAIN pending, stage[pending[k].id] # "returned",
           NEW r \in Answers, r.task = pending[k],
           r.error = "none" => r.evidence = Matching(pending[k]),
           r.error = "budget_exhausted" <=> stage[pending[k].id] = "waiting",
           r.analysed => stage[pending[k].id] = "analysing",
           Returns(pending[k], r),
           usage' \in Usages, usage.exhausted => usage'.exhausted,
           usage'.tasks = usage.tasks, usage'.retrievals = usage.retrievals,
           usage'.analyses = usage.analyses
    PROVE  ResearchInv'
<1>1. TypeOK'
  BY ReturnTypes
<1>2. /\ PlanInv' /\ RoundInv' /\ DispatchInv' /\ AnswerInv' /\ DoneInv'
      /\ r \notin results
  BY ReturnKeeps
<1>3. /\ IsFiniteSet(results')
      /\ Cardinality(Paid') + Cardinality(Running')
           = Cardinality(Paid) + Cardinality(Running)
      /\ Cardinality(WithAnalysis') + Cardinality(Analysing')
           <= Cardinality(WithAnalysis) + Cardinality(Analysing)
  BY <1>2, ReturnCounts
<1>4. UNCHANGED <<phase, pending, processed>> /\ CountInv
  BY DEF Returns, ResearchInv
<1>5. Cardinality(WithAnalysis') + Cardinality(Analysing') <= usage'.analyses
  <2>1. /\ Cardinality(WithAnalysis) + Cardinality(Analysing) <= usage.analyses
        /\ usage.analyses \in Nat
    <3>1. TypeOK
      BY DEF ResearchInv
    <3> QED BY <1>4, <3>1 DEF CountInv, TypeOK, ResearchAssumption
  <2>2. /\ Cardinality(WithAnalysis) + Cardinality(Analysing) \in Nat
        /\ Cardinality(WithAnalysis') + Cardinality(Analysing') \in Nat
    <3>1. IsFiniteSet(WithAnalysis') /\ IsFiniteSet(Analysing')
      <4>1. WithAnalysis' \in SUBSET results' /\ Analysing' \in SUBSET Analysing
        <5>1. TypeOK
          BY DEF ResearchInv
        <5> QED BY <5>1, Return DEF WithAnalysis
      <4> QED BY <1>3, <4>1, Counts, FS_Subset
    <3> QED BY <3>1, Counts, FS_CardinalityType
  <2>3. \A a, b, c \in Nat : a <= b /\ b <= c => a <= c
    OBVIOUS
  <2>4. Cardinality(WithAnalysis') + Cardinality(Analysing') <= usage.analyses
    BY <1>3, <2>1, <2>2, <2>3
  <2> QED BY <2>4
<1>6. CountInv'
  BY <1>3, <1>4, <1>5 DEF CountInv
<1> QED BY <1>1, <1>2, <1>6 DEF ResearchInv

LEMMA ResultIsAnswer ==
    ASSUME TypeOK, NEW t \in Tasks, NEW evidence \in SUBSET Items,
           NEW error \in Errors, NEW analysed \in BOOLEAN
    PROVE  /\ Result(t, evidence, error, analysed) \in Answers
           /\ Result(t, evidence, error, analysed).task = t
           /\ Result(t, evidence, error, analysed).evidence = evidence
           /\ Result(t, evidence, error, analysed).error = error
           /\ Result(t, evidence, error, analysed).analysed = analysed
BY DEF Result, Answers

LEMMA MatchingIsItems ==
    ASSUME TypeOK, NEW t \in Tasks PROVE Matching(t) \in SUBSET Items
<1>1. t.query \in Queries
  BY DEF Tasks
<1>2. corpus[t.query] \in SUBSET Items
  BY <1>1 DEF TypeOK
<1> QED BY <1>2 DEF Matching

LEMMA Refusing ==
    ASSUME ResearchAssumption, ResearchInv, NEW k \in DOMAIN pending, SearchRefused(k)
    PROVE  ResearchInv'
<1> DEFINE r == Result(pending[k], {}, "budget_exhausted", FALSE)
<1>0. TypeOK /\ pending[k] \in Tasks
  BY PendingTasks DEF ResearchInv
<1>1. /\ phase = "execute" /\ stage[pending[k].id] = "waiting"
      /\ usage' = [usage EXCEPT !.exhausted = TRUE]
      /\ Returns(pending[k], r)
  BY DEF SearchRefused, IsNext
<1>2. /\ r \in Answers /\ r.task = pending[k] /\ r.error = "budget_exhausted"
      /\ r.analysed = FALSE
  <2>1. {} \in SUBSET Items /\ "budget_exhausted" \in Errors
    BY DEF Errors
  <2> QED BY <1>0, <2>1 DEF Result, Answers
<1>3. /\ usage' \in Usages /\ usage'.exhausted
      /\ usage'.tasks = usage.tasks /\ usage'.retrievals = usage.retrievals
      /\ usage'.analyses = usage.analyses
  BY <1>0, <1>1, Usage DEF Usages
<1> HIDE DEF r
<1> QED BY <1>1, <1>2, <1>3, Returning

LEMMA Failing ==
    ASSUME ResearchAssumption, ResearchInv, NEW k \in DOMAIN pending, SearchFails(k)
    PROVE  ResearchInv'
<1>0. TypeOK /\ pending[k] \in Tasks
  BY PendingTasks DEF ResearchInv
<1>1. PICK error \in {"worker_timeout", "retrieval_failure"} :
         Returns(pending[k], Result(pending[k], {}, error, FALSE))
  BY DEF SearchFails
<1> DEFINE r == Result(pending[k], {}, error, FALSE)
<1>2. phase = "execute" /\ stage[pending[k].id] = "retrieving" /\ usage' = usage
  BY DEF SearchFails
<1>3. r \in Answers /\ r.task = pending[k] /\ r.error = error /\ r.analysed = FALSE
  <2>1. {} \in SUBSET Items /\ error \in Errors
    BY DEF Errors
  <2> QED BY <1>0, <2>1 DEF Result, Answers
<1>4. Returns(pending[k], r) /\ usage' \in Usages
  BY <1>0, <1>1, <1>2, Usage
<1> HIDE DEF r
<1>5. r.error # "none" /\ r.error # "budget_exhausted"
  BY <1>3
<1> QED BY <1>2, <1>3, <1>4, <1>5, Returning

LEMMA Finding ==
    ASSUME ResearchAssumption, ResearchInv, NEW k \in DOMAIN pending, Found(k)
    PROVE  ResearchInv'
<1> DEFINE r == Result(pending[k], Matching(pending[k]), "none", FALSE)
           wanted == pending[k].analysis /\ mayAnalyse
<1>0. TypeOK /\ pending[k] \in Tasks
  BY PendingTasks DEF ResearchInv
<1>1. /\ phase = "execute" /\ stage[pending[k].id] = "retrieving"
      /\ usage' = [usage EXCEPT !.exhausted = @ \/ wanted]
      /\ Returns(pending[k], r)
  BY DEF Found
<1>2. /\ r \in Answers /\ r.task = pending[k] /\ r.error = "none"
      /\ r.analysed = FALSE /\ r.evidence = Matching(pending[k])
  <2>1. "none" \in Errors
    BY DEF Errors
  <2> QED BY <1>0, <2>1, MatchingIsItems DEF Result, Answers
<1>3. wanted \in BOOLEAN
  OBVIOUS
<1> HIDE DEF r, wanted
<1>4. /\ usage'.tasks = usage.tasks /\ usage'.retrievals = usage.retrievals
      /\ usage'.analyses = usage.analyses /\ usage'.llm = usage.llm
      /\ usage'.exhausted = (usage.exhausted \/ wanted)
      /\ usage' = [llm |-> usage.llm, tasks |-> usage.tasks,
                   retrievals |-> usage.retrievals, analyses |-> usage.analyses,
                   exhausted |-> (usage.exhausted \/ wanted)]
  BY <1>0, <1>1, Usage
<1>5. (usage.exhausted \/ wanted) \in BOOLEAN
  OBVIOUS
<1>6. usage' \in Usages /\ (usage.exhausted => usage'.exhausted)
  BY <1>0, <1>4, <1>5, Usage DEF Usages
<1> QED BY <1>1, <1>2, <1>4, <1>6, Returning

LEMMA Concluding ==
    ASSUME ResearchAssumption, ResearchInv, NEW k \in DOMAIN pending, Analysed(k)
    PROVE  ResearchInv'
<1>0. TypeOK /\ pending[k] \in Tasks
  BY PendingTasks DEF ResearchInv
<1>1. PICK error \in Errors \ {"budget_exhausted"}, analysed \in BOOLEAN :
         Returns(pending[k], Result(pending[k], Matching(pending[k]), error, analysed))
  BY DEF Analysed
<1> DEFINE r == Result(pending[k], Matching(pending[k]), error, analysed)
<1>2. phase = "execute" /\ stage[pending[k].id] = "analysing" /\ usage' = usage
  BY DEF Analysed
<1>3. r \in Answers /\ r.task = pending[k] /\ r.error = error
      /\ r.evidence = Matching(pending[k])
  BY <1>0, MatchingIsItems, ResultIsAnswer
<1>4. Returns(pending[k], r) /\ usage' \in Usages
  BY <1>0, <1>1, <1>2, Usage
<1> HIDE DEF r
<1>5. r.error # "budget_exhausted"
  BY <1>3
<1> QED BY <1>2, <1>3, <1>4, <1>5, Returning

-----------------------------------------------------------------------------
(* The coordinator's steps.                                                *)

LEMMA Dispatches ==
    ASSUME NEW c \in Seq(Tasks), Dispatch(c)
    PROVE  /\ pending' = c /\ Len(c) \in Nat /\ DOMAIN c = 1 .. Len(c)
           /\ DOMAIN stage' = {c[i].id : i \in DOMAIN c}
           /\ \A id \in DOMAIN stage' : stage'[id] = "waiting"
           /\ Running' = {} /\ Analysing' = {}
           /\ Cardinality(Running') = 0 /\ Cardinality(Analysing') = 0
           /\ phase' \in {"finalize", "execute"}
           /\ phase' = "finalize" => c = <<>>
<1>1. /\ pending' = c
      /\ stage' = [id \in {c[i].id : i \in DOMAIN c} |-> "waiting"]
      /\ phase' = IF c = <<>> THEN "finalize" ELSE "execute"
  BY DEF Dispatch
<1>2. /\ DOMAIN stage' = {c[i].id : i \in DOMAIN c}
      /\ \A id \in DOMAIN stage' : stage'[id] = "waiting"
  BY <1>1
<1>3. Running' = {} /\ Analysing' = {}
  BY <1>2 DEF Running, Analysing
<1>4. Cardinality({}) = 0
  BY FS_EmptySet
<1> QED BY <1>1, <1>2, <1>3, <1>4, LenProperties

LEMMA Start == ASSUME ResearchAssumption, Init PROVE ResearchInv
<1>1. /\ phase = "plan" /\ plan = [tasks |-> <<>>, required |-> {}]
      /\ usage = [llm |-> 0, tasks |-> 0, retrievals |-> 0, analyses |-> 0,
                  exhausted |-> FALSE]
      /\ pending = <<>> /\ stage = <<>> /\ results = {} /\ processed = {}
      /\ outcome.partial = FALSE
  BY DEF Init, NoPlan, Open
<1>2. /\ DOMAIN stage = {} /\ DOMAIN pending = {} /\ DOMAIN plan.tasks = {}
      /\ Len(pending) = 0
  BY <1>1
<1>3. Running = {} /\ Analysing = {} /\ Paid = {} /\ WithAnalysis = {}
  BY <1>1, <1>2 DEF Running, Analysing, Paid, WithAnalysis
<1>4. Cardinality({}) = 0 /\ IsFiniteSet({})
  BY FS_EmptySet
<1>5. TypeOK
  <2>1. corpus \in [Queries -> SUBSET Items] /\ mayAnalyse \in BOOLEAN
    BY DEF Init
  <2>2. /\ usage \in [llm : 0 .. 1, tasks : 0 .. MaxTasks,
                      retrievals : 0 .. MaxRetrievals,
                      analyses : 0 .. MaxAnalyses, exhausted : BOOLEAN]
        /\ Cardinality(Running) <= MaxWorkers
    BY <1>1, <1>3, <1>4 DEF ResearchAssumption
  <2>3. <<>> \in Seq(Tasks) /\ plan \in [tasks : Seq(Tasks), required : SUBSET Dims]
    BY <1>1
  <2>4. outcome.partial \in BOOLEAN
    BY <1>1
  <2>5. /\ pending \in Seq(Tasks)
        /\ DOMAIN stage = {pending[i].id : i \in DOMAIN pending}
        /\ \A id \in DOMAIN stage :
              stage[id] \in {"waiting", "retrieving", "analysing", "returned"}
        /\ phase \in {"plan", "execute", "finalize", "done", "raised"}
    BY <1>1, <1>2, <2>3
  <2>6. /\ results \subseteq Answers
        /\ processed \subseteq {r.task.id : r \in results}
    BY <1>1
  <2> QED BY <2>1, <2>2, <2>3, <2>4, <2>5, <2>6 DEF TypeOK, Answers
<1>6. PlanInv /\ RoundInv /\ DoneInv
  BY <1>1, <1>2 DEF PlanInv, RoundInv, DoneInv
<1>7. DispatchInv /\ AnswerInv
  BY <1>1, <1>2 DEF DispatchInv, AnswerInv, Dispatched, Answered
<1>8. CountInv
  BY <1>1, <1>3, <1>4 DEF CountInv
<1> QED BY <1>5, <1>6, <1>7, <1>8 DEF ResearchInv

LEMMA Planning ==
    ASSUME ResearchAssumption, PlannerAssumption, ResearchInv, Initialize
    PROVE  ResearchInv'
<1>1. PICK p \in Proposals :
         LET compiled == Compiled(p)
             approved == IF Len(compiled.tasks) <= MaxTasks THEN compiled.tasks
                         ELSE SubSeq(compiled.tasks, 1, MaxTasks)
         IN /\ plan' = compiled
            /\ usage' = [usage EXCEPT !.llm = 1, !.tasks = Len(approved),
                             !.exhausted = Len(compiled.tasks) > MaxTasks]
            /\ Dispatch(approved)
  BY DEF Initialize
<1> DEFINE ts == Distinct(p.specs)
           approved == IF Len(ts) <= MaxTasks THEN ts ELSE SubSeq(ts, 1, MaxTasks)
           a == approved
<1>2. phase = "plan" /\ UNCHANGED <<corpus, mayAnalyse, results, processed, outcome>>
  BY DEF Initialize, environment
<1>3. TypeOK /\ RoundInv /\ MaxTasks \in Nat
  BY DEF ResearchInv, ResearchAssumption
<1>4. /\ plan' = [tasks |-> ts, required |-> p.required]
      /\ usage' = [usage EXCEPT !.llm = 1, !.tasks = Len(a),
                       !.exhausted = Len(ts) > MaxTasks]
      /\ Dispatch(a)
  BY <1>1 DEF Compiled
<1>5. /\ ts \in Seq(Tasks)
      /\ \A i \in DOMAIN ts : ts[i].id = <<i>> /\ ts[i].kind # Gap
      /\ \A i, j \in DOMAIN ts : Key(ts[i]) = Key(ts[j]) => i = j
  BY DistinctTasks
<1> HIDE DEF ts
<1>6. Len(ts) \in Nat /\ DOMAIN ts = 1 .. Len(ts)
  BY <1>5, LenProperties
<1>7. /\ a \in Seq(Tasks) /\ DOMAIN a = {i \in DOMAIN ts : i <= MaxTasks}
      /\ Len(a) \in 0 .. MaxTasks
      /\ \A i \in DOMAIN a : a[i] = ts[i]
  <2>1. CASE Len(ts) <= MaxTasks
    <3>1. \A i \in DOMAIN ts : i <= MaxTasks
      BY <1>3, <1>6, <2>1
    <3> QED BY <1>3, <1>5, <1>6, <2>1, <3>1
  <2>2. CASE ~ (Len(ts) <= MaxTasks)
    <3>1. a = SubSeq(ts, 1, MaxTasks)
      BY <2>2
    <3>2. 1 \in 1 .. Len(ts) + 1 /\ MaxTasks \in 0 .. Len(ts) /\ MaxTasks \in 1 - 1 .. Len(ts)
      BY <1>3, <1>6, <2>2
    <3>3. /\ a \in Seq(Tasks) /\ Len(a) = MaxTasks - 1 + 1
          /\ \A i \in 1 .. MaxTasks - 1 + 1 : a[i] = ts[1 + i - 1]
      BY <1>3, <1>5, <1>6, <3>1, <3>2, SubSeqProperties
    <3>4. Len(a) = MaxTasks /\ DOMAIN a = 1 .. MaxTasks
      BY <1>3, <3>3, LenProperties
    <3>5. \A i \in 1 .. MaxTasks : a[i] = ts[i]
      <4>1. \A i \in 1 .. MaxTasks : i \in 1 .. MaxTasks - 1 + 1 /\ 1 + i - 1 = i
        BY <1>3
      <4> HIDE DEF a
      <4> QED BY <3>3, <4>1
    <3>6. 1 .. MaxTasks = {i \in DOMAIN ts : i <= MaxTasks}
      BY <1>3, <1>6, <2>2
    <3> HIDE DEF a
    <3> QED BY <1>3, <3>3, <3>4, <3>5, <3>6
  <2> QED BY <2>1, <2>2
<1> HIDE DEF approved, a
<1>8. /\ pending' = a /\ Len(a) \in Nat /\ DOMAIN a = 1 .. Len(a)
      /\ DOMAIN stage' = {a[i].id : i \in DOMAIN a}
      /\ \A id \in DOMAIN stage' : stage'[id] = "waiting"
      /\ Running' = {} /\ Cardinality(Running') = 0 /\ Cardinality(Analysing') = 0
      /\ phase' \in {"finalize", "execute"} /\ (phase' = "finalize" => a = <<>>)
  BY <1>4, <1>7, Dispatches
<1>9. /\ results' = {} /\ processed' = {}
      /\ usage.retrievals = 0 /\ usage.analyses = 0
  BY <1>2, <1>3 DEF RoundInv
<1>10. /\ usage'.retrievals = 0 /\ usage'.analyses = 0 /\ usage'.tasks = Len(a)
       /\ usage'.exhausted = (Len(ts) > MaxTasks) /\ usage' \in Usages
  <2>1. (Len(ts) > MaxTasks) \in BOOLEAN
    OBVIOUS
  <2>2. usage' = [llm |-> 1, tasks |-> Len(a), retrievals |-> usage.retrievals,
                  analyses |-> usage.analyses, exhausted |-> (Len(ts) > MaxTasks)]
    BY <1>3, <1>4, Usage
  <2> QED BY <1>3, <1>7, <1>9, <2>1, <2>2, Usage DEF Usages
<1>11. TypeOK'
  <2>1. /\ corpus \in [Queries -> SUBSET Items] /\ mayAnalyse \in BOOLEAN
        /\ outcome.partial \in BOOLEAN
    BY <1>3 DEF TypeOK
  <2>2. plan' \in [tasks : Seq(Tasks), required : SUBSET Dims]
    <3>1. p.required \in SUBSET Dims
      BY DEF Dims
    <3> QED BY <1>4, <1>5, <3>1
  <2>3. Cardinality(Running') <= MaxWorkers
    BY <1>8 DEF ResearchAssumption
  <2>4. /\ pending' \in Seq(Tasks)
        /\ DOMAIN stage' = {pending'[i].id : i \in DOMAIN pending'}
        /\ \A id \in DOMAIN stage' :
              stage'[id] \in {"waiting", "retrieving", "analysing", "returned"}
        /\ phase' \in {"plan", "execute", "finalize", "done", "raised"}
    BY <1>7, <1>8
  <2>5. results' \subseteq Answers /\ processed' \subseteq {r.task.id : r \in results'}
    BY <1>9
  <2>6. /\ corpus' \in [Queries -> SUBSET Items] /\ mayAnalyse' \in BOOLEAN
        /\ outcome'.partial \in BOOLEAN
    BY <1>2, <2>1
  <2> QED BY <1>10, <2>2, <2>3, <2>4, <2>5, <2>6 DEF TypeOK, Usages, Answers
<1>12. plan'.tasks = ts
  BY <1>4
<1>13. PlanInv'
  BY <1>5, <1>12 DEF PlanInv, Key
<1>14. \A k \in DOMAIN a : a[k] = ts[k] /\ k \in DOMAIN ts /\ a[k].id = <<k>>
  BY <1>5, <1>7
<1>15. \A k \in DOMAIN a : a[k] \in Planned'
  BY <1>12, <1>14 DEF Planned
<1>16. RoundInv'
  <2>1. ASSUME NEW j \in DOMAIN a, NEW k \in DOMAIN a, j < k
        PROVE  Before(a[j].id, a[k].id)
    <3>1. a[j].id = <<j>> /\ a[k].id = <<k>> /\ j \in Nat /\ k \in Nat
      BY <1>8, <1>14
    <3> QED BY <2>1, <3>1, BeforeSingle
  <2> QED BY <1>8, <1>9, <1>15, <2>1 DEF RoundInv
<1>17. Dispatched' = {a[k] : k \in DOMAIN a}
  BY <1>8, <1>9 DEF Dispatched, Answered
<1>18. DispatchInv'
  <2>1. ASSUME NEW j \in DOMAIN a, NEW k \in DOMAIN a, Same(a[j], a[k])'
        PROVE  a[j] = a[k]
    <3>1. /\ a[j].id = <<j>> /\ a[k].id = <<k>> /\ a[j] = ts[j] /\ a[k] = ts[k]
          /\ a[j].kind # Gap /\ j \in DOMAIN ts /\ k \in DOMAIN ts
      BY <1>5, <1>14
    <3>2. a[j].id = a[k].id \/ Key(a[j]) = Key(a[k])
      BY <2>1, <3>1 DEF Same, Key
    <3>3. CASE a[j].id = a[k].id
      BY <3>1, <3>3
    <3>4. CASE Key(a[j]) = Key(a[k])
      BY <1>5, <3>1, <3>4
    <3> QED BY <3>2, <3>3, <3>4
  <2>2. \A i \in DOMAIN plan'.tasks : i <= MaxTasks => plan'.tasks[i] \in Dispatched'
    <3>1. ASSUME NEW i \in DOMAIN ts, i <= MaxTasks PROVE ts[i] \in Dispatched'
      <4>1. i \in DOMAIN a
        BY <1>7, <3>1
      <4> QED BY <1>14, <1>17, <4>1
    <3> QED BY <1>12, <3>1
  <2>3. Len(plan'.tasks) <= MaxTasks \/ usage'.exhausted
    <3>1. Len(ts) <= MaxTasks \/ Len(ts) > MaxTasks
      BY <1>3, <1>6
    <3>2. Len(ts) > MaxTasks => usage'.exhausted
      <4> HIDE DEF ts
      <4> QED BY <1>10
    <3> QED BY <1>12, <3>1, <3>2
  <2>4. \A t, u \in Dispatched' : Same(t, u) => t = u
    <3>1. \A j, k \in DOMAIN a : Same(a[j], a[k]) => a[j] = a[k]
      BY <2>1 DEF Same, Key, Equivalence
    <3> QED BY <1>17, <3>1
  <2>5. \A t \in Dispatched' : t \in Planned'
    BY <1>15, <1>17
  <2> QED BY <2>2, <2>3, <2>4, <2>5 DEF DispatchInv
<1>19. AnswerInv'
  <2>1. \A k \in DOMAIN a : stage'[a[k].id] = "waiting"
    BY <1>8
  <2> QED BY <1>8, <1>9, <2>1 DEF AnswerInv
<1>20. CountInv'
  <2>1. Paid' = {} /\ WithAnalysis' = {}
    BY <1>9 DEF Paid, WithAnalysis
  <2>2. Cardinality({}) = 0 /\ IsFiniteSet({})
    BY FS_EmptySet
  <2> QED BY <1>8, <1>9, <1>10, <2>1, <2>2 DEF CountInv
<1>21. DoneInv'
  BY <1>8 DEF DoneInv
<1> QED BY <1>11, <1>13, <1>16, <1>18, <1>19, <1>20, <1>21 DEF ResearchInv

\* In the first round everything dispatched is of the plan.
LEMMA FirstRound ==
    ASSUME RoundInv, AnswerInv, processed = {}
    PROVE  Dispatched \subseteq Planned
<1>1. \A k \in DOMAIN pending : pending[k] \in Planned
  BY DEF RoundInv
<1>2. \A r \in results : \E k \in DOMAIN pending : r.task = pending[k]
  BY DEF AnswerInv
<1> QED BY <1>1, <1>2 DEF Dispatched, Answered

LEMMA PlannedIds ==
    ASSUME TypeOK, PlanInv, NEW t \in Planned
    PROVE  \E i \in Nat : t.id = <<i>> /\ t.kind # Gap
<1>1. PICK i \in DOMAIN plan.tasks : t = plan.tasks[i]
  BY DEF Planned
<1>2. plan.tasks \in Seq(Tasks)
  BY DEF TypeOK
<1>3. i \in Nat
  BY <1>1, <1>2, LenProperties
<1> QED BY <1>1, <1>3 DEF PlanInv

\* A search for a gap that finds nothing asks for no other.
LEMMA GapsEnd ==
    ASSUME TypeOK, RoundInv, AnswerInv, NEW r \in Current, NEW k \in DOMAIN pending,
           r.task = pending[k], Equivalence(GapTask(r)) \notin Known
    PROVE  processed = {}
<1> SUFFICES ASSUME processed # {} PROVE FALSE
  OBVIOUS
<1>1. r.task.kind = Gap
  BY DEF RoundInv
<1>2. Equivalence(GapTask(r)) = Equivalence(r.task)
  BY <1>1 DEF Equivalence, GapTask
<1>3. Equivalence(r.task) \in Known
  BY DEF Known
<1> QED BY <1>2, <1>3

\* The tasks of the next round: gaps of the plan, in order, and new.
LEMMA NextRound ==
    ASSUME ResearchAssumption, ResearchInv,
           \A id \in DOMAIN stage : stage[id] = "returned",
           NEW c, c = AddChildren(InOrder(Current)).children
    PROVE  /\ c \in Seq(Tasks)
           /\ c # <<>> => processed = {} /\ DOMAIN stage # {}
           /\ \A i \in DOMAIN c :
                 \E r \in Current : /\ r.task \in Planned /\ c[i] = GapTask(r)
                                    /\ Proposes(r)
           /\ \A i, j \in DOMAIN c : i < j => Before(c[i].id, c[j].id)
           /\ \A i, j \in DOMAIN c : Equivalence(c[i]) = Equivalence(c[j]) => i = j
<1> DEFINE s == InOrder(Current)
<1>0. TypeOK /\ PlanInv /\ RoundInv /\ AnswerInv
  BY DEF ResearchInv
<1>1. /\ {r.task.id : r \in Current} = DOMAIN stage
      /\ \A r \in Current : \E k \in DOMAIN pending : r.task = pending[k]
      /\ s \in Seq(Current)
      /\ \A j, k \in DOMAIN s : j < k => Before(s[j].task.id, s[k].task.id)
  BY <1>0, RoundAnswered
<1> HIDE DEF s
<1>2. /\ s \in Seq(results) /\ Len(s) \in Nat /\ DOMAIN s = 1 .. Len(s)
      /\ \A j \in DOMAIN s : s[j] \in Current
  <2>1. \A j \in DOMAIN s : s[j] \in Current
    BY <1>1, ElementOfSeq, LenProperties
  <2>2. Current \subseteq results
    BY DEF Current
  <2> QED BY <1>1, <2>1, <2>2, LenProperties
<1>3. /\ AddChildren(s) \in Accs /\ From(s, Len(s), c)
      /\ \A i, j \in DOMAIN c : Equivalence(c[i]) = Equivalence(c[j]) => i = j
  <2>1. c = AddChildren(s).children
    BY DEF s
  <2> QED BY <1>0, <1>2, <2>1, ChildrenAreNew
<1>4. c \in Seq(Tasks)
  <2>1. c = AddChildren(s).children
    BY DEF s
  <2> QED BY <1>3, <2>1 DEF Accs
<1>5. ASSUME NEW i \in DOMAIN c
      PROVE  /\ processed = {} /\ DOMAIN stage # {}
             /\ \E r \in Current : /\ r.task \in Planned /\ c[i] = GapTask(r)
                                   /\ Proposes(r)
  <2>1. PICK j \in 1 .. Len(s) : /\ c[i] = GapTask(s[j]) /\ Proposes(s[j])
                                 /\ Equivalence(c[i]) \notin Known
    BY <1>3 DEF From
  <2>2. s[j] \in Current
    BY <1>2, <2>1
  <2>3. PICK k \in DOMAIN pending : s[j].task = pending[k]
    BY <1>1, <2>2
  <2>4. processed = {}
    BY <1>0, <2>1, <2>2, <2>3, GapsEnd
  <2>5. pending[k] \in Planned /\ pending[k].id \in DOMAIN stage
    BY <1>0, <2>4, PendingTasks DEF RoundInv
  <2> QED BY <2>1, <2>2, <2>3, <2>4, <2>5
<1>6. c # <<>> => DOMAIN c # {}
  <2>1. DOMAIN c = 1 .. Len(c) /\ Len(c) \in Nat
    BY <1>4, LenProperties
  <2>2. c # <<>> => Len(c) # 0
    BY <1>4, EmptySeq
  <2>3. \A n \in Nat : n # 0 => 1 \in 1 .. n
    OBVIOUS
  <2> QED BY <2>1, <2>2, <2>3
<1>7. ASSUME NEW i \in DOMAIN c, NEW m \in DOMAIN c, i < m
      PROVE  Before(c[i].id, c[m].id)
  <2>1. PICK j \in 1 .. Len(s), l \in 1 .. Len(s) :
           j < l /\ c[i] = GapTask(s[j]) /\ c[m] = GapTask(s[l])
    BY <1>3, <1>7 DEF From
  <2>2. processed = {}
    BY <1>5
  <2>3. s[j] \in Current /\ s[l] \in Current
    BY <1>2, <2>1
  <2>4. s[j].task \in Planned /\ s[l].task \in Planned
    BY <1>0, <1>1, <2>2, <2>3 DEF RoundInv
  <2>5. PICK a \in Nat : s[j].task.id = <<a>>
    BY <1>0, <2>4, PlannedIds
  <2>6. PICK b \in Nat : s[l].task.id = <<b>>
    BY <1>0, <2>4, PlannedIds
  <2>7. Before(<<a>>, <<b>>)
    <3>1. j \in DOMAIN s /\ l \in DOMAIN s
      BY <1>2
    <3>2. Before(s[j].task.id, s[l].task.id)
      BY <1>1, <2>1, <3>1
    <3> QED BY <2>5, <2>6, <3>2
  <2>8. a < b
    BY <2>7, SingleBefore
  <2>9. c[i].id = Append(<<a>>, 1) /\ c[m].id = Append(<<b>>, 1)
    BY <2>1, <2>5, <2>6 DEF GapTask
  <2> QED BY <2>8, <2>9, BeforeSingle
<1> QED BY <1>3, <1>4, <1>5, <1>6, <1>7

LEMMA FiniteProcessed ==
    ASSUME TypeOK, IsFiniteSet(results)
    PROVE  IsFiniteSet(processed) /\ Cardinality(processed) \in Nat
<1> DEFINE I == {r.task.id : r \in results}
           f == [r \in results |-> r.task.id]
<1>1. f \in Surjection(results, I)
  BY DEF Surjection
<1>2. IsFiniteSet(I)
  <2> HIDE DEF f, I
  <2> QED BY <1>1, FS_Surjection
<1>3. processed \in SUBSET I
  BY DEF TypeOK
<1> HIDE DEF I
<1> QED BY <1>2, <1>3, FS_Subset, FS_CardinalityType

LEMMA Aggregating ==
    ASSUME ResearchAssumption, ResearchInv, Aggregate
    PROVE  ResearchInv'
<1> DEFINE added == AddChildren(InOrder(Current))
           c == added.children
<1>0. /\ TypeOK /\ PlanInv /\ RoundInv /\ DispatchInv /\ AnswerInv /\ CountInv
      /\ InOrder(Current) \in Seq(results)
  <2>1. TypeOK /\ PlanInv /\ RoundInv /\ DispatchInv /\ AnswerInv /\ CountInv
    BY DEF ResearchInv
  <2>2. InOrder(Current) \in Seq(Current) /\ Current \subseteq results
    BY <2>1, RoundAnswered DEF Aggregate, Current
  <2> QED BY <2>1, <2>2
<1>1. /\ phase = "execute"
      /\ \A id \in DOMAIN stage : stage[id] = "returned"
      /\ usage' = [usage EXCEPT !.tasks = added.tasks, !.exhausted = added.exhausted]
      /\ processed' = processed \cup {r.task.id : r \in Current}
      /\ Dispatch(c)
      /\ UNCHANGED <<corpus, mayAnalyse, plan, results, outcome>>
  BY DEF Aggregate, Current, environment
<1>2. /\ added \in Accs /\ (usage.exhausted => added.exhausted)
      /\ added.tasks = usage.tasks + Len(c)
  BY <1>0, ChildrenAreNew
<1>3. {r.task.id : r \in Current} = DOMAIN stage
  BY <1>0, <1>1, RoundAnswered
<1>4. processed' = processed \cup DOMAIN stage
  BY <1>1, <1>3
<1>5. /\ c \in Seq(Tasks)
      /\ c # <<>> => processed = {} /\ DOMAIN stage # {}
      /\ \A i \in DOMAIN c :
            \E r \in Current : r.task \in Planned /\ c[i] = GapTask(r) /\ Proposes(r)
      /\ \A i, j \in DOMAIN c : i < j => Before(c[i].id, c[j].id)
      /\ \A i, j \in DOMAIN c : Equivalence(c[i]) = Equivalence(c[j]) => i = j
  BY <1>1, NextRound
<1>6. /\ added.tasks \in 0 .. MaxTasks /\ added.exhausted \in BOOLEAN
  BY <1>2 DEF Accs
<1> HIDE DEF added
<1>7. /\ usage'.tasks = added.tasks /\ usage'.retrievals = usage.retrievals
      /\ usage'.analyses = usage.analyses /\ usage'.exhausted = added.exhausted
      /\ usage' \in Usages
  <2>1. usage' = [llm |-> usage.llm, tasks |-> added.tasks,
                  retrievals |-> usage.retrievals, analyses |-> usage.analyses,
                  exhausted |-> added.exhausted]
    BY <1>0, <1>1, Usage
  <2> QED BY <1>0, <1>6, <2>1, Usage DEF Usages
<1> HIDE DEF c
<1>8. /\ pending' = c /\ Len(c) \in Nat /\ DOMAIN c = 1 .. Len(c)
      /\ DOMAIN stage' = {c[i].id : i \in DOMAIN c}
      /\ \A id \in DOMAIN stage' : stage'[id] = "waiting"
      /\ Running' = {} /\ Cardinality(Running') = 0 /\ Cardinality(Analysing') = 0
      /\ phase' \in {"finalize", "execute"} /\ (phase' = "finalize" => c = <<>>)
  BY <1>1, <1>5, Dispatches
<1>9. \A i \in DOMAIN c : c[i] \in Tasks /\ c # <<>>
  BY <1>5, ElementOfSeq, LenProperties
<1>10. TypeOK'
  <2>1. /\ corpus \in [Queries -> SUBSET Items] /\ mayAnalyse \in BOOLEAN
        /\ outcome.partial \in BOOLEAN /\ results \subseteq Answers
        /\ plan \in [tasks : Seq(Tasks), required : SUBSET Dims]
    BY <1>0 DEF TypeOK, Answers
  <2>2. Cardinality(Running') <= MaxWorkers
    BY <1>8 DEF ResearchAssumption
  <2>3. /\ pending' \in Seq(Tasks)
        /\ DOMAIN stage' = {pending'[i].id : i \in DOMAIN pending'}
        /\ \A id \in DOMAIN stage' :
              stage'[id] \in {"waiting", "retrieving", "analysing", "returned"}
        /\ phase' \in {"plan", "execute", "finalize", "done", "raised"}
    <3>1. c \in Seq(Tasks)
      BY <1>5
    <3>2. pending' \in Seq(Tasks)
      BY <1>8, <3>1
    <3>3. DOMAIN stage' = {pending'[i].id : i \in DOMAIN pending'}
      BY <1>8
    <3>4. phase' \in {"plan", "execute", "finalize", "done", "raised"}
      BY <1>8
    <3>5. \A id \in DOMAIN stage' :
             stage'[id] \in {"waiting", "retrieving", "analysing", "returned"}
      BY <1>8
    <3> QED BY <3>2, <3>3, <3>4, <3>5
  <2>4. processed' \subseteq {r.task.id : r \in results'}
    <3>1. processed \subseteq {r.task.id : r \in results}
      BY <1>0 DEF TypeOK
    <3> QED BY <1>1, <3>1 DEF Current
  <2>5. /\ corpus' \in [Queries -> SUBSET Items] /\ mayAnalyse' \in BOOLEAN
        /\ outcome'.partial \in BOOLEAN /\ results' \subseteq Answers
        /\ plan' \in [tasks : Seq(Tasks), required : SUBSET Dims]
    BY <1>1, <2>1
  <2> QED BY <1>7, <2>2, <2>3, <2>4, <2>5 DEF TypeOK, Usages, Answers
<1>11. PlanInv'
  BY <1>0, <1>1 DEF PlanInv, Key
<1>12. \A i \in DOMAIN c : c[i].kind = Gap
  BY <1>5 DEF GapTask
<1>13. c # <<>> => processed' # {}
  BY <1>4, <1>5
<1>14. RoundInv'
  <2>1. \A i \in DOMAIN c : processed' # {}
    BY <1>9, <1>13
  <2> QED BY <1>5, <1>8, <1>12, <2>1 DEF RoundInv
<1>15. Answered' = Answered /\ Planned' = Planned
  BY <1>1 DEF Answered, Planned
<1>16. \A k \in DOMAIN pending : pending[k] \in Answered
  <2>1. \A k \in DOMAIN pending : stage[pending[k].id] = "returned"
    BY <1>0, <1>1, PendingTasks
  <2> QED BY <1>0, <2>1 DEF AnswerInv
<1>17. Dispatched' = Answered \cup {c[i] : i \in DOMAIN c} /\ Answered = Dispatched
  BY <1>8, <1>15, <1>16 DEF Dispatched
\* A child is in no respect the same as what was asked before.
<1>18. ASSUME NEW i \in DOMAIN c, NEW u \in Answered
       PROVE  ~ Same(c[i], u) /\ ~ Same(u, c[i])
  <2>1. processed = {}
    BY <1>5, <1>9
  <2>2. u \in Planned
    BY <1>0, <1>17, <2>1, FirstRound
  <2>3. PICK m \in Nat : u.id = <<m>> /\ u.kind # Gap
    BY <1>0, <2>2, PlannedIds
  <2>4. PICK r \in Current : r.task \in Planned /\ c[i] = GapTask(r)
    BY <1>5
  <2>5. PICK n \in Nat : r.task.id = <<n>>
    BY <1>0, <2>4, PlannedIds
  <2>6. c[i].id = Append(<<n>>, 1) /\ c[i].kind = Gap
    BY <2>4, <2>5 DEF GapTask
  <2>7. Append(<<n>>, 1) # <<m>>
    BY ChildId
  <2> QED BY <2>3, <2>6, <2>7 DEF Same, Key, Equivalence
<1>19. ASSUME NEW i \in DOMAIN c, NEW j \in DOMAIN c, Same(c[i], c[j])
       PROVE  c[i] = c[j]
  <2>1. CASE c[i].id = c[j].id
    BY <1>5, <2>1, OrderedDiffer
  <2>2. CASE c[i].id # c[j].id
    <3>1. Equivalence(c[i]) = Equivalence(c[j])
      BY <1>19, <2>2 DEF Same, Key, Equivalence
    <3> QED BY <1>5, <3>1
  <2> QED BY <2>1, <2>2
<1>20. DispatchInv'
  <2>1. \A t, u \in Dispatched' : Same(t, u) => t = u
    <3>1. \A t, u \in Answered : Same(t, u) => t = u
      BY <1>0, <1>17 DEF DispatchInv
    <3> QED BY <1>17, <1>18, <1>19, <3>1
  <2>2. \A t : Matching(t)' = Matching(t')
    BY <1>1 DEF Matching
  <2>3. \A i \in DOMAIN c : Matching(c[i]) = {}
    <3> SUFFICES ASSUME NEW i \in DOMAIN c PROVE Matching(c[i]) = {}
      OBVIOUS
    <3>1. PICK r \in Current : c[i] = GapTask(r) /\ Proposes(r)
      BY <1>5
    <3>2. r.error = "none" /\ r.evidence = {} /\ r \in results
      BY <3>1 DEF Proposes, Current
    <3>3. Matching(r.task) = {}
      BY <1>0, <3>2 DEF AnswerInv
    <3>4. c[i].query = r.task.query /\ c[i].dim = r.task.dim
      BY <3>1 DEF GapTask
    <3> QED BY <3>3, <3>4 DEF Matching
  <2>4. \A t \in Dispatched' :
           t \in Planned' \/ (t.kind = Gap /\ Matching(t) = {})
    BY <1>0, <1>12, <1>15, <1>17, <2>3 DEF DispatchInv
  <2>5. \A i \in DOMAIN plan'.tasks : i <= MaxTasks => plan'.tasks[i] \in Dispatched'
    BY <1>0, <1>1, <1>17 DEF DispatchInv
  <2>6. Len(plan'.tasks) <= MaxTasks \/ usage'.exhausted
    BY <1>0, <1>1, <1>2, <1>7 DEF DispatchInv
  <2>7. \A t, u \in Dispatched' : Same(t, u)' => t = u
    BY <2>1 DEF Same, Key, Equivalence
  <2>8. \A t \in Dispatched' :
           t \in Planned' \/ (t.kind = Gap /\ Matching(t)' = {})
    BY <1>1, <2>4 DEF Matching
  <2> QED BY <2>5, <2>6, <2>7, <2>8 DEF DispatchInv, Same, Key, Equivalence, Matching
<1>21. AnswerInv'
  <2>1. \A r \in results : r.task.id \in processed'
    <3>1. \A r \in results : r \in Current \/ r.task.id \in processed
      BY DEF Current
    <3> QED BY <1>1, <3>1
  <2>2. ASSUME NEW i \in DOMAIN c PROVE c[i].id \notin processed'
    <3>1. processed = {}
      BY <1>5, <1>9
    <3>2. PICK r \in Current : r.task \in Planned /\ c[i] = GapTask(r)
      BY <1>5
    <3>3. PICK n \in Nat : r.task.id = <<n>>
      BY <1>0, <3>2, PlannedIds
    <3>4. c[i].id = Append(<<n>>, 1)
      BY <3>2, <3>3 DEF GapTask
    <3>5. ASSUME NEW id \in processed' PROVE \E m \in Nat : id = <<m>>
      <4>1. PICK k \in DOMAIN pending : id = pending[k].id
        BY <1>0, <1>4, <3>1, <3>5 DEF TypeOK
      <4>2. pending[k] \in Planned
        BY <1>0, <3>1 DEF RoundInv
      <4> QED BY <1>0, <4>1, <4>2, PlannedIds
    <3> QED BY <3>4, <3>5, ChildId
  <2>3. \A r, q \in results' : r.task = q.task => r = q
    BY <1>0, <1>1 DEF AnswerInv
  <2>4. \A r \in results' : r.error = "none" => r.evidence = Matching(r.task)'
    BY <1>0, <1>1 DEF AnswerInv, Matching
  <2>5. \A i \in DOMAIN c : stage'[c[i].id] = "waiting"
    BY <1>8
  <2> QED BY <1>1, <1>8, <2>1, <2>2, <2>3, <2>4, <2>5 DEF AnswerInv
<1>22. CountInv'
  <2>1. Paid' = Paid /\ WithAnalysis' = WithAnalysis /\ results' = results
    BY <1>1 DEF Paid, WithAnalysis
  <2>2. Running = {} /\ Analysing = {}
    BY <1>1 DEF Running, Analysing
  <2>3. Cardinality({}) = 0
    BY FS_EmptySet
  <2>4. usage'.tasks = Cardinality(processed') + Len(c)
    <3>1. processed \cap DOMAIN stage = {}
      BY <1>0 DEF AnswerInv, TypeOK
    <3>2. /\ IsFiniteSet(processed) /\ Cardinality(processed) \in Nat
          /\ IsFiniteSet(DOMAIN stage) /\ Cardinality(DOMAIN stage) = Len(pending)
          /\ Len(pending) \in Nat
      BY <1>0, FiniteProcessed, StageIsFinite, PendingTasks DEF CountInv
    <3>3. Cardinality(processed') = Cardinality(processed) + Len(pending)
      <4>1. Cardinality(processed \cup DOMAIN stage)
              = Cardinality(processed) + Cardinality(DOMAIN stage) - Cardinality({})
        BY <3>1, <3>2, FS_Union
      <4> QED BY <1>4, <2>3, <3>2, <4>1
    <3>4. usage.tasks = Cardinality(processed) + Len(pending)
      BY <1>0, <1>1 DEF CountInv
    <3> QED BY <1>2, <1>7, <3>3, <3>4
  <2>5. usage.retrievals = Cardinality(Paid) + Cardinality(Running)
        /\ Cardinality(WithAnalysis) + Cardinality(Analysing) <= usage.analyses
    BY <1>0 DEF CountInv
  <2>6. IsFiniteSet(results)
    BY <1>0 DEF CountInv
  <2> QED BY <1>7, <1>8, <2>1, <2>2, <2>3, <2>4, <2>5, <2>6 DEF CountInv
<1>23. DoneInv'
  BY <1>8 DEF DoneInv
<1> QED BY <1>10, <1>11, <1>14, <1>20, <1>21, <1>22, <1>23 DEF ResearchInv

\* Answers stay what they are while the collection does.
LEMMA HitsStay ==
    ASSUME UNCHANGED <<corpus, results>>
    PROVE  Hits(results)' = Hits(results)
<1>1. corpus' = corpus /\ results' = results
  OBVIOUS
<1> QED BY <1>1 DEF Hits, Hit, FinalRank

LEMMA Finalizing ==
    ASSUME ResearchInv, Finalize PROVE ResearchInv'
<1>0. /\ TypeOK /\ PlanInv /\ RoundInv /\ DispatchInv /\ AnswerInv /\ CountInv
  BY DEF ResearchInv
<1>1. /\ phase = "finalize" /\ phase' = "done" /\ pending' = <<>> /\ stage' = <<>>
      /\ outcome' = [status |-> Coverage, ledger |-> Ledger,
                     missing |-> Uncovered, partial |-> Failures # {}]
      /\ UNCHANGED <<corpus, mayAnalyse, plan, usage, results, processed>>
  BY DEF Finalize, environment
<1>2. pending = <<>>
  BY <1>0, <1>1 DEF RoundInv
<1>3. DOMAIN stage = {} /\ DOMAIN stage' = {} /\ DOMAIN pending = {}
  BY <1>0, <1>1, <1>2 DEF TypeOK
<1>4. Running' = {} /\ Running = {} /\ Analysing' = {} /\ Analysing = {}
  BY <1>3 DEF Running, Analysing
<1>5. TypeOK'
  <2>1. outcome'.partial \in BOOLEAN
    <3>1. outcome'.partial = (Failures # {})
      BY <1>1
    <3> QED BY <3>1
  <2>2. <<>> \in Seq(Tasks)
    OBVIOUS
  <2>3. Cardinality(Running') <= MaxWorkers
    BY <1>0, <1>4 DEF TypeOK
  <2>4. /\ corpus \in [Queries -> SUBSET Items] /\ mayAnalyse \in BOOLEAN
        /\ results \subseteq Answers
        /\ processed \subseteq {r.task.id : r \in results}
        /\ plan \in [tasks : Seq(Tasks), required : SUBSET Dims] /\ usage \in Usages
    BY <1>0 DEF TypeOK, Answers, Usages
  <2>5. DOMAIN stage' = {pending'[j].id : j \in DOMAIN pending'}
    BY <1>1, <1>2, <1>3
  <2> QED BY <1>1, <1>3, <2>1, <2>2, <2>3, <2>4, <2>5 DEF TypeOK, Answers, Usages
<1>6. PlanInv'
  BY <1>0, <1>1 DEF PlanInv, Key
<1>7. RoundInv'
  BY <1>1, <1>2, <1>3 DEF RoundInv
<1>8. Dispatched' = Dispatched /\ Planned' = Planned /\ Answered' = Answered
  BY <1>1, <1>2 DEF Dispatched, Planned, Answered
<1>9. DispatchInv'
  BY <1>0, <1>1, <1>8 DEF DispatchInv, Same, Key, Equivalence, Matching
<1>10. AnswerInv'
  <2>1. /\ \A r, q \in results : r.task = q.task => r = q
        /\ \A r \in results : r.error = "none" => r.evidence = Matching(r.task)
        /\ \A r \in results : r.task.id \in processed
    BY <1>0, <1>3 DEF AnswerInv
  <2> QED BY <1>1, <1>2, <1>3, <2>1 DEF AnswerInv, Matching
<1>11. CountInv'
  <2>1. Paid' = Paid /\ WithAnalysis' = WithAnalysis
    BY <1>1 DEF Paid, WithAnalysis
  <2> QED BY <1>0, <1>1, <1>4, <2>1 DEF CountInv
<1>12. DoneInv'
  <2>1. /\ Ledger' = Ledger /\ Uncovered' = Uncovered /\ Failures' = Failures
    BY <1>1, HitsStay DEF Ledger, Uncovered, Failures
  <2>2. Coverage' = Coverage
    BY <1>1, <2>1 DEF Coverage
  <2> QED BY <1>1, <2>1, <2>2 DEF DoneInv
<1> QED BY <1>5, <1>6, <1>7, <1>9, <1>10, <1>11, <1>12 DEF ResearchInv

\* A run that raises leaves everything as it was but the planner's call.
LEMMA Raising ==
    ASSUME ResearchInv, phase \notin {"done", "raised"}, phase' = "raised",
           usage' = [usage EXCEPT !.llm = 1], outcome'.partial = FALSE,
           UNCHANGED <<environment, plan, pending, stage, results, processed>>,
           phase = "plan" => plan.tasks = <<>>
    PROVE  ResearchInv'
<1>0. /\ TypeOK /\ PlanInv /\ RoundInv /\ DispatchInv /\ AnswerInv /\ CountInv
  BY DEF ResearchInv
<1>1. UNCHANGED <<corpus, mayAnalyse, plan, pending, stage, results, processed>>
  BY DEF environment
<1>2. /\ usage' \in Usages /\ usage'.tasks = usage.tasks
      /\ usage'.retrievals = usage.retrievals /\ usage'.analyses = usage.analyses
      /\ usage'.exhausted = usage.exhausted
  <2>1. usage' = [llm |-> 1, tasks |-> usage.tasks, retrievals |-> usage.retrievals,
                  analyses |-> usage.analyses, exhausted |-> usage.exhausted]
    BY <1>0, Usage
  <2> QED BY <1>0, <2>1, Usage DEF Usages
<1>3. Running' = Running /\ Analysing' = Analysing
  BY <1>1 DEF Running, Analysing
<1>4. TypeOK'
  <2>1. /\ corpus \in [Queries -> SUBSET Items] /\ mayAnalyse \in BOOLEAN
        /\ plan \in [tasks : Seq(Tasks), required : SUBSET Dims]
        /\ pending \in Seq(Tasks)
        /\ DOMAIN stage = {pending[j].id : j \in DOMAIN pending}
        /\ \A id \in DOMAIN stage :
              stage[id] \in {"waiting", "retrieving", "analysing", "returned"}
        /\ Cardinality(Running) <= MaxWorkers /\ results \subseteq Answers
        /\ processed \subseteq {r.task.id : r \in results}
    BY <1>0 DEF TypeOK, Answers
  <2>2. outcome'.partial \in BOOLEAN
    OBVIOUS
  <2> QED BY <1>1, <1>2, <1>3, <2>1, <2>2 DEF TypeOK, Answers, Usages
<1>5. PlanInv'
  BY <1>0, <1>1 DEF PlanInv, Key
<1>6. Dispatched' = Dispatched /\ Planned' = Planned /\ Answered' = Answered
  BY <1>1 DEF Dispatched, Planned, Answered
<1>7. RoundInv'
  BY <1>0, <1>1, <1>6 DEF RoundInv
<1>8. DispatchInv'
  <2>1. Len(plan.tasks) <= MaxTasks \/ usage.exhausted
    <3>1. CASE phase = "plan"
      <4>1. Len(plan.tasks) = 0 /\ MaxTasks \in Nat
        BY <3>1, ResearchAssumption DEF ResearchAssumption
      <4> QED BY <4>1
    <3>2. CASE phase # "plan"
      BY <1>0, <3>2 DEF DispatchInv
    <3> QED BY <3>1, <3>2
  <2> QED BY <1>0, <1>1, <1>2, <1>6, <2>1
          DEF DispatchInv, Same, Key, Equivalence, Matching
<1>9. AnswerInv'
  BY <1>0, <1>1, <1>6 DEF AnswerInv, Matching
<1>10. CountInv'
  <2>1. Paid' = Paid /\ WithAnalysis' = WithAnalysis
    BY <1>1 DEF Paid, WithAnalysis
  <2> QED BY <1>0, <1>1, <1>2, <1>3, <2>1 DEF CountInv
<1>11. DoneInv'
  BY DEF DoneInv
<1> QED BY <1>4, <1>5, <1>7, <1>8, <1>9, <1>10, <1>11 DEF ResearchInv

LEMMA Stopping == ASSUME ResearchInv, PlanRefused \/ Deadline PROVE ResearchInv'
<1>1. /\ phase \notin {"done", "raised"} /\ phase' = "raised"
      /\ usage' = [usage EXCEPT !.llm = 1] /\ outcome'.partial = FALSE
      /\ UNCHANGED <<environment, plan, pending, stage, results, processed>>
  BY DEF PlanRefused, Deadline, Open
<1>2. phase = "plan" => plan.tasks = <<>>
  BY DEF ResearchInv, RoundInv
<1> QED BY <1>1, <1>2, Raising

LEMMA Idle == ASSUME ResearchInv, UNCHANGED vars PROVE ResearchInv'
<1>1. UNCHANGED <<corpus, mayAnalyse, phase, plan, usage, pending, stage, results,
                  processed, outcome>>
  BY DEF vars
<1>2. /\ Running' = Running /\ Analysing' = Analysing /\ Paid' = Paid
      /\ WithAnalysis' = WithAnalysis
  BY <1>1 DEF Running, Analysing, Paid, WithAnalysis
<1>3. Dispatched' = Dispatched /\ Planned' = Planned /\ Answered' = Answered
  BY <1>1 DEF Dispatched, Planned, Answered
<1>4. TypeOK'
  BY <1>1, <1>2 DEF ResearchInv, TypeOK
<1>5. PlanInv' /\ RoundInv'
  BY <1>1, <1>3 DEF ResearchInv, PlanInv, RoundInv, Key
<1>6. DispatchInv'
  BY <1>1, <1>3 DEF ResearchInv, DispatchInv, Same, Key, Equivalence, Matching
<1>7. AnswerInv'
  BY <1>1, <1>3 DEF ResearchInv, AnswerInv, Matching
<1>8. CountInv'
  BY <1>1, <1>2 DEF ResearchInv, CountInv
<1>9. DoneInv'
  <2>1. /\ Ledger' = Ledger /\ Uncovered' = Uncovered /\ Failures' = Failures
    BY <1>1, HitsStay DEF Ledger, Uncovered, Failures
  <2>2. Coverage' = Coverage
    BY <1>1, <2>1 DEF Coverage
  <2> QED BY <1>1, <2>1, <2>2 DEF ResearchInv, DoneInv
<1> QED BY <1>4, <1>5, <1>6, <1>7, <1>8, <1>9 DEF ResearchInv

\* The inductive invariant: research/service.py keeps its rounds, its answers
\* and its ledger in step, whatever its workers meet and in whatever order.
THEOREM ResearchIsSound == Spec => []ResearchInv
<1> USE ResearchAssumption, PlannerAssumption
<1>1. Init => ResearchInv
  BY Start
<1>2. ResearchInv /\ [Next]_vars => ResearchInv'
  <2> SUFFICES ASSUME ResearchInv, [Next]_vars PROVE ResearchInv'
    OBVIOUS
  <2>1. CASE Initialize
    BY <2>1, Planning
  <2>2. CASE PlanRefused
    BY <2>2, Stopping
  <2>3. ASSUME NEW k \in DOMAIN pending, Work(k) PROVE ResearchInv'
    <3>1. CASE Search(k)
      BY <3>1, Searching
    <3>2. CASE SearchRefused(k)
      BY <3>2, Refusing
    <3>3. CASE SearchFails(k)
      BY <3>3, Failing
    <3>4. CASE Found(k)
      BY <3>4, Finding
    <3>5. CASE FoundAndAnalyses(k)
      BY <3>5, Analyzing
    <3>6. CASE Analysed(k)
      BY <3>6, Concluding
    <3> QED BY <2>3, <3>1, <3>2, <3>3, <3>4, <3>5, <3>6 DEF Work
  <2>4. CASE Aggregate
    BY <2>4, Aggregating
  <2>5. CASE Finalize
    BY <2>5, Finalizing
  <2>6. CASE Deadline
    BY <2>6, Stopping
  <2>7. CASE UNCHANGED vars
    BY <2>7, Idle
  <2> QED BY <2>1, <2>2, <2>3, <2>4, <2>5, <2>6, <2>7 DEF Next
<1> QED BY <1>1, <1>2, PTL DEF Spec

\* Every variable of a research run keeps its type: no budget is overdrawn,
\* and no more workers run than the semaphore admits.
THEOREM ResearchTypeCorrect == Spec => []TypeOK
<1>1. ResearchInv => TypeOK
  BY DEF ResearchInv
<1> QED BY <1>1, ResearchIsSound, PTL

\* BudgetLedger has one entry for every search started and every task
\* dispatched, and has paid for every analysis delivered.
THEOREM LedgerIsExact == Spec => []LedgerCountsEveryCall
<1>1. ResearchInv => LedgerCountsEveryCall
  <2> SUFFICES ASSUME ResearchInv PROVE LedgerCountsEveryCall
    OBVIOUS
  <2>1. /\ usage.retrievals = Cardinality(Paid) + Cardinality(Running)
        /\ phase = "execute" => usage.tasks = Cardinality(processed) + Len(pending)
        /\ Cardinality(WithAnalysis) + Cardinality(Analysing) <= usage.analyses
    BY DEF ResearchInv, CountInv
  <2>2. Cardinality(WithAnalysis) <= usage.analyses
    <3>1. usage.analyses \in Nat
      BY ResearchAssumption DEF ResearchInv, TypeOK, ResearchAssumption
    <3>2. \A a, b, c \in Nat : a + b <= c => a <= c
      OBVIOUS
    <3> QED BY <2>1, <3>1, <3>2, Counts
  <2> QED BY <2>1, <2>2 DEF LedgerCountsEveryCall, Paid, WithAnalysis
<1> QED BY <1>1, ResearchIsSound, PTL

\* No worker searches again what another one did, in its round or before.
THEOREM NothingIsSearchedTwice == Spec => []SearchesAreNew
<1>1. ResearchInv => SearchesAreNew
  <2> SUFFICES ASSUME ResearchInv, NEW r \in results, NEW s \in results,
                      \/ Key(r.task) = Key(s.task)
                      \/ r.task.kind = Gap /\ Equivalence(r.task) = Equivalence(s.task)
               PROVE  r = s
    BY DEF SearchesAreNew
  <2>1. r.task \in Dispatched /\ s.task \in Dispatched
    BY DEF Dispatched, Answered
  <2>2. Same(r.task, s.task)
    BY DEF Same
  <2>3. r.task = s.task
    BY <2>1, <2>2 DEF ResearchInv, DispatchInv
  <2> QED BY <2>3 DEF ResearchInv, AnswerInv
<1> QED BY <1>1, ResearchIsSound, PTL

-----------------------------------------------------------------------------
(* What a run concludes.                                                   *)

Foreseen == UNION {{Hit(t, i) : i \in Matching(t) \cap Admissible} : t \in Planned}

\* Without failures and with budget left, the whole plan has been answered,
\* and the searches for gaps added nothing.
LEMMA PlanIsAnswered ==
    ASSUME ResearchInv, phase = "done", Failures = {}, ~usage.exhausted
    PROVE  /\ \A t \in Planned : \E r \in results : r.task = t
           /\ \A r \in results : r.evidence = Matching(r.task)
           /\ \A r \in results : r.task \in Planned \/ r.evidence = {}
<1>1. pending = <<>>
  BY DEF ResearchInv, RoundInv
<1>2. Dispatched = Answered
  BY <1>1 DEF Dispatched
<1>3. \A t \in Planned : t \in Answered
  <2> SUFFICES ASSUME NEW i \in DOMAIN plan.tasks PROVE plan.tasks[i] \in Answered
    BY DEF Planned
  <2>1. Len(plan.tasks) <= MaxTasks
    BY DEF ResearchInv, DispatchInv
  <2>2. plan.tasks \in Seq(Tasks) /\ MaxTasks \in Nat
    BY ResearchAssumption DEF ResearchInv, TypeOK, ResearchAssumption
  <2>3. i \in 1 .. Len(plan.tasks) /\ Len(plan.tasks) \in Nat
    BY <2>2, LenProperties
  <2>4. i <= MaxTasks
    BY <2>1, <2>2, <2>3
  <2> QED BY <1>2, <2>4 DEF ResearchInv, DispatchInv
<1>4. \A r \in results : r.error = "none"
  BY DEF Failures
<1>5. \A r \in results : r.evidence = Matching(r.task)
  BY <1>4 DEF ResearchInv, AnswerInv
<1>6. \A r \in results : r.task \in Planned \/ Matching(r.task) = {}
  <2>1. \A r \in results : r.task \in Dispatched
    BY DEF Dispatched, Answered
  <2> QED BY <2>1 DEF ResearchInv, DispatchInv
<1>7. \A t \in Planned : \E r \in results : r.task = t
  BY <1>3 DEF Answered
<1> QED BY <1>5, <1>6, <1>7

LEMMA LedgerIsForeseen ==
    ASSUME ResearchInv, phase = "done", Failures = {}, ~usage.exhausted
    PROVE  Ledger = Accepted(Foreseen)
<1>1. ASSUME NEW h \in Hits(results) PROVE h \in Foreseen
  <2>0. PICK r \in results : \E i \in r.evidence \cap Admissible : h = Hit(r.task, i)
    BY DEF Hits
  <2>1. PICK i \in r.evidence \cap Admissible : h = Hit(r.task, i)
    BY <2>0
  <2>2. r.task \in Planned /\ i \in Matching(r.task) \cap Admissible
    BY <2>1, PlanIsAnswered
  <2> QED BY <2>1, <2>2 DEF Foreseen
<1>2. ASSUME NEW h \in Foreseen PROVE h \in Hits(results)
  <2>0. PICK t \in Planned : \E i \in Matching(t) \cap Admissible : h = Hit(t, i)
    BY DEF Foreseen
  <2>1. PICK i \in Matching(t) \cap Admissible : h = Hit(t, i)
    BY <2>0
  <2>2. PICK r \in results : r.task = t
    BY <2>1, PlanIsAnswered
  <2>3. i \in r.evidence \cap Admissible
    BY <2>1, <2>2, PlanIsAnswered
  <2> QED BY <2>1, <2>2, <2>3 DEF Hits
<1>3. Hits(results) = Foreseen
  BY <1>1, <1>2
<1> QED BY <1>3 DEF Ledger

LEMMA UncoveredIsForeseen ==
    ASSUME ResearchInv, phase = "done", Failures = {}, ~usage.exhausted
    PROVE  Uncovered = IF plan.required # {}
                       THEN {d \in plan.required :
                               \A t \in Planned : t.dim = d => Matching(t) = {}}
                       ELSE {t.id : t \in {t \in Planned : Matching(t) = {}}}
<1>1. ASSUME NEW d
      PROVE  (\E i \in DOMAIN plan.tasks :
                 /\ plan.tasks[i].dim = d
                 /\ \E r \in results : r.task.dim = d /\ r.evidence # {})
               <=> ~ \A t \in Planned : t.dim = d => Matching(t) = {}
  <2>1. ASSUME NEW r \in results, r.task.dim = d, r.evidence # {}
        PROVE  \E t \in Planned : t.dim = d /\ Matching(t) # {}
    BY <2>1, PlanIsAnswered
  <2>2. ASSUME NEW t \in Planned, t.dim = d, Matching(t) # {}
        PROVE  \E i \in DOMAIN plan.tasks :
                 /\ plan.tasks[i].dim = d
                 /\ \E r \in results : r.task.dim = d /\ r.evidence # {}
    <3>1. PICK i \in DOMAIN plan.tasks : t = plan.tasks[i]
      BY DEF Planned
    <3>2. PICK r \in results : r.task = t
      BY PlanIsAnswered
    <3>3. r.evidence = Matching(t)
      BY <3>2, PlanIsAnswered
    <3> QED BY <2>2, <3>1, <3>2, <3>3
  <2> QED BY <2>1, <2>2
<1>2. ASSUME NEW t \in Planned
      PROVE  (\E r \in results : /\ r.task.id = t.id
                                /\ r.error = "none" /\ r.evidence # {})
               <=> Matching(t) # {}
  <2>1. ASSUME NEW r \in results, r.task.id = t.id PROVE r.task = t
    <3>1. PICK q \in results : q.task = t
      BY PlanIsAnswered
    <3>2. r.task \in Dispatched /\ t \in Dispatched
      BY <3>1 DEF Dispatched, Answered
    <3>3. Same(r.task, t)
      BY <2>1 DEF Same
    <3> QED BY <3>2, <3>3 DEF ResearchInv, DispatchInv
  <2>2. ASSUME NEW r \in results, r.task.id = t.id, r.evidence # {}
        PROVE  Matching(t) # {}
    BY <2>1, <2>2, PlanIsAnswered
  <2>3. ASSUME Matching(t) # {}
        PROVE  \E r \in results : /\ r.task.id = t.id
                                 /\ r.error = "none" /\ r.evidence # {}
    <3>1. PICK r \in results : r.task = t
      BY PlanIsAnswered
    <3>2. r.evidence = Matching(t)
      BY <3>1, PlanIsAnswered
    <3>3. r.error = "none"
      BY DEF Failures
    <3> QED BY <2>3, <3>1, <3>2, <3>3
  <2> QED BY <2>2, <2>3
<1>3. CASE plan.required # {}
  BY <1>1, <1>3 DEF Uncovered
<1>4. CASE plan.required = {}
  <2> DEFINE Open1(i) == ~ \E r \in results : /\ r.task.id = plan.tasks[i].id
                                     /\ r.error = "none" /\ r.evidence # {}
             A == {plan.tasks[i].id : i \in {i \in DOMAIN plan.tasks : Open1(i)}}
             B == {t.id : t \in {t \in Planned : Matching(t) = {}}}
  <2>1. \A i \in DOMAIN plan.tasks :
           plan.tasks[i] \in Planned /\ (Open1(i) <=> Matching(plan.tasks[i]) = {})
    <3> SUFFICES ASSUME NEW i \in DOMAIN plan.tasks
                 PROVE  /\ plan.tasks[i] \in Planned
                        /\ Open1(i) <=> Matching(plan.tasks[i]) = {}
      OBVIOUS
    <3>1. plan.tasks[i] \in Planned
      BY DEF Planned
    <3> QED BY <1>2, <3>1
  <2>2. Uncovered = A
    BY <1>4 DEF Uncovered
  <2> HIDE DEF Open1
  <2>3. ASSUME NEW x \in A PROVE x \in B
    <3>1. PICK i \in DOMAIN plan.tasks : Open1(i) /\ x = plan.tasks[i].id
      OBVIOUS
    <3> QED BY <2>1, <3>1
  <2>4. ASSUME NEW x \in B PROVE x \in A
    <3>1. PICK t \in Planned : Matching(t) = {} /\ x = t.id
      OBVIOUS
    <3>2. PICK i \in DOMAIN plan.tasks : t = plan.tasks[i]
      BY DEF Planned
    <3> QED BY <2>1, <3>1, <3>2
  <2>5. A = B
    <3> HIDE DEF A, B
    <3> QED BY <2>3, <2>4
  <2> QED BY <1>4, <2>2, <2>5
<1> QED BY <1>3, <1>4

\* A run without failures and with budget left concludes what its plan and
\* the collection determine, whatever the order and the number of its rounds.
THEOREM OutcomeFollowsThePlan == Spec => []OutcomeIsDetermined
<1>1. ResearchInv => OutcomeIsDetermined
  <2> SUFFICES ASSUME ResearchInv PROVE OutcomeIsDetermined
    OBVIOUS
  <2> DEFINE best == Accepted(Foreseen)
             missing == IF plan.required # {}
                        THEN {d \in plan.required :
                                \A t \in Planned : t.dim = d => Matching(t) = {}}
                        ELSE {t.id : t \in {t \in Planned : Matching(t) = {}}}
             Concludes == /\ outcome.ledger = best
                          /\ outcome.missing = missing
                          /\ outcome.status =
                               IF best = {} THEN "insufficient"
                               ELSE IF missing # {} THEN "partially_sufficient"
                               ELSE "sufficient"
  <2>1. ASSUME phase = "done", Failures = {}, ~usage.exhausted PROVE Concludes
    <3>1. Ledger = best /\ Uncovered = missing
      BY <2>1, LedgerIsForeseen, UncoveredIsForeseen
    <3>2. outcome = [status |-> Coverage, ledger |-> Ledger,
                     missing |-> Uncovered, partial |-> Failures # {}]
      BY <2>1 DEF ResearchInv, DoneInv
    <3>3. Coverage = IF Ledger = {} THEN "insufficient"
                     ELSE IF Uncovered # {} THEN "partially_sufficient"
                     ELSE "sufficient"
      BY <2>1 DEF Coverage
    <3> HIDE DEF best, missing
    <3> QED BY <3>1, <3>2, <3>3
  <2>2. phase = "done" /\ Failures = {} /\ ~usage.exhausted => Concludes
    BY <2>1
  <2> QED BY <2>2 DEF OutcomeIsDetermined, Foreseen, Planned
<1> QED BY <1>1, ResearchIsSound, PTL

=============================================================================
