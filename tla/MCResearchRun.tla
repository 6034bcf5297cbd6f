---------------------------- MODULE MCResearchRun ----------------------------
EXTENDS ResearchRun

Spec1(kind, query, dim, analysis) ==
    [kind |-> kind, query |-> query, dim |-> dim, analysis |-> analysis]

\* "Compare A and B", "Compare A and the A", two dimensions that name the
\* same words in another order (q1 and q3), a root-cause question (two tasks
\* with one query), a policy and runbook question, and one that names a path.
SmallProposals ==
    {[unsafe |-> FALSE, required |-> {"a", "b"},
      specs |-> <<Spec1("comparison", "q1", "a", FALSE),
                  Spec1("comparison", "q2", "b", FALSE)>>],
     [unsafe |-> FALSE, required |-> {"a", "the a"},
      specs |-> <<Spec1("comparison", "q1", "a", FALSE),
                  Spec1("comparison", "q1", "the a", FALSE)>>],
     [unsafe |-> FALSE, required |-> {"a", "b"},
      specs |-> <<Spec1("comparison", "q1", "a", FALSE),
                  Spec1("comparison", "q3", "b", FALSE)>>],
     [unsafe |-> FALSE, required |-> {},
      specs |-> <<Spec1("incident", "q1", "no_dim", FALSE),
                  Spec1("root_cause", "q1", "no_dim", TRUE)>>],
     [unsafe |-> FALSE, required |-> {},
      specs |-> <<Spec1("policy", "q1", "no_dim", FALSE),
                  Spec1("runbook", "q2", "no_dim", FALSE),
                  Spec1("comparison", "q3", "no_dim", FALSE)>>],
     [unsafe |-> TRUE, required |-> {"a", "b"},
      specs |-> <<Spec1("comparison", "q1", "a", FALSE),
                  Spec1("comparison", "q2", "b", FALSE)>>]}

SmallWords == [q \in {"q1", "q2", "q3"} |-> IF q = "q2" THEN 2 ELSE 1]

SmallItems == {"i1", "i2", "i3", "i4", "i5"}

\* With two characters the first of i2, i1 and i4 leaves no room for the
\* second, but for the third.  i5 and i2 are one chunk with two identities;
\* i3 is not admissible.  Scores tie within a query and between queries.
SmallMatches == [q \in {"q1", "q2", "q3"} |->
    CASE q = "q1" -> {"i1", "i2", "i3"} [] q = "q2" -> {"i1", "i4"}
      [] q = "q3" -> {"i4", "i5"}]
SmallScore == [q \in {"q1", "q2", "q3"} |-> [i \in SmallItems |->
    CASE i = "i1" -> IF q = "q1" THEN 2 ELSE 1
      [] i \in {"i2", "i5"} -> 2
      [] OTHER -> 1]]
SmallSerial == [i \in SmallItems |->
    CASE i = "i1" -> 4 [] i = "i2" -> 2 [] i = "i3" -> 1 [] i = "i4" -> 5
      [] i = "i5" -> 2]
SmallSize == [i \in SmallItems |-> IF i = "i1" THEN 2 ELSE 1]
SmallClashes == {<<"i2", "i5">>, <<"i5", "i2">>}
\* i1 is about all dimensions, the others about one.
SmallSupports == [i \in SmallItems |->
                    IF i = "i1" THEN {"a", "b", "the a"} ELSE {"b"}]
=============================================================================
