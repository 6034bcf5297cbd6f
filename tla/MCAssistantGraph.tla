-------------------------- MODULE MCAssistantGraph --------------------------
(***************************************************************************)
(* Instances of AssistantGraph for TLC.  All requests name one session:    *)
(* those in Guests come from a second principal, a viewer without the tool *)
(* permissions, and whoever comes first claims the session.                *)
(***************************************************************************)
EXTENDS AssistantGraph, EnterpriseTools, TLC

CONSTANTS analyst, viewer, session,
          hidden, \* an evidence item neither of them may read
          Guests  \* the requests the viewer makes

MCSessions == {session}
MCPrincipals == {analyst, viewer}
MCSessionOf == [r \in Requests |-> session]
MCPrincipalOf == [r \in Requests |-> IF r \in Guests THEN viewer ELSE analyst]

\* A search may return an item its reader should not see.
MCReadable == [p \in MCPrincipals |-> {e \in Evidence : e # hidden}]

\* The routes of every question either role may ask.
MCPermits == [p \in MCPrincipals |->
    RoutesOf(IF p = analyst THEN "analyst" ELSE "viewer")]

\* Fewer of them for the overlapping runs: one that generates from evidence,
\* one that generates from a result of its own, and one that answers without
\* generating.
MCFewPermits == [p \in MCPrincipals |->
    MCPermits[p] \cap
        IF p = analyst THEN {"simple_retrieval", "python_analysis", "mcp_tool"}
        ELSE {"direct_response", "unsupported"}]

\* The nodes that may raise: the tools, and those that read files, call a
\* provider or build a bounded turn.
MCFaulty == {"validate_evidence", "generate_response", "update_memory"}
            \cup FaultyTools

\* The requests of one principal are interchangeable.
MCSymmetry == Permutations(Requests \ Guests) \cup Permutations(Guests)
=============================================================================
