------------------------------- MODULE Routing -------------------------------
(***************************************************************************)
(* Which capability a question reaches (graph/routing.py), under the role  *)
(* policies of security/policies.py.  classify() looks at the text only,   *)
(* supervise() at the intent and the role, and the supervisor node denies  *)
(* before it asks either of them.                                          *)
(*                                                                         *)
(* A question is what those functions find in its text:                    *)
(*   rejected     a phrase of security_denial_category                     *)
(*   levels       the access levels it names                               *)
(*   identifiers  how many incident identifiers it names                   *)
(*   greeting     a greeting, or "what can you do"                         *)
(*   aggregate    has_explicit_aggregate_intent                            *)
(*   mentions     the term lists of classify() that match                  *)
(***************************************************************************)
EXTENDS Naturals

Roles == {"viewer", "analyst", "administrator"}

AccessLevels == {"public", "internal", "confidential", "restricted"}

ToolPermissions == {"knowledge_search", "python_analysis", "mcp_tools",
                    "administrative_tools", "ingestion_management",
                    "human_approval"}

RolePermissions ==
    [viewer |-> {"knowledge_search"},
     analyst |-> {"knowledge_search", "python_analysis", "mcp_tools"},
     administrator |-> ToolPermissions]

RoleAccessLevels ==
    [viewer |-> {"public", "internal"},
     analyst |-> {"public", "internal", "confidential"},
     administrator |-> AccessLevels]

\* has_permission: the role's policy decides, the claims of the token do not.
HasPermission(role, permission) == permission \in RolePermissions[role]

-----------------------------------------------------------------------------

Terms == {"comparison", "directory", "operations", "administrative",
          "creative"}

\* extract_enterprise_identifiers stops at MAX_ENTERPRISE_IDENTIFIERS.
MaxIdentifiers == 4

Questions == [rejected : BOOLEAN, levels : SUBSET AccessLevels,
              identifiers : 0 .. MaxIdentifiers, greeting : BOOLEAN,
              aggregate : BOOLEAN, mentions : SUBSET Terms]

\* classify(): the first rule that matches.
Classify(q) ==
    CASE q.rejected -> "security_denial"
      [] ~q.rejected /\ q.identifiers > 0 ->
            IF q.identifiers > 1 /\ q.aggregate THEN "unsupported"
            ELSE "knowledge_lookup"
      [] ~q.rejected /\ q.identifiers = 0 ->
            IF q.greeting THEN "conversational"
            ELSE IF q.aggregate THEN "structured_analysis"
            ELSE IF "comparison" \in q.mentions
                 THEN "cross_document_research"
            ELSE IF q.mentions \cap {"directory", "operations"} # {}
                 THEN "enterprise_tool_lookup"
            ELSE IF "administrative" \in q.mentions THEN "administrative"
            ELSE IF "creative" \in q.mentions THEN "unsupported"
            ELSE "knowledge_lookup"

\* A route that needs a permission, or the refusal.
Gated(role, permission, route) ==
    IF HasPermission(role, permission) THEN route ELSE "deny"

\* supervise(): research carries no check of its own.
Supervise(intent, role) ==
    CASE intent = "security_denial" -> "deny"
      [] intent = "conversational" -> "direct_response"
      [] intent = "knowledge_lookup" ->
            Gated(role, "knowledge_search", "simple_retrieval")
      [] intent = "cross_document_research" -> "recursive_research"
      [] intent = "structured_analysis" ->
            Gated(role, "python_analysis", "python_analysis")
      [] intent = "enterprise_tool_lookup" ->
            Gated(role, "mcp_tools", "mcp_tool")
      [] intent = "administrative" ->
            IF role = "administrator" THEN "unsupported" ELSE "deny"
      [] intent = "unsupported" -> "unsupported"

\* requests_inaccessible_access.
NamesInaccessibleLevel(q, role) == ~(q.levels \subseteq RoleAccessLevels[role])

\* The supervisor node.
SelectedRoute(q, role) ==
    IF q.rejected \/ NamesInaccessibleLevel(q, role) THEN "deny"
    ELSE Supervise(Classify(q), role)

RoutesOf(role) == {SelectedRoute(q, role) : q \in Questions}
=============================================================================
