--------------------------- MODULE EnterpriseTools ---------------------------
(***************************************************************************)
(* The two tool capabilities behind a route: the MCP enterprise service    *)
(* (mcp_tools/service.py, mcp_tools/client.py) and the structured analysis *)
(* (tools/python_analysis/service.py, engine.py), as the ways one call of  *)
(* each may end for the graph node that makes it.                          *)
(*                                                                         *)
(* A call that ends "raised" leaves the node as an exception; guarded()    *)
(* turns it into a failure of the run.                                     *)
(***************************************************************************)
EXTENDS Routing, Integers

-----------------------------------------------------------------------------
(* MCP.  A request is what select_mcp_tool finds in the query: how many of *)
(* the known services it names, the operations it mentions, its ISO dates  *)
(* (as days after some day) and whether the text is a safe selector.       *)

McpTools == {"get_service_profile", "get_operational_metrics",
             "get_change_windows"}

\* Bound: the days a date may fall on; the last is past the range of 90.
Days == {0, 90, 91}

\* real: every ISO-like date of the text is in the calendar.
McpRequests == [safe : BOOLEAN, services : 0 .. 2,
                mentions : SUBSET {"metrics", "changes", "profile"},
                dates : UNION {[1 .. n -> Days] : n \in 0 .. 3},
                real : BOOLEAN]

\* select_mcp_tool: the first operation mentioned, or MCPInputError.
SelectedTool(a) ==
    IF ~a.safe \/ a.services # 1 THEN "none"
    ELSE IF "metrics" \in a.mentions THEN "get_operational_metrics"
    ELSE IF "changes" \in a.mentions
         THEN IF a.real /\ 3 \notin DOMAIN a.dates
              THEN "get_change_windows" ELSE "none"
    ELSE IF "profile" \in a.mentions THEN "get_service_profile"
    ELSE "none"

\* GetChangeWindowsArguments.validate_range.  SelectedMCPTool carries the
\* same dates and does not look at their order.
RangeAllowed(a) ==
    SelectedTool(a) = "get_change_windows" /\ 2 \in DOMAIN a.dates =>
        a.dates[1] <= a.dates[2] /\ a.dates[2] - a.dates[1] <= 90

\* How a session with the server may go: every tool the server lists, the
\* answer to the call, and the deadline of _bounded.
McpSessions == [listed : SUBSET (McpTools \cup {"unlisted"}),
             reply : {"structured", "error", "unstructured", "malformed",
                      "broken"},
             late : BOOLEAN]

\* _invoke within _bounded: the server must list exactly the allowlisted
\* tools, answer in time, and answer with the expected model.
Answered(s) == s.listed = McpTools /\ s.reply = "structured" /\ ~s.late

\* execute_mcp_tool.  The arguments are built after the permission was
\* checked and outside the client's error translation.
McpOutcome(role, a, s) ==
    IF SelectedTool(a) = "none" THEN "needs_input"
    ELSE IF ~HasPermission(role, "mcp_tools") THEN "denied"
    ELSE IF ~RangeAllowed(a) THEN "raised"
    ELSE IF Answered(s) THEN "executed"
    ELSE "failed"

-----------------------------------------------------------------------------
(* Structured analysis.  A plan is what plan_analysis finds in the query   *)
(* of an aggregate intent.                                                 *)

AnalysisTerms == {"root_cause", "severity", "monthly", "duration", "count",
                  "status"}

\* plan_analysis: the first operation whose terms match.  An aggregate intent
\* of another kind ("average", "spreadsheet") is classified and not planned.
PlannedOperation(terms) ==
    IF "root_cause" \in terms THEN "recurring_root_causes"
    ELSE IF "severity" \in terms THEN "severity_distribution"
    ELSE IF "monthly" \in terms THEN "date_histogram"
    ELSE IF "duration" \in terms THEN "duration_statistics"
    ELSE IF "count" \in terms THEN "count_records"
    ELSE IF "status" \in terms THEN "status_distribution"
    ELSE "none"

\* The operations execute_analysis groups by the value of a field; only they
\* have the limit of distinct values.
Grouped == {"recurring_root_causes", "severity_distribution",
            "status_distribution"}

\* What a call of the tool may meet: a corpus that does not match its
\* manifest, more authorized rows or distinct values than the settings
\* allow, a disabled tool, an elapsed deadline.
AnalysisFaults == {"disabled", "dataset", "rows", "distinct", "late"}

\* require_authorized before the rows are loaded and again after.
AnalysisOutcome(role, terms, faults) ==
    LET operation == PlannedOperation(terms)
        limits == IF operation \in Grouped THEN AnalysisFaults
                  ELSE AnalysisFaults \ {"distinct"}
    IN IF /\ HasPermission(role, "python_analysis")
          /\ operation # "none"
          /\ faults \cap limits = {}
       THEN "completed" ELSE "raised"

-----------------------------------------------------------------------------
(* For the workflow.                                                       *)

\* The nodes of the tools that a call may leave as an exception.
FaultyTools ==
    {n \in {"execute_mcp_tool", "python_analysis"} :
        IF n = "execute_mcp_tool"
        THEN \E role \in Roles, a \in McpRequests :
                \E s \in [listed : {McpTools}, reply : {"structured"},
                          late : BOOLEAN] :
                    McpOutcome(role, a, s) = "raised"
        ELSE \E role \in Roles, faults \in SUBSET AnalysisFaults :
                AnalysisOutcome(role, {"severity"}, faults) = "raised"}
=============================================================================
