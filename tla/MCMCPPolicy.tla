----------------------------- MODULE MCMCPPolicy -----------------------------
(***************************************************************************)
(* MCPPolicy with the policies that pull in different directions, and the  *)
(* tools and hints on which the decisions differ.                          *)
(***************************************************************************)
EXTENDS MCPPolicy

CONSTANTS d1, d2

\* DefaultMCPServerPolicy and DefaultMCPAppsPolicy.
MCBaseline ==
    [trust |-> "untrusted", approval |-> "ask", execution |-> "manual",
     askUnknown |-> TRUE, askWrite |-> TRUE, askDestructive |-> TRUE,
     appsEnabled |-> FALSE, appCalls |-> FALSE, override |-> NoOverride]

Lenient ==
    [trust |-> "trusted", approval |-> "allow", execution |-> "auto",
     askUnknown |-> FALSE, askWrite |-> FALSE, askDestructive |-> FALSE,
     appsEnabled |-> TRUE, appCalls |-> TRUE, override |-> NoOverride]

Override(approval, execution, allowStale, expected) ==
    [approval |-> approval, execution |-> execution, allowStale |-> allowStale, expected |-> expected]

With(p, override) == [p EXCEPT !.override = override]

MCPolicies ==
    { Lenient,
      [Lenient EXCEPT !.trust = "untrusted"],
      [Lenient EXCEPT !.askUnknown = TRUE],
      [Lenient EXCEPT !.askDestructive = TRUE],
      [Lenient EXCEPT !.appsEnabled = FALSE, !.askWrite = TRUE],
      [Lenient EXCEPT !.appCalls = FALSE, !.approval = "ask"],
      [Lenient EXCEPT !.execution = "manual"],
      With(Lenient, Override("deny", "unset", FALSE, NoDigest)),
      With(Lenient, Override("ask", "manual", FALSE, d1)),
      With(Lenient, Override("unset", "unset", FALSE, d2)),
      With(Lenient, Override("unset", "unset", TRUE, d1)),
      With(Lenient, Override("allow", "unset", TRUE, d2)),
      With([Lenient EXCEPT !.approval = "deny"], Override("allow", "auto", FALSE, NoDigest)) }

MCTool(destructive, open, readOnly, visibility) ==
    [destructiveHint |-> destructive, openWorldHint |-> open, readOnlyHint |-> readOnly,
     digest |-> d1, visibility |-> visibility, taskRequired |-> FALSE]

MCTools ==
    { MCTool("unset", "unset", FALSE, {}),
      MCTool("unset", "unset", TRUE, {}),
      MCTool("false", "unset", TRUE, {"model"}),
      MCTool("true", "unset", FALSE, {}),
      MCTool("true", "true", TRUE, {}),
      MCTool("true", "true", FALSE, {"app"}),
      [MCTool("unset", "unset", TRUE, {}) EXCEPT !.taskRequired = TRUE] }
=============================================================================
