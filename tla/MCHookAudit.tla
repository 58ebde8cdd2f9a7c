----------------------------- MODULE MCHookAudit ------------------------------
(* Two hooks at a time; an edit, a chained command whose segments match     *)
(* different pattern lists, and an MCP tool whose input is not a mapping.     *)
EXTENDS HookAudit

MCCalls ==
  { [tool |-> "Edit", segments |-> <<>>, mapping |-> TRUE],
    [tool |-> "Bash", segments |-> <<{}, {"ask"}, {"ask", "deny"}>>, mapping |-> TRUE],
    [tool |-> "mcp", segments |-> <<>>, mapping |-> TRUE],
    [tool |-> "mcp", segments |-> <<>>, mapping |-> FALSE] }
=============================================================================
