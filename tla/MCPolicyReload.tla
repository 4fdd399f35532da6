--------------------------- MODULE MCPolicyReload ---------------------------
(***************************************************************************)
(* A small instance of PolicyReload: two agents, one tool and two          *)
(* arguments (a path inside and one outside a glob).                       *)
(***************************************************************************)
EXTENDS PolicyReload

CONSTANTS a1, a2, t1, star, inside, outside

MCAgent == {a1, a2}
MCTool == {t1}
MCArgs == {inside, outside}

LOCAL R(agent, action, conditions) ==
  [agent |-> agent, tool |-> t1, action |-> action, conditions |-> conditions]

LOCAL P(defaults, rules) == [defaults |-> defaults, rules |-> rules]

\* A missing file, a broken one, deny-all, allow-all, rules for all agents and
\* for one, with and without conditions, and overlapping rules of two actions.
MCGlobalFiles ==
  {Absent, Malformed, DefaultPolicy,
   P("allow", <<R(a1, "ask", MCArgs)>>),
   P("deny",  <<R(star, "allow", {inside})>>),
   P("ask",   <<R(a1, "allow", MCArgs), R(star, "deny", {outside})>>)}

MCProjectFiles ==
  {Absent, Malformed,
   P("allow", <<R(star, "deny", {inside})>>),
   P("deny",  <<R(a2, "ask", MCArgs)>>),
   P("deny",  <<R(star, "ask", {outside}), R(a1, "allow", MCArgs)>>)}
=============================================================================
