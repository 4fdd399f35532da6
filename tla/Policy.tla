------------------------------- MODULE Policy -------------------------------
(***************************************************************************)
(* The permission engine's pure part: policy files, rules, merging and the *)
(* evaluation of one tool call (crates/permission-engine/src/policy.rs,    *)
(* engine.rs, session.rs).                                                 *)
(*                                                                         *)
(* Glob and regex matching is data: a rule's conditions are represented by *)
(* the set of arguments they accept, all of them for a rule without        *)
(* conditions.                                                             *)
(***************************************************************************)
EXTENDS Sequences, Naturals

CONSTANTS Agent,      \* agent ids
          Tool,       \* registered tool names
          Args,       \* argument values of a call
          Any,        \* the "*" of a rule's agent field
          Absent,     \* the file does not exist
          Malformed   \* the file exists and does not parse

ConditionSet == SUBSET Args

PolicyAction == {"allow", "deny", "ask"}

PolicyRule == [agent : Agent \cup {Any}, tool : Tool,
               action : PolicyAction, conditions : ConditionSet]

PolicyFile == [defaults : PolicyAction, rules : Seq(PolicyRule)]

\* What a path may hold.
FileContent == PolicyFile \cup {Absent, Malformed}

ASSUME PolicyAssumption ==
  /\ Any \notin Agent
  /\ Absent \notin PolicyFile
  /\ Malformed \notin PolicyFile
  /\ Absent # Malformed

\* PolicyFile::default(), also what an empty file parses to.
DefaultPolicy == [defaults |-> "deny", rules |-> <<>>]

-----------------------------------------------------------------------------
(* Evaluation *)

RuleMatches(rule, a, t, args) ==
  /\ rule.agent \in {Any, a}
  /\ rule.tool = t
  /\ args \in rule.conditions

HasMatch(policy, action, a, t, args) ==
  \E i \in DOMAIN policy.rules :
     /\ policy.rules[i].action = action
     /\ RuleMatches(policy.rules[i], a, t, args)

\* The four phases: explicit deny, explicit allow, explicit ask, the default.
EvaluateAgainstPolicy(policy, a, t, args) ==
  IF HasMatch(policy, "deny", a, t, args) THEN "deny"
  ELSE IF HasMatch(policy, "allow", a, t, args) THEN "allow"
  ELSE IF HasMatch(policy, "ask", a, t, args) THEN "ask"
  ELSE policy.defaults

\* The session overlay: a set of [agent, tool] rules, agent possibly Any.
IsAllowed(overlay, a, t) == \E r \in overlay : r.tool = t /\ r.agent \in {Any, a}

\* PolicyEngine::evaluate: the overlay wins over every rule, deny included.
Evaluate(policy, overlay, a, t, args) ==
  IF IsAllowed(overlay, a, t) THEN "allow"
  ELSE EvaluateAgainstPolicy(policy, a, t, args)

-----------------------------------------------------------------------------
(* Loading and merging *)

\* Mutant: the project file is accepted with `allow` rules in it.
ValidateProjectLocalAnything(policy) == TRUE

ValidateProjectLocal(policy) ==
  \A i \in DOMAIN policy.rules : policy.rules[i].action # "allow"

GlobalOrDefault(g) == IF g = Absent THEN DefaultPolicy ELSE g

\* Mutant: the project's rules replace the global ones.
MergePoliciesReplacing(global, project) ==
  IF project = Absent THEN global ELSE [global EXCEPT !.rules = project.rules]

\* Project rules go before the global ones; the global default is kept.
MergePolicies(global, project) ==
  IF project = Absent THEN global
  ELSE [global EXCEPT !.rules = project.rules \o global.rules]

ProjectError(p) ==
  \/ p = Malformed
  \/ p # Absent /\ ~ValidateProjectLocal(p)

\* Either file makes the whole load fail.
LoadError(g, p) == g = Malformed \/ ProjectError(p)

Loaded(g, p) == MergePolicies(GlobalOrDefault(g), p)
=============================================================================
