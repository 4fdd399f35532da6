---------------------------- MODULE MCSupervisor ----------------------------
(* Small instances of Supervisor: the owners and tools of the calls. *)
EXTENDS Supervisor, TLC

CONSTANTS a1, j1, c1, c2, t1, f1, f2

\* Two calls of one interactive agent, of one tool: the session overlay matters.
UserOwner  == [c \in {c1, c2} |-> a1]
SameTool   == [c \in {c1, c2} |-> t1]

\* A scheduled agent that uses a tool and the built-in health tool.
JobOwner   == [c \in {c1, c2} |-> j1]
JobTool    == [c \in {c1, c2} |-> IF c = c1 THEN t1 ELSE Health]

\* One call of a scheduled agent.
SingleOwner == [c \in {c1} |-> j1]
SingleTool  == [c \in {c1} |-> t1]

\* Frontends, and the calls of one owner, are interchangeable.
Symmetry == Permutations({f1, f2}) \cup Permutations({c1, c2})
=============================================================================
