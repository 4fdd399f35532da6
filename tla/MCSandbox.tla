------------------------------ MODULE MCSandbox ------------------------------
(* Two agents; one of them makes a call with a huge result, then others. *)
EXTENDS Sandbox

CONSTANTS a1, a2, c1, c2, c3, c4

MCAgent == {a1, a2}
MCCall == {c1, c2, c3, c4}
MCOwner == [c \in MCCall |-> IF c = c4 THEN a2 ELSE a1]
=============================================================================
