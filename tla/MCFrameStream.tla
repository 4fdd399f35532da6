---------------------------- MODULE MCFrameStream ----------------------------
(* An empty message, one of a byte, one of the largest size and one too large. *)
EXTENDS FrameStream

CONSTANTS empty, small, full, huge

MCMessage == {empty, small, full, huge}
MCBody == [m \in MCMessage |-> CASE m = empty -> 0 [] m = small -> 1
                                 [] m = full -> 2 [] m = huge -> 3]
=============================================================================
