---------------------------- MODULE MCScheduler ----------------------------
(* A job that occurs once a minute and one that occurs every second. *)
EXTENDS Scheduler

CONSTANTS minutely, fast

MCJob == {minutely, fast}
MCRegistered == <<fast, minutely>>
MCPeriod == [j \in MCJob |-> IF j = fast THEN 1 ELSE 4]
MCOffset == [j \in MCJob |-> IF j = fast THEN 0 ELSE 1]
=============================================================================
