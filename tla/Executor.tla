------------------------------ MODULE Executor ------------------------------
(***************************************************************************)
(* What the supervisor takes a sandbox backend to do with the tool calls   *)
(* it hands over: one call at a time is submitted, runs at most once and   *)
(* before its result is reported; "ok" and "error" are what the run itself *)
(* came to, "lost" is the report of a call whose run nobody can tell.  Only *)
(* a call reported as expired may run on afterwards.                       *)
(***************************************************************************)
CONSTANTS Call

VARIABLES result,  \* [Call -> {"none", "submitted", "ok", "error", "lost", "expired"}]
          ran      \* [Call -> {"no", "success", "failure"}]

executorVars == <<result, ran>>

Init ==
  /\ result = [c \in Call |-> "none"]
  /\ ran = [c \in Call |-> "no"]

Submit(c) ==
  /\ result[c] = "none"
  /\ \A d \in Call : result[d] # "submitted"
  /\ result' = [result EXCEPT ![c] = "submitted"]
  /\ UNCHANGED ran

Run(c) ==
  /\ result[c] \in {"submitted", "expired"}
  /\ ran[c] = "no"
  /\ \E v \in {"success", "failure"} : ran' = [ran EXCEPT ![c] = v]
  /\ UNCHANGED result

Report(c) ==
  /\ result[c] = "submitted"
  /\ \E r \in {"ok", "error", "lost", "expired"} :
       /\ r = "ok" => ran[c] = "success"
       /\ r = "error" => ran[c] = "failure"
       /\ r = "expired" => ran[c] = "no"
       /\ result' = [result EXCEPT ![c] = r]
  /\ UNCHANGED ran

\* There is no sandbox to submit the call to.
Decline(c) ==
  /\ result[c] = "none"
  /\ result' = [result EXCEPT ![c] = "lost"]
  /\ UNCHANGED ran

Next == \E c \in Call : Submit(c) \/ Run(c) \/ Report(c) \/ Decline(c)

Spec == Init /\ [][Next]_executorVars
=============================================================================
