------------------------------ MODULE ToolGate ------------------------------
(***************************************************************************)
(* What the supervisor promises about every tool call, whatever happens to *)
(* agents, frontends and sandboxes around it (README.md, "How it works"    *)
(* steps 4 to 9): a call is judged once, by the policy or by the user; only a *)
(* granted call takes effect, at most once; the agent is told at most once *)
(* and never before the outcome is settled; a result is only ever the      *)
(* answer to a granted call, and the journal of a call is closed last.     *)
(***************************************************************************)
CONSTANTS Call

VARIABLES verdict,   \* [Call -> {"none", "asked", "granted", "refused"}]
          stage,     \* [Call -> {"open", "settled", "answered", "closed"}]
          took,      \* calls that took effect
          told       \* [Call -> {"nothing", "result", "denied"}]

gateVars == <<verdict, stage, took, told>>

Init ==
  /\ verdict = [c \in Call |-> "none"]
  /\ stage = [c \in Call |-> "open"]
  /\ took = {}
  /\ told = [c \in Call |-> "nothing"]

\* The policy says ask: the judgement is left to the user.
Ask(c) ==
  /\ verdict[c] = "none"
  /\ verdict' = [verdict EXCEPT ![c] = "asked"]
  /\ UNCHANGED <<stage, took, told>>

Grant(c) ==
  /\ verdict[c] \in {"none", "asked"}
  /\ verdict' = [verdict EXCEPT ![c] = "granted"]
  /\ UNCHANGED <<stage, took, told>>

\* The user refuses: nothing is left to run.
Refuse(c) ==
  /\ verdict[c] = "asked"
  /\ verdict' = [verdict EXCEPT ![c] = "refused"]
  /\ stage' = [stage EXCEPT ![c] = "settled"]
  /\ UNCHANGED <<took, told>>

\* The policy denies, or the arguments are invalid: refused, answered (if the
\* agent is still known) and journalled in one go.
RefuseAtOnce(c) ==
  /\ verdict[c] = "none"
  /\ verdict' = [verdict EXCEPT ![c] = "refused"]
  /\ stage' = [stage EXCEPT ![c] = "closed"]
  /\ told' \in {told, [told EXCEPT ![c] = "denied"]}
  /\ UNCHANGED took

\* A built-in call needs no judgement: answered and over in one go, no effect.
AnswerAtOnce(c) ==
  /\ verdict[c] = "none"
  /\ verdict' = [verdict EXCEPT ![c] = "granted"]
  /\ stage' = [stage EXCEPT ![c] = "closed"]
  /\ told' \in {told, [told EXCEPT ![c] = "result"]}
  /\ UNCHANGED took

\* The run of a granted call is over; without a sandbox it has no effect.
Settle(c) ==
  /\ verdict[c] = "granted"
  /\ stage[c] = "open"
  /\ stage' = [stage EXCEPT ![c] = "settled"]
  /\ took' \in {took, took \cup {c}}
  /\ UNCHANGED <<verdict, told>>

\* The agent hears the outcome, unless it is gone.
Tell(c) ==
  /\ stage[c] = "settled"
  /\ stage' = [stage EXCEPT ![c] = "answered"]
  /\ told' \in {told, [told EXCEPT ![c] = IF verdict[c] = "granted" THEN "result"
                                          ELSE "denied"]}
  /\ UNCHANGED <<verdict, took>>

Close(c) ==
  /\ stage[c] = "answered"
  /\ stage' = [stage EXCEPT ![c] = "closed"]
  /\ UNCHANGED <<verdict, took, told>>

Next ==
  \E c \in Call :
     \/ Ask(c) \/ Grant(c) \/ Refuse(c) \/ RefuseAtOnce(c)
     \/ AnswerAtOnce(c) \/ Settle(c) \/ Tell(c) \/ Close(c)

Spec == Init /\ [][Next]_gateVars
=============================================================================
